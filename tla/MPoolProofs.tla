------------------------------ MODULE MPoolProofs ------------------------------
(* Proofs about MPool, for every number of blocks, and about FileMgr, for any     *)
(* offsets, and any number of recordings and of starts of the program.         *)
EXTENDS MPool, Sequences, FiniteSetTheorems, WellFoundedInduction, TLAPS

CONSTANTS Keys, MaxFields, MaxStarts \* of FileMgr

VARIABLES jJournal, jRoot, jUp, jStarts, jAdding, jTorn, jDone, jDeleted, jGarbage

Files == INSTANCE FileMgr WITH
  journal <- jJournal, root <- jRoot, up <- jUp, starts <- jStarts, adding <- jAdding,
  torn <- jTorn, done <- jDone, deleted <- jDeleted, garbage <- jGarbage

USE NAssumption

\* The inductive invariant
PoolInv == TypeOK /\ RingKept

LEMMA BlocksFinite == IsFiniteSet(Blocks) /\ Cardinality(Blocks) = N
BY FS_Interval, 0 \in Int, 1 \in Int, N \in Int DEF Blocks

\* Taking a block out of the pool leaves one block less in it.
LEMMA OneLess ==
  ASSUME held \subseteq Blocks, NEW b \in Blocks \ held
  PROVE  /\ Cardinality(Blocks \ (held \cup {b})) = Cardinality(Blocks \ held) - 1
         /\ Cardinality(Blocks \ held) \in 1 .. N
<1>1. IsFiniteSet(Blocks \ held)
  BY BlocksFinite, FS_Difference
<1>2. Blocks \ (held \cup {b}) = (Blocks \ held) \ {b}
  OBVIOUS
<1>3. Cardinality((Blocks \ held) \ {b}) = Cardinality(Blocks \ held) - 1
  BY <1>1, FS_RemoveElement
<1>4. Cardinality(Blocks \ held) \in Nat /\ Cardinality(Blocks \ held) <= N
  BY <1>1, BlocksFinite, FS_CardinalityType, FS_Subset, Blocks \ held \subseteq Blocks
<1>5. Cardinality((Blocks \ held) \ {b}) \in Nat
  BY <1>1, FS_RemoveElement, FS_CardinalityType
<1>6. Cardinality(Blocks \ held) >= 1
  BY <1>3, <1>4, <1>5
<1> QED BY <1>2, <1>3, <1>4, <1>6

\* Putting a block back leaves one more.
LEMMA OneMore ==
  ASSUME held \subseteq Blocks, NEW b \in held
  PROVE  /\ Cardinality(Blocks \ (held \ {b})) = Cardinality(Blocks \ held) + 1
         /\ Cardinality(Blocks \ (held \ {b})) \in 0 .. N
<1>1. IsFiniteSet(Blocks \ held) /\ IsFiniteSet(Blocks \ (held \ {b}))
  BY BlocksFinite, FS_Difference
<1>2. Blocks \ (held \ {b}) = (Blocks \ held) \cup {b}
  OBVIOUS
<1>3. Cardinality((Blocks \ held) \cup {b}) = Cardinality(Blocks \ held) + 1
  BY <1>1, FS_AddElement
<1>4. /\ Cardinality(Blocks \ (held \ {b})) \in Nat
      /\ Cardinality(Blocks \ (held \ {b})) <= N
  BY <1>1, BlocksFinite, FS_CardinalityType, FS_Subset, Blocks \ (held \ {b}) \subseteq Blocks
<1> QED BY <1>2, <1>3, <1>4

\* In a sound ring, the two tests for emptiness are one: if the block behind the
\* head is not the one in front of it, it is a block of the pool.
LEMMA HeadNotAlone ==
  ASSUME PoolInv, next[ListHead] # prev[ListHead]
  PROVE  next[ListHead] \in InPool
<1>1. ListHead \in Ring
  BY DEF Ring
<1>2. next[ListHead] \in Ring /\ prev[next[ListHead]] = ListHead
  BY <1>1 DEF PoolInv, RingKept
<1>3. CASE next[ListHead] = ListHead
  BY <1>2, <1>3
<1> QED BY <1>2, <1>3 DEF Ring

\* The pointers after rns_list_del of a block of the pool
LEMMA UnlinkedRing ==
  ASSUME PoolInv, NEW b \in InPool, Unlinked(b), held' = held \cup {b}
  PROVE  /\ next' \in [0 .. N -> 0 .. N + 1] /\ prev' \in [0 .. N -> 0 .. N + 1]
         /\ \A x \in Ring' : next'[x] \in Ring' /\ prev'[x] \in Ring'
                              /\ prev'[next'[x]] = x /\ next'[prev'[x]] = x
         /\ \A x \in held' : next'[x] = Null /\ prev'[x] = Null
<1>0. \A x \in Ring : /\ next[x] \in Ring /\ prev[x] \in Ring
                      /\ prev[next[x]] = x /\ next[prev[x]] = x
  BY DEF PoolInv, RingKept
<1> USE DEF PoolInv, TypeOK, RingKept, Ring, InPool, Blocks, ListHead, Null
<1>1. b \in Ring /\ b \in 1 .. N /\ next[b] \in Ring /\ prev[b] \in Ring
  OBVIOUS
<1>2. Ring' = Ring \ {b}
  OBVIOUS
<1>3. (next[b] # b /\ prev[b] # b) \/ (next[b] = b /\ prev[b] = b)
  OBVIOUS
<1>4. /\ next' \in [0 .. N -> 0 .. N + 1] /\ prev' \in [0 .. N -> 0 .. N + 1]
      /\ \A x \in 0 .. N : next'[x] = IF x = b THEN Null ELSE IF x = prev[b] THEN next[b] ELSE next[x]
      /\ \A x \in 0 .. N : prev'[x] = IF x = b THEN Null ELSE IF x = next[b] THEN prev[b] ELSE prev[x]
  BY DEF Unlinked
<1>5. \A x \in held' : next'[x] = Null /\ prev'[x] = Null
  <2> SUFFICES ASSUME NEW x \in held' PROVE next'[x] = Null /\ prev'[x] = Null
    OBVIOUS
  <2>1. CASE x = b
    BY <1>1, <1>4, <2>1
  <2>2. CASE x \in held
    <3>0. x \in 1 .. N
      BY <2>2
    <3>1. x \notin Ring /\ x \in 0 .. N
      BY <2>2, <3>0
    <3>2. next[x] = Null /\ prev[x] = Null
      BY <2>2
    <3> QED BY <1>1, <1>4, <3>1, <3>2, <2>2
  <2> QED BY <2>1, <2>2
<1>6. ASSUME NEW x \in Ring \ {b}
      PROVE  next'[x] \in Ring \ {b} /\ prev'[x] \in Ring \ {b}
               /\ prev'[next'[x]] = x /\ next'[prev'[x]] = x
  <2>1. /\ next[x] \in Ring /\ prev[x] \in Ring
        /\ prev[next[x]] = x /\ next[prev[x]] = x
        /\ prev[next[b]] = b /\ next[prev[b]] = b
    <3> HIDE DEF PoolInv, TypeOK, RingKept, Ring, InPool, Blocks, ListHead, Null
    <3> QED BY <1>0, <1>1, <1>6
  <2>2. Ring \subseteq 0 .. N /\ x \in 0 .. N
    BY <1>6
  <2>3. next[x] = b => x = prev[b]
    BY <2>1
  <2>4. prev[x] = b => x = next[b]
    BY <2>1
  <2>5. x = prev[b] => next[b] # b
    BY <2>1, <1>6
  <2>6. x = next[b] => prev[b] # b
    BY <2>1, <1>6
  <2> HIDE DEF PoolInv, TypeOK, RingKept, Ring, InPool, Blocks, Null
  <2>7. next'[x] \in Ring \ {b} /\ prev'[x] \in Ring \ {b}
    BY <1>1, <1>4, <1>6, <2>1, <2>2, <2>3, <2>4, <2>5, <2>6
  <2>8. prev'[next'[x]] = x
    BY <1>1, <1>4, <1>6, <2>1, <2>2, <2>3, <2>4, <2>5, <2>6, <2>7
  <2>9. next'[prev'[x]] = x
    BY <1>1, <1>4, <1>6, <2>1, <2>2, <2>3, <2>4, <2>5, <2>6, <2>7
  <2> QED BY <2>7, <2>8, <2>9
<1> QED BY <1>2, <1>4, <1>5, <1>6

\* The pointers after rns_list_add of a held block
LEMMA LinkedRing ==
  ASSUME PoolInv, NEW b \in held, Linked(b), held' = held \ {b}
  PROVE  /\ next' \in [0 .. N -> 0 .. N + 1] /\ prev' \in [0 .. N -> 0 .. N + 1]
         /\ \A x \in Ring' : next'[x] \in Ring' /\ prev'[x] \in Ring'
                              /\ prev'[next'[x]] = x /\ next'[prev'[x]] = x
         /\ \A x \in held' : next'[x] = Null /\ prev'[x] = Null
<1> USE DEF PoolInv, TypeOK, RingKept, Ring, InPool, Blocks, ListHead, Null
<1>1. b \in 1 .. N /\ b \notin Ring /\ next[ListHead] \in Ring /\ ListHead \in Ring
  OBVIOUS
<1>2. Ring' = Ring \cup {b}
  OBVIOUS
<1>3. /\ next' \in [0 .. N -> 0 .. N + 1] /\ prev' \in [0 .. N -> 0 .. N + 1]
      /\ \A x \in 0 .. N : next'[x] = IF x = ListHead THEN b ELSE IF x = b THEN next[ListHead] ELSE next[x]
      /\ \A x \in 0 .. N : prev'[x] = IF x = b THEN ListHead ELSE IF x = next[ListHead] THEN b ELSE prev[x]
  BY <1>1 DEF Linked
<1>4. ASSUME NEW x \in held' PROVE next'[x] = Null /\ prev'[x] = Null
  <2>1. x \in held /\ x # b /\ x \in 0 .. N
    BY <1>4
  <2>2. next[x] = Null /\ prev[x] = Null /\ x \notin Ring
    BY <2>1
  <2>3. x # ListHead /\ x # next[ListHead]
    BY <1>1, <2>2
  <2> HIDE DEF PoolInv, TypeOK, RingKept, Ring, InPool, Blocks, Null, ListHead
  <2> QED BY <1>3, <2>1, <2>2, <2>3
<1>5. ASSUME NEW x \in Ring \cup {b}
      PROVE  next'[x] \in Ring \cup {b} /\ prev'[x] \in Ring \cup {b}
               /\ prev'[next'[x]] = x /\ next'[prev'[x]] = x
  <2>1. /\ x \in Ring => /\ next[x] \in Ring /\ prev[x] \in Ring
                         /\ prev[next[x]] = x /\ next[prev[x]] = x
        /\ prev[next[ListHead]] = ListHead
    BY <1>1
  <2>2. Ring \cup {b} \subseteq 0 .. N /\ x \in 0 .. N
    BY <1>5
  <2> HIDE DEF PoolInv, TypeOK, RingKept, Ring, InPool, Blocks, Null, ListHead
  <2>3. b # ListHead
    BY <1>1
  <2>4. next'[x] \in Ring \cup {b} /\ prev'[x] \in Ring \cup {b}
    BY <1>1, <1>3, <1>5, <2>1, <2>2
  <2>5. prev'[next'[x]] = x
    BY <1>1, <1>3, <1>5, <2>1, <2>2, <2>3, <2>4
  <2>6. next'[prev'[x]] = x
    BY <1>1, <1>3, <1>5, <2>1, <2>2, <2>3, <2>4
  <2> QED BY <2>4, <2>5, <2>6
<1> QED BY <1>2, <1>3, <1>4, <1>5

LEMMA PoolInvInit == Init => PoolInv
<1> SUFFICES ASSUME Init PROVE PoolInv
  OBVIOUS
<1>1. TypeOK
  BY DEF Init, TypeOK, ListHead, Blocks
<1>2. \A x \in Ring : next[x] \in Ring /\ prev[x] \in Ring
                       /\ prev[next[x]] = x /\ next[prev[x]] = x
  BY DEF Init, Ring, InPool, Blocks, ListHead
<1>3. avail_block_num = Cardinality(InPool)
  BY BlocksFinite, Blocks \ {} = Blocks DEF Init, InPool
<1> QED BY <1>1, <1>2, <1>3 DEF PoolInv, RingKept, Init

LEMMA PoolInvNext == PoolInv /\ [Next]_vars => PoolInv'
<1> SUFFICES ASSUME PoolInv, [Next]_vars PROVE PoolInv'
  OBVIOUS
<1>1. CASE Alloc
  <2>1. next[ListHead] \in InPool
    BY <1>1, HeadNotAlone DEF Alloc
  <2>2. held' \subseteq Blocks /\ avail_block_num' \in 0 .. N /\ avail_block_num' = Cardinality(InPool')
    <3>1. held \subseteq Blocks /\ next[ListHead] \in Blocks \ held /\ avail_block_num = Cardinality(Blocks \ held)
      BY <2>1 DEF PoolInv, TypeOK, RingKept, InPool
    <3>2. /\ Cardinality(Blocks \ (held \cup {next[ListHead]})) = avail_block_num - 1
          /\ avail_block_num \in 1 .. N
      BY <3>1, OneLess
    <3>3. held' = held \cup {next[ListHead]} /\ avail_block_num' = avail_block_num - 1
      BY <1>1 DEF Alloc
    <3>4. InPool' = Blocks \ (held \cup {next[ListHead]})
      BY <3>3 DEF InPool
    <3> QED BY <3>1, <3>2, <3>3, <3>4
  <2> QED BY <1>1, <2>1, <2>2, UnlinkedRing DEF Alloc, PoolInv, TypeOK, RingKept
<1>2. ASSUME NEW b \in Blocks, Free(b) PROVE PoolInv'
  <2>1. b \in held /\ held' = held \ {b}
    BY <1>2 DEF Free
  <2>2. held' \subseteq Blocks /\ avail_block_num' \in 0 .. N /\ avail_block_num' = Cardinality(InPool')
    BY <1>2, <2>1, OneMore DEF Free, PoolInv, TypeOK, RingKept, InPool
  <2> QED BY <1>2, <2>1, <2>2, LinkedRing DEF Free, PoolInv, TypeOK, RingKept
<1>3. CASE UNCHANGED vars
  BY <1>3 DEF vars, PoolInv, TypeOK, RingKept, Ring, InPool
<1> QED BY <1>1, <1>2, <1>3 DEF Next, AllocRefused

\* The ring stays sound and its count right, whatever the order of allocs and
\* frees.
THEOREM RingSafe == Spec => [](TypeOK /\ RingKept)
<1>1. PoolInv => TypeOK /\ RingKept
  BY DEF PoolInv
<1> QED BY <1>1, PoolInvInit, PoolInvNext, PTL DEF Spec

\* The first part of RefusesLast
OneRing == \A S \in SUBSET Ring : ListHead \in S /\ (\A x \in S : next[x] \in S) => S = Ring

\* Without a block between, the ring of the others is one: what is closed behind the step
\* was closed before it, together with the block if its neighbour in front belongs to it.
LEMMA OneRingUnlinked ==
  ASSUME PoolInv, OneRing, NEW b \in InPool, Unlinked(b), held' = held \cup {b}
  PROVE  OneRing'
<1>1. /\ b \in Ring /\ b # ListHead /\ Ring' = Ring \ {b} /\ Ring \subseteq 0 .. N
      /\ next[b] \in Ring /\ prev[b] \in Ring /\ next[prev[b]] = b
      /\ \A x \in Ring : next[x] \in Ring /\ prev[next[x]] = x
  BY DEF PoolInv, RingKept, Ring, InPool, Blocks, ListHead
<1>2. \A x \in Ring \ {b} : next'[x] = IF x = prev[b] THEN next[b] ELSE next[x]
  BY <1>1 DEF Unlinked
<1> SUFFICES ASSUME NEW S \in SUBSET (Ring \ {b}), ListHead \in S, \A x \in S : next'[x] \in S
             PROVE  S = Ring \ {b}
  BY <1>1 DEF OneRing, ListHead
<1>3. CASE prev[b] \in S
  <2>1. next[b] \in S
    BY <1>2, <1>3
  <2>2. \A x \in S \cup {b} : next[x] \in S \cup {b}
    BY <1>1, <1>2, <2>1
  <2>3. S \cup {b} \in SUBSET Ring
    BY <1>1
  <2>4. S \cup {b} = Ring
    BY <2>2, <2>3 DEF OneRing
  <2> QED BY <1>1, <2>4
<1>4. CASE prev[b] \notin S
  <2>1. \A x \in S : next[x] \in S
    BY <1>2, <1>4
  <2>2. S = Ring
    BY <1>1, <2>1 DEF OneRing
  <2> QED BY <1>1, <2>2
<1> QED BY <1>3, <1>4

\* With a block more, too: the head leads to it, and it to where the head led.
LEMMA OneRingLinked ==
  ASSUME PoolInv, OneRing, NEW b \in held, Linked(b), held' = held \ {b}
  PROVE  OneRing'
<1>1. /\ b \notin Ring /\ ListHead \in Ring /\ Ring' = Ring \cup {b} /\ Ring \subseteq 0 .. N
      /\ b \in 0 .. N /\ next[ListHead] \in Ring
      /\ \A x \in Ring : next[x] \in Ring
  BY DEF PoolInv, TypeOK, RingKept, Ring, InPool, Blocks, ListHead
<1>2. /\ next'[ListHead] = b /\ next'[b] = next[ListHead]
      /\ \A x \in Ring \ {ListHead} : next'[x] = next[x]
  BY <1>1 DEF Linked
<1> SUFFICES ASSUME NEW S \in SUBSET (Ring \cup {b}), ListHead \in S, \A x \in S : next'[x] \in S
             PROVE  S = Ring \cup {b}
  BY <1>1 DEF OneRing, ListHead
<1>3. b \in S /\ next[ListHead] \in S
  BY <1>2
<1>4. \A x \in S \ {b} : next[x] \in S \ {b}
  BY <1>1, <1>2, <1>3
<1>5. S \ {b} = Ring
  BY <1>1, <1>4 DEF OneRing
<1> QED BY <1>3, <1>5

\* In one ring the block behind the head is the one in front of it just when there is at
\* most one.
LEMMA RefusalMeans ==
  ASSUME PoolInv, OneRing
  PROVE  (next[ListHead] = prev[ListHead]) <=> avail_block_num <= 1
<1>1. /\ ListHead \in Ring /\ ListHead \notin InPool /\ Ring = InPool \cup {ListHead}
      /\ \A x \in Ring : /\ next[x] \in Ring /\ prev[x] \in Ring
                         /\ prev[next[x]] = x /\ next[prev[x]] = x
      /\ avail_block_num = Cardinality(InPool)
  BY DEF PoolInv, RingKept, Ring, InPool, Blocks, ListHead
<1>2. IsFiniteSet(InPool) /\ Cardinality(InPool) \in Nat
  BY BlocksFinite, FS_Difference, FS_CardinalityType DEF InPool
<1>3. ASSUME next[ListHead] = prev[ListHead]
      PROVE  Cardinality(InPool) <= 1
  <2> DEFINE S == {ListHead, next[ListHead]}
  <2>1. S \in SUBSET Ring /\ ListHead \in S /\ \A x \in S : next[x] \in S
    BY <1>1, <1>3
  <2>2. S = Ring
    <3> HIDE DEF S
    <3> QED BY <2>1 DEF OneRing
  <2>3. InPool \subseteq {next[ListHead]}
    BY <1>1, <2>2
  <2>4. Cardinality({next[ListHead]}) = 1 /\ IsFiniteSet({next[ListHead]})
    BY FS_Singleton
  <2> QED BY <2>3, <2>4, <1>2, FS_Subset
<1>4. ASSUME Cardinality(InPool) = 0
      PROVE  next[ListHead] = prev[ListHead]
  <2>1. InPool = {}
    BY <1>2, <1>4, FS_EmptySet
  <2> QED BY <1>1, <2>1
<1>5. ASSUME Cardinality(InPool) = 1
      PROVE  next[ListHead] = prev[ListHead]
  <2>1. PICK a : InPool = {a}
    BY <1>2, <1>5, FS_Singleton
  <2>2. next[ListHead] # ListHead
    <3> SUFFICES ASSUME next[ListHead] = ListHead PROVE FALSE
      OBVIOUS
    <3>1. {ListHead} \in SUBSET Ring /\ \A x \in {ListHead} : next[x] \in {ListHead}
      BY <1>1
    <3>2. {ListHead} = Ring
      BY <3>1 DEF OneRing
    <3> QED BY <1>1, <2>1, <3>2
  <2>3. prev[ListHead] # ListHead
    BY <1>1, <2>2
  <2> QED BY <1>1, <2>1, <2>2, <2>3
<1>6. Cardinality(InPool) <= 1 <=> Cardinality(InPool) = 0 \/ Cardinality(InPool) = 1
  BY <1>2
<1> QED BY <1>1, <1>3, <1>4, <1>5, <1>6

\* A set of natural numbers that is not empty has a least member.
LEMMA LeastMember ==
  ASSUME NEW T \in SUBSET Nat, T # {}
  PROVE  \E x \in T : \A y \in T : x <= y
<1>1. PICK x \in T : \A y \in T : <<y, x>> \notin OpToRel(<, Nat)
  BY WFMin, NatLessThanWellFounded, Zenon
<1>2. \A y \in T : ~ (y < x)
  BY <1>1, Zenon DEF OpToRel
<1> QED BY <1>2

\* At the start the head leads to N, and each block to the one before: the block nearest
\* to N that is not reached would be led to by the one after it.
LEMMA OneRingInit == Init => OneRing
<1> SUFFICES ASSUME Init, NEW S \in SUBSET Ring, ListHead \in S, \A x \in S : next[x] \in S
             PROVE  S = Ring
  BY DEF OneRing
<1>1. /\ Ring = 0 .. N /\ next = [x \in 0 .. N |-> IF x = ListHead THEN N ELSE x - 1]
  BY DEF Init, Ring, InPool, Blocks, ListHead
<1>2. N \in S /\ \A x \in S : x # 0 => x - 1 \in S
  BY <1>1 DEF ListHead
<1> DEFINE Missed == {k \in 0 .. N : N - k \notin S}
<1>3. SUFFICES ASSUME Missed # {} PROVE FALSE
  <2>1. \A x \in 0 .. N : N - x \in 0 .. N /\ N - (N - x) = x
    OBVIOUS
  <2>2. 0 .. N \subseteq S
    BY <1>3, <2>1
  <2> QED BY <1>1, <2>2
<1>4. PICK k \in Missed : \A y \in Missed : k <= y
  <2>1. Missed \in SUBSET Nat
    OBVIOUS
  <2> HIDE DEF Missed
  <2> QED BY <1>3, <2>1, LeastMember
<1>5. k # 0
  BY <1>2
<1>6. k - 1 \in 0 .. N /\ k - 1 \notin Missed
  BY <1>4, <1>5
<1>7. N - (k - 1) \in S /\ N - (k - 1) # 0
  BY <1>6
<1> QED BY <1>2, <1>7

\* The ring stays one ring: rns_mpool_alloc meets every block, and refuses only when one
\* block is left, or none.
THEOREM RefusesOnlyLast == Spec => []RefusesLast
<1>1. Init => PoolInv /\ OneRing
  BY PoolInvInit, OneRingInit
<1>2. ASSUME PoolInv, OneRing, [Next]_vars
      PROVE  PoolInv' /\ OneRing'
  <2>1. PoolInv'
    BY <1>2, PoolInvNext
  <2>2. CASE Alloc
    <3>1. PICK b \in InPool : b = next[ListHead]
      BY <1>2, <2>2, HeadNotAlone DEF Alloc
    <3>2. Unlinked(b) /\ held' = held \cup {b}
      BY <2>2, <3>1 DEF Alloc
    <3> QED BY <1>2, <2>1, <3>2, OneRingUnlinked
  <2>3. ASSUME NEW b \in Blocks, Free(b)
        PROVE  OneRing'
    BY <1>2, <2>3, OneRingLinked DEF Free
  <2>4. CASE AllocRefused \/ UNCHANGED vars
    <3>1. next' = next /\ held' = held
      BY <2>4 DEF AllocRefused, vars
    <3>2. Ring' = Ring
      BY <3>1 DEF Ring, InPool
    <3> QED BY <1>2, <2>1, <3>1, <3>2 DEF OneRing
  <2> QED BY <1>2, <2>1, <2>2, <2>3, <2>4 DEF Next
<1>3. PoolInv /\ OneRing => RefusesLast
  BY RefusalMeans DEF OneRing, RefusesLast
<1> QED BY <1>1, <1>2, <1>3, PTL DEF Spec

\* The two together: what the pool promises of its blocks.
THEOREM BlocksSafe == Spec => []BlocksKept
<1>1. RingKept /\ RefusesLast => BlocksKept
  BY DEF BlocksKept
<1> QED BY <1>1, RingSafe, RefusesOnlyLast, PTL

\* Every step of the pool gives out one block that nobody has, takes one back, or
\* neither.
THEOREM GivesOnlyFree == Spec => GivesFree
<1>1. PoolInv /\ [Next]_vars =>
        [\/ \E b \in Blocks \ held : held' = held \cup {b}
         \/ \E b \in held : held' = held \ {b}]_held
  <2> SUFFICES ASSUME PoolInv, [Next]_vars
               PROVE  \/ \E b \in Blocks \ held : held' = held \cup {b}
                      \/ \E b \in held : held' = held \ {b}
                      \/ held' = held
    OBVIOUS
  <2>1. CASE Alloc
    BY <2>1, HeadNotAlone DEF Alloc, InPool
  <2>2. ASSUME NEW b \in Blocks, Free(b) PROVE \E c \in held : held' = held \ {c}
    BY <2>2 DEF Free
  <2> QED BY <2>1, <2>2 DEF Next, AllocRefused, vars
<1> QED BY <1>1, PoolInvInit, PoolInvNext, PTL DEF Spec, GivesFree

------------------------------------------------------------------------------
(* FileMgr *)

\* The field that belongs at a place of the journal, and a journal whose first n fields
\* stand where they belong
Expected(i) == Files!Fields[((i - 1) % 3) + 1]
Fits(journal, n) == \A i \in 1 .. n : journal[i].kind = Expected(i)

\* Fields of the record that is being written
Ahead == IF jAdding = <<>> THEN 0 ELSE jAdding[2] - 1

Entries == [kind : {"key", "len", "name"}, key : Keys]
Returns == [key : Keys, clean : BOOLEAN]

FilesTypes ==
  /\ jJournal \in Seq(Entries)
  /\ jRoot \in [Keys -> Nat]
  /\ jUp \in BOOLEAN /\ jTorn \in BOOLEAN /\ jGarbage \in BOOLEAN
  /\ jAdding \in {<<>>} \cup Keys \X (1 .. 3)
  /\ jDone \in Seq(Returns)
  /\ ~jUp => jAdding = <<>>

\* A journal that is not torn has the records of what was returned, and what is being
\* written.
WholeJournal ==
  ~jTorn => Len(jJournal) = 3 * Len(jDone) + Ahead /\ Fits(jJournal, Len(jJournal))

\* No record is found behind an incomplete one: a field stands where another belongs, or
\* will, because the next record begins in the place of another field.
TornStays ==
  jTorn => \/ \E p \in 1 .. Len(jJournal) : jJournal[p].kind # Expected(p)
           \/ Len(jJournal) % 3 # 0 /\ Ahead = 0

\* The records that are found are the first ones that were returned, and have their keys.
Recorded ==
  /\ \A r \in Files!Whole : r \in DOMAIN jDone /\ jJournal[3 * r].key = jDone[r].key
  /\ \A i \in DOMAIN jDone : jDone[i].clean => i \in Files!Whole

FilesSafe == Files!Durable /\ Files!NothingElse /\ Files!OnlyTorn
FilesInv == FilesTypes /\ WholeJournal /\ TornStays /\ Recorded /\ FilesSafe

\* The cardinality of FileMgr is that of the theorems about finite sets.
LEMMA SameCardinality == \A S : Files!Cardinality(S) = Cardinality(S)
BY DEF Files!Cardinality, Cardinality

\* Where the fields of a record stand
LEMMA ThreeFields ==
  ASSUME NEW n \in Nat
  PROVE  /\ Expected(3 * n + 1) = "key" /\ Expected(3 * n + 2) = "len"
         /\ Expected(3 * n + 3) = "name"
<1>1. (3 * n + 1 - 1) % 3 = 0 /\ (3 * n + 2 - 1) % 3 = 1 /\ (3 * n + 3 - 1) % 3 = 2
  OBVIOUS
<1> QED BY <1>1 DEF Expected, Files!Fields

\* A record that is found is one whose fields, and those in front of it, stand where they
\* belong.
LEMMA WholeIs ==
  ASSUME NEW journal \in Seq(Entries)
  PROVE  {r \in 1 .. Len(journal) \div 3 :
            \A i \in 1 .. 3 * r : journal[i].kind = Files!Fields[((i - 1) % 3) + 1]} =
         {r \in Nat \ {0} : 3 * r <= Len(journal) /\ Fits(journal, 3 * r)}
<1>1. Len(journal) \in Nat
  OBVIOUS
<1>2. \A r \in Nat \ {0} : r \in 1 .. Len(journal) \div 3 <=> 3 * r <= Len(journal)
  BY <1>1
<1>3. Len(journal) \div 3 \in Nat
  BY <1>1
<1> QED BY <1>2, <1>3 DEF Fits, Expected

LEMMA WholeNow ==
  ASSUME jJournal \in Seq(Entries)
  PROVE  Files!Whole = {r \in Nat \ {0} : 3 * r <= Len(jJournal) /\ Fits(jJournal, 3 * r)}
BY WholeIs DEF Files!Whole, Files!Records

LEMMA WholeThen ==
  ASSUME jJournal' \in Seq(Entries)
  PROVE  Files!Whole' = {r \in Nat \ {0} : 3 * r <= Len(jJournal') /\ Fits(jJournal', 3 * r)}
BY WholeIs DEF Files!Whole, Files!Records

\* In a journal that is not torn the records are those that were returned.
LEMMA AllFound ==
  FilesTypes /\ WholeJournal /\ ~jTorn => Files!Whole = 1 .. Len(jDone)
<1> SUFFICES ASSUME FilesTypes, WholeJournal, ~jTorn PROVE Files!Whole = 1 .. Len(jDone)
  OBVIOUS
<1>1. jJournal \in Seq(Entries) /\ Len(jDone) \in Nat /\ Len(jJournal) \in Nat
  BY DEF FilesTypes
<1>2. Ahead \in 0 .. 2
  BY DEF FilesTypes, Ahead
<1>3. Len(jJournal) = 3 * Len(jDone) + Ahead /\ Fits(jJournal, Len(jJournal))
  BY DEF WholeJournal
<1>4. \A r \in Nat \ {0} : 3 * r <= Len(jJournal) => Fits(jJournal, 3 * r)
  BY <1>1, <1>3 DEF Fits
<1>5. \A r \in Nat \ {0} : 3 * r <= Len(jJournal) <=> r \in 1 .. Len(jDone)
  BY <1>1, <1>2, <1>3
<1>6. 1 .. Len(jDone) \subseteq Nat \ {0}
  BY <1>1
<1> QED BY <1>1, <1>4, <1>5, <1>6, WholeNow

LEMMA AllFoundThen ==
  (FilesTypes /\ WholeJournal /\ ~jTorn => Files!Whole = 1 .. Len(jDone))'
BY AllFound, PTL

\* Then a load that finds nothing being written finds all of the journal.
LEMMA AllRead ==
  ASSUME FilesTypes, WholeJournal, ~jTorn, jAdding = <<>>
  PROVE  Len(jJournal) = 3 * Cardinality(Files!Whole)
<1>1. Len(jJournal) = 3 * Len(jDone) /\ Len(jDone) \in Nat
  BY DEF FilesTypes, WholeJournal, Ahead
<1>2. Cardinality(1 .. Len(jDone)) = IF 1 > Len(jDone) THEN 0 ELSE Len(jDone) - 1 + 1
  <2>1. 1 \in Int /\ Len(jDone) \in Int
    BY <1>1
  <2> QED BY <2>1, FS_Interval, Zenon
<1> QED BY <1>1, <1>2, AllFound

\* The records of a key, found or returned, are finitely many.
Found(k) == {r \in Files!Whole : jJournal[3 * r].key = k}
Returned(done, k) == {i \in DOMAIN done : done[i].key = k}

LEMMA FoundFinite ==
  ASSUME FilesTypes, Recorded, NEW k \in Keys
  PROVE  /\ IsFiniteSet(Returned(jDone, k)) /\ IsFiniteSet(Found(k))
         /\ Cardinality(Found(k)) \in Nat
         /\ Cardinality(Found(k)) <= Cardinality(Returned(jDone, k))
<1>1. Len(jDone) \in Nat /\ DOMAIN jDone = 1 .. Len(jDone)
  BY DEF FilesTypes
<1>2. IsFiniteSet(1 .. Len(jDone))
  BY <1>1, FS_Interval, 1 \in Int, Len(jDone) \in Int
<1>3. Returned(jDone, k) \in SUBSET (1 .. Len(jDone))
  BY <1>1 DEF Returned
<1>4. IsFiniteSet(Returned(jDone, k))
  BY <1>2, <1>3, FS_Subset
<1>5. Found(k) \in SUBSET Returned(jDone, k)
  BY DEF Recorded, Found, Returned
<1> QED BY <1>4, <1>5, FS_Subset, FS_CardinalityType

LEMMA FilesStart == Files!Init => FilesInv
<1> SUFFICES ASSUME Files!Init PROVE FilesInv
  OBVIOUS
<1>1. /\ jJournal = <<>> /\ jRoot = [k \in Keys |-> 0] /\ jUp = FALSE /\ jAdding = <<>>
      /\ jTorn = FALSE /\ jDone = <<>> /\ jGarbage = FALSE
  BY DEF Files!Init
<1>2. FilesTypes
  <2>1. <<>> \in Seq(Entries) /\ <<>> \in Seq(Returns)
    OBVIOUS
  <2>2. jRoot \in [Keys -> Nat]
    BY <1>1
  <2> QED BY <1>1, <2>1, <2>2 DEF FilesTypes
<1>3. WholeJournal /\ TornStays
  BY <1>1 DEF WholeJournal, TornStays, Fits, Ahead
<1>4. Files!Whole = {}
  <2>1. jJournal \in Seq(Entries)
    BY <1>2 DEF FilesTypes
  <2> QED BY <1>1, <2>1, WholeNow
<1>5. Recorded
  BY <1>1, <1>4 DEF Recorded
<1>6. FilesSafe
  BY <1>1 DEF FilesSafe, Files!Durable, Files!NothingElse, Files!OnlyTorn
<1> QED BY <1>2, <1>3, <1>5, <1>6 DEF FilesInv

\* rns_fmgr_load: each record that was returned whole is found, and nothing else.
LEMMA FilesLoad == FilesInv /\ Files!Load => FilesInv'
<1> SUFFICES ASSUME FilesInv, Files!Load PROVE FilesInv'
  OBVIOUS
<1>1. FilesTypes /\ WholeJournal /\ TornStays /\ Recorded
  BY DEF FilesInv
<1>2. /\ ~jUp /\ jUp' = TRUE /\ jDeleted' = {}
      /\ jRoot' = [k \in Keys |-> Cardinality(Found(k))]
      /\ jGarbage' = (Len(jJournal) # 3 * Cardinality(Files!Whole))
      /\ jJournal' = jJournal /\ jAdding' = jAdding /\ jTorn' = jTorn /\ jDone' = jDone
  <2>1. jRoot' = [k \in Keys |-> Files!Cardinality(Found(k))]
    BY Zenon DEF Files!Load, Found
  <2>2. [k \in Keys |-> Files!Cardinality(Found(k))] = [k \in Keys |-> Cardinality(Found(k))]
    BY SameCardinality, Zenon
  <2> QED BY <2>1, <2>2, SameCardinality DEF Files!Load
<1>3. jAdding = <<>>
  BY <1>1, <1>2 DEF FilesTypes
<1>4. \A k \in Keys : Cardinality(Found(k)) \in Nat
  BY <1>1, FoundFinite
<1>5. FilesTypes'
  BY <1>1, <1>2, <1>4 DEF FilesTypes
<1>6. Files!Whole' = Files!Whole
  BY <1>2 DEF Files!Whole, Files!Records
<1>7. WholeJournal' /\ TornStays' /\ Recorded'
  BY <1>1, <1>2, <1>6 DEF WholeJournal, TornStays, Recorded, Fits, Ahead
<1>8. Files!Durable'
  <2> SUFFICES ASSUME NEW i \in DOMAIN jDone, jDone[i].clean
               PROVE  jRoot'[jDone[i].key] > 0
    BY <1>2 DEF Files!Durable
  <2> DEFINE k == jDone[i].key
  <2>1. k \in Keys
    <3>1. jDone \in Seq(Returns)
      BY <1>1 DEF FilesTypes
    <3>2. i \in 1 .. Len(jDone)
      BY <3>1
    <3>3. jDone[i] \in Returns
      BY <3>1, <3>2
    <3> QED BY <3>3 DEF Returns
  <2>2. i \in Found(k)
    BY <1>1 DEF Recorded, Found
  <2>3. Cardinality(Found(k)) # 0
    BY <1>1, <2>1, <2>2, FoundFinite, FS_EmptySet
  <2> QED BY <1>2, <1>4, <2>1, <2>3
<1>9. Files!NothingElse'
  <2> SUFFICES ASSUME NEW k \in Keys
               PROVE  jRoot'[k] <= Cardinality({i \in DOMAIN jDone' : jDone'[i].key = k})
    BY SameCardinality, Zenon DEF Files!NothingElse
  <2>1. jRoot'[k] <= Cardinality(Returned(jDone, k))
    BY <1>1, <1>2, FoundFinite
  <2> QED BY <1>2, <2>1 DEF Returned
<1>10. Files!OnlyTorn'
  BY <1>1, <1>2, <1>3, AllRead, SameCardinality DEF Files!OnlyTorn
<1> QED BY <1>5, <1>7, <1>8, <1>9, <1>10 DEF FilesInv, FilesSafe

\* The next field that rns_fmgr_add writes
Written == [kind |-> Files!Fields[jAdding[2]], key |-> jAdding[1]]

\* Behind a journal that is torn nothing more is found.
LEMMA FoundSame ==
  ASSUME FilesTypes, TornStays, jTorn, jAdding # <<>>, jJournal' = Append(jJournal, Written),
         FilesTypes'
  PROVE  /\ Files!Whole' = Files!Whole
         /\ \E p \in 1 .. Len(jJournal') : jJournal'[p].kind # Expected(p)
<1>1. /\ Len(jJournal) \in Nat /\ Len(jJournal') = Len(jJournal) + 1
      /\ jAdding[2] \in 1 .. 3 /\ jAdding[1] \in Keys
      /\ \A p \in 1 .. Len(jJournal) : jJournal'[p] = jJournal[p]
      /\ jJournal'[Len(jJournal) + 1] = Written
  BY DEF FilesTypes
<1>2. PICK p \in 1 .. Len(jJournal') :
        jJournal'[p].kind # Expected(p) /\ \/ p \in 1 .. Len(jJournal)
                                           \/ p = Len(jJournal) + 1 /\ p % 3 # 1
  <2>1. CASE \E p \in 1 .. Len(jJournal) : jJournal[p].kind # Expected(p)
    BY <1>1, <2>1
  <2>2. CASE Len(jJournal) % 3 # 0 /\ Ahead = 0
    <3>1. jAdding[2] = 1 /\ Written.kind = "key"
      BY <1>1, <2>2 DEF Ahead, Written, Files!Fields
    <3>2. PICK n \in Nat : Len(jJournal) = 3 * n + 1 \/ Len(jJournal) = 3 * n + 2
      <4>1. /\ Len(jJournal) \div 3 \in Nat
            /\ \/ Len(jJournal) = 3 * (Len(jJournal) \div 3) + 1
               \/ Len(jJournal) = 3 * (Len(jJournal) \div 3) + 2
        BY <1>1, <2>2
      <4> QED BY <4>1
    <3>3. Expected(Len(jJournal) + 1) # "key"
      <4>1. Len(jJournal) + 1 = 3 * n + 2 \/ Len(jJournal) + 1 = 3 * n + 3
        BY <1>1, <3>2
      <4> QED BY <4>1, ThreeFields
    <3>4. (Len(jJournal) + 1) % 3 # 1
      BY <1>1, <2>2
    <3> QED BY <1>1, <3>1, <3>3, <3>4
  <2> QED BY <2>1, <2>2 DEF TornStays
<1>3. /\ Files!Whole = {r \in Nat \ {0} : 3 * r <= Len(jJournal) /\ Fits(jJournal, 3 * r)}
      /\ Files!Whole' = {r \in Nat \ {0} : 3 * r <= Len(jJournal') /\ Fits(jJournal', 3 * r)}
  BY WholeNow, WholeThen DEF FilesTypes
<1>4. ASSUME NEW r \in Nat \ {0}
      PROVE  (3 * r <= Len(jJournal') /\ Fits(jJournal', 3 * r)) <=>
             (3 * r <= Len(jJournal) /\ Fits(jJournal, 3 * r))
  <2>1. ASSUME 3 * r <= Len(jJournal)
        PROVE  Fits(jJournal', 3 * r) <=> Fits(jJournal, 3 * r)
    BY <1>1, <2>1 DEF Fits
  <2>2. ASSUME 3 * r = Len(jJournal) + 1 PROVE ~Fits(jJournal', 3 * r)
    BY <1>1, <1>2, <2>2 DEF Fits
  <2> QED BY <1>1, <2>1, <2>2
<1> QED BY <1>2, <1>3, <1>4

\* One of the three writes of rns_fmgr_add: the third makes a record of them.
LEMMA FilesWrite == FilesInv /\ Files!AddWrites => FilesInv'
<1> SUFFICES ASSUME FilesInv, Files!AddWrites PROVE FilesInv'
  OBVIOUS
<1>1. FilesTypes /\ WholeJournal /\ TornStays /\ Recorded /\ FilesSafe
  BY DEF FilesInv
<1>2. /\ jUp /\ jAdding # <<>> /\ jJournal' = Append(jJournal, Written)
      /\ jUp' = jUp /\ jTorn' = jTorn /\ jGarbage' = jGarbage
  BY DEF Files!AddWrites, Written
<1>3. PICK k \in Keys, a \in 1 .. 3 : jAdding = <<k, a>>
  BY <1>1, <1>2 DEF FilesTypes
<1>4. Written \in Entries /\ Written = [kind |-> Files!Fields[a], key |-> k]
  BY <1>3 DEF Written, Entries, Files!Fields
<1>5. PICK last \in Returns :
      /\ last.key = k /\ (last.clean => ~jTorn)
      /\ \/ a < 3 /\ jAdding' = <<k, a + 1>> /\ UNCHANGED <<jRoot, jDone, jDeleted>>
         \/ /\ a = 3 /\ jAdding' = <<>> /\ jRoot' = [jRoot EXCEPT ![k] = @ + 1]
            /\ jDone' = Append(jDone, last) /\ jDeleted' = jDeleted \ {k}
  <2>1. PICK last : last = [key |-> k, clean |-> ~jTorn]
    OBVIOUS
  <2>2. last \in Returns /\ last.key = k /\ (last.clean => ~jTorn)
    BY <2>1 DEF Returns
  <2>3. \/ a < 3 /\ jAdding' = <<k, a + 1>> /\ UNCHANGED <<jRoot, jDone, jDeleted>>
        \/ /\ a = 3 /\ jAdding' = <<>> /\ jRoot' = [jRoot EXCEPT ![k] = @ + 1]
           /\ jDone' = Append(jDone, last) /\ jDeleted' = jDeleted \ {k}
    BY <1>3, <2>1 DEF Files!AddWrites
  <2> QED BY <2>2, <2>3
<1>6. FilesTypes'
  <2>1. jJournal' \in Seq(Entries)
    BY <1>1, <1>2, <1>4 DEF FilesTypes
  <2>2. jDone' \in Seq(Returns)
    <3>1. jDone \in Seq(Returns)
      BY <1>1 DEF FilesTypes
    <3> QED BY <1>5, <3>1
  <2>3. jRoot' \in [Keys -> Nat]
    BY <1>1, <1>5 DEF FilesTypes
  <2>4. jAdding' \in {<<>>} \cup Keys \X (1 .. 3)
    BY <1>5
  <2> QED BY <1>1, <1>2, <2>1, <2>2, <2>3, <2>4 DEF FilesTypes
<1>7. Len(jJournal) \in Nat /\ Len(jJournal') = Len(jJournal) + 1
  BY <1>1, <1>2 DEF FilesTypes
<1>8. /\ \A p \in 1 .. Len(jJournal) : jJournal'[p] = jJournal[p]
      /\ jJournal'[Len(jJournal) + 1] = Written
  BY <1>1, <1>2 DEF FilesTypes
<1>9. /\ Len(jDone) \in Nat
      /\ a < 3 => Len(jDone') = Len(jDone)
      /\ a = 3 => Len(jDone') = Len(jDone) + 1
  <2>1. jDone \in Seq(Returns)
    BY <1>1 DEF FilesTypes
  <2> QED BY <1>5, <2>1
<1>10. /\ DOMAIN jDone = 1 .. Len(jDone) /\ DOMAIN jDone' = 1 .. Len(jDone')
       /\ \A i \in 1 .. Len(jDone) : jDone'[i] = jDone[i]
       /\ a = 3 => jDone'[Len(jDone) + 1] = last
  <2>1. jDone \in Seq(Returns) /\ jDone' \in Seq(Returns)
    BY <1>1, <1>6 DEF FilesTypes
  <2>2. CASE a < 3
    BY <1>5, <2>1, <2>2
  <2>3. CASE a = 3
    BY <1>5, <2>1, <2>3
  <2> QED BY <2>2, <2>3
<1>11. \A i \in 1 .. Len(jDone') : i \in 1 .. Len(jDone) \/ (a = 3 /\ i = Len(jDone) + 1)
  <2>1. CASE a < 3
    BY <1>9, <2>1
  <2>2. CASE a = 3
    <3>1. \A n \in Nat : \A i \in 1 .. n + 1 : i \in 1 .. n \/ i = n + 1
      OBVIOUS
    <3> QED BY <1>9, <2>2, <3>1
  <2> QED BY <1>3, <2>1, <2>2
<1>12. WholeJournal'
  <2> SUFFICES ASSUME ~jTorn
               PROVE  Len(jJournal') = 3 * Len(jDone') + Ahead' /\ Fits(jJournal', Len(jJournal'))
    BY <1>2 DEF WholeJournal
  <2>1. Len(jJournal) = 3 * Len(jDone) + a - 1 /\ Fits(jJournal, Len(jJournal))
    BY <1>1, <1>3, <1>9 DEF WholeJournal, Ahead
  <2>2. Len(jJournal') = 3 * Len(jDone') + Ahead'
    <3>1. Ahead' = IF a < 3 THEN a ELSE 0
      BY <1>3, <1>5 DEF Ahead
    <3> QED BY <1>3, <1>7, <1>9, <2>1, <3>1
  <2>3. Written.kind = Expected(3 * Len(jDone) + a)
    <3>1. CASE a = 1 BY <1>3, <1>4, <1>9, <3>1, ThreeFields DEF Files!Fields
    <3>2. CASE a = 2 BY <1>3, <1>4, <1>9, <3>2, ThreeFields DEF Files!Fields
    <3>3. CASE a = 3 BY <1>3, <1>4, <1>9, <3>3, ThreeFields DEF Files!Fields
    <3> QED BY <3>1, <3>2, <3>3
  <2>4. Fits(jJournal', Len(jJournal'))
    <3>1. Len(jJournal) + 1 = 3 * Len(jDone) + a
      BY <1>3, <1>7, <1>9, <2>1
    <3> QED BY <1>7, <1>8, <2>1, <2>3, <3>1 DEF Fits
  <2> QED BY <2>2, <2>4
<1>13. TornStays'
  BY <1>1, <1>2, <1>6, FoundSame DEF TornStays
<1>14. Recorded'
  <2>1. \A r \in Files!Whole : 3 * r \in 1 .. Len(jJournal)
    BY <1>1, <1>7, WholeNow DEF FilesTypes
  <2>2. CASE jTorn
    <3>1. Files!Whole' = Files!Whole
      BY <1>1, <1>2, <1>6, <2>2, FoundSame
    <3>2. \A r \in Files!Whole : r \in DOMAIN jDone' /\ jJournal'[3 * r].key = jDone'[r].key
      <4> SUFFICES ASSUME NEW r \in Files!Whole
                   PROVE  r \in DOMAIN jDone' /\ jJournal'[3 * r].key = jDone'[r].key
        OBVIOUS
      <4>1. r \in 1 .. Len(jDone) /\ jJournal[3 * r].key = jDone[r].key
        BY <1>1, <1>10 DEF Recorded
      <4>2. r \in 1 .. Len(jDone')
        BY <1>3, <1>9, <4>1
      <4>3. jJournal'[3 * r] = jJournal[3 * r] /\ jDone'[r] = jDone[r]
        BY <1>8, <1>10, <2>1, <4>1
      <4> QED BY <1>10, <4>1, <4>2, <4>3
    <3>3. \A i \in DOMAIN jDone' : jDone'[i].clean => i \in Files!Whole
      <4> SUFFICES ASSUME NEW i \in DOMAIN jDone', jDone'[i].clean PROVE i \in Files!Whole
        OBVIOUS
      <4>1. i \in 1 .. Len(jDone) \/ (a = 3 /\ i = Len(jDone) + 1)
        <5>1. i \in 1 .. Len(jDone')
          BY <1>10
        <5> QED BY <1>11, <5>1
      <4>2. CASE i \in 1 .. Len(jDone)
        BY <1>1, <1>10, <4>2 DEF Recorded
      <4>3. ~(a = 3 /\ i = Len(jDone) + 1)
        BY <1>5, <1>10, <2>2
      <4> QED BY <4>1, <4>2, <4>3
    <3> QED BY <3>1, <3>2, <3>3 DEF Recorded
  <2>3. CASE ~jTorn
    <3>1. Files!Whole = 1 .. Len(jDone) /\ Files!Whole' = 1 .. Len(jDone')
      BY <1>1, <1>2, <1>6, <1>12, <2>3, AllFound, AllFoundThen
    <3>2. \A r \in 1 .. Len(jDone) : jJournal'[3 * r].key = jDone'[r].key
      BY <1>1, <1>8, <1>10, <2>1, <3>1 DEF Recorded
    <3>3. a = 3 => jJournal'[3 * (Len(jDone) + 1)].key = k
      <4>1. a = 3 => 3 * (Len(jDone) + 1) = Len(jJournal) + 1
        BY <1>1, <1>3, <1>7, <1>9, <2>3 DEF WholeJournal, Ahead
      <4> QED BY <1>4, <1>8, <4>1
    <3>4. \A r \in 1 .. Len(jDone') : jJournal'[3 * r].key = jDone'[r].key
      <4> SUFFICES ASSUME NEW r \in 1 .. Len(jDone') PROVE jJournal'[3 * r].key = jDone'[r].key
        OBVIOUS
      <4>1. r \in 1 .. Len(jDone) \/ (a = 3 /\ r = Len(jDone) + 1)
        BY <1>11
      <4>2. CASE a = 3 /\ r = Len(jDone) + 1
        <5>1. jDone'[r].key = k
          BY <1>5, <1>10, <4>2
        <5> QED BY <3>3, <4>2, <5>1
      <4> QED BY <3>2, <4>1, <4>2
    <3> QED BY <1>10, <3>1, <3>4 DEF Recorded
  <2> QED BY <2>2, <2>3
<1>15. Files!Durable'
  <2> SUFFICES ASSUME NEW i \in DOMAIN jDone', jDone'[i].clean, jDone'[i].key \notin jDeleted'
               PROVE  jRoot'[jDone'[i].key] > 0
    BY Zenon DEF Files!Durable
  <2>1. jRoot \in [Keys -> Nat]
    BY <1>1 DEF FilesTypes
  <2>2. CASE a < 3
    BY <1>1, <1>2, <1>5, <2>2 DEF FilesSafe, Files!Durable
  <2>3. CASE a = 3 /\ jDone'[i].key = k
    BY <1>5, <2>1, <2>3
  <2>4. CASE a = 3 /\ jDone'[i].key # k
    <3>1. i \in DOMAIN jDone /\ jDone'[i] = jDone[i]
      BY <1>3, <1>5, <1>9, <1>10, <2>4
    <3>2. jDone[i].key \notin jDeleted
      BY <1>5, <2>4, <3>1
    <3>3. jRoot[jDone[i].key] > 0
      BY <1>1, <1>2, <3>1, <3>2 DEF FilesSafe, Files!Durable
    <3>4. jRoot' = [jRoot EXCEPT ![k] = @ + 1]
      BY <1>5, <2>4
    <3>5. jDone[i].key \in Keys
      <4>1. jDone \in Seq(Returns) /\ i \in 1 .. Len(jDone)
        BY <1>1, <1>10, <3>1 DEF FilesTypes
      <4>2. jDone[i] \in Returns
        BY <4>1
      <4> QED BY <4>2 DEF Returns
    <3>6. jRoot'[jDone[i].key] = jRoot[jDone[i].key]
      BY <2>1, <2>4, <3>1, <3>4, <3>5
    <3> QED BY <3>1, <3>3, <3>6
  <2> QED BY <2>2, <2>3, <2>4
<1>16. Files!NothingElse'
  <2> SUFFICES ASSUME NEW c \in Keys, ~jGarbage
               PROVE  jRoot'[c] <= Cardinality(Returned(jDone', c))
    BY <1>2, SameCardinality, Zenon DEF Files!NothingElse, Returned
  <2>1. jRoot[c] \in Nat /\ jRoot[c] <= Cardinality(Returned(jDone, c))
    BY <1>1, <1>2, SameCardinality DEF FilesTypes, FilesSafe, Files!NothingElse, Returned
  <2>2. IsFiniteSet(Returned(jDone, c)) /\ Cardinality(Returned(jDone, c)) \in Nat
    BY <1>1, FoundFinite, FS_CardinalityType
  <2>3. CASE a < 3
    BY <1>5, <2>1, <2>3
  <2>4. CASE a = 3 /\ c # k
    <3>1. Returned(jDone', c) = Returned(jDone, c)
      BY <1>3, <1>5, <1>9, <1>10, <2>4 DEF Returned
    <3> QED BY <1>1, <1>5, <2>1, <2>4, <3>1 DEF FilesTypes
  <2>5. CASE a = 3 /\ c = k
    <3>1. Returned(jDone', c) = Returned(jDone, c) \cup {Len(jDone) + 1}
      BY <1>3, <1>5, <1>9, <1>10, <2>5 DEF Returned
    <3>2. Len(jDone) + 1 \notin Returned(jDone, c)
      <4>1. Len(jDone) + 1 \notin 1 .. Len(jDone)
        BY <1>9
      <4> QED BY <1>10, <4>1 DEF Returned
    <3>3. Cardinality(Returned(jDone', c)) = Cardinality(Returned(jDone, c)) + 1
      BY <2>2, <3>1, <3>2, FS_AddElement
    <3>4. jRoot'[c] = jRoot[c] + 1
      BY <1>1, <1>5, <2>5 DEF FilesTypes
    <3> QED BY <2>1, <2>2, <3>3, <3>4
  <2> QED BY <2>3, <2>4, <2>5
<1>17. Files!OnlyTorn'
  BY <1>1, <1>2 DEF FilesSafe, Files!OnlyTorn
<1> QED BY <1>6, <1>12, <1>13, <1>14, <1>15, <1>16, <1>17 DEF FilesInv, FilesSafe

\* What is on disk, and what was returned of it, is not touched by the other steps.
LEMMA FilesRest ==
  FilesInv /\ (\/ UNCHANGED Files!vars \/ Files!AddFails \/ Files!Crash
               \/ \E k \in Keys : Files!AddBegins(k) \/ Files!Del(k)) => FilesInv'
<1> SUFFICES ASSUME FilesInv,
                    \/ UNCHANGED Files!vars \/ Files!AddFails \/ Files!Crash
                    \/ \E k \in Keys : Files!AddBegins(k) \/ Files!Del(k)
             PROVE  FilesInv'
  OBVIOUS
<1>1. FilesTypes /\ WholeJournal /\ TornStays /\ Recorded /\ FilesSafe
  BY DEF FilesInv
<1>2. /\ jJournal' = jJournal /\ jDone' = jDone /\ jGarbage' = jGarbage
      /\ jUp' => jUp
  BY DEF Files!AddFails, Files!Crash, Files!AddBegins, Files!Del, Files!vars
<1>3. /\ jRoot' \in [Keys -> Nat]
      /\ \A k \in Keys : jRoot'[k] <= jRoot[k]
      /\ \A k \in Keys : k \notin jDeleted' => jRoot'[k] = jRoot[k] /\ k \notin jDeleted
  <2>1. jRoot \in [Keys -> Nat]
    BY <1>1 DEF FilesTypes
  <2>2. CASE jRoot' = jRoot /\ jDeleted' = jDeleted
    BY <2>1, <2>2
  <2>3. ASSUME NEW k \in Keys, Files!Del(k)
        PROVE  /\ jRoot[k] - 1 \in Nat /\ jRoot' = [jRoot EXCEPT ![k] = jRoot[k] - 1]
               /\ jDeleted' = jDeleted \cup {k}
    BY <2>1, <2>3 DEF Files!Del
  <2>4. CASE \E k \in Keys : Files!Del(k)
    BY <2>1, <2>3, <2>4
  <2> QED BY <2>2, <2>4 DEF Files!AddFails, Files!Crash, Files!AddBegins, Files!vars
<1>4. /\ jAdding' \in {<<>>} \cup Keys \X (1 .. 3) /\ jTorn' \in BOOLEAN /\ jUp' \in BOOLEAN
      /\ ~jUp' => jAdding' = <<>>
  <2>1. /\ jAdding \in {<<>>} \cup Keys \X (1 .. 3) /\ jTorn \in BOOLEAN /\ jUp \in BOOLEAN
        /\ ~jUp => jAdding = <<>>
    BY <1>1 DEF FilesTypes
  <2>2. CASE Files!AddFails
    BY <2>1, <2>2 DEF Files!AddFails
  <2>3. CASE Files!Crash
    BY <2>1, <2>3 DEF Files!Crash
  <2>4. ASSUME NEW k \in Keys, Files!AddBegins(k)
        PROVE  jAdding' = <<k, 1>> /\ jTorn' = jTorn /\ jUp' = jUp /\ jUp
    BY <2>4 DEF Files!AddBegins
  <2>5. CASE \E k \in Keys : Files!AddBegins(k)
    BY <2>1, <2>4, <2>5
  <2>6. CASE UNCHANGED Files!vars \/ \E k \in Keys : Files!Del(k)
    BY <2>1, <2>6 DEF Files!Del, Files!vars
  <2> QED BY <2>2, <2>3, <2>5, <2>6
<1>5. FilesTypes'
  BY <1>1, <1>2, <1>3, <1>4 DEF FilesTypes
<1>6. /\ jTorn => jTorn'
      /\ ~jTorn' => Ahead' = Ahead
      /\ jTorn /\ Ahead = 0 => Ahead' = 0
      /\ jTorn' /\ ~jTorn => Ahead \in 1 .. 2 /\ Ahead' = 0
  BY <1>1 DEF FilesTypes, Ahead, Files!AddFails, Files!Crash, Files!AddBegins, Files!Del, Files!vars
<1>7. WholeJournal'
  BY <1>1, <1>2, <1>6 DEF WholeJournal, Fits
<1>8. TornStays'
  <2>1. CASE jTorn
    BY <1>1, <1>2, <1>6, <2>1 DEF TornStays
  <2>2. CASE jTorn' /\ ~jTorn
    <3>1. Len(jJournal) = 3 * Len(jDone) + Ahead /\ Len(jDone) \in Nat
      BY <1>1, <2>2 DEF WholeJournal, FilesTypes
    <3>2. Len(jJournal) % 3 # 0
      BY <1>6, <2>2, <3>1
    <3> QED BY <1>2, <1>6, <2>2, <3>2 DEF TornStays
  <2> QED BY <2>1, <2>2 DEF TornStays
<1>9. Files!Whole' = Files!Whole
  BY <1>2 DEF Files!Whole, Files!Records
<1>10. Recorded'
  BY <1>1, <1>2, <1>9 DEF Recorded
<1>11. Files!Durable'
  <2> SUFFICES ASSUME jUp, NEW i \in DOMAIN jDone, jDone[i].clean, jDone[i].key \notin jDeleted'
               PROVE  jRoot'[jDone[i].key] > 0
    BY <1>2 DEF Files!Durable
  <2>1. jDone[i].key \in Keys
    <3>1. jDone \in Seq(Returns)
      BY <1>1 DEF FilesTypes
    <3>2. i \in 1 .. Len(jDone)
      BY <3>1
    <3>3. jDone[i] \in Returns
      BY <3>1, <3>2
    <3> QED BY <3>3 DEF Returns
  <2>2. jRoot'[jDone[i].key] = jRoot[jDone[i].key] /\ jDone[i].key \notin jDeleted
    BY <1>3, <2>1
  <2> QED BY <1>1, <2>2 DEF FilesSafe, Files!Durable
<1>12. Files!NothingElse'
  <2> SUFFICES ASSUME NEW k \in Keys, jUp, ~jGarbage
               PROVE  jRoot'[k] <= Cardinality(Returned(jDone, k))
    BY <1>2, SameCardinality, Zenon DEF Files!NothingElse, Returned
  <2>1. jRoot[k] \in Nat /\ jRoot[k] <= Cardinality(Returned(jDone, k))
    BY <1>1, SameCardinality DEF FilesTypes, FilesSafe, Files!NothingElse, Returned
  <2>2. Cardinality(Returned(jDone, k)) \in Nat
    BY <1>1, FoundFinite, FS_CardinalityType
  <2>3. jRoot'[k] \in Nat /\ jRoot'[k] <= jRoot[k]
    BY <1>3
  <2> QED BY <2>1, <2>2, <2>3
<1>13. Files!OnlyTorn'
  BY <1>1, <1>2, <1>6 DEF FilesSafe, Files!OnlyTorn
<1> QED BY <1>5, <1>7, <1>8, <1>10, <1>11, <1>12, <1>13 DEF FilesInv, FilesSafe

\* However often the program ends between two writes and starts again: a recording that
\* rns_fmgr_add returned is found unless an incomplete record is in front of it, nothing
\* else is found, and the journal is read out of step only if a record is incomplete.
THEOREM JournalSafe == Files!Spec => [](Files!Durable /\ Files!NothingElse /\ Files!OnlyTorn)
<1>1. FilesInv /\ [Files!Next]_(Files!vars) => FilesInv'
  BY FilesLoad, FilesWrite, FilesRest DEF Files!Next
<1>2. FilesInv => Files!Durable /\ Files!NothingElse /\ Files!OnlyTorn
  BY DEF FilesInv, FilesSafe
<1> QED BY <1>1, <1>2, FilesStart, PTL DEF Files!Spec
================================================================================
