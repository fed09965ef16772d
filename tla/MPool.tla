--------------------------------- MODULE MPool ---------------------------------
(****************************************************************************)
(* rns_mpool.c over list_head.h: blocks of one size, whose descriptors form a  *)
(* ring through the head of the pool.  A block that is given out has null      *)
(* pointers.                                                                *)
(****************************************************************************)
EXTENDS Integers, FiniteSets

CONSTANT N \* blocks behind those that hold the descriptors

ASSUME NAssumption == N \in Nat

ListHead == 0
Blocks == 1 .. N
Null == N + 1

VARIABLES
  next, prev,      \* the ring
  avail_block_num,
  held             \* blocks that the callers of rns_mpool_alloc have

vars == <<next, prev, avail_block_num, held>>

\* rns_mpool_init adds each descriptor behind the head.
Init ==
  /\ next = [x \in 0 .. N |-> IF x = ListHead THEN N ELSE x - 1]
  /\ prev = [x \in 0 .. N |-> IF x = N THEN ListHead ELSE x + 1]
  /\ avail_block_num = N
  /\ held = {}

\* __rns_list_add behind the head
Linked(b) ==
  /\ next' = [x \in 0 .. N |-> IF x = ListHead THEN b ELSE IF x = b THEN next[ListHead] ELSE next[x]]
  /\ prev' = [x \in 0 .. N |-> IF x = b THEN ListHead ELSE IF x = next[ListHead] THEN b ELSE prev[x]]

\* Faulty variant of Unlinked: the block behind keeps its pointer.
UnlinkedBlind(b) ==
  /\ next' = [x \in 0 .. N |-> IF x = b THEN Null ELSE IF x = prev[b] THEN next[b] ELSE next[x]]
  /\ prev' = [x \in 0 .. N |-> IF x = b THEN Null ELSE prev[x]]

\* rns_list_del
Unlinked(b) ==
  /\ next' = [x \in 0 .. N |-> IF x = b THEN Null ELSE IF x = prev[b] THEN next[b] ELSE next[x]]
  /\ prev' = [x \in 0 .. N |-> IF x = b THEN Null ELSE IF x = next[b] THEN prev[b] ELSE prev[x]]

\* Faulty variant of Alloc: an empty ring is not noticed.
AllocBlind ==
  /\ Unlinked(next[ListHead])
  /\ avail_block_num' = avail_block_num - 1
  /\ held' = held \cup {next[ListHead]}

\* rns_mpool_alloc: the same block before and behind the head is refused, which
\* is the empty ring, and the ring of one.
Alloc ==
  /\ next[ListHead] # prev[ListHead]
  /\ Unlinked(next[ListHead])
  /\ avail_block_num' = avail_block_num - 1
  /\ held' = held \cup {next[ListHead]}

AllocRefused ==
  /\ next[ListHead] = prev[ListHead]
  /\ UNCHANGED vars

\* Faulty variant of Free: a block that is not held is taken too.
FreeAny(b) ==
  /\ Linked(b)
  /\ avail_block_num' = avail_block_num + 1
  /\ held' = held \ {b}

\* rns_mpool_free
Free(b) ==
  /\ b \in held
  /\ Linked(b)
  /\ avail_block_num' = avail_block_num + 1
  /\ held' = held \ {b}

Next == Alloc \/ AllocRefused \/ \E b \in Blocks : Free(b)

Spec == Init /\ [][Next]_vars

------------------------------------------------------------------------------
(* Properties *)

InPool == Blocks \ held
Ring == InPool \cup {ListHead}

TypeOK ==
  /\ next \in [0 .. N -> 0 .. N + 1]
  /\ prev \in [0 .. N -> 0 .. N + 1]
  /\ avail_block_num \in 0 .. N
  /\ held \subseteq Blocks

\* The blocks in the pool and the head are linked both ways, a block that is
\* held is not, and avail_block_num counts those in the pool: no order of allocs
\* and frees gives a block to two callers or loses one.
RingKept ==
  /\ \A x \in Ring : next[x] \in Ring /\ prev[x] \in Ring
                       /\ prev[next[x]] = x /\ next[prev[x]] = x
  /\ \A b \in held : next[b] = Null /\ prev[b] = Null
  /\ avail_block_num = Cardinality(InPool)

\* The ring is one: what has the head and all that it leads to is the whole ring, so
\* that rns_mpool_alloc meets every block in the pool; and it refuses only when one
\* block is left, or none.
RefusesLast ==
  /\ \A S \in SUBSET Ring : ListHead \in S /\ (\A x \in S : next[x] \in S) => S = Ring
  /\ (next[ListHead] = prev[ListHead]) <=> avail_block_num <= 1

\* What rns_mpool_alloc and rns_mpool_free keep of the pool: its ring, and that a
\* request is refused only for its last block.
BlocksKept == RingKept /\ RefusesLast

\* A block is given out only from the pool, and no step gives or takes two.
GivesFree ==
  [][\/ \E b \in Blocks \ held : held' = held \cup {b}
     \/ \E b \in held : held' = held \ {b}]_held
==============================================================================
