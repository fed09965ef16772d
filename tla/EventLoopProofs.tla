---------------------------- MODULE EventLoopProofs ----------------------------
(* A timer of the tree ep->t has one holder, which is there and knows its id: proofs *)
(* about EventLoop, for any connections, links, ids, descriptors and times.  What a  *)
(* TRS has in memory of its phones is what the table says: proofs about TrsStart,   *)
(* for any phones and boxes.  do_log writes the lines of rns_log whole and in order:  *)
(* proofs about LogPipe, for any pipe and any lengths of lines.                      *)
EXTENDS MCPrograms, FiniteSetTheorems, SequenceTheorems, TLAPS

(* The inductive invariant *)

Users == Conns \cup {"hold", "keep"}
Timers == [id : Ids, of : Users, left : Nat, due : BOOLEAN]

\* The tree: in the order of time, an id once
InOrder(q) ==
  /\ q \in Seq(Timers)
  /\ \A i, j \in DOMAIN q : i < j => q[i].left <= q[j].left
  /\ \A i, j \in DOMAIN q : q[i].id = q[j].id => i = j

Has(q, id, of) == \E i \in DOMAIN q : q[i].id = id /\ q[i].of = of
Ahead(q, a, b) == \E i, j \in DOMAIN q : i < j /\ q[i].of = a /\ q[j].of = b

\* Who holds a timer, and its id
Holder(id, of) ==
  \/ of = "keep" /\ id = keepId
  \/ of = "hold" /\ id = holdId /\ held # None
  \/ of \in Conns /\ conn[of].open /\ id = conn[of].timer

\* The timers are those of their holders.
Owned ==
  /\ InOrder(timers)
  /\ \A id \in Ids, of \in Users : Has(timers, id, of) <=> Holder(id, of)
  /\ \A c \in Conns : conn[c].open => conn[c].timer \in Ids
  /\ held = None <=> holdId = None

\* A connection answers only what was asked.
Phases == \A c \in Conns :
  conn[c].open /\ conn[c].phase = 0 => conn[c].write = 0 /\ ~conn[c].task

\* The held poll is not answered yet, and its timer comes before the one that ends its
\* connection.
HeldInv == held # None =>
  /\ conn[held].open /\ conn[held].phase = 1 /\ ~conn[held].task
  /\ Ahead(timers, "hold", held)

Answering(c) == conn[c].open /\ conn[c].phase = 1 /\ ~conn[c].task /\ c # held

\* What a callback has still to do: at most an answer to the poll that was held, then
\* to its own connection, which it then reads again.
RunInv ==
  \/ run = <<>>
  \/ \E c \in Conns : run = <<[do |-> "answer", to |-> c]>> /\ Answering(c)
  \/ \E c \in Conns : run = <<[do |-> "write", to |-> c]>> /\ conn[c].open /\ conn[c].task
  \/ \E c \in Conns : run = <<[do |-> "recv", to |-> c]>> /\ conn[c].open /\ conn[c].phase = 1
  \/ \E c \in Conns : run = <<[do |-> "close", to |-> c]>> /\ conn[c].open
  \/ \E c \in Conns :
       /\ run = <<[do |-> "answer", to |-> c], [do |-> "recv", to |-> c]>>
       /\ Answering(c) /\ conn[c].write = 0
  \/ \E c, h \in Conns :
       /\ \/ /\ run = <<[do |-> "answer", to |-> h], [do |-> "answer", to |-> c],
                        [do |-> "recv", to |-> c]>>
             /\ Answering(h)
          \/ /\ run = <<[do |-> "write", to |-> h], [do |-> "answer", to |-> c],
                        [do |-> "recv", to |-> c]>>
             /\ conn[h].open /\ conn[h].task
       /\ h # c /\ Answering(c) /\ conn[c].write = 0

\* Events are of connections that are there, except those left behind by a callback.
EventsInv ==
  /\ \A c \in Conns : ready[c] # {} => conn[c].open
  /\ \A i \in DOMAIN batch : batch[i].of \in Conns => conn[batch[i].of].open \/ cut
  /\ pc # "batch" => batch = <<>>
  /\ pc = "wait" => run = <<>>
  /\ undefined => cut

Conn == [open : BOOLEAN, phase : 0 .. 1, destroy : 0 .. 1, write : 0 .. 1, task : BOOLEAN,
         sent : {None, "poll", "command"}, left : BOOLEAN, timer : Ids \cup {None}]
Report == [of : Objects, on : SUBSET {"in", "out"}]

\* The types of what the rest does not say
Types ==
  /\ pc \in {"wait", "timers", "batch"} /\ batch \in Seq(Report)
  /\ ready \in [Objects -> SUBSET {"in", "out"}]
  /\ conn \in [Conns -> Conn] /\ link \in [Links -> {"none", "idle", "busy"}]
  /\ held \in Conns \cup {None} /\ holdId \in Ids \cup {None} /\ keepId \in Ids
  /\ backlog \in 0 .. MaxBacklog
  /\ cut \in BOOLEAN /\ stray = FALSE /\ undefined \in BOOLEAN

LoopInv == Types /\ Owned /\ Phases /\ HeldInv /\ RunInv /\ EventsInv

------------------------------------------------------------------------------
(* The tree of timers *)

LEMMA Joined ==
  ASSUME NEW S, NEW a \in Seq(S), NEW b \in Seq(S)
  PROVE  /\ a \o b \in Seq(S) /\ Len(a \o b) = Len(a) + Len(b)
         /\ \A i \in 1 .. Len(a) : (a \o b)[i] = a[i]
         /\ \A i \in 1 .. Len(b) : (a \o b)[Len(a) + i] = b[i]
<1>1. /\ a \o b \in Seq(S) /\ Len(a \o b) = Len(a) + Len(b)
      /\ \A i \in 1 .. Len(a) + Len(b) : (a \o b)[i] = IF i <= Len(a) THEN a[i] ELSE b[i - Len(a)]
  BY ConcatProperties
<1>2. Len(a) \in Nat /\ Len(b) \in Nat
  OBVIOUS
<1>3. ASSUME NEW i \in 1 .. Len(a) PROVE (a \o b)[i] = a[i]
  <2>1. i \in 1 .. Len(a) + Len(b) /\ i <= Len(a)
    BY <1>2
  <2> QED BY <1>1, <2>1
<1>4. ASSUME NEW i \in 1 .. Len(b) PROVE (a \o b)[Len(a) + i] = b[i]
  <2>1. /\ Len(a) + i \in 1 .. Len(a) + Len(b) /\ ~(Len(a) + i <= Len(a))
        /\ (Len(a) + i) - Len(a) = i
    BY <1>2
  <2> QED BY <1>1, <2>1
<1> QED BY <1>1, <1>3, <1>4

LEMMA Inserted ==
  ASSUME NEW S, NEW q \in Seq(S), NEW k \in 0 .. Len(q), NEW x \in S
  PROVE  /\ InsertAt(q, k + 1, x) \in Seq(S) /\ Len(InsertAt(q, k + 1, x)) = Len(q) + 1
         /\ \A i \in 1 .. k : InsertAt(q, k + 1, x)[i] = q[i]
         /\ InsertAt(q, k + 1, x)[k + 1] = x
         /\ \A i \in k + 1 .. Len(q) : InsertAt(q, k + 1, x)[i + 1] = q[i]
<1> DEFINE a == SubSeq(q, 1, k)  b == SubSeq(q, k + 1, Len(q))  ax == a \o <<x>>
<1>1. Len(q) \in Nat /\ k \in Nat /\ k <= Len(q) /\ \A i \in 1 .. Len(q) : q[i] \in S
  OBVIOUS
<1>2. a \in Seq(S) /\ Len(a) = k /\ \A i \in 1 .. k : a[i] = q[i]
  BY <1>1, SubSeqProperties
<1>3. b \in Seq(S) /\ Len(b) = Len(q) - k /\ \A i \in 1 .. Len(q) - k : b[i] = q[k + i]
  BY <1>1, SubSeqProperties
<1>4. <<x>> \in Seq(S) /\ Len(<<x>>) = 1 /\ <<x>>[1] = x
  OBVIOUS
<1>5. InsertAt(q, k + 1, x) = ax \o b
  <2>1. (k + 1) - 1 = k
    BY <1>1
  <2> QED BY <2>1, Zenon DEF InsertAt
<1> HIDE DEF a, b
<1>6. /\ ax \in Seq(S) /\ Len(ax) = k + 1
      /\ \A i \in 1 .. k : ax[i] = a[i]
      /\ ax[k + 1] = x
  <2>1. /\ ax \in Seq(S) /\ Len(ax) = Len(a) + Len(<<x>>)
        /\ \A i \in 1 .. Len(a) : ax[i] = a[i]
        /\ \A i \in 1 .. Len(<<x>>) : ax[Len(a) + i] = <<x>>[i]
    BY <1>2, <1>4, Joined
  <2>2. 1 \in 1 .. Len(<<x>>)
    BY <1>4
  <2> HIDE DEF ax
  <2> QED BY <1>2, <1>4, <2>1, <2>2
<1> HIDE DEF ax
<1>7. /\ ax \o b \in Seq(S) /\ Len(ax \o b) = (k + 1) + (Len(q) - k)
      /\ \A i \in 1 .. k + 1 : (ax \o b)[i] = ax[i]
      /\ \A i \in 1 .. Len(q) - k : (ax \o b)[(k + 1) + i] = b[i]
  <2>1. /\ ax \o b \in Seq(S) /\ Len(ax \o b) = Len(ax) + Len(b)
        /\ \A i \in 1 .. Len(ax) : (ax \o b)[i] = ax[i]
        /\ \A i \in 1 .. Len(b) : (ax \o b)[Len(ax) + i] = b[i]
    <3>1. ax \in Seq(S) /\ b \in Seq(S)
      BY <1>3, <1>6
    <3> QED BY <3>1, Joined
  <2> QED BY <1>3, <1>6, <2>1
<1>8. ASSUME NEW i \in k + 1 .. Len(q) PROVE (ax \o b)[i + 1] = q[i]
  <2>1. i - k \in 1 .. Len(q) - k /\ (k + 1) + (i - k) = i + 1 /\ k + (i - k) = i
    BY <1>1
  <2>2. (ax \o b)[(k + 1) + (i - k)] = b[i - k] /\ b[i - k] = q[k + (i - k)]
    BY <1>3, <1>7, <2>1
  <2> QED BY <2>1, <2>2
<1>9. Len(ax \o b) = Len(q) + 1
  <2>1. (k + 1) + (Len(q) - k) = Len(q) + 1
    BY <1>1
  <2> QED BY <1>7, <2>1
<1> DEFINE r == InsertAt(q, k + 1, x)
<1>10. r \in Seq(S) /\ Len(r) = Len(q) + 1
  BY <1>5, <1>7, <1>9
<1>11. ASSUME NEW i \in 1 .. k PROVE r[i] = q[i]
  <2>1. i \in 1 .. k + 1
    BY <1>1
  <2>2. r[i] = ax[i] /\ ax[i] = a[i] /\ a[i] = q[i]
    BY <1>2, <1>5, <1>6, <1>7, <2>1
  <2> QED BY <2>2
<1>12. r[k + 1] = x
  <2>1. k + 1 \in 1 .. k + 1
    BY <1>1
  <2> QED BY <1>5, <1>6, <1>7, <2>1
<1>13. ASSUME NEW i \in k + 1 .. Len(q) PROVE r[i + 1] = q[i]
  BY <1>5, <1>8
<1> HIDE DEF r
<1>14. /\ r \in Seq(S) /\ Len(r) = Len(q) + 1 /\ \A i \in 1 .. k : r[i] = q[i]
       /\ r[k + 1] = x /\ \A i \in k + 1 .. Len(q) : r[i + 1] = q[i]
  BY <1>10, <1>11, <1>12, <1>13
<1> QED BY <1>14 DEF r

LEMMA Removed ==
  ASSUME NEW S, NEW q \in Seq(S), NEW k \in 1 .. Len(q)
  PROVE  /\ RemoveAt(q, k) \in Seq(S) /\ Len(RemoveAt(q, k)) = Len(q) - 1
         /\ \A i \in 1 .. k - 1 : RemoveAt(q, k)[i] = q[i]
         /\ \A i \in k .. Len(q) - 1 : RemoveAt(q, k)[i] = q[i + 1]
<1> DEFINE a == SubSeq(q, 1, k - 1)  b == SubSeq(q, k + 1, Len(q))
<1>1. Len(q) \in Nat /\ k \in Nat /\ k >= 1 /\ k <= Len(q) /\ \A i \in 1 .. Len(q) : q[i] \in S
  OBVIOUS
<1>2. a \in Seq(S) /\ Len(a) = k - 1 /\ \A i \in 1 .. k - 1 : a[i] = q[i]
  BY <1>1, SubSeqProperties
<1>3. b \in Seq(S) /\ Len(b) = Len(q) - k /\ \A i \in 1 .. Len(q) - k : b[i] = q[k + i]
  BY <1>1, SubSeqProperties
<1>4. RemoveAt(q, k) = a \o b
  BY DEF RemoveAt
<1> HIDE DEF a, b
<1>5. k - 1 \in Nat /\ Len(q) - k \in Nat
  BY <1>1
<1>6. /\ a \o b \in Seq(S) /\ Len(a \o b) = (k - 1) + (Len(q) - k)
      /\ \A i \in 1 .. k - 1 : (a \o b)[i] = a[i]
      /\ \A i \in 1 .. Len(q) - k : (a \o b)[(k - 1) + i] = b[i]
  <2>1. /\ a \o b \in Seq(S) /\ Len(a \o b) = Len(a) + Len(b)
        /\ \A i \in 1 .. Len(a) : (a \o b)[i] = a[i]
        /\ \A i \in 1 .. Len(b) : (a \o b)[Len(a) + i] = b[i]
    <3>1. a \in Seq(S) /\ b \in Seq(S)
      BY <1>2, <1>3
    <3> QED BY <3>1, Joined
  <2> QED BY <1>2, <1>3, <2>1
<1>7. ASSUME NEW i \in k .. Len(q) - 1 PROVE (a \o b)[i] = q[i + 1]
  <2>1. /\ i - (k - 1) \in 1 .. Len(q) - k
        /\ (k - 1) + (i - (k - 1)) = i /\ k + (i - (k - 1)) = i + 1
    BY <1>1
  <2>2. /\ (a \o b)[(k - 1) + (i - (k - 1))] = b[i - (k - 1)]
        /\ b[i - (k - 1)] = q[k + (i - (k - 1))]
    BY <1>3, <1>6, <2>1
  <2> QED BY <2>1, <2>2
<1>8. Len(a \o b) = Len(q) - 1
  BY <1>1, <1>6
<1> QED BY <1>2, <1>4, <1>6, <1>7, <1>8

\* In a tree in order the timers that end by some time are the first ones.
LEMMA FirstOnes ==
  ASSUME NEW q, InOrder(q), NEW x \in Nat
  PROVE  LET n == Cardinality({i \in DOMAIN q : q[i].left <= x})
         IN n \in 0 .. Len(q) /\ \A i \in 1 .. Len(q) : i <= n <=> q[i].left <= x
<1> DEFINE S == {i \in DOMAIN q : q[i].left <= x}  n == Cardinality(S)
<1>1. q \in Seq(Timers) /\ Len(q) \in Nat /\ DOMAIN q = 1 .. Len(q)
  BY DEF InOrder
<1>2. \A i \in 1 .. Len(q) : q[i].left \in Nat
  <2>1. \A i \in 1 .. Len(q) : q[i] \in Timers
    BY <1>1
  <2> QED BY <2>1 DEF Timers
<1>3. \A m \in Nat : IsFiniteSet(1 .. m) /\ Cardinality(1 .. m) = m
  BY FS_Interval
<1>4. S \subseteq 1 .. Len(q)
  BY <1>1
<1>5. IsFiniteSet(S) /\ n \in Nat /\ n <= Len(q)
  BY <1>1, <1>3, <1>4, FS_Subset, FS_CardinalityType
<1>6. ASSUME NEW i \in 1 .. Len(q), q[i].left <= x PROVE i <= n
  <2>1. \A j \in 1 .. i : q[j].left <= q[i].left
    BY <1>1, <1>2 DEF InOrder
  <2>2. 1 .. i \subseteq S
    BY <1>1, <1>2, <1>6, <2>1
  <2>3. Cardinality(1 .. i) <= n
    BY <1>5, <2>2, FS_Subset
  <2> QED BY <1>3, <2>3
<1>7. ASSUME NEW i \in 1 .. Len(q), ~(q[i].left <= x) PROVE ~(i <= n)
  <2>1. \A j \in i .. Len(q) : q[i].left <= q[j].left
    BY <1>1, <1>2 DEF InOrder
  <2>2. S \subseteq 1 .. i - 1
    <3>1. ASSUME NEW j \in S PROVE j < i
      <4>1. j \in 1 .. Len(q) /\ q[j].left <= x
        BY <1>4
      <4>2. ~(j \in i .. Len(q))
        BY <1>2, <1>7, <2>1, <4>1
      <4> QED BY <4>1, <4>2
    <3> QED BY <1>4, <3>1
  <2>3. IsFiniteSet(1 .. i - 1) /\ Cardinality(1 .. i - 1) = i - 1
    BY <1>3
  <2>4. n <= i - 1
    BY <2>2, <2>3, FS_Subset
  <2> QED BY <1>5, <2>4
<1> QED BY <1>5, <1>6, <1>7

LEMMA AddedAt ==
  ASSUME NEW q, InOrder(q), NEW tm \in Timers
  PROVE  \E k \in 0 .. Len(q) :
           /\ Added(q, tm) \in Seq(Timers) /\ Len(Added(q, tm)) = Len(q) + 1
           /\ \A i \in 1 .. k : Added(q, tm)[i] = q[i] /\ q[i].left <= tm.left
           /\ Added(q, tm)[k + 1] = tm
           /\ \A i \in k + 1 .. Len(q) : Added(q, tm)[i + 1] = q[i] /\ ~(q[i].left <= tm.left)
<1> DEFINE k == Cardinality({i \in DOMAIN q : q[i].left <= tm.left})
<1>1. q \in Seq(Timers) /\ tm.left \in Nat /\ Len(q) \in Nat
  BY DEF InOrder, Timers
<1>2. k \in 0 .. Len(q) /\ \A i \in 1 .. Len(q) : i <= k <=> q[i].left <= tm.left
  BY <1>1, FirstOnes
<1>3. Added(q, tm) = InsertAt(q, k + 1, tm)
  BY DEF Added
<1> HIDE DEF k
<1>4. /\ InsertAt(q, k + 1, tm) \in Seq(Timers) /\ Len(InsertAt(q, k + 1, tm)) = Len(q) + 1
      /\ \A i \in 1 .. k : InsertAt(q, k + 1, tm)[i] = q[i]
      /\ InsertAt(q, k + 1, tm)[k + 1] = tm
      /\ \A i \in k + 1 .. Len(q) : InsertAt(q, k + 1, tm)[i + 1] = q[i]
  <2>1. k \in 0 .. Len(q) /\ q \in Seq(Timers) /\ tm \in Timers
    BY <1>1, <1>2
  <2> DEFINE r == InsertAt(q, k + 1, tm)
  <2>2. r \in Seq(Timers) /\ Len(r) = Len(q) + 1
    BY <2>1, Inserted
  <2>3. \A i \in 1 .. k : r[i] = q[i]
    BY <2>1, Inserted
  <2>4. r[k + 1] = tm
    BY <2>1, Inserted
  <2>5. \A i \in k + 1 .. Len(q) : r[i + 1] = q[i]
    BY <2>1, Inserted
  <2> QED BY <2>2, <2>3, <2>4, <2>5
<1>5. \A i \in 1 .. k : i \in 1 .. Len(q) /\ i <= k
  BY <1>1, <1>2
<1>6. \A i \in k + 1 .. Len(q) : i \in 1 .. Len(q) /\ ~(i <= k)
  BY <1>1, <1>2
<1> QED BY <1>2, <1>3, <1>4, <1>5, <1>6

LEMMA AddedSafe ==
  ASSUME NEW q, InOrder(q), NEW tm \in Timers, \A i \in DOMAIN q : q[i].id # tm.id
  PROVE  /\ InOrder(Added(q, tm))
         /\ \A id \in Ids, of \in Users :
              Has(Added(q, tm), id, of) <=> Has(q, id, of) \/ (id = tm.id /\ of = tm.of)
         /\ \A a, b \in Users : Ahead(q, a, b) => Ahead(Added(q, tm), a, b)
         /\ \A i \in DOMAIN q : q[i].left > tm.left => Ahead(Added(q, tm), tm.of, q[i].of)
<1> DEFINE r == Added(q, tm)
<1>1. PICK k \in 0 .. Len(q) :
        /\ r \in Seq(Timers) /\ Len(r) = Len(q) + 1
        /\ \A i \in 1 .. k : r[i] = q[i] /\ q[i].left <= tm.left
        /\ r[k + 1] = tm
        /\ \A i \in k + 1 .. Len(q) : r[i + 1] = q[i] /\ ~(q[i].left <= tm.left)
  BY AddedAt
<1> HIDE DEF r
<1> DEFINE f(i) == IF i <= k THEN i ELSE i + 1
<1>2. /\ q \in Seq(Timers) /\ Len(q) \in Nat /\ DOMAIN q = 1 .. Len(q) /\ k \in Nat /\ k <= Len(q)
      /\ DOMAIN r = 1 .. Len(q) + 1
  BY <1>1 DEF InOrder
<1>3. \A i \in DOMAIN q : q[i].left \in Nat /\ q[i].id \in Ids /\ q[i].of \in Users
  <2>1. \A i \in 1 .. Len(q) : q[i] \in Timers
    BY <1>2
  <2> QED BY <1>2, <2>1 DEF Timers
<1>4. tm.left \in Nat
  BY DEF Timers
<1>5. \A i \in DOMAIN q : f(i) \in DOMAIN r /\ r[f(i)] = q[i] /\ f(i) # k + 1
  <2> TAKE i \in DOMAIN q
  <2>1. CASE i <= k
    BY <1>1, <1>2, <2>1
  <2>2. CASE ~(i <= k)
    BY <1>1, <1>2, <2>2
  <2> QED BY <2>1, <2>2
<1>6. \A i, j \in DOMAIN q : i < j <=> f(i) < f(j)
  BY <1>2
<1>7. \A j \in DOMAIN r : j = k + 1 \/ \E i \in DOMAIN q : j = f(i)
  <2> TAKE j \in DOMAIN r
  <2>1. CASE j <= k
    BY <1>2, <2>1
  <2>2. CASE j > k + 1
    <3>1. j - 1 \in DOMAIN q /\ f(j - 1) = j
      BY <1>2, <2>2
    <3> QED BY <3>1
  <2> QED BY <1>2, <2>1, <2>2
<1>8. \A i \in DOMAIN q : /\ f(i) < k + 1 => q[i].left <= tm.left
                          /\ k + 1 < f(i) => ~(q[i].left <= tm.left)
                          /\ q[i].left > tm.left => k + 1 < f(i)
  <2> TAKE i \in DOMAIN q
  <2>1. CASE i <= k
    <3>1. q[i].left <= tm.left
      BY <1>1, <1>2, <2>1
    <3> QED BY <1>2, <1>3, <1>4, <2>1, <3>1
  <2>2. CASE ~(i <= k)
    <3>1. ~(q[i].left <= tm.left)
      BY <1>1, <1>2, <2>2
    <3> QED BY <1>2, <1>3, <1>4, <2>2, <3>1
  <2> QED BY <2>1, <2>2
<1>9. k + 1 \in DOMAIN r /\ r[k + 1] = tm
  BY <1>1, <1>2
<1> HIDE DEF f
<1>10. ASSUME NEW i \in DOMAIN r, NEW j \in DOMAIN r, i < j PROVE r[i].left <= r[j].left
  <2>1. CASE i = k + 1
    <3>1. PICK n \in DOMAIN q : j = f(n)
      BY <1>7, <1>10, <2>1, <1>2
    <3>2. k + 1 < f(n)
      BY <1>10, <2>1, <3>1
    <3> QED BY <1>3, <1>4, <1>5, <1>8, <1>9, <2>1, <3>1, <3>2
  <2>2. CASE j = k + 1
    <3>1. PICK n \in DOMAIN q : i = f(n)
      BY <1>7, <1>10, <2>2, <1>2
    <3>2. f(n) < k + 1
      BY <1>10, <2>2, <3>1
    <3> QED BY <1>3, <1>4, <1>5, <1>8, <1>9, <2>2, <3>1, <3>2
  <2>3. CASE i # k + 1 /\ j # k + 1
    <3>1. PICK m \in DOMAIN q : i = f(m)
      BY <1>7, <2>3
    <3>2. PICK n \in DOMAIN q : j = f(n)
      BY <1>7, <2>3
    <3>3. m < n
      BY <1>6, <1>10, <3>1, <3>2
    <3>4. q[m].left <= q[n].left
      BY <3>3 DEF InOrder
    <3> QED BY <1>5, <3>1, <3>2, <3>4
  <2> QED BY <2>1, <2>2, <2>3
<1>11. ASSUME NEW i \in DOMAIN r, NEW j \in DOMAIN r, r[i].id = r[j].id PROVE i = j
  <2>1. \A n \in DOMAIN q : r[f(n)].id # r[k + 1].id
    BY <1>5, <1>9
  <2>2. ASSUME NEW m \in DOMAIN q, NEW n \in DOMAIN q, r[f(m)].id = r[f(n)].id PROVE m = n
    BY <1>5, <2>2 DEF InOrder
  <2> QED BY <1>7, <1>11, <2>1, <2>2
<1>12. InOrder(r)
  BY <1>1, <1>10, <1>11 DEF InOrder
<1>13. ASSUME NEW id \in Ids, NEW of \in Users
       PROVE  Has(r, id, of) <=> Has(q, id, of) \/ (id = tm.id /\ of = tm.of)
  BY <1>5, <1>7, <1>9 DEF Has
<1>14. ASSUME NEW a \in Users, NEW b \in Users, Ahead(q, a, b) PROVE Ahead(r, a, b)
  <2>1. PICK i \in DOMAIN q, j \in DOMAIN q : i < j /\ q[i].of = a /\ q[j].of = b
    BY <1>14 DEF Ahead
  <2>2. f(i) < f(j) /\ r[f(i)].of = a /\ r[f(j)].of = b /\ f(i) \in DOMAIN r /\ f(j) \in DOMAIN r
    BY <1>5, <1>6, <2>1
  <2> QED BY <2>2 DEF Ahead
<1>15. ASSUME NEW i \in DOMAIN q, q[i].left > tm.left PROVE Ahead(r, tm.of, q[i].of)
  <2>1. k + 1 < f(i) /\ r[k + 1].of = tm.of /\ r[f(i)].of = q[i].of
    BY <1>5, <1>8, <1>9, <1>15
  <2> QED BY <1>5, <1>9, <2>1 DEF Ahead
<1> QED BY <1>12, <1>13, <1>14, <1>15 DEF r

LEMMA DeletedSafe ==
  ASSUME NEW q, InOrder(q), NEW id
  PROVE  /\ InOrder(Deleted(q, id))
         /\ \A i \in DOMAIN Deleted(q, id) : Deleted(q, id)[i].id # id
         /\ \A x \in Ids, of \in Users : Has(Deleted(q, id), x, of) <=> Has(q, x, of) /\ x # id
         /\ \A a, b \in Users : Ahead(q, a, b) /\ ~Has(q, id, a) /\ ~Has(q, id, b)
                                  => Ahead(Deleted(q, id), a, b)
<1>1. q \in Seq(Timers) /\ Len(q) \in Nat /\ DOMAIN q = 1 .. Len(q)
  BY DEF InOrder
<1>2. CASE ~\E i \in DOMAIN q : q[i].id = id
  <2>1. Deleted(q, id) = q
    BY <1>2 DEF Deleted
  <2> QED BY <1>2, <2>1 DEF Has
<1>3. CASE \E i \in DOMAIN q : q[i].id = id
  <2> DEFINE k == CHOOSE i \in DOMAIN q : q[i].id = id
             r == Deleted(q, id)
  <2>1. k \in DOMAIN q /\ q[k].id = id
    BY <1>3
  <2>2. r = RemoveAt(q, k)
    BY <1>3 DEF Deleted
  <2> HIDE DEF k, r
  <2>3. /\ r \in Seq(Timers) /\ Len(r) = Len(q) - 1
        /\ \A i \in 1 .. k - 1 : r[i] = q[i]
        /\ \A i \in k .. Len(q) - 1 : r[i] = q[i + 1]
    <3>1. q \in Seq(Timers) /\ k \in 1 .. Len(q)
      BY <1>1, <2>1
    <3> QED BY <2>2, <3>1, Removed
  <2> DEFINE g(j) == IF j < k THEN j ELSE j + 1
  <2>4. DOMAIN r = 1 .. Len(q) - 1 /\ k \in 1 .. Len(q)
    BY <1>1, <2>1, <2>3
  <2>5. \A j \in DOMAIN r : g(j) \in DOMAIN q /\ r[j] = q[g(j)] /\ g(j) # k
    <3> TAKE j \in DOMAIN r
    <3>1. CASE j < k
      BY <1>1, <2>3, <2>4, <3>1
    <3>2. CASE ~(j < k)
      BY <1>1, <2>3, <2>4, <3>2
    <3> QED BY <3>1, <3>2
  <2>6. \A i, j \in DOMAIN r : i < j <=> g(i) < g(j)
    BY <1>1, <2>4
  <2>7. \A i, j \in DOMAIN r : g(i) = g(j) => i = j
    BY <1>1, <2>4
  <2>8. \A i \in DOMAIN q : i # k => \E j \in DOMAIN r : g(j) = i
    <3> SUFFICES ASSUME NEW i \in DOMAIN q, i # k PROVE \E j \in DOMAIN r : g(j) = i
      OBVIOUS
    <3>1. CASE i < k
      <4>1. i \in DOMAIN r /\ g(i) = i
        BY <1>1, <2>4, <3>1
      <4> QED BY <4>1
    <3>2. CASE i > k
      <4>1. i - 1 \in DOMAIN r /\ g(i - 1) = i
        BY <1>1, <2>4, <3>2
      <4> QED BY <4>1
    <3> QED BY <1>1, <2>4, <3>1, <3>2
  <2> HIDE DEF g
  <2>9. \A i \in DOMAIN q : i # k => q[i].id # id
    BY <2>1 DEF InOrder
  <2>10. InOrder(r)
    <3>1. ASSUME NEW i \in DOMAIN r, NEW j \in DOMAIN r, i < j PROVE r[i].left <= r[j].left
      <4>1. g(i) < g(j)
        BY <2>6, <3>1
      <4>2. q[g(i)].left <= q[g(j)].left
        BY <2>5, <4>1 DEF InOrder
      <4> QED BY <2>5, <4>2
    <3>2. ASSUME NEW i \in DOMAIN r, NEW j \in DOMAIN r, r[i].id = r[j].id PROVE i = j
      <4>1. g(i) = g(j)
        BY <2>5, <3>2 DEF InOrder
      <4> QED BY <2>7, <4>1
    <3> QED BY <2>3, <3>1, <3>2 DEF InOrder
  <2>11. \A i \in DOMAIN r : r[i].id # id
    BY <2>5, <2>9
  <2>12. ASSUME NEW x \in Ids, NEW of \in Users PROVE Has(r, x, of) <=> Has(q, x, of) /\ x # id
    <3>1. Has(r, x, of) => Has(q, x, of) /\ x # id
      BY <2>5, <2>9 DEF Has
    <3>2. ASSUME Has(q, x, of), x # id PROVE Has(r, x, of)
      <4>1. PICK i \in DOMAIN q : q[i].id = x /\ q[i].of = of
        BY <3>2 DEF Has
      <4>2. PICK j \in DOMAIN r : g(j) = i
        BY <2>1, <2>8, <3>2, <4>1
      <4> QED BY <2>5, <4>1, <4>2 DEF Has
    <3> QED BY <3>1, <3>2
  <2>13. ASSUME NEW a \in Users, NEW b \in Users, Ahead(q, a, b), ~Has(q, id, a), ~Has(q, id, b)
         PROVE  Ahead(r, a, b)
    <3>1. PICK i \in DOMAIN q, j \in DOMAIN q : i < j /\ q[i].of = a /\ q[j].of = b
      BY <2>13 DEF Ahead
    <3>2. i # k /\ j # k
      BY <2>1, <2>13, <3>1 DEF Has
    <3>3. PICK m \in DOMAIN r : g(m) = i
      BY <2>8, <3>2
    <3>4. PICK n \in DOMAIN r : g(n) = j
      BY <2>8, <3>2
    <3>5. m < n /\ r[m].of = a /\ r[n].of = b
      BY <2>5, <2>6, <3>1, <3>3, <3>4
    <3> QED BY <3>5 DEF Ahead
  <2> QED BY <2>10, <2>11, <2>12, <2>13 DEF r
<1> QED BY <1>2, <1>3

LEMMA DelayedSafe ==
  ASSUME NEW q, InOrder(q), NEW id \in Ids, NEW of \in Users, Has(q, id, of), NEW delay \in Nat
  PROVE  /\ InOrder(Delayed(q, id, delay))
         /\ \A x \in Ids, u \in Users : Has(Delayed(q, id, delay), x, u) <=> Has(q, x, u)
         /\ \A a, b \in Users : Ahead(q, a, b) /\ ~Has(q, id, a) /\ ~Has(q, id, b)
                                  => Ahead(Delayed(q, id, delay), a, b)
         /\ \E i \in DOMAIN Delayed(q, id, delay) :
              Delayed(q, id, delay)[i] = Timer(id, of, delay)
<1> DEFINE k == CHOOSE i \in DOMAIN q : q[i].id = id
           d == Deleted(q, id)  tm == Timer(id, of, delay)
<1>1. q \in Seq(Timers) /\ DOMAIN q = 1 .. Len(q)
  BY DEF InOrder
<1>2. PICK n \in DOMAIN q : q[n].id = id /\ q[n].of = of
  BY DEF Has
<1>3. k \in DOMAIN q /\ q[k].id = id
  BY <1>2
<1>4. k = n
  BY <1>2, <1>3 DEF InOrder
<1>5. Delayed(q, id, delay) = Added(d, tm)
  BY <1>2, <1>4 DEF Delayed
<1>6. tm \in Timers /\ tm.id = id /\ tm.of = of
  BY DEF Timers, Timer
<1>7. /\ InOrder(d) /\ \A i \in DOMAIN d : d[i].id # id
      /\ \A x \in Ids, u \in Users : Has(d, x, u) <=> Has(q, x, u) /\ x # id
      /\ \A a, b \in Users : Ahead(q, a, b) /\ ~Has(q, id, a) /\ ~Has(q, id, b) => Ahead(d, a, b)
  BY DeletedSafe
<1>8. \A u \in Users : Has(q, id, u) => u = of
  BY <1>2 DEF Has, InOrder
<1> HIDE DEF d, tm, k
<1>9. /\ InOrder(Added(d, tm))
      /\ \A x \in Ids, u \in Users : Has(Added(d, tm), x, u) <=> Has(d, x, u) \/ (x = tm.id /\ u = tm.of)
      /\ \A a, b \in Users : Ahead(d, a, b) => Ahead(Added(d, tm), a, b)
  BY <1>6, <1>7, AddedSafe
<1>10. \E i \in DOMAIN Added(d, tm) : Added(d, tm)[i] = tm
  <2>1. PICK j \in 0 .. Len(d) : Len(Added(d, tm)) = Len(d) + 1 /\ Added(d, tm)[j + 1] = tm
    <3>1. InOrder(d) /\ tm \in Timers
      BY <1>6, <1>7
    <3>2. \E j \in 0 .. Len(d) :
            /\ Added(d, tm) \in Seq(Timers) /\ Len(Added(d, tm)) = Len(d) + 1
            /\ \A i \in 1 .. j : Added(d, tm)[i] = d[i] /\ d[i].left <= tm.left
            /\ Added(d, tm)[j + 1] = tm
            /\ \A i \in j + 1 .. Len(d) : /\ Added(d, tm)[i + 1] = d[i]
                                          /\ ~(d[i].left <= tm.left)
      BY <3>1, AddedAt, Zenon
    <3> QED BY <3>2
  <2>2. Len(d) \in Nat /\ Added(d, tm) \in Seq(Timers)
    BY <1>7, <1>9 DEF InOrder
  <2>3. j + 1 \in DOMAIN Added(d, tm)
    BY <2>1, <2>2
  <2> QED BY <2>1, <2>3
<1>11. \A x \in Ids, u \in Users : Has(Added(d, tm), x, u) <=> Has(q, x, u)
  BY <1>6, <1>7, <1>8, <1>9
<1>12. \A a, b \in Users : Ahead(q, a, b) /\ ~Has(q, id, a) /\ ~Has(q, id, b)
                             => Ahead(Added(d, tm), a, b)
  BY <1>7, <1>9
<1> QED BY <1>5, <1>9, <1>10, <1>11, <1>12 DEF tm

\* A tick, and what is due, change neither the order nor the holders.
LEMMA SameTimers ==
  ASSUME NEW q, InOrder(q), NEW r \in Seq(Timers), DOMAIN r = DOMAIN q,
         \A i \in DOMAIN q : r[i].id = q[i].id /\ r[i].of = q[i].of,
         \A i, j \in DOMAIN q : q[i].left <= q[j].left => r[i].left <= r[j].left
  PROVE  /\ InOrder(r)
         /\ \A x \in Ids, u \in Users : Has(r, x, u) <=> Has(q, x, u)
         /\ \A a, b \in Users : Ahead(q, a, b) => Ahead(r, a, b)
<1>1. \A i, j \in DOMAIN r : i < j => r[i].left <= r[j].left
  BY DEF InOrder
<1>2. \A i, j \in DOMAIN r : r[i].id = r[j].id => i = j
  BY DEF InOrder
<1>3. InOrder(r)
  BY <1>1, <1>2 DEF InOrder
<1>4. \A x \in Ids, u \in Users : Has(r, x, u) <=> Has(q, x, u)
  BY DEF Has
<1>5. \A a, b \in Users : Ahead(q, a, b) => Ahead(r, a, b)
  BY DEF Ahead
<1> QED BY <1>3, <1>4, <1>5

------------------------------------------------------------------------------
(* Holders *)

LEMMA Names ==
  /\ None \notin Conns /\ None \notin Ids
  /\ "hold" \notin Conns /\ "keep" \notin Conns
  /\ Hold \in Nat /\ Expire \in Nat /\ Interval \in Nat /\ Expire > Hold
BY NamesAssumption, TimesAssumption

LEMMA HoldersKnown ==
  ASSUME Types, Owned
  PROVE  /\ Has(timers, keepId, "keep")
         /\ \A c \in Conns : conn[c].open => Has(timers, conn[c].timer, c) /\ conn[c].timer \in Ids
         /\ held # None => Has(timers, holdId, "hold") /\ holdId \in Ids
         /\ held = None => holdId = None
         /\ \A id \in Ids, of \in Users : Has(timers, id, of) => Holder(id, of)
<1>1. "keep" \in Users /\ "hold" \in Users /\ Conns \subseteq Users
  BY DEF Users
<1>2. \A id \in Ids, of \in Users : Has(timers, id, of) <=> Holder(id, of)
  BY DEF Owned
<1>3. held # None => holdId \in Ids
  BY DEF Owned, Types
<1>4. \A c \in Conns : conn[c].open => conn[c].timer \in Ids
  BY DEF Owned
<1>5. Holder(keepId, "keep") /\ keepId \in Ids
  BY DEF Holder, Types
<1>6. held # None => Holder(holdId, "hold")
  BY DEF Holder
<1>7. \A c \in Conns : conn[c].open => Holder(conn[c].timer, c)
  BY DEF Holder
<1>8. held = None => holdId = None
  BY DEF Owned
<1> QED BY <1>1, <1>2, <1>3, <1>4, <1>5, <1>6, <1>7, <1>8

\* An id has one holder, and a holder one timer.
LEMMA OneEach ==
  ASSUME Types, Owned
  PROVE  /\ \A id, a, b : Has(timers, id, a) /\ Has(timers, id, b) => a = b
         /\ \A i, j \in DOMAIN timers : timers[i].of = timers[j].of => i = j
         /\ \A i \in DOMAIN timers : /\ timers[i].id \in Ids /\ timers[i].of \in Users
                                     /\ Has(timers, timers[i].id, timers[i].of)
<1>1. timers \in Seq(Timers)
  BY DEF Owned, InOrder
<1>2. \A i \in DOMAIN timers : timers[i] \in Timers
  BY <1>1
<1>3. \A i \in DOMAIN timers : timers[i].id \in Ids /\ timers[i].of \in Users
  BY <1>2 DEF Timers
<1>4. \A i \in DOMAIN timers : Has(timers, timers[i].id, timers[i].of)
  BY DEF Has
<1>5. \A i \in DOMAIN timers : Holder(timers[i].id, timers[i].of)
  BY <1>3, <1>4, HoldersKnown
<1>6. \A x, y, of : Holder(x, of) /\ Holder(y, of) => x = y
  BY Names DEF Holder
<1>7. \A i, j \in DOMAIN timers : timers[i].id = timers[j].id => i = j
  BY DEF Owned, InOrder
<1>8. \A i, j \in DOMAIN timers : timers[i].of = timers[j].of => i = j
  BY <1>5, <1>6, <1>7
<1>9. \A id, a, b : Has(timers, id, a) /\ Has(timers, id, b) => a = b
  BY <1>7 DEF Has
<1> QED BY <1>3, <1>4, <1>8, <1>9

LEMMA NotForeign ==
  ASSUME Types, Owned
  PROVE  /\ ~Foreign(keepId, "keep") /\ ~Foreign(holdId, "hold")
         /\ \A c \in Conns : conn[c].open => ~Foreign(conn[c].timer, c)
<1>1. \A id, of : Has(timers, id, of) => ~Foreign(id, of)
  <2> SUFFICES ASSUME NEW id, NEW of, Has(timers, id, of), Foreign(id, of) PROVE FALSE
    OBVIOUS
  <2>1. PICK i \in DOMAIN timers : timers[i].id = id /\ timers[i].of # of
    BY DEF Foreign
  <2>2. Has(timers, id, timers[i].of)
    BY <2>1 DEF Has
  <2> QED BY <2>1, <2>2, OneEach
<1>2. holdId = None => ~Foreign(holdId, "hold")
  BY OneEach, Names DEF Foreign
<1> QED BY <1>1, <1>2, HoldersKnown

\* Nothing changes who holds what.
LEMMA OwnedStays ==
  ASSUME Owned, UNCHANGED <<held, holdId, keepId>>, InOrder(timers'),
         \A id \in Ids, of \in Users : Has(timers', id, of) <=> Has(timers, id, of),
         \A c \in Conns : conn'[c].open = conn[c].open /\ conn'[c].timer = conn[c].timer
  PROVE  Owned'
<1>1. \A id \in Ids, of \in Users : Holder(id, of)' <=> Holder(id, of)
  BY DEF Holder
<1>2. \A id \in Ids, of \in Users : Has(timers', id, of) <=> Holder(id, of)'
  BY <1>1 DEF Owned
<1>3. \A c \in Conns : conn'[c].open => conn'[c].timer \in Ids
  BY DEF Owned
<1>4. (held = None <=> holdId = None)'
  BY DEF Owned
<1> QED BY <1>2, <1>3, <1>4 DEF Owned

LEMMA RunTyped ==
  ASSUME RunInv
  PROVE  run \in Seq([do : {"answer", "recv", "write", "close"}, to : Conns])
<1> DEFINE D == [do : {"answer", "recv", "write", "close"}, to : Conns]
<1> DEFINE W == {"answer", "recv", "write", "close"}  d(w, c) == [do |-> w, to |-> c]
<1>1. \A w \in W, c \in Conns : d(w, c) \in D
  OBVIOUS
<1>2. \A x, y, z \in D : <<>> \in Seq(D) /\ <<x>> \in Seq(D) /\ <<x, y>> \in Seq(D) /\ <<x, y, z>> \in Seq(D)
  OBVIOUS
<1>3. \/ run = <<>>
      \/ \E w \in W, c \in Conns : run = <<d(w, c)>>
      \/ \E w, v \in W, c \in Conns : run = <<d(w, c), d(v, c)>>
      \/ \E w, v, u \in W, c, h \in Conns : run = <<d(w, h), d(v, c), d(u, c)>>
  BY DEF RunInv
<1> HIDE DEF D, W, d
<1>4. run \in Seq(D)
  <2>1. ASSUME NEW w \in W, NEW c \in Conns, run = <<d(w, c)>> PROVE run \in Seq(D)
    BY <1>1, <1>2, <2>1
  <2>2. ASSUME NEW w \in W, NEW v \in W, NEW c \in Conns, run = <<d(w, c), d(v, c)>>
        PROVE  run \in Seq(D)
    BY <1>1, <1>2, <2>2
  <2>3. ASSUME NEW w \in W, NEW v \in W, NEW u \in W, NEW c \in Conns, NEW h \in Conns,
               run = <<d(w, h), d(v, c), d(u, c)>>
        PROVE  run \in Seq(D)
    BY <1>1, <1>2, <2>3
  <2>4. CASE run = <<>>
    BY <2>4
  <2> QED BY <1>3, <2>1, <2>2, <2>3, <2>4
<1> QED BY <1>4 DEF D

\* The invariant is the run's property.
LEMMA LoopOwns ==
  ASSUME LoopInv
  PROVE  TimersOwned
<1>1. TypeOK
  <2>1. timers \in Seq([id : Ids, of : Conns \cup {"hold", "keep"}, left : Nat, due : BOOLEAN])
    BY DEF LoopInv, Owned, InOrder, Timers, Users
  <2>2. run \in Seq([do : {"answer", "recv", "write", "close"}, to : Conns])
    BY RunTyped DEF LoopInv
  <2> QED BY <2>1, <2>2 DEF LoopInv, Types, TypeOK, Conn, Report
<1>2. OwnTimers
  <2> USE DEF LoopInv
  <2>1. \A i, j \in DOMAIN timers : timers[i].id = timers[j].id => i = j
    BY DEF Owned, InOrder
  <2>2. \A i \in DOMAIN timers :
          \/ timers[i].of = "keep" /\ keepId = timers[i].id
          \/ timers[i].of = "hold" /\ holdId = timers[i].id /\ held # None
          \/ timers[i].of \in Open /\ conn[timers[i].of].timer = timers[i].id
    BY OneEach, HoldersKnown DEF Holder, Open
  <2>3. \A id, of : Has(timers, id, of) => id \in Used
    BY DEF Has, Used
  <2>4. \A c \in Open : conn[c].timer \in Used
    BY <2>3, HoldersKnown DEF Open
  <2>5. keepId \in Used /\ (holdId # None => holdId \in Used)
    BY <2>3, HoldersKnown
  <2> QED BY <2>1, <2>2, <2>4, <2>5 DEF OwnTimers
<1>3. NoStrayId /\ StaleOnlyInBatch
  BY DEF LoopInv, Types, EventsInv, NoStrayId, StaleOnlyInBatch
<1> QED BY <1>1, <1>2, <1>3 DEF TimersOwned

------------------------------------------------------------------------------
(* The steps of the loop *)

LEMMA InitLoop ==
  ASSUME Init
  PROVE  LoopInv
<1>1. PICK id \in Ids : keepId = id /\ timers = <<Timer(id, "keep", Interval)>>
  BY DEF Init
<1>2. \A c \in Conns : conn[c] = Free
  BY DEF Init
<1>3. Types
  <2>1. conn \in [Conns -> Conn]
    BY DEF Init, Free, Conn
  <2>2. backlog \in 0 .. MaxBacklog
    BY TimesAssumption DEF Init
  <2>3. pc \in {"wait", "timers", "batch"} /\ batch \in Seq(Report)
    BY DEF Init
  <2>4. /\ ready \in [Objects -> SUBSET {"in", "out"}]
        /\ link \in [Links -> {"none", "idle", "busy"}]
    BY DEF Init
  <2>5. /\ held \in Conns \cup {None} /\ holdId \in Ids \cup {None} /\ keepId \in Ids
        /\ cut \in BOOLEAN /\ stray = FALSE /\ undefined \in BOOLEAN
    BY <1>1 DEF Init
  <2> QED BY <2>1, <2>2, <2>3, <2>4, <2>5 DEF Types
<1>4. Owned
  <2>1. Timer(id, "keep", Interval) \in Timers
    BY Names DEF Timer, Timers, Users
  <2>2. timers \in Seq(Timers) /\ DOMAIN timers = {1} /\ timers[1] = Timer(id, "keep", Interval)
    BY <1>1, <2>1
  <2>3. timers[1].left \in Nat /\ timers[1].id = id /\ timers[1].of = "keep"
    BY <2>1, <2>2 DEF Timers, Timer
  <2>4. InOrder(timers)
    BY <2>2, <2>3 DEF InOrder
  <2>5. \A x \in Ids, of \in Users : Has(timers, x, of) <=> Holder(x, of)
    <3> TAKE x \in Ids, of \in Users
    <3>1. Has(timers, x, of) <=> x = id /\ of = "keep"
      BY <2>2, <2>3 DEF Has
    <3>2. Holder(x, of) <=> x = id /\ of = "keep"
      BY <1>1, <1>2 DEF Holder, Init, Free
    <3> QED BY <3>1, <3>2
  <2> QED BY <1>2, <2>4, <2>5 DEF Owned, Init, Free
<1> QED BY <1>2, <1>3, <1>4
     DEF LoopInv, Phases, HeldInv, RunInv, EventsInv, Init, Free, Objects

LEMMA Frame ==
  ASSUME LoopInv, UNCHANGED <<timers, conn, held, holdId, keepId, run>>
  PROVE  Owned' /\ Phases' /\ HeldInv' /\ RunInv'
<1>1. Owned'
  BY DEF LoopInv, Owned, Holder
<1>2. Phases' /\ HeldInv'
  BY DEF LoopInv, Phases, HeldInv
<1>3. RunInv'
  BY DEF LoopInv, RunInv, Answering
<1> QED BY <1>1, <1>2, <1>3

LEMMA WaitEventsKeeps ==
  ASSUME LoopInv, WaitEvents
  PROVE  LoopInv'
<1> DEFINE S == {o \in Objects : ready[o] # {}}  n == Cardinality(S)
<1>1. PICK order \in SetToSeqs(S) :
        batch' = [i \in DOMAIN order |-> [of |-> order[i], on |-> ready[order[i]]]]
  BY DEF WaitEvents
<1>2. n \in Nat
  <2>1. IsFiniteSet(Objects)
    <3>1. IsFiniteSet(Conns) /\ IsFiniteSet(Links)
      BY NamesAssumption
    <3>2. IsFiniteSet(Conns \cup Links)
      BY <3>1, FS_Union
    <3> QED BY <3>2, FS_AddElement DEF Objects
  <2>2. S \subseteq Objects
    OBVIOUS
  <2> QED BY <2>1, <2>2, FS_Subset, FS_CardinalityType
<1>3. order \in [1 .. n -> S]
  BY DEF SetToSeqs
<1> HIDE DEF n
<1>4. ready \in [Objects -> SUBSET {"in", "out"}]
  BY DEF LoopInv, Types
<1>5. batch' \in [1 .. n -> Report]
  BY <1>1, <1>3, <1>4 DEF Report
<1>6. batch' \in Seq(Report)
  BY <1>2, <1>5
<1>7. \A i \in DOMAIN batch' : batch'[i].of \in S
  BY <1>1, <1>3
<1>8. Types'
  BY <1>6 DEF WaitEvents, LoopInv, Types
<1>9. EventsInv'
  <2>1. \A c \in Conns : ready'[c] = {}
    BY DEF WaitEvents, Objects
  <2>2. \A i \in DOMAIN batch' : batch'[i].of \in Conns => conn[batch'[i].of].open
    BY <1>7 DEF LoopInv, EventsInv
  <2> QED BY <2>1, <2>2 DEF WaitEvents, LoopInv, EventsInv
<1> QED BY <1>8, <1>9, Frame DEF WaitEvents, LoopInv

\* A step that keeps the timers but for what is left, and all that holds them
LEMMA TimersRun ==
  ASSUME LoopInv, UNCHANGED <<conn, held, holdId, keepId, run>>,
         timers' \in Seq(Timers), DOMAIN timers' = DOMAIN timers,
         \A i \in DOMAIN timers : timers'[i].id = timers[i].id /\ timers'[i].of = timers[i].of,
         \A i, j \in DOMAIN timers :
           timers[i].left <= timers[j].left => timers'[i].left <= timers'[j].left
  PROVE  Owned' /\ Phases' /\ HeldInv' /\ RunInv'
<1>1. InOrder(timers)
  BY DEF LoopInv, Owned
<1>2. /\ InOrder(timers')
      /\ \A x \in Ids, u \in Users : Has(timers', x, u) <=> Has(timers, x, u)
      /\ \A a, b \in Users : Ahead(timers, a, b) => Ahead(timers', a, b)
  BY <1>1, SameTimers
<1>3. Owned'
  BY <1>2, OwnedStays DEF LoopInv
<1>4. HeldInv'
  <2> SUFFICES ASSUME held # None PROVE HeldInv'
    BY DEF HeldInv
  <2>1. held \in Conns
    BY DEF LoopInv, Types
  <2>2. Ahead(timers', "hold", held)
    BY <1>2, <2>1 DEF LoopInv, HeldInv, Users
  <2> QED BY <2>2 DEF LoopInv, HeldInv
<1>5. Phases' /\ RunInv'
  BY DEF LoopInv, Phases, RunInv, Answering
<1> QED BY <1>3, <1>4, <1>5

LEMMA TimersAre ==
  ASSUME LoopInv
  PROVE  /\ timers \in Seq(Timers) /\ DOMAIN timers = 1 .. Len(timers) /\ Len(timers) \in Nat
         /\ timers = [i \in DOMAIN timers |-> timers[i]]
         /\ \A i \in DOMAIN timers :
              timers[i] \in Timers /\ timers[i].left \in Nat /\ timers[i].due \in BOOLEAN
<1>1. timers \in Seq(Timers)
  BY DEF LoopInv, Owned, InOrder
<1>2. DOMAIN timers = 1 .. Len(timers) /\ Len(timers) \in Nat
      /\ timers = [i \in DOMAIN timers |-> timers[i]]
  BY <1>1
<1>3. \A i \in DOMAIN timers : timers[i] \in Timers
  BY <1>1
<1> QED BY <1>1, <1>2, <1>3 DEF Timers

LEMMA WaitNothingKeeps ==
  ASSUME LoopInv, WaitNothing
  PROVE  LoopInv'
<1> DEFINE t(i) == [timers[i] EXCEPT !.due = (timers[i].left = 0)]
<1>1. \A i \in DOMAIN timers : /\ t(i) \in Timers /\ t(i).id = timers[i].id
                               /\ t(i).of = timers[i].of /\ t(i).left = timers[i].left
  BY TimersAre DEF Timers
<1>2. timers' = [i \in DOMAIN timers |-> t(i)]
  BY DEF WaitNothing
<1> HIDE DEF t
<1>3. DOMAIN timers' = DOMAIN timers /\ timers' \in Seq(Timers)
      /\ \A i \in DOMAIN timers : /\ timers'[i].id = timers[i].id /\ timers'[i].of = timers[i].of
                                  /\ timers'[i].left = timers[i].left
  BY <1>1, <1>2, TimersAre
<1>4. Owned' /\ Phases' /\ HeldInv' /\ RunInv'
  BY <1>3, TimersRun DEF WaitNothing
<1>5. Types' /\ EventsInv'
  BY DEF WaitNothing, LoopInv, Types, EventsInv
<1> QED BY <1>4, <1>5 DEF LoopInv

LEMMA TickKeeps ==
  ASSUME LoopInv, Tick
  PROVE  LoopInv'
<1> DEFINE t(i) == [timers[i] EXCEPT !.left = IF @ = 0 THEN 0 ELSE @ - 1]
<1>1. \A i \in DOMAIN timers :
        /\ t(i) \in Timers /\ t(i).id = timers[i].id /\ t(i).of = timers[i].of
        /\ t(i).left = IF timers[i].left = 0 THEN 0 ELSE timers[i].left - 1
  BY TimersAre DEF Timers
<1>2. timers' = [i \in DOMAIN timers |-> t(i)]
  BY DEF Tick
<1> HIDE DEF t
<1>3. DOMAIN timers' = DOMAIN timers /\ timers' \in Seq(Timers)
      /\ \A i \in DOMAIN timers :
           /\ timers'[i].id = timers[i].id /\ timers'[i].of = timers[i].of
           /\ timers'[i].left = IF timers[i].left = 0 THEN 0 ELSE timers[i].left - 1
  BY <1>1, <1>2, TimersAre
<1>4. \A i, j \in DOMAIN timers :
        timers[i].left <= timers[j].left => timers'[i].left <= timers'[j].left
  BY <1>3, TimersAre
<1>5. Owned' /\ Phases' /\ HeldInv' /\ RunInv'
  BY <1>3, <1>4, TimersRun DEF Tick
<1>6. Types' /\ EventsInv'
  BY DEF Tick, LoopInv, Types, EventsInv
<1> QED BY <1>5, <1>6 DEF LoopInv

\* Steps that leave the timers, the server connections and the callback alone
LEMMA OthersKeep ==
  ASSUME LoopInv,
         Again \/ KeepAliveFails \/ PeerConnects \/ (\E c \in Conns : Stale(c))
           \/ \E l \in Links : LinkRead(l) \/ LinkActs(l)
  PROVE  LoopInv'
<1>1. CASE Again
  <2>1. Types' /\ EventsInv'
    BY <1>1 DEF Again, LoopInv, Types, EventsInv
  <2> QED BY <1>1, <2>1, Frame DEF Again, LoopInv
<1>2. CASE KeepAliveFails
  <2>1. UNCHANGED vars
    BY <1>2 DEF KeepAliveFails
  <2>2. Types' /\ EventsInv'
    BY <2>1 DEF vars, LoopInv, Types, EventsInv
  <2> QED BY <2>1, <2>2, Frame DEF vars, LoopInv
<1>3. CASE PeerConnects
  <2>1. ready' \in [Objects -> SUBSET {"in", "out"}] /\ \A c \in Conns : ready'[c] = ready[c]
    BY <1>3, NamesAssumption DEF PeerConnects, LoopInv, Types, Objects
  <2>2. backlog' \in 0 .. MaxBacklog
    BY <1>3, TimesAssumption DEF PeerConnects, LoopInv, Types
  <2>3. Types' /\ EventsInv'
    BY <1>3, <2>1, <2>2 DEF PeerConnects, Now, LoopInv, Types, EventsInv
  <2> QED BY <1>3, <2>3, Frame DEF PeerConnects, LoopInv
<1>4. ASSUME NEW c \in Conns, Stale(c) PROVE LoopInv'
  <2>1. batch # <<>> /\ batch \in Seq(Report) /\ batch[1].of = c /\ ~conn[c].open
    BY <1>4 DEF Stale, Event, LoopInv, Types
  <2>2. 1 \in DOMAIN batch
    BY <2>1
  <2>3. cut
    BY <2>1, <2>2 DEF LoopInv, EventsInv
  <2>4. Types' /\ EventsInv'
    BY <1>4, <2>3 DEF Stale, Event, LoopInv, Types, EventsInv
  <2> QED BY <1>4, <2>4, Frame DEF Stale, LoopInv
<1>5. ASSUME NEW l \in Links, LinkRead(l) PROVE LoopInv'
  <2>1. batch # <<>> /\ batch \in Seq(Report) /\ batch' = Tail(batch) /\ pc = "batch" /\ ~undefined
    BY <1>5 DEF LinkRead, Event, LoopInv, Types
  <2>2. batch' \in Seq(Report) /\ \A i \in DOMAIN batch' : i + 1 \in DOMAIN batch /\ batch'[i] = batch[i + 1]
    BY <2>1
  <2>3. link' \in [Links -> {"none", "idle", "busy"}]
    BY <1>5 DEF LinkRead, LoopInv, Types
  <2>4. Types'
    BY <1>5, <2>2, <2>3 DEF LinkRead, LoopInv, Types
  <2>5. EventsInv'
    BY <1>5, <2>1, <2>2 DEF LinkRead, LoopInv, EventsInv
  <2> QED BY <1>5, <2>4, <2>5, Frame DEF LinkRead, LoopInv
<1>6. ASSUME NEW l \in Links, LinkActs(l) PROVE LoopInv'
  <2>1. ready' \in [Objects -> SUBSET {"in", "out"}] /\ \A c \in Conns : ready'[c] = ready[c]
    BY <1>6, NamesAssumption DEF LinkActs, LoopInv, Types, Objects
  <2>2. Types' /\ EventsInv'
    BY <1>6, <2>1 DEF LinkActs, LoopInv, Types, EventsInv
  <2> QED BY <1>6, <2>2, Frame DEF LinkActs, LoopInv
<1> QED BY <1>1, <1>2, <1>3, <1>4, <1>5, <1>6

\* What the peer does shows in no field that the invariant needs.
LEMMA PeerActsKeeps ==
  ASSUME LoopInv, NEW c \in Conns, PeerActs(c)
  PROVE  LoopInv'
<1>1. c \in Objects /\ ready \in [Objects -> SUBSET {"in", "out"}] /\ conn \in [Conns -> Conn]
  BY DEF LoopInv, Types, Objects
<1>2. ready' \in [Objects -> SUBSET {"in", "out"}] /\ \A x \in Conns : x # c => ready'[x] = ready[x]
  BY <1>1 DEF PeerActs, Objects
<1>3. /\ conn' \in [Conns -> Conn]
      /\ \A x \in Conns : /\ conn'[x].open = conn[x].open /\ conn'[x].phase = conn[x].phase
                          /\ conn'[x].task = conn[x].task /\ conn'[x].write = conn[x].write
                          /\ conn'[x].timer = conn[x].timer
  <2>1. \A w \in {"poll", "command"} :
          /\ [conn EXCEPT ![c].sent = w] \in [Conns -> Conn]
          /\ \A x \in Conns :
               /\ [conn EXCEPT ![c].sent = w][x].open = conn[x].open
               /\ [conn EXCEPT ![c].sent = w][x].phase = conn[x].phase
               /\ [conn EXCEPT ![c].sent = w][x].task = conn[x].task
               /\ [conn EXCEPT ![c].sent = w][x].write = conn[x].write
               /\ [conn EXCEPT ![c].sent = w][x].timer = conn[x].timer
    BY <1>1 DEF Conn
  <2>2. /\ [conn EXCEPT ![c].left = TRUE] \in [Conns -> Conn]
        /\ \A x \in Conns :
             /\ [conn EXCEPT ![c].left = TRUE][x].open = conn[x].open
             /\ [conn EXCEPT ![c].left = TRUE][x].phase = conn[x].phase
             /\ [conn EXCEPT ![c].left = TRUE][x].task = conn[x].task
             /\ [conn EXCEPT ![c].left = TRUE][x].write = conn[x].write
             /\ [conn EXCEPT ![c].left = TRUE][x].timer = conn[x].timer
    BY <1>1 DEF Conn
  <2>3. \/ \E w \in {"poll", "command"} : conn' = [conn EXCEPT ![c].sent = w]
        \/ conn' = [conn EXCEPT ![c].left = TRUE]
        \/ conn' = conn
    BY DEF PeerActs
  <2>4. ASSUME NEW w \in {"poll", "command"}, conn' = [conn EXCEPT ![c].sent = w] PROVE <1>3!:
    BY <2>1, <2>4
  <2>5. CASE conn' = [conn EXCEPT ![c].left = TRUE]
    BY <2>2, <2>5
  <2>6. CASE conn' = conn
    BY <1>1, <2>6
  <2> QED BY <2>3, <2>4, <2>5, <2>6
<1>4. UNCHANGED <<pc, batch, timers, link, held, holdId, keepId, backlog, run, cut, stray, undefined>>
  BY DEF PeerActs
<1>5. Owned'
  BY <1>3, <1>4, OwnedStays DEF LoopInv, Owned
<1>6. Phases'
  BY <1>3 DEF LoopInv, Phases
<1>7. HeldInv'
  BY <1>3, <1>4 DEF LoopInv, HeldInv, Types
<1>8. RunInv'
  <2>1. \A x \in Conns : Answering(x)' <=> Answering(x)
    BY <1>3, <1>4 DEF Answering
  <2> QED BY <1>3, <1>4, <2>1 DEF LoopInv, RunInv
<1>9. Types'
  BY <1>2, <1>3, <1>4 DEF LoopInv, Types
<1>10. EventsInv'
  <2>1. conn[c].open
    BY DEF PeerActs
  <2> QED BY <1>2, <1>3, <1>4, <2>1 DEF LoopInv, EventsInv
<1> QED BY <1>5, <1>6, <1>7, <1>8, <1>9, <1>10 DEF LoopInv

\* A connection goes with its timer, and no other's.
LEMMA FreedKeeps ==
  ASSUME LoopInv, NEW c \in Conns, conn[c].open, c # held, Freed(c),
         UNCHANGED <<held, holdId, keepId>>
  PROVE  /\ Owned' /\ Phases' /\ HeldInv' /\ stray' = FALSE
         /\ conn' \in [Conns -> Conn] /\ ~conn'[c].open
         /\ \A x \in Conns : x # c => conn'[x] = conn[x]
         /\ ready' \in [Objects -> SUBSET {"in", "out"}] /\ ready'[c] = {}
         /\ \A x \in Conns : x # c => ready'[x] = ready[x]
         /\ cut' \in BOOLEAN /\ (cut => cut')
         /\ \A i \in DOMAIN batch : batch[i].of = c => cut'
<1>1. conn \in [Conns -> Conn] /\ ready \in [Objects -> SUBSET {"in", "out"}] /\ c \in Objects
      /\ cut \in BOOLEAN /\ stray = FALSE /\ held \in Conns \cup {None} /\ Types /\ Owned
  BY DEF LoopInv, Types, Objects
<1>2. conn' = [conn EXCEPT ![c] = Free] /\ Free \in Conn /\ ~Free.open
  BY DEF Freed, Free, Conn
<1>3. /\ conn' \in [Conns -> Conn] /\ ~conn'[c].open
      /\ \A x \in Conns : x # c => conn'[x] = conn[x]
  BY <1>1, <1>2
<1>4. /\ ready' \in [Objects -> SUBSET {"in", "out"}] /\ ready'[c] = {}
      /\ \A x \in Conns : x # c => ready'[x] = ready[x]
  BY <1>1 DEF Freed, Objects
<1>5. /\ cut' \in BOOLEAN /\ (cut => cut')
      /\ \A i \in DOMAIN batch : batch[i].of = c => cut'
  BY <1>1 DEF Freed
<1>6. stray' = FALSE
  BY <1>1, NotForeign DEF Freed
<1>7. timers' = Deleted(timers, conn[c].timer)
  BY DEF Freed
<1>8. InOrder(timers)
  BY <1>1 DEF Owned
<1> DEFINE id == conn[c].timer
<1>9. id \in Ids /\ Has(timers, id, c)
  BY <1>1, HoldersKnown
<1> HIDE DEF id
<1>10. /\ InOrder(timers')
       /\ \A x \in Ids, of \in Users : Has(timers', x, of) <=> Has(timers, x, of) /\ x # id
       /\ \A a, b \in Users : Ahead(timers, a, b) /\ ~Has(timers, id, a) /\ ~Has(timers, id, b)
                                => Ahead(timers', a, b)
  BY <1>7, <1>8, DeletedSafe DEF id
<1>11. \A of : Has(timers, id, of) => of = c
  BY <1>1, <1>9, OneEach
<1>12. ASSUME NEW x \in Ids, NEW of \in Users PROVE Has(timers', x, of) <=> Holder(x, of)'
  <2>1. Has(timers, x, of) <=> Holder(x, of)
    BY <1>1 DEF Owned
  <2>2. CASE of = c
    <3>1. ~Holder(x, of)'
      BY <1>3, <2>2, Names DEF Holder
    <3>2. Holder(x, of) => x = id
      BY <2>2, Names DEF Holder, id
    <3> QED BY <1>10, <2>1, <3>1, <3>2
  <2>3. CASE of # c
    <3>1. Holder(x, of)' <=> Holder(x, of)
      BY <1>3, <2>3 DEF Holder
    <3>2. Has(timers, x, of) => x # id
      BY <1>11, <2>3
    <3> QED BY <1>10, <2>1, <3>1, <3>2
  <2> QED BY <2>2, <2>3
<1>13. Owned'
  <2>1. \A x \in Conns : conn'[x].open => conn'[x].timer \in Ids
    BY <1>1, <1>3 DEF Owned
  <2>2. (held = None <=> holdId = None)'
    BY <1>1 DEF Owned
  <2> QED BY <1>10, <1>12, <2>1, <2>2 DEF Owned
<1>14. Phases'
  BY <1>3 DEF LoopInv, Phases
<1>15. HeldInv'
  <2> SUFFICES ASSUME held # None PROVE HeldInv'
    BY DEF HeldInv
  <2>1. held \in Conns /\ held # c /\ held \in Users /\ "hold" \in Users /\ "hold" # c
    BY <1>1, Names DEF Users
  <2>2. Ahead(timers', "hold", held)
    BY <1>10, <1>11, <2>1 DEF LoopInv, HeldInv
  <2> QED BY <1>3, <2>1, <2>2 DEF LoopInv, HeldInv
<1> QED BY <1>3, <1>4, <1>5, <1>6, <1>13, <1>14, <1>15

\* The events of the batch after a connection was freed
LEMMA FreedEvents ==
  ASSUME LoopInv, NEW c \in Conns, UNCHANGED <<pc, batch, undefined>>, pc = "wait" => run' = <<>>,
         ~conn'[c].open, \A x \in Conns : x # c => conn'[x] = conn[x],
         ready'[c] = {}, \A x \in Conns : x # c => ready'[x] = ready[x],
         cut => cut', \A i \in DOMAIN batch : batch[i].of = c => cut'
  PROVE  EventsInv'
<1>1. \A x \in Conns : ready'[x] # {} => conn'[x].open
  BY DEF LoopInv, EventsInv
<1>2. \A i \in DOMAIN batch' : batch'[i].of \in Conns => conn'[batch'[i].of].open \/ cut'
  BY DEF LoopInv, EventsInv
<1> QED BY <1>1, <1>2 DEF LoopInv, EventsInv

LEMMA AtTurn ==
  ASSUME LoopInv, NEW of, Turn(of)
  PROVE  1 \in DOMAIN timers /\ timers[1].of = of /\ of \in Users /\ Has(timers, timers[1].id, of)
         /\ Holder(timers[1].id, of)
<1>1. 1 \in DOMAIN timers /\ timers[1].of = of
  BY TimersAre DEF Turn
<1>2. of \in Users /\ Has(timers, timers[1].id, of) /\ timers[1].id \in Ids
  BY <1>1, OneEach DEF LoopInv
<1> QED BY <1>1, <1>2, HoldersKnown DEF LoopInv

\* The poll that is held comes to its end before the connection does.
LEMMA SecureKeeps ==
  ASSUME LoopInv, NEW c \in Conns, Secure(c)
  PROVE  LoopInv'
<1>1. Turn(c) /\ run = <<>> /\ pc = "timers"
  BY DEF Secure, Turn
<1>2. conn[c].open
  BY <1>1, AtTurn, Names DEF Holder
<1>3. c # held
  <2> SUFFICES ASSUME c = held PROVE FALSE
    OBVIOUS
  <2>1. PICK i \in DOMAIN timers, j \in DOMAIN timers :
          i < j /\ timers[i].of = "hold" /\ timers[j].of = c
    BY Names DEF LoopInv, HeldInv, Ahead
  <2>2. j = 1
    BY <1>1, <2>1, AtTurn, OneEach DEF LoopInv
  <2> QED BY <2>1, <2>2, TimersAre
<1>4. Freed(c) /\ UNCHANGED <<pc, batch, link, held, holdId, keepId, backlog, run, undefined>>
  BY <1>2 DEF Secure
<1>5. EventsInv'
  BY <1>1, <1>2, <1>3, <1>4, FreedKeeps, FreedEvents
<1>6. RunInv'
  BY <1>1, <1>4 DEF RunInv
<1>7. Types'
  BY <1>2, <1>3, <1>4, FreedKeeps DEF LoopInv, Types
<1> QED BY <1>2, <1>3, <1>4, <1>5, <1>6, <1>7, FreedKeeps DEF LoopInv

LEMMA CloseKeeps ==
  ASSUME LoopInv, Close
  PROVE  LoopInv'
<1>1. PICK c \in Conns : run = <<[do |-> "close", to |-> c]>> /\ conn[c].open
  BY DEF Close, Doing, LoopInv, RunInv
<1>2. Destroyed(c) /\ run' = <<>>
      /\ UNCHANGED <<pc, batch, link, held, holdId, keepId, backlog, undefined>>
  BY <1>1 DEF Close
<1>3. RunInv'
  BY <1>2 DEF RunInv
<1>4. CASE conn[c].phase = 1
  <2>1. conn' = [conn EXCEPT ![c].destroy = 1] /\ UNCHANGED <<timers, stray, ready, cut>>
    BY <1>2, <1>4 DEF Destroyed
  <2>2. conn \in [Conns -> Conn]
    BY DEF LoopInv, Types
  <2>3. /\ conn' \in [Conns -> Conn]
        /\ \A x \in Conns : /\ conn'[x].open = conn[x].open /\ conn'[x].phase = conn[x].phase
                            /\ conn'[x].task = conn[x].task /\ conn'[x].write = conn[x].write
                            /\ conn'[x].timer = conn[x].timer
    BY <2>1, <2>2 DEF Conn
  <2>4. Owned'
    BY <1>2, <2>1, <2>3, OwnedStays DEF LoopInv, Owned
  <2>5. Phases'
    BY <2>3 DEF LoopInv, Phases
  <2>6. HeldInv'
    BY <1>2, <2>1, <2>3 DEF LoopInv, HeldInv, Types
  <2>7. Types'
    BY <1>2, <2>1, <2>3 DEF LoopInv, Types
  <2>8. EventsInv'
    BY <1>2, <2>1, <2>3 DEF LoopInv, EventsInv
  <2> QED BY <1>3, <2>4, <2>5, <2>6, <2>7, <2>8 DEF LoopInv
<1>5. CASE conn[c].phase # 1
  <2>1. Freed(c)
    BY <1>2, <1>5 DEF Destroyed
  <2>2. c # held
    BY <1>5, Names DEF LoopInv, HeldInv
  <2>3. EventsInv'
    BY <1>1, <1>2, <2>1, <2>2, FreedKeeps, FreedEvents
  <2>4. Types'
    BY <1>1, <1>2, <2>1, <2>2, FreedKeeps DEF LoopInv, Types
  <2> QED BY <1>1, <1>2, <1>3, <2>1, <2>2, <2>3, <2>4, FreedKeeps DEF LoopInv
<1> QED BY <1>4, <1>5

LEMMA WriteKeeps ==
  ASSUME LoopInv, Write
  PROVE  LoopInv'
<1>1. PICK h \in Conns :
        /\ Head(run).to = h /\ conn[h].open /\ conn[h].task
        /\ \/ Tail(run) = <<>>
           \/ \E c \in Conns : /\ Tail(run) = <<[do |-> "answer", to |-> c], [do |-> "recv", to |-> c]>>
                               /\ c # h /\ Answering(c) /\ conn[c].write = 0
  <2>1. CASE \E c \in Conns : run = <<[do |-> "write", to |-> c]>> /\ conn[c].open /\ conn[c].task
    BY <2>1
  <2>2. ASSUME NEW c \in Conns, NEW h \in Conns,
               run = <<[do |-> "write", to |-> h], [do |-> "answer", to |-> c],
                       [do |-> "recv", to |-> c]>>,
               conn[h].open, conn[h].task, h # c, Answering(c), conn[c].write = 0
        PROVE  /\ Head(run).to = h /\ conn[h].open /\ conn[h].task
               /\ \E x \in Conns :
                    /\ Tail(run) = <<[do |-> "answer", to |-> x], [do |-> "recv", to |-> x]>>
                    /\ x # h /\ Answering(x) /\ conn[x].write = 0
    BY <2>2
  <2>3. run # <<>> /\ Head(run).do = "write"
    BY DEF Write, Doing
  <2> QED BY <2>1, <2>2, <2>3 DEF LoopInv, RunInv
<1>2. Finished(h) /\ run' = Tail(run)
      /\ UNCHANGED <<pc, batch, link, held, holdId, keepId, backlog, undefined>>
  BY <1>1 DEF Write
<1>3. h # held
  BY <1>1, Names DEF LoopInv, HeldInv
<1>4. pc # "wait"
  BY DEF LoopInv, EventsInv, Write, Doing
<1>5. (\A x \in Conns : x # h => conn'[x] = conn[x]) => RunInv'
  <2> SUFFICES ASSUME \A x \in Conns : x # h => conn'[x] = conn[x] PROVE RunInv'
    OBVIOUS
  <2>1. CASE Tail(run) = <<>>
    BY <1>2, <2>1 DEF RunInv
  <2>2. ASSUME NEW c \in Conns, c # h, Answering(c), conn[c].write = 0,
               Tail(run) = <<[do |-> "answer", to |-> c], [do |-> "recv", to |-> c]>>
        PROVE  RunInv'
    <3>1. Answering(c)' /\ conn'[c].write = 0
      BY <1>2, <2>2 DEF Answering
    <3> QED BY <1>2, <2>2, <3>1 DEF RunInv
  <2> QED BY <1>1, <2>1, <2>2
<1>6. CASE Freed(h)
  <2>1. EventsInv'
    BY <1>1, <1>2, <1>3, <1>4, <1>6, FreedKeeps, FreedEvents
  <2>2. Types'
    BY <1>1, <1>2, <1>3, <1>6, FreedKeeps DEF LoopInv, Types
  <2> QED BY <1>1, <1>2, <1>3, <1>5, <1>6, <2>1, <2>2, FreedKeeps DEF LoopInv
<1>7. CASE /\ conn' = [conn EXCEPT ![h].phase = 0, ![h].write = 0, ![h].task = FALSE]
           /\ UNCHANGED <<timers, stray, ready, cut>>
  <2>1. conn \in [Conns -> Conn]
    BY DEF LoopInv, Types
  <2>2. /\ conn' \in [Conns -> Conn] /\ conn'[h].write = 0 /\ ~conn'[h].task
        /\ conn'[h].open = conn[h].open /\ conn'[h].timer = conn[h].timer
        /\ \A x \in Conns : x # h => conn'[x] = conn[x]
    <3>1. conn[h] \in Conn
      BY <2>1
    <3>4. [conn[h] EXCEPT !.phase = 0, !.write = 0, !.task = FALSE] \in Conn
      <4>1. [conn[h] EXCEPT !.phase = 0] \in Conn
        BY <3>1 DEF Conn
      <4>2. [[conn[h] EXCEPT !.phase = 0] EXCEPT !.write = 0] \in Conn
        BY <4>1 DEF Conn
      <4>3. [[[conn[h] EXCEPT !.phase = 0] EXCEPT !.write = 0] EXCEPT !.task = FALSE] \in Conn
        BY <4>2 DEF Conn
      <4> QED BY <4>3
    <3>2. /\ [conn[h] EXCEPT !.phase = 0, !.write = 0, !.task = FALSE].write = 0
          /\ ~[conn[h] EXCEPT !.phase = 0, !.write = 0, !.task = FALSE].task
          /\ [conn[h] EXCEPT !.phase = 0, !.write = 0, !.task = FALSE].open = conn[h].open
          /\ [conn[h] EXCEPT !.phase = 0, !.write = 0, !.task = FALSE].timer = conn[h].timer
      BY <3>1 DEF Conn
    <3>3. conn' = [conn EXCEPT ![h] = [conn[h] EXCEPT !.phase = 0, !.write = 0, !.task = FALSE]]
      BY <1>7, <2>1
    <3> QED BY <2>1, <3>2, <3>3, <3>4
  <2>3. Owned'
    BY <1>2, <1>7, <2>2, OwnedStays DEF LoopInv, Owned
  <2>4. Phases'
    BY <2>2 DEF LoopInv, Phases
  <2>5. HeldInv'
    BY <1>2, <1>3, <1>7, <2>2 DEF LoopInv, HeldInv, Types
  <2>6. Types'
    BY <1>2, <1>7, <2>2 DEF LoopInv, Types
  <2>7. EventsInv'
    BY <1>2, <1>4, <1>7, <2>2 DEF LoopInv, EventsInv
  <2> QED BY <1>5, <2>2, <2>3, <2>4, <2>5, <2>6, <2>7 DEF LoopInv
<1> QED BY <1>2, <1>6, <1>7 DEF Finished

\* Changes of fields that say nothing of who holds a timer
LEMMA FieldsKeep ==
  ASSUME LoopInv, NEW c \in Conns, conn' \in [Conns -> Conn],
         \A x \in Conns : x # c => conn'[x] = conn[x],
         conn'[c].open = conn[c].open, conn'[c].timer = conn[c].timer,
         conn'[c].phase = conn[c].phase,
         conn[c].phase = 1 \/ (conn'[c].write = conn[c].write /\ conn'[c].task = conn[c].task),
         c = held => conn'[c].task = conn[c].task,
         UNCHANGED <<pc, ready, timers, link, held, holdId, keepId, backlog, cut, stray, undefined>>
  PROVE  Owned' /\ Phases' /\ HeldInv' /\ (batch' = batch \/ batch' \in Seq(Report) => Types')
<1>1. \A x \in Conns : conn'[x].open = conn[x].open /\ conn'[x].timer = conn[x].timer
  OBVIOUS
<1>2. Owned'
  BY <1>1, OwnedStays DEF LoopInv, Owned
<1>3. Phases'
  <2> SUFFICES ASSUME NEW x \in Conns, conn'[x].open, conn'[x].phase = 0
               PROVE  conn'[x].write = 0 /\ ~conn'[x].task
    BY DEF Phases
  <2>1. CASE x = c
    BY <2>1 DEF LoopInv, Phases
  <2>2. CASE x # c
    BY <2>2 DEF LoopInv, Phases
  <2> QED BY <2>1, <2>2
<1>4. HeldInv'
  <2> SUFFICES ASSUME held # None PROVE HeldInv'
    BY DEF HeldInv
  <2>1. held \in Conns
    BY DEF LoopInv, Types
  <2>2. CASE held = c
    BY <2>2 DEF LoopInv, HeldInv
  <2>3. CASE held # c
    BY <2>1, <2>3 DEF LoopInv, HeldInv
  <2> QED BY <2>2, <2>3
<1>5. batch' = batch \/ batch' \in Seq(Report) => Types'
  BY DEF LoopInv, Types
<1> QED BY <1>2, <1>3, <1>4, <1>5

LEMMA Glued ==
  /\ \A a : <<a>> \o <<>> = <<a>>
  /\ \A a, b : <<a>> \o <<b>> = <<a, b>>
  /\ \A a, b, c : <<a>> \o <<b, c>> = <<a, b, c>>
<1>1. \A a : <<a>> \o <<>> = <<a>>
  OBVIOUS
<1>2. ASSUME NEW a, NEW b PROVE <<a>> \o <<b>> = <<a, b>>
  <2> DEFINE s == <<a>> \o <<b>>
  <2>1. <<a>> \in Seq({a, b}) /\ <<b>> \in Seq({a, b})
    OBVIOUS
  <2>2. /\ s \in Seq({a, b}) /\ Len(s) = Len(<<a>>) + Len(<<b>>)
        /\ \A i \in 1 .. Len(<<a>>) : s[i] = <<a>>[i]
        /\ \A i \in 1 .. Len(<<b>>) : s[Len(<<a>>) + i] = <<b>>[i]
    BY <2>1, Joined
  <2> HIDE DEF s
  <2>5. Len(<<a>>) = 1 /\ Len(<<b>>) = 1 /\ <<a>>[1] = a /\ <<b>>[1] = b
    OBVIOUS
  <2>3. s \in Seq({a, b}) /\ Len(s) = 2 /\ s[1] = a /\ s[2] = b
    <3>1. 1 \in 1 .. Len(<<a>>) /\ 1 \in 1 .. Len(<<b>>) /\ Len(<<a>>) + 1 = 2
      BY <2>5
    <3> QED BY <2>2, <2>5, <3>1
  <2>4. s = <<a, b>>
    BY <2>3
  <2> QED BY <2>4 DEF s
<1>3. ASSUME NEW a, NEW b, NEW c PROVE <<a>> \o <<b, c>> = <<a, b, c>>
  <2> DEFINE s == <<a>> \o <<b, c>>
  <2>1. <<a>> \in Seq({a, b, c}) /\ <<b, c>> \in Seq({a, b, c})
    OBVIOUS
  <2>2. /\ s \in Seq({a, b, c}) /\ Len(s) = Len(<<a>>) + Len(<<b, c>>)
        /\ \A i \in 1 .. Len(<<a>>) : s[i] = <<a>>[i]
        /\ \A i \in 1 .. Len(<<b, c>>) : s[Len(<<a>>) + i] = <<b, c>>[i]
    BY <2>1, Joined
  <2> HIDE DEF s
  <2>3. s \in Seq({a, b, c}) /\ Len(s) = 3 /\ s[1] = a /\ s[2] = b /\ s[3] = c
    BY <2>2
  <2>4. s = <<a, b, c>>
    BY <2>3
  <2> QED BY <2>4 DEF s
<1> QED BY <1>1, <1>2, <1>3

LEMMA GluedThree ==
  ASSUME NEW a, NEW b, NEW c
  PROVE  <<a>> \o <<b>> \o <<c>> = <<a, b, c>>
<1>1. <<a>> \o <<b>> = <<a, b>>
  BY Glued
<1>2. <<a, b>> \o <<c>> = <<a, b, c>>
  <2> DEFINE s == <<a, b>> \o <<c>>
  <2>1. <<a, b>> \in Seq({a, b, c}) /\ <<c>> \in Seq({a, b, c})
    OBVIOUS
  <2>2. /\ s \in Seq({a, b, c}) /\ Len(s) = Len(<<a, b>>) + Len(<<c>>)
        /\ \A i \in 1 .. Len(<<a, b>>) : s[i] = <<a, b>>[i]
        /\ \A i \in 1 .. Len(<<c>>) : s[Len(<<a, b>>) + i] = <<c>>[i]
    BY <2>1, Joined
  <2> HIDE DEF s
  <2>3. s \in Seq({a, b, c}) /\ Len(s) = 3 /\ s[1] = a /\ s[2] = b /\ s[3] = c
    BY <2>2
  <2>4. s = <<a, b, c>>
    BY <2>3
  <2> QED BY <2>4 DEF s
<1> QED BY ONLY <1>1, <1>2, Zenon

LEMMA AppAnswersKeeps ==
  ASSUME LoopInv, AppAnswers
  PROVE  LoopInv'
<1>1. run # <<>> /\ Head(run).do = "answer"
  BY DEF AppAnswers, Doing
<1>2. conn \in [Conns -> Conn]
  BY DEF LoopInv, Types
<1> DEFINE Said(c) ==
      /\ conn' = [conn EXCEPT ![c].task = TRUE]
      /\ run' = IF conn[c].write = 1 THEN <<[do |-> "write", to |-> c]>> \o Tail(run) ELSE Tail(run)
      /\ UNCHANGED <<pc, batch, ready, timers, link, held, holdId, keepId, backlog, cut, stray,
                     undefined>>
<1>3. ASSUME NEW c \in Conns, Answering(c), Head(run).to = c PROVE Said(c)
  BY <1>3 DEF AppAnswers, Answering
<1>4. ASSUME NEW c \in Conns, Answering(c), Said(c), RunInv' PROVE LoopInv'
  <2>1. /\ conn' \in [Conns -> Conn] /\ conn'[c].open = conn[c].open
        /\ conn'[c].timer = conn[c].timer /\ conn'[c].phase = conn[c].phase
        /\ \A x \in Conns : x # c => conn'[x] = conn[x]
    BY <1>2, <1>4 DEF Conn
  <2>2. conn[c].phase = 1 /\ c # held
    BY <1>4 DEF Answering
  <2>3. Owned' /\ Phases' /\ HeldInv' /\ Types'
    BY <1>4, <2>1, <2>2, FieldsKeep
  <2>4. EventsInv'
    <3>1. pc # "wait"
      BY <1>1 DEF LoopInv, EventsInv
    <3> QED BY <1>4, <2>1, <3>1 DEF LoopInv, EventsInv
  <2> QED BY <1>4, <2>3, <2>4 DEF LoopInv
<1>5. ASSUME NEW c \in Conns, Said(c), Answering(c)
      PROVE  conn'[c].open /\ conn'[c].task /\ conn'[c].phase = 1
             /\ \A x \in Conns : x # c => conn'[x] = conn[x]
  BY <1>2, <1>5 DEF Answering, Conn
<1>6. ASSUME NEW c \in Conns, run = <<[do |-> "answer", to |-> c]>>, Answering(c) PROVE LoopInv'
  <2>1. Said(c) /\ Tail(run) = <<>>
    <3>1. Head(run).to = c /\ Tail(run) = <<>>
      BY <1>6
    <3> QED BY <1>3, <1>6, <3>1
  <2>2. run' = <<>> \/ run' = <<[do |-> "write", to |-> c]>>
    BY <2>1, Glued
  <2>3. RunInv'
    BY <1>5, <1>6, <2>1, <2>2 DEF RunInv
  <2> QED BY <1>4, <1>6, <2>1, <2>3
<1>7. ASSUME NEW c \in Conns, Answering(c), conn[c].write = 0,
             run = <<[do |-> "answer", to |-> c], [do |-> "recv", to |-> c]>>
      PROVE  LoopInv'
  <2>1. Said(c) /\ Tail(run) = <<[do |-> "recv", to |-> c]>>
    <3>1. Head(run).to = c /\ Tail(run) = <<[do |-> "recv", to |-> c]>>
      BY <1>7
    <3> QED BY <1>3, <1>7, <3>1
  <2>2. run' = <<[do |-> "recv", to |-> c]>>
    BY <1>7, <2>1
  <2>3. RunInv'
    BY <1>5, <1>7, <2>1, <2>2 DEF RunInv
  <2> QED BY <1>4, <1>7, <2>1, <2>3
<1>8. ASSUME NEW c \in Conns, NEW h \in Conns, h # c, Answering(h), Answering(c), conn[c].write = 0,
             run = <<[do |-> "answer", to |-> h], [do |-> "answer", to |-> c],
                     [do |-> "recv", to |-> c]>>
      PROVE  LoopInv'
  <2>1. Said(h) /\ Tail(run) = <<[do |-> "answer", to |-> c], [do |-> "recv", to |-> c]>>
    <3>1. /\ Head(run).to = h
          /\ Tail(run) = <<[do |-> "answer", to |-> c], [do |-> "recv", to |-> c]>>
      BY <1>8
    <3> QED BY <1>3, <1>8, <3>1
  <2>2. \/ run' = <<[do |-> "answer", to |-> c], [do |-> "recv", to |-> c]>>
        \/ run' = <<[do |-> "write", to |-> h], [do |-> "answer", to |-> c],
                    [do |-> "recv", to |-> c]>>
    BY <2>1, Glued
  <2>3. conn'[h].open /\ conn'[h].task /\ conn'[c] = conn[c] /\ held' = held
    BY <1>5, <1>8, <2>1
  <2>4. Answering(c)' /\ conn'[c].write = 0
    BY <1>8, <2>3 DEF Answering
  <2>5. RunInv'
    BY <1>8, <2>2, <2>3, <2>4 DEF RunInv
  <2> QED BY <1>4, <1>8, <2>1, <2>5
<1> QED BY <1>1, <1>6, <1>7, <1>8 DEF LoopInv, RunInv

LEMMA RecvAgainKeeps ==
  ASSUME LoopInv, RecvAgain
  PROVE  LoopInv'
<1>1. PICK c \in Conns : run = <<[do |-> "recv", to |-> c]>> /\ conn[c].open /\ conn[c].phase = 1
  BY DEF RecvAgain, Doing, LoopInv, RunInv
<1>2. Head(run).to = c /\ Tail(run) = <<>> /\ pc # "wait"
  BY <1>1 DEF LoopInv, EventsInv
<1>3. UNCHANGED <<pc, batch, ready, timers, link, held, holdId, keepId, backlog, cut, stray, undefined>>
  BY DEF RecvAgain
<1>4. conn \in [Conns -> Conn]
  BY DEF LoopInv, Types
<1>5. \/ /\ run' = <<[do |-> "close", to |-> c]>> \o <<>> /\ conn' = conn
      \/ /\ conn' = [conn EXCEPT ![c].write = 1]
         /\ run' = IF conn[c].task THEN <<[do |-> "write", to |-> c]>> \o <<>> ELSE <<>>
  BY <1>2 DEF RecvAgain
<1>6. /\ conn' \in [Conns -> Conn] /\ conn'[c].open = conn[c].open
      /\ conn'[c].timer = conn[c].timer /\ conn'[c].phase = conn[c].phase
      /\ conn'[c].task = conn[c].task
      /\ \A x \in Conns : x # c => conn'[x] = conn[x]
  <2>1. CASE conn' = conn
    BY <1>4, <2>1
  <2>2. CASE conn' = [conn EXCEPT ![c].write = 1]
    BY <1>4, <2>2 DEF Conn
  <2> QED BY <1>5, <2>1, <2>2
<1>7. \/ run' = <<[do |-> "close", to |-> c]>>
      \/ run' = <<[do |-> "write", to |-> c]>> /\ conn[c].task
      \/ run' = <<>>
  BY <1>5
<1>8. RunInv'
  BY <1>1, <1>6, <1>7 DEF RunInv
<1>9. Owned' /\ Phases' /\ HeldInv' /\ Types'
  BY <1>1, <1>3, <1>6, FieldsKeep
<1>10. EventsInv'
  BY <1>2, <1>3, <1>6 DEF LoopInv, EventsInv
<1> QED BY <1>8, <1>9, <1>10 DEF LoopInv

LEMMA AtEvent ==
  ASSUME LoopInv, NEW o, Event(o)
  PROVE  /\ pc = "batch" /\ run = <<>> /\ ~undefined /\ batch # <<>>
         /\ Tail(batch) \in Seq(Report)
         /\ \A i \in DOMAIN Tail(batch) : i + 1 \in DOMAIN batch /\ Tail(batch)[i] = batch[i + 1]
<1>1. batch \in Seq(Report) /\ batch # <<>>
  BY DEF LoopInv, Types, Event
<1> QED BY <1>1 DEF Event

\* The next event of the batch
LEMMA NextEvent ==
  ASSUME LoopInv, NEW o, Event(o), batch' = Tail(batch) \/ batch' = batch,
         UNCHANGED <<pc, ready, cut, undefined>>,
         \A x \in Conns : conn[x].open => conn'[x].open
  PROVE  batch' \in Seq(Report) /\ EventsInv'
<1>1. batch' \in Seq(Report)
  BY AtEvent DEF LoopInv, Types
<1>2. \A i \in DOMAIN batch' : batch'[i].of \in Conns => conn'[batch'[i].of].open \/ cut'
  BY AtEvent DEF LoopInv, EventsInv
<1>3. pc' = "batch" /\ ~undefined'
  BY AtEvent
<1> QED BY <1>1, <1>2, <1>3 DEF LoopInv, EventsInv

LEMMA ReadEndKeeps ==
  ASSUME LoopInv, NEW c \in Conns, ReadEnd(c)
  PROVE  LoopInv'
<1>1. /\ Event(c) /\ conn[c].open /\ batch' = Tail(batch) /\ run = <<>>
      /\ UNCHANGED <<pc, ready, timers, link, held, holdId, keepId, backlog, cut, stray, undefined>>
  BY DEF ReadEnd, Event
<1>2. conn \in [Conns -> Conn]
  BY DEF LoopInv, Types
<1>3. /\ conn' \in [Conns -> Conn]
      /\ conn'[c].open = conn[c].open /\ conn'[c].timer = conn[c].timer
      /\ conn'[c].phase = conn[c].phase /\ conn'[c].write = conn[c].write
      /\ conn'[c].task = conn[c].task
      /\ \A x \in Conns : x # c => conn'[x] = conn[x]
  <2>1. CASE conn' = [conn EXCEPT ![c].destroy = 1]
    BY <1>2, <2>1 DEF Conn
  <2>2. CASE conn' = conn
    BY <1>2, <2>2
  <2> QED BY <2>1, <2>2 DEF ReadEnd
<1>4. run' = <<>> \/ run' = <<[do |-> "close", to |-> c]>>
  BY <1>1 DEF ReadEnd
<1>5. RunInv'
  BY <1>1, <1>3, <1>4 DEF RunInv
<1>6. batch' \in Seq(Report) /\ EventsInv'
  <2>1. \A x \in Conns : conn[x].open => conn'[x].open
    BY <1>3
  <2> QED BY <1>1, <2>1, NextEvent
<1>7. Owned' /\ Phases' /\ HeldInv' /\ Types'
  BY <1>1, <1>3, <1>6, FieldsKeep
<1> QED BY <1>5, <1>6, <1>7 DEF LoopInv

LEMMA WritableKeeps ==
  ASSUME LoopInv, NEW c \in Conns, Writable(c)
  PROVE  LoopInv'
<1>1. /\ Event(c) /\ conn[c].open /\ batch' = Tail(batch)
      /\ UNCHANGED <<pc, ready, timers, conn, link, held, holdId, keepId, backlog, cut, stray, undefined>>
      /\ run' = IF conn[c].task THEN <<[do |-> "write", to |-> c]>> ELSE <<>>
  BY DEF Writable
<1>2. RunInv'
  BY <1>1 DEF RunInv
<1>3. batch' \in Seq(Report) /\ EventsInv'
  BY <1>1, NextEvent
<1>4. Owned' /\ Phases' /\ HeldInv' /\ Types'
  BY <1>1, <1>3, FieldsKeep DEF LoopInv, Types
<1> QED BY <1>2, <1>3, <1>4 DEF LoopInv

\* stb_screen_resp: the poll leaves with its timer.
LEMMA HoldTimeoutKeeps ==
  ASSUME LoopInv, HoldTimeout
  PROVE  LoopInv'
<1>1. Turn("hold") /\ pc = "timers" /\ run = <<>>
  BY DEF HoldTimeout, Turn
<1>2. held # None /\ held \in Conns /\ conn[held].open /\ conn[held].phase = 1 /\ ~conn[held].task
  <2>1. Holder(timers[1].id, "hold")
    BY <1>1, AtTurn
  <2>2. held # None
    BY <2>1, Names DEF Holder
  <2>3. held \in Conns
    BY <2>2 DEF LoopInv, Types
  <2> QED BY <2>2, <2>3 DEF LoopInv, HeldInv
<1>3. /\ timers' = Deleted(timers, holdId) /\ held' = None /\ holdId' = None
      /\ run' = <<[do |-> "answer", to |-> held]>>
      /\ UNCHANGED <<pc, batch, ready, conn, link, keepId, backlog, cut, undefined>>
  BY DEF HoldTimeout
<1>4. stray' = FALSE
  BY NotForeign DEF HoldTimeout, LoopInv, Types
<1>5. RunInv'
  <2>1. conn'[held].open /\ conn'[held].phase = 1 /\ ~conn'[held].task /\ held # held'
    BY <1>2, <1>3
  <2> QED BY <1>2, <1>3, <2>1 DEF RunInv, Answering
<1>6. InOrder(timers) /\ holdId \in Ids /\ Has(timers, holdId, "hold")
  BY <1>2, HoldersKnown DEF LoopInv, Owned
<1>7. /\ InOrder(timers')
      /\ \A x \in Ids, of \in Users : Has(timers', x, of) <=> Has(timers, x, of) /\ x # holdId
  BY <1>3, <1>6, DeletedSafe
<1>8. ASSUME NEW x \in Ids, NEW of \in Users PROVE Has(timers', x, of) <=> Holder(x, of)'
  <2>1. Has(timers, x, of) <=> Holder(x, of)
    BY DEF LoopInv, Owned
  <2>2. CASE of = "hold"
    <3>1. ~Holder(x, of)'
      BY <1>3, <2>2, Names DEF Holder
    <3>2. Holder(x, of) => x = holdId
      BY <2>2, Names DEF Holder
    <3> QED BY <1>7, <2>1, <3>1, <3>2
  <2>3. CASE of # "hold"
    <3>1. Holder(x, of)' <=> Holder(x, of)
      BY <1>3, <2>3 DEF Holder
    <3>2. Has(timers, x, of) => x # holdId
      BY <1>6, <2>3, OneEach DEF LoopInv
    <3> QED BY <1>7, <2>1, <3>1, <3>2
  <2> QED BY <2>2, <2>3
<1>9. Owned'
  <2>1. \A c \in Conns : conn'[c].open => conn'[c].timer \in Ids
    BY <1>3 DEF LoopInv, Owned
  <2> QED BY <1>3, <1>7, <1>8, <2>1 DEF Owned
<1>10. Phases' /\ HeldInv'
  BY <1>3 DEF LoopInv, Phases, HeldInv
<1>11. EventsInv'
  BY <1>1, <1>3 DEF LoopInv, EventsInv
<1>12. Types'
  BY <1>3, <1>4 DEF LoopInv, Types
<1> QED BY <1>5, <1>9, <1>10, <1>11, <1>12 DEF LoopInv

LEMMA KeepAliveKeeps ==
  ASSUME LoopInv, KeepAlive
  PROVE  LoopInv'
<1>1. /\ timers' = Delayed(timers, keepId, Interval) /\ run = <<>> /\ pc = "timers"
      /\ UNCHANGED <<pc, batch, ready, conn, held, holdId, keepId, backlog, run, cut, undefined>>
  BY DEF KeepAlive, Turn
<1>2. stray' = FALSE
  BY NotForeign DEF KeepAlive, LoopInv, Types
<1>3. link' \in [Links -> {"none", "idle", "busy"}]
  BY DEF KeepAlive, LoopInv, Types
<1>4. /\ InOrder(timers) /\ keepId \in Ids /\ "keep" \in Users /\ Interval \in Nat
      /\ Has(timers, keepId, "keep")
  BY HoldersKnown, Names DEF LoopInv, Types, Owned, Users
<1>5. /\ InOrder(timers')
      /\ \A x \in Ids, u \in Users : Has(timers', x, u) <=> Has(timers, x, u)
      /\ \A a, b \in Users : Ahead(timers, a, b) /\ ~Has(timers, keepId, a) /\ ~Has(timers, keepId, b)
                               => Ahead(timers', a, b)
  BY <1>1, <1>4, DelayedSafe
<1>6. \A u : Has(timers, keepId, u) => u = "keep"
  BY <1>4, OneEach DEF LoopInv
<1>7. Owned'
  BY <1>1, <1>5, OwnedStays DEF LoopInv, Owned
<1>8. HeldInv'
  <2> SUFFICES ASSUME held # None PROVE HeldInv'
    BY <1>1 DEF HeldInv
  <2>1. held \in Conns /\ held \in Users /\ "hold" \in Users /\ held # "keep"
    BY Names DEF LoopInv, Types, Users
  <2>2. Ahead(timers', "hold", held)
    BY <1>5, <1>6, <2>1 DEF LoopInv, HeldInv
  <2> QED BY <1>1, <2>2 DEF LoopInv, HeldInv
<1>9. Phases' /\ RunInv' /\ EventsInv'
  BY <1>1 DEF LoopInv, Phases, RunInv, EventsInv
<1>10. Types'
  BY <1>1, <1>2, <1>3 DEF LoopInv, Types
<1> QED BY <1>7, <1>8, <1>9, <1>10 DEF LoopInv

\* A new connection gets an id that no timer has.
LEMMA AcceptKeeps ==
  ASSUME LoopInv, Accept
  PROVE  LoopInv'
<1>1. /\ Event(Listen) /\ run = <<>> /\ pc = "batch"
      /\ UNCHANGED <<pc, ready, link, held, holdId, keepId, run, cut, stray, undefined>>
  BY DEF Accept, Event
<1>2. CASE batch' = Tail(batch) /\ UNCHANGED <<conn, timers, backlog>>
  <2>1. batch' \in Seq(Report) /\ EventsInv'
    BY <1>1, <1>2, NextEvent
  <2>2. Types'
    BY <1>1, <1>2, <2>1 DEF LoopInv, Types
  <2> QED BY <1>1, <1>2, <2>1, <2>2, Frame DEF LoopInv
<1>3. ASSUME NEW c \in Conns \ Open, NEW id \in Ids \ Used, backlog > 0,
             conn' = [conn EXCEPT ![c] = [Free EXCEPT !.open = TRUE, !.timer = id]],
             timers' = Added(timers, Timer(id, c, Expire)), backlog' = backlog - 1, batch' = batch
      PROVE  LoopInv'
  <2> DEFINE new == [Free EXCEPT !.open = TRUE, !.timer = id]  tm == Timer(id, c, Expire)
  <2>1. conn \in [Conns -> Conn] /\ c \in Conns /\ ~conn[c].open /\ id \in Ids
    BY <1>3 DEF LoopInv, Types, Open
  <2>2. /\ new \in Conn /\ new.open /\ new.timer = id /\ new.phase = 0 /\ new.write = 0 /\ ~new.task
    <3>1. Free \in Conn /\ Free.phase = 0 /\ Free.write = 0 /\ ~Free.task
      BY DEF Free, Conn
    <3>2. [Free EXCEPT !.open = TRUE] \in Conn
      BY <3>1 DEF Conn
    <3>3. [[Free EXCEPT !.open = TRUE] EXCEPT !.timer = id] \in Conn
      BY <2>1, <3>2 DEF Conn
    <3>4. /\ new.open /\ new.timer = id /\ new.phase = Free.phase /\ new.write = Free.write
          /\ new.task = Free.task
      BY <3>1 DEF Conn
    <3> QED BY <3>1, <3>3, <3>4
  <2>3. conn' = [conn EXCEPT ![c] = new]
    BY <1>3
  <2> HIDE DEF new
  <2>4. conn' \in [Conns -> Conn] /\ conn'[c] = new /\ \A x \in Conns : x # c => conn'[x] = conn[x]
    BY <2>1, <2>2, <2>3
  <2>5. /\ InOrder(timers) /\ tm \in Timers /\ tm.id = id /\ tm.of = c
        /\ \A i \in DOMAIN timers : timers[i].id # tm.id
    BY <1>3, <2>1, Names DEF LoopInv, Owned, Timer, Timers, Users, Used
  <2>6. /\ InOrder(timers')
        /\ \A x \in Ids, of \in Users :
             Has(timers', x, of) <=> Has(timers, x, of) \/ (x = id /\ of = c)
        /\ \A a, b \in Users : Ahead(timers, a, b) => Ahead(timers', a, b)
    <3> HIDE DEF tm
    <3>1. timers' = Added(timers, tm)
      BY <1>3 DEF tm
    <3> QED BY <2>5, <3>1, AddedSafe
  <2>7. ASSUME NEW x \in Ids, NEW of \in Users PROVE Has(timers', x, of) <=> Holder(x, of)'
    <3>1. Has(timers, x, of) <=> Holder(x, of)
      BY DEF LoopInv, Owned
    <3>2. CASE of = c
      BY <2>1, <2>2, <2>4, <2>6, <3>1, <3>2, Names DEF Holder
    <3>3. CASE of # c
      <4>1. Holder(x, of)' <=> Holder(x, of)
        BY <1>1, <2>4, <3>3 DEF Holder
      <4> QED BY <2>6, <3>1, <3>3, <4>1
    <3> QED BY <3>2, <3>3
  <2>8. Owned'
    <3>1. \A x \in Conns : conn'[x].open => conn'[x].timer \in Ids
      BY <2>1, <2>2, <2>4 DEF LoopInv, Owned
    <3>2. (held = None <=> holdId = None)'
      BY <1>1 DEF LoopInv, Owned
    <3> QED BY <2>6, <2>7, <3>1, <3>2 DEF Owned
  <2>9. Phases'
    BY <2>2, <2>4 DEF LoopInv, Phases
  <2>10. HeldInv'
    <3> SUFFICES ASSUME held # None PROVE HeldInv'
      BY <1>1 DEF HeldInv
    <3>1. held \in Conns /\ held # c /\ held \in Users /\ "hold" \in Users
      BY <2>1 DEF LoopInv, Types, Users, HeldInv
    <3>2. Ahead(timers', "hold", held)
      BY <2>6, <3>1 DEF LoopInv, HeldInv
    <3> QED BY <1>1, <2>4, <3>1, <3>2 DEF LoopInv, HeldInv
  <2>11. RunInv'
    BY <1>1 DEF RunInv
  <2>12. EventsInv'
    <3>1. \A x \in Conns : conn[x].open => conn'[x].open
      BY <2>1, <2>4
    <3> QED BY <1>1, <1>3, <3>1, NextEvent
  <2>13. Types'
    <3>1. backlog' \in 0 .. MaxBacklog
      BY <1>3, TimesAssumption DEF LoopInv, Types
    <3> QED BY <1>1, <1>3, <2>4, <3>1 DEF LoopInv, Types
  <2> QED BY <2>8, <2>9, <2>10, <2>11, <2>12, <2>13 DEF LoopInv
<1> QED BY <1>2, <1>3 DEF Accept

\* A request is executed: its connection expires later; it is held, or answered, and then
\* the poll that was held is.
LEMMA ExecKeeps ==
  ASSUME LoopInv, NEW c \in Conns, Exec(c)
  PROVE  LoopInv'
<1> DEFINE q == Delayed(timers, conn[c].timer, Expire)
<1>1. /\ Event(c) /\ conn[c].open /\ conn[c].phase = 0 /\ batch' = Tail(batch) /\ run = <<>>
      /\ UNCHANGED <<pc, ready, link, keepId, backlog, cut, undefined>>
  BY DEF Exec, Event
<1>2. conn \in [Conns -> Conn] /\ held \in Conns \cup {None} /\ holdId \in Ids \cup {None}
  BY DEF LoopInv, Types
<1>3. /\ conn' \in [Conns -> Conn] /\ conn'[c].open /\ conn'[c].phase = 1
      /\ conn'[c].timer = conn[c].timer /\ conn'[c].task = conn[c].task
      /\ conn'[c].write = conn[c].write
      /\ \A x \in Conns : x # c => conn'[x] = conn[x]
  <2>1. conn[c] \in Conn
    BY <1>2
  <2>2. conn' = [conn EXCEPT ![c] = [conn[c] EXCEPT !.phase = 1, !.sent = None]]
    BY <1>2 DEF Exec
  <2>3. [conn[c] EXCEPT !.phase = 1, !.sent = None] \in Conn
    <3>1. [conn[c] EXCEPT !.phase = 1] \in Conn
      BY <2>1 DEF Conn
    <3>2. [[conn[c] EXCEPT !.phase = 1] EXCEPT !.sent = None] \in Conn
      BY <3>1 DEF Conn
    <3> QED BY <3>2
  <2>4. /\ [conn[c] EXCEPT !.phase = 1, !.sent = None].open = conn[c].open
        /\ [conn[c] EXCEPT !.phase = 1, !.sent = None].phase = 1
        /\ [conn[c] EXCEPT !.phase = 1, !.sent = None].timer = conn[c].timer
        /\ [conn[c] EXCEPT !.phase = 1, !.sent = None].task = conn[c].task
        /\ [conn[c] EXCEPT !.phase = 1, !.sent = None].write = conn[c].write
    BY <2>1 DEF Conn
  <2> QED BY <1>1, <1>2, <2>2, <2>3, <2>4
<1>4. ~conn[c].task /\ conn[c].write = 0 /\ c # held /\ c # None
  BY <1>1, Names DEF LoopInv, Phases, HeldInv
<1>5. stray' = FALSE
  BY <1>1, NotForeign DEF Exec, LoopInv, Types
<1>6. /\ InOrder(timers) /\ conn[c].timer \in Ids /\ Has(timers, conn[c].timer, c)
      /\ c \in Users /\ "hold" \in Users /\ Expire \in Nat
  BY <1>1, HoldersKnown, Names DEF LoopInv, Owned, Users
<1>7. /\ InOrder(q)
      /\ \A x \in Ids, u \in Users : Has(q, x, u) <=> Has(timers, x, u)
      /\ \A a, b \in Users : /\ Ahead(timers, a, b) /\ ~Has(timers, conn[c].timer, a)
                             /\ ~Has(timers, conn[c].timer, b)
                             => Ahead(q, a, b)
      /\ \E i \in DOMAIN q : q[i] = Timer(conn[c].timer, c, Expire)
  <2> DEFINE id == conn[c].timer
  <2>1. id \in Ids /\ Has(timers, id, c)
    BY <1>6
  <2> HIDE DEF id
  <2> DEFINE r == Delayed(timers, id, Expire)
  <2>2. InOrder(r) /\ \A x \in Ids, u \in Users : Has(r, x, u) <=> Has(timers, x, u)
    BY <1>6, <2>1, DelayedSafe
  <2>3. \A a, b \in Users : Ahead(timers, a, b) /\ ~Has(timers, id, a) /\ ~Has(timers, id, b)
                              => Ahead(r, a, b)
    BY <1>6, <2>1, DelayedSafe
  <2>4. \E i \in DOMAIN r : r[i] = Timer(id, c, Expire)
    BY <1>6, <2>1, DelayedSafe
  <2> QED BY <2>2, <2>3, <2>4 DEF id
<1>8. \A u : Has(timers, conn[c].timer, u) => u = c
  BY <1>6, OneEach DEF LoopInv
<1>9. held # None => Ahead(q, "hold", held)
  <2> SUFFICES ASSUME held # None PROVE Ahead(q, "hold", held)
    OBVIOUS
  <2>1. held \in Users /\ "hold" # c
    BY <1>2, Names DEF Users
  <2> QED BY <1>4, <1>6, <1>7, <1>8, <2>1 DEF LoopInv, HeldInv
<1>10. \A x \in Ids, of \in Users : Has(q, x, of) <=> Holder(x, of)
  BY <1>7 DEF LoopInv, Owned
<1>11. \A c1 \in Conns : conn'[c1].open <=> conn[c1].open
  BY <1>1, <1>3
<1>12. \A c1 \in Conns : conn'[c1].timer = conn[c1].timer
  BY <1>3
<1>13. \A c1 \in Conns : conn'[c1].open => conn'[c1].timer \in Ids
  BY <1>11, <1>12 DEF LoopInv, Owned
<1>14. Phases'
  BY <1>3 DEF LoopInv, Phases
<1>15. batch' \in Seq(Report) /\ EventsInv'
  BY <1>1, <1>11, NextEvent
<1>16. ASSUME held' \in Conns \cup {None}, holdId' \in Ids \cup {None} PROVE Types'
  BY <1>1, <1>3, <1>5, <1>15, <1>16 DEF LoopInv, Types
<1> DEFINE own == <<[do |-> "answer", to |-> c]>>  again == <<[do |-> "recv", to |-> c]>>
<1> HIDE DEF q
\* Nothing changes for the poll that is held.
<1>17. CASE timers' = q /\ UNCHANGED <<held, holdId>> /\ (run' = again \/ run' = own \o again)
  <2>1. \A x \in Ids, of \in Users : Holder(x, of)' <=> Holder(x, of)
    BY <1>1, <1>11, <1>12, <1>17 DEF Holder
  <2>2. Owned'
    BY <1>7, <1>10, <1>13, <1>17, <2>1 DEF LoopInv, Owned
  <2>3. HeldInv'
    BY <1>2, <1>3, <1>4, <1>9, <1>17 DEF LoopInv, HeldInv
  <2>4. Answering(c)'
    BY <1>3, <1>4, <1>17 DEF Answering
  <2>5. \/ run' = <<[do |-> "recv", to |-> c]>>
        \/ run' = <<[do |-> "answer", to |-> c], [do |-> "recv", to |-> c]>>
    BY <1>17, Glued
  <2>6. RunInv'
    BY <1>3, <1>4, <2>4, <2>5 DEF RunInv
  <2>7. Types'
    BY <1>2, <1>16, <1>17
  <2> QED BY <1>14, <1>15, <2>2, <2>3, <2>6, <2>7 DEF LoopInv
\* stb_screen holds the poll.
<1>18. ASSUME NEW id \in Ids \ Used, holdId = None, holdId' = id, held' = c,
              timers' = Added(q, Timer(id, "hold", Hold)), run' = again
       PROVE  LoopInv'
  <2> DEFINE tm == Timer(id, "hold", Hold)
  <2>1. tm \in Timers /\ tm.id = id /\ tm.of = "hold" /\ tm.left = Hold
    BY <1>6, Names DEF Timer, Timers
  <2>2. \A i \in DOMAIN q : q[i].id # tm.id
    <3> SUFFICES ASSUME NEW i \in DOMAIN q, q[i].id = id PROVE FALSE
      BY <2>1
    <3>1. q \in Seq(Timers)
      BY <1>7 DEF InOrder
    <3>2. q[i] \in Timers
      BY <3>1
    <3>3. q[i].of \in Users
      BY <3>2 DEF Timers
    <3>4. Has(q, id, q[i].of)
      BY DEF Has
    <3>5. Has(timers, id, q[i].of)
      BY <1>7, <1>18, <3>3, <3>4
    <3> QED BY <1>18, <3>5 DEF Has, Used
  <2> HIDE DEF tm
  <2>3. /\ InOrder(timers')
        /\ \A x \in Ids, of \in Users : Has(timers', x, of) <=> Has(q, x, of) \/ (x = id /\ of = "hold")
        /\ \A i \in DOMAIN q : q[i].left > tm.left => Ahead(timers', "hold", q[i].of)
    <3>1. timers' = Added(q, tm)
      BY <1>18 DEF tm
    <3> QED BY <1>7, <2>1, <2>2, <3>1, AddedSafe
  <2>4. held = None
    BY <1>18 DEF LoopInv, Owned
  <2>5. ASSUME NEW x \in Ids, NEW of \in Users PROVE Has(timers', x, of) <=> Holder(x, of)'
    <3>1. CASE of = "hold"
      <4>1. Holder(x, of)' <=> x = id
        BY <1>4, <1>18, <3>1, Names DEF Holder
      <4>2. ~Holder(x, of)
        BY <2>4, <3>1, Names DEF Holder
      <4> QED BY <1>10, <2>3, <3>1, <4>1, <4>2
    <3>2. CASE of # "hold"
      <4>1. Holder(x, of)' <=> Holder(x, of)
        BY <1>1, <1>11, <1>12, <3>2 DEF Holder
      <4> QED BY <1>10, <2>3, <3>2, <4>1
    <3> QED BY <3>1, <3>2
  <2>6. Owned'
    BY <1>4, <1>13, <1>18, <2>3, <2>5, Names DEF Owned
  <2>7. HeldInv'
    <3>1. PICK i \in DOMAIN q : q[i] = Timer(conn[c].timer, c, Expire)
      BY <1>7
    <3>2. q[i].of = c /\ q[i].left > tm.left
      BY <2>1, <3>1, Names DEF Timer
    <3> QED BY <1>3, <1>4, <1>18, <2>3, <3>2 DEF HeldInv
  <2>8. RunInv'
    BY <1>3, <1>18 DEF RunInv
  <2>9. Types'
    BY <1>16, <1>18
  <2> QED BY <1>14, <1>15, <2>6, <2>7, <2>8, <2>9 DEF LoopInv
\* The poll that was held is answered first.
<1>19. CASE /\ holdId # None /\ timers' = Deleted(q, holdId) /\ held' = None /\ holdId' = None
            /\ run' = <<[do |-> "answer", to |-> held]>> \o own \o again
  <2>1. held \in Conns /\ holdId \in Ids /\ Has(timers, holdId, "hold")
    BY <1>2, <1>19, HoldersKnown DEF LoopInv, Owned
  <2>2. /\ InOrder(timers')
        /\ \A x \in Ids, of \in Users : Has(timers', x, of) <=> Has(q, x, of) /\ x # holdId
    BY <1>7, <1>19, DeletedSafe
  <2>3. ASSUME NEW x \in Ids, NEW of \in Users PROVE Has(timers', x, of) <=> Holder(x, of)'
    <3>1. CASE of = "hold"
      <4>1. ~Holder(x, of)'
        BY <1>19, <3>1, Names DEF Holder
      <4>2. Holder(x, of) => x = holdId
        BY <3>1, Names DEF Holder
      <4> QED BY <1>10, <2>2, <4>1, <4>2
    <3>2. CASE of # "hold"
      <4>1. Holder(x, of)' <=> Holder(x, of)
        BY <1>1, <1>11, <1>12, <3>2 DEF Holder
      <4>2. Has(timers, x, of) => x # holdId
        BY <2>1, <3>2, OneEach DEF LoopInv
      <4> QED BY <1>7, <1>10, <2>2, <4>1, <4>2
    <3> QED BY <3>1, <3>2
  <2>4. Owned'
    BY <1>13, <1>19, <2>2, <2>3 DEF Owned
  <2>5. HeldInv'
    BY <1>19 DEF HeldInv
  <2>6. run' = <<[do |-> "answer", to |-> held], [do |-> "answer", to |-> c],
                 [do |-> "recv", to |-> c]>>
    BY <1>19, GluedThree
  <2>7. /\ conn'[held].open /\ conn'[held].phase = 1 /\ ~conn'[held].task /\ held # held'
        /\ held # c
    BY <1>3, <1>4, <1>19, <2>1, Names DEF LoopInv, HeldInv
  <2>8. Answering(c)' /\ conn'[c].write = 0
    BY <1>3, <1>4, <1>19 DEF Answering
  <2>9. RunInv'
    <3> DEFINE h == held
    <3>1. h \in Conns /\ h # c
      BY <2>1, <2>7
    <3> QED BY <2>1, <2>6, <2>7, <2>8 DEF RunInv, Answering
  <2>10. Types'
    BY <1>16, <1>19
  <2> QED BY <1>14, <1>15, <2>4, <2>5, <2>9, <2>10 DEF LoopInv
<1> QED BY <1>17, <1>18, <1>19 DEF Exec, q

------------------------------------------------------------------------------

\* Timers and events belong to what they were made for: an id in ep->t has one holder,
\* which is there and knows it, though malloc gives the addresses of rns_cbs_t again; the
\* callbacks of rns_epoll_wait go through freed memory in one way only.
THEOREM TimersSafe == Spec => []TimersOwned
<1>1. Init => LoopInv
  BY InitLoop
<1>2. LoopInv /\ [Next]_vars => LoopInv'
  <2> SUFFICES ASSUME LoopInv, [Next]_vars PROVE LoopInv'
    OBVIOUS
  <2>1. CASE WaitEvents
    BY <2>1, WaitEventsKeeps
  <2>2. CASE WaitNothing
    BY <2>2, WaitNothingKeeps
  <2>3. CASE Again \/ KeepAliveFails \/ PeerConnects
    BY <2>3, OthersKeep
  <2>4. CASE HoldTimeout
    BY <2>4, HoldTimeoutKeeps
  <2>5. CASE KeepAlive
    BY <2>5, KeepAliveKeeps
  <2>6. CASE Callback
    BY <2>6, AppAnswersKeeps, RecvAgainKeeps, CloseKeeps, WriteKeeps DEF Callback
  <2>7. CASE Accept
    BY <2>7, AcceptKeeps
  <2>8. ASSUME NEW c \in Conns, ConnStep(c) PROVE LoopInv'
    <3>1. CASE Stale(c)
      BY <3>1, OthersKeep
    <3> QED BY <2>8, <3>1, SecureKeeps, ExecKeeps, ReadEndKeeps, WritableKeeps DEF ConnStep
  <2>9. ASSUME NEW l \in Links, LinkRead(l) \/ LinkActs(l) PROVE LoopInv'
    BY <2>9, OthersKeep
  <2>10. CASE Tick
    BY <2>10, TickKeeps
  <2>11. ASSUME NEW c \in Conns, PeerActs(c) PROVE LoopInv'
    BY <2>11, PeerActsKeeps
  <2>12. CASE UNCHANGED vars
    <3>1. Types' /\ EventsInv'
      BY <2>12 DEF vars, LoopInv, Types, EventsInv
    <3> QED BY <2>12, <3>1, Frame DEF vars, LoopInv
  <2> QED BY <2>1, <2>2, <2>3, <2>4, <2>5, <2>6, <2>7, <2>8, <2>9, <2>10, <2>11, <2>12
          DEF Next, Loop, World
<1>3. LoopInv => TimersOwned
  BY LoopOwns
<1> QED BY <1>1, <1>2, <1>3, PTL DEF Spec

------------------------------------------------------------------------------
(* TrsStart *)

\* Binds and unbinds of a phone that are under way, and rows that have yet to come
ReqsOf(p) == {r \in sReqs : r.phone = p}
Coming(p) == sRows # None /\ p \in DOMAIN sRows

\* A phone's memory is what the table says, as far as it names a box of this TRS.
Same(p) == \E b \in Boxes \cup {None} :
  /\ sObjs[p] = <<b>> \/ (sObjs[p] = <<>> /\ b = None)
  /\ b = sTable[p] \/ (b = None /\ sTable[p] \notin Own)

\* A phone that is no exception has one request under way at most, for its only object.
\* Until the FOSS has done it, or none is there, memory and table agree; when it is done,
\* the table is ahead.  A row that has yet to come is what the table says, unless a
\* request has made the phone before.
Settled(p) ==
  /\ \A r \in ReqsOf(p) : r.obj = 1 /\ Len(sObjs[p]) = 1 /\ ReqsOf(p) = {r}
  /\ \A r \in ReqsOf(p) : r.state = "done" => sTable[p] = r.box
  /\ Coming(p) /\ sObjs[p] = <<>> => sRows[p] = sTable[p]
  /\ sPhase = "serving" /\ ~Coming(p) /\ (\A r \in ReqsOf(p) : r.state = "sent") => Same(p)

StartTypes ==
  /\ sPhase \in {"off", "clients", "db", "pool", "boxes", "serving", "stuck"}
  /\ sKnown \subseteq Boxes
  /\ sObjs \in [Phones -> Seq(Boxes \cup {None})] /\ \A p \in Phones : Len(sObjs[p]) <= 2
  /\ sRows = None \/ \E P \in SUBSET Phones : sRows \in [P -> Boxes]
  /\ sTable \in [Phones -> Boxes \cup {None}]
  /\ sReqs \subseteq Starts!Req /\ sStrays \subseteq Phones
  /\ sFails \in 0 .. MaxFails

\* A TRS that does not serve has asked for nothing and knows no phone.
Asleep == sRows = None /\ sReqs = {} /\ \A p \in Phones : sObjs[p] = <<>>

\* What the objects of a phone may be: a row that comes adds one to at most one, and a
\* request is for one that is there.
ObjsThere ==
  /\ \A p \in Phones : Coming(p) => Len(sObjs[p]) <= 1
  /\ \A r \in sReqs : r.obj \in 1 .. Len(sObjs[r.phone])

StartInv ==
  /\ StartTypes /\ ObjsThere
  /\ sPhase # "serving" => Asleep
  /\ \A p \in Phones \ sStrays : Settled(p)

------------------------------------------------------------------------------

LEMMA StartTypesAre == StartTypes <=> Starts!TypeOK
BY DEF StartTypes, Starts!TypeOK

LEMMA StartInit == Starts!Bounds /\ Starts!Init => StartInv
<1> SUFFICES ASSUME Starts!Bounds, Starts!Init PROVE StartInv
  OBVIOUS
<1> USE DEF Starts!Bounds, Starts!Init
<1>1. StartTypes
  BY DEF StartTypes
<1>2. Asleep /\ ObjsThere
  BY DEF Asleep, ObjsThere, Coming
<1>3. ASSUME NEW p \in Phones PROVE Settled(p)
  BY DEF Settled, ReqsOf, Coming
<1> QED BY <1>1, <1>2, <1>3 DEF StartInv

\* The steps of main before the TRS serves
LEMMA Sleeps ==
  ASSUME StartInv, Starts!Bounds, sPhase # "serving",
         sPhase' \in {"off", "clients", "db", "pool", "boxes", "stuck"},
         sKnown' \subseteq Boxes, sFails' \in 0 .. MaxFails, sRows' = None,
         UNCHANGED <<sObjs, sTable, sReqs, sStrays>>
  PROVE  StartInv'
<1>1. Asleep
  BY DEF StartInv
<1>2. StartTypes'
  BY DEF StartInv, StartTypes
<1>3. Asleep'
  BY <1>1 DEF Asleep
<1>4. ObjsThere'
  BY <1>1 DEF Asleep, ObjsThere, Coming
<1>5. ASSUME NEW p \in Phones PROVE Settled(p)'
  BY <1>1 DEF Asleep, Settled, ReqsOf, Coming
<1> QED BY <1>2, <1>3, <1>4, <1>5 DEF StartInv

\* What a load brings is none of the other values.
LEMMA LoadIsNotNone ==
  ASSUME Starts!Bounds, NEW P \in SUBSET Phones, NEW f \in [P -> Boxes]
  PROVE  f # None
BY DEF Starts!Bounds

\* stb_fetch_done: the TRS serves, and the rows are on their way.
LEMMA Serves ==
  ASSUME StartInv, Starts!Bounds, sPhase # "serving", sPhase' = "serving",
         sRows' = [p \in {q \in Phones : sTable[q] # None} |-> sTable[p]],
         sFails' \in 0 .. MaxFails,
         UNCHANGED <<sKnown, sObjs, sTable, sReqs, sStrays>>
  PROVE  StartInv'
<1>1. Asleep
  BY DEF StartInv
<1> DEFINE P == {q \in Phones : sTable[q] # None}
<1>2. sRows' \in [P -> Boxes] /\ P \in SUBSET Phones
  BY DEF StartInv, StartTypes
<1>3. sRows' # None /\ DOMAIN sRows' = P /\ \A p \in P : sRows'[p] = sTable[p]
  BY <1>2, LoadIsNotNone
<1>4. StartTypes'
  BY <1>2 DEF StartInv, StartTypes
<1>5. ObjsThere'
  BY <1>1 DEF Asleep, ObjsThere
<1>6. ASSUME NEW p \in Phones PROVE Settled(p)'
  <2>1. ReqsOf(p)' = {} /\ sObjs'[p] = <<>>
    BY <1>1 DEF Asleep, ReqsOf
  <2>2. Coming(p)' <=> p \in P
    BY <1>3 DEF Coming
  <2>3. p \notin P => Same(p)'
    BY <2>1 DEF Same
  <2> QED BY <1>3, <2>1, <2>2, <2>3 DEF Settled
<1> QED BY <1>4, <1>5, <1>6 DEF StartInv

------------------------------------------------------------------------------
(* Only one phone is concerned. *)

\* What the other phones depend on
SameFor(p) ==
  /\ ReqsOf(p)' = ReqsOf(p) /\ sObjs'[p] = sObjs[p] /\ sTable'[p] = sTable[p]
  /\ Coming(p)' = Coming(p) /\ (Coming(p) => sRows'[p] = sRows[p])

LEMMA OtherPhones ==
  ASSUME NEW p, Settled(p), SameFor(p), sPhase' = sPhase
  PROVE  Settled(p)'
BY DEF Settled, SameFor, Same, ReqsOf, Coming

\* A step that concerns phone p, and keeps what is said of all phones
LEMMA OnePhone ==
  ASSUME StartInv, NEW p \in Phones, sPhase = "serving", sPhase' = "serving",
         StartTypes', ObjsThere', sStrays \subseteq sStrays',
         \A q \in Phones \ {p} : SameFor(q),
         p \in sStrays' \/ Settled(p)'
  PROVE  StartInv'
<1>1. ASSUME NEW q \in Phones \ sStrays' PROVE Settled(q)'
  <2>1. CASE q = p
    BY <2>1
  <2>2. CASE q # p
    <3>1. Settled(q) /\ SameFor(q)
      BY <2>2 DEF StartInv
    <3> QED BY <3>1, OtherPhones
  <2> QED BY <2>1, <2>2
<1> QED BY <1>1 DEF StartInv

------------------------------------------------------------------------------
(* The load of the phones *)

\* What there is while a load runs
LEMMA Loading ==
  ASSUME StartInv, NEW p \in Phones, Coming(p)
  PROVE  \E P \in SUBSET Phones : sRows \in [P -> Boxes] /\ p \in P
BY DEF StartInv, StartTypes, Coming

\* phone_fetch
LEMMA PhoneFetchKeeps ==
  ASSUME StartInv, Starts!Bounds, NEW p \in Phones, Starts!PhoneFetch(p)
  PROVE  StartInv'
<1>1. Coming(p) /\ sPhase = "serving" /\ sPhase' = "serving"
  BY DEF Starts!PhoneFetch, Coming
<1>2. PICK P \in SUBSET Phones : sRows \in [P -> Boxes] /\ p \in P
  BY <1>1, Loading
<1> DEFINE b == IF sRows[p] \in sKnown THEN sRows[p] ELSE None
<1>3. sRows' = [q \in P \ {p} |-> sRows[q]]
  BY <1>2 DEF Starts!PhoneFetch
<1>4. sRows' \in [P \ {p} -> Boxes] /\ sRows' # None
  <2>1. sRows' \in [P \ {p} -> Boxes]
    BY <1>2, <1>3
  <2> QED BY <2>1, LoadIsNotNone
<1>5. /\ sObjs \in [Phones -> Seq(Boxes \cup {None})]
      /\ Len(sObjs[p]) <= 1
      /\ b \in Boxes \cup {None}
  BY <1>1, <1>2 DEF StartInv, StartTypes, ObjsThere
<1>6. sObjs' = [sObjs EXCEPT ![p] = Append(sObjs[p], b)]
  BY DEF Starts!PhoneFetch
<1>7. UNCHANGED <<sKnown, sTable, sReqs, sFails>>
  BY DEF Starts!PhoneFetch
<1>8. sStrays' \in {sStrays, sStrays \cup {p}}
  BY DEF Starts!PhoneFetch
<1> HIDE DEF b
<1>9. /\ sObjs' \in [Phones -> Seq(Boxes \cup {None})]
      /\ sObjs'[p] = Append(sObjs[p], b) /\ Len(sObjs'[p]) = Len(sObjs[p]) + 1
      /\ \A q \in Phones \ {p} : sObjs'[q] = sObjs[q]
  BY <1>5, <1>6
<1>10. StartTypes'
  <2>1. ASSUME NEW q \in Phones PROVE Len(sObjs'[q]) <= 2
    <3>1. CASE q = p
      <4>1. PICK l \in Nat : l = Len(sObjs[p])
        BY <1>5
      <4>2. l <= 1 /\ Len(sObjs'[q]) = l + 1
        BY <1>5, <1>9, <3>1, <4>1
      <4> QED BY <4>1, <4>2
    <3>2. CASE q # p
      <4>1. Len(sObjs[q]) <= 2 /\ sObjs'[q] = sObjs[q]
        BY <1>9, <3>2 DEF StartInv, StartTypes
      <4> QED BY <4>1
    <3> QED BY <3>1, <3>2
  <2> QED BY <1>1, <1>4, <1>7, <1>8, <1>9, <2>1 DEF StartInv, StartTypes
<1>11. ~Coming(p)' /\ \A q \in Phones \ {p} : Coming(q)' = Coming(q)
  <2>1. DOMAIN sRows = P /\ DOMAIN sRows' = P \ {p} /\ sRows # None
    BY <1>1, <1>2, <1>4 DEF Coming
  <2>2. ~Coming(p)'
    BY <2>1 DEF Coming
  <2>3. ASSUME NEW q \in Phones \ {p} PROVE Coming(q)' <=> Coming(q)
    BY <1>4, <2>1 DEF Coming
  <2>4. ASSUME NEW q \in Phones \ {p} PROVE Coming(q)' = Coming(q)
    BY <2>3 DEF Coming
  <2> QED BY <2>2, <2>4
<1>12. ObjsThere'
  <2>1. \A q \in Phones : Coming(q)' => Len(sObjs'[q]) <= 1
    BY <1>9, <1>11 DEF StartInv, ObjsThere
  <2>2. ASSUME NEW r \in sReqs PROVE r.obj \in 1 .. Len(sObjs'[r.phone])
    <3>1. r.obj \in 1 .. Len(sObjs[r.phone]) /\ r.phone \in Phones
      BY DEF StartInv, ObjsThere, StartTypes, Starts!Req
    <3>2. CASE r.phone = p
      <4>1. Len(sObjs[p]) \in Nat
        BY <1>5
      <4> QED BY <1>9, <3>1, <3>2, <4>1
    <3>3. CASE r.phone # p
      BY <1>9, <3>1, <3>3
    <3> QED BY <3>2, <3>3
  <2> QED BY <1>7, <2>1, <2>2 DEF ObjsThere
<1>13. \A q \in Phones \ {p} : SameFor(q)
  <2> SUFFICES ASSUME NEW q \in Phones \ {p} PROVE SameFor(q)
    OBVIOUS
  <2>1. Coming(q) => sRows'[q] = sRows[q]
    BY <1>2, <1>3 DEF Coming
  <2> QED BY <1>7, <1>9, <1>11, <2>1 DEF SameFor, ReqsOf
<1>14. ASSUME p \notin sStrays' PROVE Settled(p)'
  <2>1. p \notin sStrays /\ sObjs[p] = <<>> /\ sRows[p] \notin Own \ sKnown
    BY <1>14 DEF Starts!PhoneFetch
  <2>2. sRows[p] = sTable[p] /\ sRows[p] \in Boxes
    BY <1>1, <1>2, <2>1 DEF StartInv, Settled
  <2>3. ReqsOf(p)' = {}
    BY <1>7, <2>1 DEF StartInv, ObjsThere, ReqsOf
  <2>4. sObjs'[p] = <<b>>
    BY <1>5, <1>9, <2>1
  <2>5. b = sTable[p] \/ (b = None /\ sTable[p] \notin Own)
    BY <2>1, <2>2 DEF b
  <2>6. Same(p)'
    BY <1>5, <1>7, <2>4, <2>5 DEF Same
  <2> QED BY <1>11, <2>3, <2>6 DEF Settled
<1> QED BY <1>1, <1>8, <1>10, <1>12, <1>13, <1>14, OnePhone

\* phone_fetch_done, phone_fetch_error
LEMMA PhoneFetchEndKeeps ==
  ASSUME StartInv, Starts!Bounds, Starts!PhoneFetchEnd
  PROVE  StartInv'
<1>1. PICK P \in SUBSET Phones : sRows \in [P -> Boxes]
  BY DEF Starts!PhoneFetchEnd, StartInv, StartTypes
<1>2. /\ sPhase = "serving" /\ sPhase' = "serving" /\ sRows # None /\ sRows' = None
      /\ sStrays' = sStrays \cup P /\ sFails' \in 0 .. MaxFails
      /\ UNCHANGED <<sKnown, sObjs, sTable, sReqs>>
  BY <1>1 DEF Starts!PhoneFetchEnd, Starts!Fail, StartInv, StartTypes, Starts!Bounds
<1>3. StartTypes' /\ ObjsThere'
  BY <1>2 DEF StartInv, StartTypes, ObjsThere, Coming
<1>4. ASSUME NEW p \in Phones \ sStrays' PROVE Settled(p)'
  <2>1. Settled(p) /\ ~Coming(p) /\ ~Coming(p)'
    BY <1>1, <1>2 DEF StartInv, Coming
  <2>2. ReqsOf(p)' = ReqsOf(p) /\ Same(p)' = Same(p)
    BY <1>2 DEF ReqsOf, Same
  <2> QED BY <1>2, <2>1, <2>2 DEF Settled
<1> QED BY <1>2, <1>3, <1>4 DEF StartInv

\* The process ends.
LEMMA StopKeeps ==
  ASSUME StartInv, Starts!Bounds, Starts!Stop
  PROVE  StartInv'
<1>1. /\ sPhase' = "off" /\ sKnown' = {} /\ sObjs' = [p \in Phones |-> <<>>]
      /\ sRows' = None /\ sReqs' = {} /\ sStrays' = {} /\ sFails' = sFails
      /\ sTable' \in [Phones -> Boxes \cup {None}]
  BY DEF Starts!Stop
<1>2. StartTypes'
  BY <1>1 DEF StartInv, StartTypes
<1>3. Asleep' /\ ObjsThere'
  BY <1>1 DEF Asleep, ObjsThere, Coming
<1>4. ASSUME NEW p \in Phones PROVE Settled(p)'
  BY <1>1 DEF Settled, ReqsOf, Coming
<1> QED BY <1>2, <1>3, <1>4 DEF StartInv

\* The phone is bound or unbound at another TRS.
LEMMA BoundElsewhereKeeps ==
  ASSUME StartInv, Starts!Bounds, NEW p \in Phones, Starts!BoundElsewhere(p)
  PROVE  StartInv'
<1>1. /\ sTable' \in [Phones -> Boxes \cup {None}]
      /\ \A q \in Phones \ {p} : sTable'[q] = sTable[q]
  BY DEF Starts!BoundElsewhere, StartInv, StartTypes
<1>2. /\ UNCHANGED <<sPhase, sKnown, sObjs, sRows, sReqs>> /\ sFails' \in 0 .. MaxFails
      /\ sStrays' = IF sPhase = "serving" THEN sStrays \cup {p} ELSE sStrays
  BY DEF Starts!BoundElsewhere, Starts!Fail, StartInv, StartTypes, Starts!Bounds
<1>3. StartTypes' /\ ObjsThere'
  BY <1>1, <1>2 DEF StartInv, StartTypes, ObjsThere, Coming
<1>4. CASE sPhase = "serving"
  <2>1. \A q \in Phones \ {p} : SameFor(q)
    BY <1>1, <1>2 DEF SameFor, ReqsOf, Coming
  <2> QED BY <1>2, <1>3, <1>4, <2>1, OnePhone
<1>5. CASE sPhase # "serving"
  <2>1. Asleep /\ Asleep'
    BY <1>2, <1>5 DEF StartInv, Asleep
  <2>2. ASSUME NEW q \in Phones PROVE Settled(q)'
    BY <1>2, <1>5, <2>1 DEF Asleep, Settled, ReqsOf, Coming
  <2> QED BY <1>3, <2>1, <2>2 DEF StartInv
<1> QED BY <1>4, <1>5

------------------------------------------------------------------------------
(* Binds and unbinds *)

LEMMA OneIsThere == ASSUME NEW s, Len(s) = 1 PROVE s # <<>>
<1>1. Len(<<>>) = 0
  OBVIOUS
<1> QED BY <1>1

\* A request that is made for an object of phone p that is there, or was made for it
LEMMA AsksKeeps ==
  ASSUME StartInv, Starts!Bounds, NEW p \in Phones, NEW b \in Boxes \cup {None},
         NEW k \in 1 .. 2, Starts!Requests(p, k, b), sPhase = "serving",
         k \in 1 .. Len(sObjs'[p]), sKnown' \subseteq Boxes,
         \/ sObjs' = sObjs
         \/ sObjs[p] = <<>> /\ sObjs' = [sObjs EXCEPT ![p] = <<None>>],
         UNCHANGED <<sPhase, sRows, sTable, sFails>>
  PROVE  StartInv'
<1> DEFINE n == [phone |-> p, obj |-> k, box |-> b, state |-> "sent"]
<1>1. /\ n \in Starts!Req /\ n.phone = p /\ n.obj = k /\ n.state = "sent"
      /\ sReqs' = sReqs \cup {n}
      /\ sStrays' = IF \E r \in sReqs : r.phone = p THEN sStrays \cup {p} ELSE sStrays
  BY DEF Starts!Requests, Starts!Req
<1> HIDE DEF n
<1>2. /\ sObjs' \in [Phones -> Seq(Boxes \cup {None})]
      /\ \A q \in Phones \ {p} : sObjs'[q] = sObjs[q]
  <2>1. sObjs \in [Phones -> Seq(Boxes \cup {None})]
    BY DEF StartInv, StartTypes
  <2>2. <<None>> \in Seq(Boxes \cup {None})
    OBVIOUS
  <2> QED BY <2>1, <2>2
<1>3. \/ sObjs'[p] = sObjs[p]
      \/ sObjs[p] = <<>> /\ sObjs'[p] = <<None>> /\ Len(sObjs'[p]) = 1
  BY DEF StartInv, StartTypes
<1>4. StartTypes'
  <2>1. ASSUME NEW q \in Phones PROVE Len(sObjs'[q]) <= 2
    <3>1. Len(sObjs[q]) <= 2
      BY DEF StartInv, StartTypes
    <3>2. CASE sObjs'[q] = sObjs[q]
      BY <3>1, <3>2
    <3>3. CASE Len(sObjs'[q]) = 1
      BY <3>3
    <3> QED BY <1>2, <1>3, <3>2, <3>3
  <2>2. sReqs' \subseteq Starts!Req /\ sStrays' \subseteq Phones
    BY <1>1 DEF StartInv, StartTypes
  <2> QED BY <1>2, <2>1, <2>2 DEF StartInv, StartTypes
<1>5. \A q \in Phones : Coming(q)' = Coming(q)
  BY DEF Coming
<1>6. ObjsThere'
  <2>1. ASSUME NEW q \in Phones, Coming(q)' PROVE Len(sObjs'[q]) <= 1
    <3>1. Len(sObjs[q]) <= 1
      BY <1>5, <2>1 DEF StartInv, ObjsThere
    <3>2. CASE sObjs'[q] = sObjs[q]
      BY <3>1, <3>2
    <3>3. CASE Len(sObjs'[q]) = 1
      BY <3>3
    <3> QED BY <1>2, <1>3, <3>2, <3>3
  <2>2. ASSUME NEW r \in sReqs' PROVE r.obj \in 1 .. Len(sObjs'[r.phone])
    <3>1. CASE r = n
      BY <1>1, <3>1
    <3>2. CASE r # n
      <4>1. r.obj \in 1 .. Len(sObjs[r.phone]) /\ r.phone \in Phones
        BY <1>1, <3>2 DEF StartInv, ObjsThere, StartTypes, Starts!Req
      <4>2. sObjs'[r.phone] = sObjs[r.phone]
        BY <1>2, <1>3, <4>1
      <4> QED BY <4>1, <4>2
    <3> QED BY <3>1, <3>2
  <2> QED BY <2>1, <2>2 DEF ObjsThere
<1>7. \A q \in Phones \ {p} : SameFor(q)
  <2> SUFFICES ASSUME NEW q \in Phones \ {p} PROVE SameFor(q)
    OBVIOUS
  <2>1. ReqsOf(q)' = ReqsOf(q)
    BY <1>1 DEF ReqsOf
  <2> QED BY <1>2, <1>5, <2>1 DEF SameFor
<1>8. ASSUME p \notin sStrays' PROVE Settled(p)'
  <2>1. p \notin sStrays /\ ReqsOf(p) = {}
    BY <1>1, <1>8 DEF ReqsOf
  <2>2. Settled(p)
    BY <2>1 DEF StartInv
  <2>3. ReqsOf(p)' = {n}
    BY <1>1, <2>1 DEF ReqsOf
  <2>4. ~Coming(p) => Same(p)
    BY <2>1, <2>2 DEF Settled
  <2>5. ~Coming(p) => Same(p)'
    BY <1>3, <2>4 DEF Same
  <2>6. Len(sObjs'[p]) <= 1
    <3>1. CASE Coming(p)
      BY <1>5, <1>6, <3>1 DEF ObjsThere
    <3>2. CASE ~Coming(p)
      <4>1. Same(p)'
        BY <2>5, <3>2
      <4>2. PICK c \in Boxes \cup {None} : sObjs'[p] = <<c>> \/ sObjs'[p] = <<>>
        BY <4>1 DEF Same
      <4>3. CASE sObjs'[p] = <<c>>
        BY <4>3
      <4>4. CASE sObjs'[p] = <<>>
        BY <4>4
      <4> QED BY <4>2, <4>3, <4>4
    <3> QED BY <3>1, <3>2
  <2>7. sObjs'[p] \in Seq(Boxes \cup {None}) /\ Len(sObjs'[p]) \in Nat
    BY <1>2
  <2>8. k = 1 /\ Len(sObjs'[p]) = 1
    <3>1. PICK l \in Nat : l = Len(sObjs'[p])
      BY <2>7
    <3>2. k \in 1 .. l
      BY <3>1
    <3>3. l <= 1
      BY <2>6, <3>1
    <3>4. k = 1 /\ l = 1
      BY <3>2, <3>3
    <3> QED BY <3>1, <3>4
  <2>9. sObjs'[p] # <<>>
    BY <2>8, OneIsThere
  <2> QED BY <1>1, <1>5, <2>3, <2>5, <2>8, <2>9 DEF Settled
<1> QED BY <1>1, <1>4, <1>6, <1>7, <1>8, OnePhone

\* /phone/bindStb
LEMMA BindStbKeeps ==
  ASSUME StartInv, Starts!Bounds, NEW p \in Phones, NEW b \in Boxes,
         Starts!BindStb(p, b)
  PROVE  StartInv'
<1>1. /\ sPhase = "serving" /\ sKnown' \subseteq Boxes
      /\ UNCHANGED <<sPhase, sRows, sTable, sFails>>
  BY DEF Starts!BindStb, StartInv, StartTypes
<1>2. CASE sObjs[p] = <<>>
  <2>1. sObjs' = [sObjs EXCEPT ![p] = <<None>>] /\ Starts!Requests(p, 1, b)
    BY <1>2 DEF Starts!BindStb
  <2>2. sObjs'[p] = <<None>> /\ Len(sObjs'[p]) = 1
    BY <2>1 DEF StartInv, StartTypes
  <2>3. 1 \in 1 .. 2 /\ 1 \in 1 .. Len(sObjs'[p]) /\ b \in Boxes \cup {None}
    BY <2>2
  <2> QED BY <1>1, <1>2, <2>1, <2>3, AsksKeeps
<1>3. CASE sObjs[p] # <<>>
  <2>1. PICK k \in DOMAIN sObjs[p] : Starts!Requests(p, k, b)
    BY <1>3 DEF Starts!BindStb
  <2>2. sObjs' = sObjs
    BY <1>3 DEF Starts!BindStb
  <2>3. k \in 1 .. Len(sObjs[p]) /\ k \in 1 .. 2
    BY DEF StartInv, StartTypes
  <2> QED BY <1>1, <2>1, <2>2, <2>3, AsksKeeps
<1> QED BY <1>2, <1>3

\* /phone/unbindStb
LEMMA UnbindStbKeeps ==
  ASSUME StartInv, Starts!Bounds, NEW p \in Phones, Starts!UnbindStb(p)
  PROVE  StartInv'
<1>1. /\ sPhase = "serving" /\ sKnown' \subseteq Boxes
      /\ UNCHANGED <<sPhase, sObjs, sRows, sTable, sFails>>
  BY DEF Starts!UnbindStb, StartInv, StartTypes
<1>2. PICK k \in DOMAIN sObjs[p] : Starts!Requests(p, k, None)
  BY DEF Starts!UnbindStb
<1>3. k \in 1 .. Len(sObjs[p]) /\ k \in 1 .. 2
  BY DEF StartInv, StartTypes
<1> QED BY <1>1, <1>2, <1>3, AsksKeeps

\* A request that is there is of a phone that has the object, and the TRS serves.
LEMMA Asked ==
  ASSUME StartInv, NEW r \in sReqs
  PROVE  /\ r \in Starts!Req /\ r.phone \in Phones /\ r.box \in Boxes \cup {None}
         /\ r.obj \in 1 .. Len(sObjs[r.phone]) /\ sPhase = "serving"
<1>1. r \in Starts!Req /\ r.obj \in 1 .. Len(sObjs[r.phone])
  BY DEF StartInv, StartTypes, ObjsThere
<1>2. sPhase = "serving"
  BY DEF StartInv, Asleep
<1> QED BY <1>1, <1>2 DEF Starts!Req

\* A request goes, and what else changes is the row of its phone.
LEMMA Goes ==
  ASSUME StartInv, Starts!Bounds, NEW r \in sReqs, sReqs' = sReqs \ {r},
         sTable' \in [Phones -> Boxes \cup {None}], sFails' \in 0 .. MaxFails,
         \A q \in Phones \ {r.phone} : sTable'[q] = sTable[q],
         \/ sStrays' = sStrays \cup {r.phone}
         \/ sStrays' = sStrays /\ sTable' = sTable /\ r.state = "sent",
         UNCHANGED <<sPhase, sKnown, sObjs, sRows>>
  PROVE  StartInv'
<1> DEFINE p == r.phone
<1>1. p \in Phones /\ sPhase = "serving"
  BY Asked
<1>2. StartTypes' /\ ObjsThere'
  BY <1>1 DEF StartInv, StartTypes, ObjsThere, Coming
<1>3. \A q \in Phones \ {p} : SameFor(q)
  BY DEF SameFor, ReqsOf, Coming
<1>4. ASSUME p \notin sStrays' PROVE Settled(p)'
  <2>1. sStrays' = sStrays /\ sTable' = sTable /\ r.state = "sent"
    BY <1>4
  <2>2. Settled(p)
    BY <1>1, <1>4, <2>1 DEF StartInv
  <2>3. r \in ReqsOf(p)
    BY DEF ReqsOf
  <2>4. ReqsOf(p) = {r}
    BY <2>2, <2>3 DEF Settled
  <2>5. ReqsOf(p)' = {}
    BY <2>4 DEF ReqsOf
  <2>6. ~Coming(p) => Same(p)
    BY <1>1, <2>1, <2>2, <2>4 DEF Settled
  <2>7. Same(p)' = Same(p) /\ Coming(p)' = Coming(p)
    BY <2>1 DEF Same, Coming
  <2> QED BY <2>1, <2>2, <2>5, <2>6, <2>7 DEF Settled
<1> QED BY <1>1, <1>2, <1>3, <1>4, OnePhone

\* The FOSS does what it was asked for.
LEMMA FossDone ==
  ASSUME StartInv, Starts!Bounds, NEW r \in sReqs, r.state = "sent",
         sTable' = [sTable EXCEPT ![r.phone] = r.box],
         sReqs' = (sReqs \ {r}) \cup {[r EXCEPT !.state = "done"]},
         UNCHANGED <<sPhase, sKnown, sObjs, sRows, sStrays, sFails>>
  PROVE  StartInv'
<1> DEFINE p == r.phone
<1> DEFINE e == [r EXCEPT !.state = "done"]
<1>1. /\ p \in Phones /\ sPhase = "serving" /\ r.box \in Boxes \cup {None}
      /\ r.obj \in 1 .. Len(sObjs[p]) /\ r \in Starts!Req
  BY Asked
<1>2. PICK d : d = e
  OBVIOUS
<1>3. /\ d \in Starts!Req /\ d.phone = r.phone /\ d.obj = r.obj /\ d.box = r.box
      /\ d.state = "done" /\ sReqs' = (sReqs \ {r}) \cup {d}
  BY <1>1, <1>2 DEF Starts!Req
<1> HIDE DEF e
<1>4. /\ sTable' \in [Phones -> Boxes \cup {None}] /\ sTable'[p] = r.box
      /\ \A q \in Phones \ {p} : sTable'[q] = sTable[q]
  BY <1>1 DEF StartInv, StartTypes
<1>5. StartTypes'
  <2>1. sReqs' \subseteq Starts!Req
    BY <1>3 DEF StartInv, StartTypes
  <2> QED BY <1>4, <2>1 DEF StartInv, StartTypes
<1>6. ObjsThere'
  <2>1. \A q \in Phones : Coming(q)' = Coming(q)
    BY DEF Coming
  <2> QED BY <1>1, <1>3, <2>1 DEF StartInv, ObjsThere
<1>7. \A q \in Phones \ {p} : SameFor(q)
  <2> SUFFICES ASSUME NEW q \in Phones \ {p} PROVE SameFor(q)
    OBVIOUS
  <2>1. ReqsOf(q)' = ReqsOf(q)
    BY <1>3 DEF ReqsOf
  <2> QED BY <1>4, <2>1 DEF SameFor, Coming
<1>8. ASSUME p \notin sStrays PROVE Settled(p)'
  <2>1. Settled(p)
    BY <1>1, <1>8 DEF StartInv
  <2>2. r \in ReqsOf(p)
    BY DEF ReqsOf
  <2>3. ReqsOf(p) = {r} /\ r.obj = 1 /\ Len(sObjs[p]) = 1
    BY <2>1, <2>2 DEF Settled
  <2>4. ReqsOf(p)' = {d}
    BY <1>3, <2>3 DEF ReqsOf
  <2>5. sObjs[p] # <<>>
    BY <2>3
  <2> QED BY <1>3, <1>4, <2>3, <2>4, <2>5 DEF Settled
<1> QED BY <1>1, <1>5, <1>6, <1>7, <1>8, OnePhone

LEMMA FossDoesKeeps ==
  ASSUME StartInv, Starts!Bounds, NEW r \in sReqs, Starts!FossDoes(r)
  PROVE  StartInv'
<1>1. /\ r.state = "sent" /\ UNCHANGED <<sPhase, sKnown, sObjs, sRows>>
      /\ r.phone \in Phones /\ r.box \in Boxes \cup {None}
      /\ sTable \in [Phones -> Boxes \cup {None}]
      /\ sFails \in 0 .. MaxFails /\ (Starts!Fail => sFails' \in 0 .. MaxFails)
  BY Asked DEF Starts!FossDoes, Starts!Fail, StartInv, StartTypes, Starts!Bounds
<1>2. CASE /\ sTable' = [sTable EXCEPT ![r.phone] = r.box]
           /\ sReqs' = (sReqs \ {r}) \cup {[r EXCEPT !.state = "done"]}
           /\ UNCHANGED <<sStrays, sFails>>
  BY <1>1, <1>2, FossDone
<1>3. CASE sReqs' = sReqs \ {r} /\ Starts!Fail /\ UNCHANGED <<sTable, sStrays>>
  BY <1>1, <1>3, Goes
<1>4. CASE /\ sTable' = [sTable EXCEPT ![r.phone] = r.box] /\ sReqs' = sReqs \ {r}
           /\ sStrays' = sStrays \cup {r.phone} /\ Starts!Fail
  <2>1. /\ sTable' \in [Phones -> Boxes \cup {None}]
        /\ \A q \in Phones \ {r.phone} : sTable'[q] = sTable[q]
    BY <1>1, <1>4
  <2> QED BY <1>1, <1>4, <2>1, Goes
<1> QED BY <1>2, <1>3, <1>4 DEF Starts!FossDoes

LEMMA RespLostKeeps ==
  ASSUME StartInv, Starts!Bounds, NEW r \in sReqs, Starts!RespLost(r)
  PROVE  StartInv'
<1>1. /\ sReqs' = sReqs \ {r} /\ sStrays' = sStrays \cup {r.phone}
      /\ UNCHANGED <<sPhase, sKnown, sObjs, sRows>> /\ sFails' \in 0 .. MaxFails
  BY DEF Starts!RespLost, Starts!Fail, StartInv, StartTypes, Starts!Bounds
<1>2. /\ sTable' \in [Phones -> Boxes \cup {None}]
      /\ \A q \in Phones \ {r.phone} : sTable'[q] = sTable[q]
  BY Asked DEF Starts!RespLost, StartInv, StartTypes
<1> QED BY <1>1, <1>2, Goes

\* foss_bind_resp, foss_unbind_resp
LEMMA FossRespKept ==
  ASSUME StartInv, Starts!Bounds, NEW r \in sReqs, Starts!FossResp(r)
  PROVE  StartInv'
<1> DEFINE p == r.phone
<1>1. /\ p \in Phones /\ sPhase = "serving" /\ r.box \in Boxes \cup {None}
      /\ r.obj \in 1 .. Len(sObjs[p])
  BY Asked
<1>2. /\ r.state = "done" /\ sReqs' = sReqs \ {r}
      /\ sObjs' = [sObjs EXCEPT ![p][r.obj] = r.box]
      /\ UNCHANGED <<sPhase, sKnown, sRows, sTable, sStrays, sFails>>
  BY DEF Starts!FossResp
<1>3. sObjs \in [Phones -> Seq(Boxes \cup {None})]
  BY DEF StartInv, StartTypes
<1>4. /\ sObjs' = [sObjs EXCEPT ![p] = [sObjs[p] EXCEPT ![r.obj] = r.box]]
      /\ [sObjs[p] EXCEPT ![r.obj] = r.box] \in Seq(Boxes \cup {None})
      /\ Len([sObjs[p] EXCEPT ![r.obj] = r.box]) = Len(sObjs[p])
  BY <1>1, <1>2, <1>3
<1>5. /\ sObjs' \in [Phones -> Seq(Boxes \cup {None})]
      /\ sObjs'[p] = [sObjs[p] EXCEPT ![r.obj] = r.box]
      /\ \A q \in Phones \ {p} : sObjs'[q] = sObjs[q]
  BY <1>1, <1>3, <1>4
<1>6. \A q \in Phones : Len(sObjs'[q]) = Len(sObjs[q])
  BY <1>4, <1>5
<1>7. StartTypes'
  BY <1>2, <1>5, <1>6 DEF StartInv, StartTypes
<1>8. ObjsThere'
  <2>1. \A q \in Phones : Coming(q)' = Coming(q)
    BY <1>2 DEF Coming
  <2>2. \A s \in sReqs' : s \in sReqs /\ s.phone \in Phones
    BY <1>2, Asked
  <2> QED BY <1>2, <1>6, <2>1, <2>2 DEF StartInv, ObjsThere
<1>9. \A q \in Phones \ {p} : SameFor(q)
  BY <1>2, <1>5 DEF SameFor, ReqsOf, Coming
<1>10. ASSUME p \notin sStrays' PROVE Settled(p)'
  <2>1. Settled(p)
    BY <1>1, <1>2, <1>10 DEF StartInv
  <2>2. r \in ReqsOf(p)
    BY DEF ReqsOf
  <2>3. ReqsOf(p) = {r} /\ r.obj = 1 /\ Len(sObjs[p]) = 1 /\ sTable[p] = r.box
    BY <1>2, <2>1, <2>2 DEF Settled
  <2>4. ReqsOf(p)' = {}
    BY <1>2, <2>3 DEF ReqsOf
  <2>5. sObjs'[p] = <<r.box>>
    BY <1>1, <1>3, <1>5, <2>3
  <2>6. Same(p)'
    BY <1>1, <1>2, <2>3, <2>5 DEF Same
  <2> QED BY <2>4, <2>5, <2>6 DEF Settled
<1> QED BY <1>1, <1>2, <1>7, <1>8, <1>9, <1>10, OnePhone

------------------------------------------------------------------------------
(* All steps *)

\* The steps of main, of the pool and of the boxes
LEMMA StartsKeep ==
  ASSUME StartInv, Starts!Bounds,
         \/ Starts!Configure \/ Starts!CreateClients \/ Starts!CreatePool
         \/ Starts!DbpoolDone \/ \E b \in Boxes : Starts!StbFetch(b)
  PROVE  StartInv'
<1>1. sPhase # "serving" /\ sRows = None /\ sFails \in 0 .. MaxFails
  BY DEF StartInv, Asleep, StartTypes, Starts!Configure, Starts!CreateClients,
         Starts!CreatePool, Starts!DbpoolDone, Starts!StbFetch
<1>2. sFails' = sFails \/ Starts!Fail
  BY DEF Starts!Configure, Starts!CreateClients, Starts!CreatePool,
         Starts!DbpoolDone, Starts!StbFetch, Starts!Exits
<1>3. sFails' \in 0 .. MaxFails
  BY <1>1, <1>2 DEF Starts!Fail, Starts!Bounds
<1>4. sKnown \subseteq Boxes
  BY DEF StartInv, StartTypes
<1>5. /\ sPhase' \in {"off", "clients", "db", "pool", "boxes", "stuck"}
      /\ sKnown' \subseteq Boxes
      /\ UNCHANGED <<sObjs, sRows, sTable, sReqs, sStrays>>
  BY <1>4 DEF Starts!Bounds, Starts!Configure, Starts!CreateClients,
         Starts!CreatePool, Starts!DbpoolDone, Starts!StbFetch, Starts!Exits
<1> QED BY <1>1, <1>3, <1>5, Sleeps

LEMMA StbFetchDoneKeeps ==
  ASSUME StartInv, Starts!Bounds, Starts!StbFetchDone
  PROVE  StartInv'
<1>1. /\ sPhase # "serving" /\ UNCHANGED <<sKnown, sObjs, sTable, sReqs, sStrays>>
      /\ sFails' \in 0 .. MaxFails /\ sKnown \subseteq Boxes
  BY DEF Starts!StbFetchDone, Starts!Fail, StartInv, StartTypes, Starts!Bounds
<1>2. CASE /\ sPhase' = "serving"
           /\ sRows' = [p \in {q \in Phones : sTable[q] # None} |-> sTable[p]]
  BY <1>1, <1>2, Serves
<1>3. CASE sPhase' = "stuck" /\ sRows' = None
  BY <1>1, <1>3, Sleeps
<1> QED BY <1>2, <1>3 DEF Starts!StbFetchDone

LEMMA StartStep ==
  ASSUME StartInv, Starts!Bounds, [Starts!Next]_(Starts!vars)
  PROVE  StartInv'
<1>1. CASE \/ Starts!Configure \/ Starts!CreateClients \/ Starts!CreatePool
           \/ Starts!DbpoolDone \/ \E b \in Boxes : Starts!StbFetch(b)
  BY <1>1, StartsKeep
<1>2. CASE Starts!StbFetchDone
  BY <1>2, StbFetchDoneKeeps
<1>3. CASE Starts!PhoneFetchEnd
  BY <1>3, PhoneFetchEndKeeps
<1>4. CASE Starts!Stop
  BY <1>4, StopKeeps
<1>5. ASSUME NEW p \in Phones, Starts!PhoneFetch(p) PROVE StartInv'
  BY <1>5, PhoneFetchKeeps
<1>6. ASSUME NEW p \in Phones, Starts!UnbindStb(p) PROVE StartInv'
  BY <1>6, UnbindStbKeeps
<1>7. ASSUME NEW p \in Phones, Starts!BoundElsewhere(p) PROVE StartInv'
  BY <1>7, BoundElsewhereKeeps
<1>8. ASSUME NEW p \in Phones, NEW b \in Boxes, Starts!BindStb(p, b) PROVE StartInv'
  BY <1>8, BindStbKeeps
<1>9. ASSUME NEW r \in sReqs, Starts!FossDoes(r) PROVE StartInv'
  BY <1>9, FossDoesKeeps
<1>10. ASSUME NEW r \in sReqs, Starts!FossResp(r) PROVE StartInv'
  BY <1>10, FossRespKept
<1>11. ASSUME NEW r \in sReqs, Starts!RespLost(r) PROVE StartInv'
  BY <1>11, RespLostKeeps
<1>12. CASE UNCHANGED Starts!vars
  <2>1. UNCHANGED <<sPhase, sKnown, sObjs, sRows, sTable, sReqs, sStrays, sFails>>
    BY <1>12 DEF Starts!vars
  <2>2. StartTypes' /\ ObjsThere' /\ (sPhase' # "serving" => Asleep')
    BY <2>1 DEF StartInv, StartTypes, ObjsThere, Asleep, Coming
  <2>3. ASSUME NEW p \in Phones \ sStrays' PROVE Settled(p)'
    <3>1. Settled(p) /\ SameFor(p)
      BY <2>1 DEF StartInv, SameFor, ReqsOf, Coming
    <3> QED BY <2>1, <3>1, OtherPhones
  <2> QED BY <2>2, <2>3 DEF StartInv
<1> QED BY <1>1, <1>2, <1>3, <1>4, <1>5, <1>6, <1>7, <1>8, <1>9, <1>10, <1>11, <1>12
        DEF Starts!Next

\* The invariant says what the property says.
LEMMA StartSays == StartInv => StartSound
<1> SUFFICES ASSUME StartInv PROVE StartSound
  OBVIOUS
<1>1. Starts!TypeOK
  BY StartTypesAre DEF StartInv
<1>2. ASSUME NEW p \in Phones, sPhase = "serving", sRows = None, p \notin sStrays,
             ~\E r \in sReqs : r.phone = p
      PROVE  Same(p)
  <2>1. Settled(p) /\ ~Coming(p) /\ ReqsOf(p) = {}
    BY <1>2 DEF StartInv, Coming, ReqsOf
  <2> QED BY <1>2, <2>1 DEF Settled
<1>3. Starts!MemoryAgrees
  BY <1>2 DEF Starts!MemoryAgrees, Same
<1> QED BY <1>1, <1>3 DEF StartSound, Starts!StartSound

\* After the start of a TRS, as long as nothing came between, what it has in memory of
\* a phone, by which /stb/bindphonelist and /phone/screen go, is what the table says.
THEOREM StartSafe == Starts!Spec => []StartSound
<1>1. Starts!Init => StartInv
  BY StartInit, StartBounds
<1>2. StartInv /\ [Starts!Next]_(Starts!vars) => StartInv'
  BY StartStep, StartBounds
<1>3. StartInv => StartSound
  BY StartSays
<1> QED BY <1>1, <1>2, <1>3, PTL DEF Starts!Spec

------------------------------------------------------------------------------
(* LogPipe *)

Cells == Pipe!Sizes \cup Pipe!Units

\* A unit of the text of line i with n - 1 more behind it
IsText(x, i, n) == x.kind = "text" /\ x.line = i /\ x.n = n

\* The cells are those of the lines, in their order.
Before(x, y) ==
  \/ x.line < y.line
  \/ x.line = y.line /\ y.kind = "text" /\ (x.kind = "size" \/ x.n > y.n)
Sorted(q) == \A a, b \in 1 .. Len(q) : a < b => Before(q[a], q[b])

\* How many units a cell has behind it, and that they are there, with a size, or nothing,
\* behind them
Behind(x) == IF x.kind = "size" THEN x.n ELSE x.n - 1
Whole(q, a, i, r) ==
  /\ \A k \in 1 .. r : a + k <= Len(q) /\ IsText(q[a + k], i, r - k + 1)
  /\ a + r + 1 <= Len(q) => q[a + r + 1].kind = "size"

\* What is in the pipe are whole lines, but for the last one, of which rns_log may have
\* written the size only, and the first one, whose size do_log may have.
Straight(q, i, r, h) ==
  /\ Whole(q, 0, i, r) /\ (r > 0 => i # 0)
  /\ \A a \in 1 .. Len(q) : (h > 0 /\ a = Len(q)) \/ Whole(q, a, q[a].line, Behind(q[a]))

\* What is read of a sequence leaves s; t is the first part of the text of a line, and s
\* has the text behind place l.
Rest(s, q, n) == Len(s) = Len(q) - n /\ \A a \in 1 .. Len(s) : s[a] = q[a + n]
Begins(t, i, n, m) == Len(t) = m /\ \A k \in 1 .. m : IsText(t[k], i, n - k + 1)
Lies(s, l, i, n) == \A k \in 1 .. n : IsText(s[l + k], i, n - k + 1)

PipeTypes ==
  /\ gPipe \in Seq(Cells) /\ Len(gPipe) <= Cap
  /\ gLogged \in 0 .. MaxLines /\ gHeader \in {0} \cup Lengths
  /\ gSize \in 0 .. Cap /\ gOf \in 0 .. MaxLines
  /\ gReading \in BOOLEAN /\ gEdge \in BOOLEAN /\ gTorn \in BOOLEAN /\ gBad \in BOOLEAN
  /\ gFailed \in BOOLEAN
  /\ gFile \in Seq(0 .. MaxLines)

\* do_log has a size only while it runs, which is between two lines of rns_log.
Turns ==
  /\ ~gReading => gSize = 0
  /\ gSize = 0 => gOf = 0
  /\ gHeader > 0 =>
       /\ ~gReading /\ gPipe # <<>>
       /\ gPipe[Len(gPipe)].kind = "size" /\ gPipe[Len(gPipe)].line = gLogged
       /\ gPipe[Len(gPipe)].n = gHeader

\* What was written is older than what is in the pipe, and that than what will be logged.
Older ==
  /\ \A a \in 1 .. Len(gPipe) : gPipe[a].line <= gLogged
  /\ gOf <= gLogged
  /\ \A j \in 1 .. Len(gFile) : gFile[j] # 0 =>
       /\ gFile[j] <= gLogged
       /\ \A a \in 1 .. Len(gPipe) : gFile[j] < gPipe[a].line
       /\ gOf # 0 => gFile[j] < gOf
  /\ \A i, j \in 1 .. Len(gFile) : i < j /\ gFile[i] # 0 /\ gFile[j] # 0 => gFile[i] < gFile[j]

PipeInv ==
  /\ PipeTypes /\ Turns /\ Sorted(gPipe) /\ Older
  /\ ~gTorn => Straight(gPipe, gOf, gSize, gHeader)
  /\ ~gBad
  /\ gPipe # <<>> /\ ~gTorn /\ ~gFailed /\ gHeader = 0 => gEdge \/ gReading

LEMMA CellsAre ==
  ASSUME Pipe!Bounds, NEW x \in Cells
  PROVE  x.kind \in {"size", "text"} /\ x.line \in 1 .. MaxLines /\ x.n \in 1 .. Cap
BY DEF Cells, Pipe!Sizes, Pipe!Units, Pipe!Bounds

LEMMA BehindIs ==
  ASSUME Pipe!Bounds, NEW x \in Cells
  PROVE  Behind(x) \in Nat /\ x.line \in Int
<1>1. x.line \in 1 .. MaxLines /\ x.n \in 1 .. Cap
  BY CellsAre
<1>2. x.n \in Nat /\ x.n - 1 \in Nat
  BY <1>1
<1> QED BY <1>1, <1>2 DEF Behind

LEMMA SizeIsCell ==
  ASSUME Pipe!Bounds, NEW i \in 1 .. MaxLines, NEW n \in Lengths
  PROVE  [kind |-> "size", line |-> i, n |-> n] \in Cells
BY DEF Cells, Pipe!Sizes

LEMMA PipeInit == Pipe!Bounds /\ Pipe!Init => PipeInv
<1> SUFFICES ASSUME Pipe!Bounds, Pipe!Init PROVE PipeInv
  OBVIOUS
<1>1. gPipe = <<>> /\ gFile = <<>> /\ Len(gPipe) = 0 /\ Len(gFile) = 0
  BY DEF Pipe!Init
<1>2. PipeTypes
  <2>1. gPipe \in Seq(Cells) /\ gFile \in Seq(0 .. MaxLines)
    BY <1>1
  <2>2. Len(gPipe) <= Cap /\ gLogged \in 0 .. MaxLines /\ gSize \in 0 .. Cap
    BY <1>1 DEF Pipe!Init, Pipe!Bounds
  <2>3. gHeader \in {0} \cup Lengths /\ gOf \in 0 .. MaxLines
    BY DEF Pipe!Init, Pipe!Bounds
  <2> QED BY <2>1, <2>2, <2>3 DEF Pipe!Init, PipeTypes
<1>3. Turns
  BY <1>1 DEF Pipe!Init, Turns
<1>4. Sorted(gPipe) /\ Older
  BY <1>1 DEF Pipe!Init, Sorted, Older
<1>5. Straight(gPipe, gOf, gSize, gHeader)
  BY <1>1 DEF Pipe!Init, Straight, Whole
<1> QED BY <1>1, <1>2, <1>3, <1>4, <1>5 DEF PipeInv, Pipe!Init

------------------------------------------------------------------------------
(* The text of a line *)

LEMMA TextIs ==
  ASSUME Pipe!Bounds, NEW i \in 1 .. MaxLines, NEW n \in Lengths
  PROVE  /\ Pipe!Text(i, n) \in Seq(Cells) /\ Len(Pipe!Text(i, n)) = n
         /\ \A k \in 1 .. n : IsText(Pipe!Text(i, n)[k], i, n - k + 1)
<1>1. n \in Nat /\ n <= Cap /\ Cap \in Nat
  BY DEF Pipe!Bounds
<1>2. ASSUME NEW k \in 1 .. n
      PROVE  [kind |-> "text", line |-> i, n |-> n - k + 1] \in Cells
  <2>1. n - k + 1 \in 1 .. Cap
    BY <1>1, <1>2
  <2> QED BY <2>1 DEF Cells, Pipe!Units
<1>3. Pipe!Text(i, n) = [k \in 1 .. n |-> [kind |-> "text", line |-> i, n |-> n - k + 1]]
  BY DEF Pipe!Text
<1>4. PICK t : t = Pipe!Text(i, n)
  OBVIOUS
<1>5. t \in [1 .. n -> Cells]
  BY <1>2, <1>3, <1>4
<1>6. t \in Seq(Cells) /\ Len(t) = n
  BY <1>1, <1>5
<1>7. \A k \in 1 .. n : IsText(t[k], i, n - k + 1)
  BY <1>3, <1>4 DEF IsText
<1> QED BY <1>4, <1>6, <1>7

\* A size is put behind all lines.
LEMMA SizeBehind ==
  ASSUME Pipe!Bounds, NEW q \in Seq(Cells), NEW x \in Cells, x.kind = "size",
         Sorted(q), \A a \in 1 .. Len(q) : q[a].line < x.line
  PROVE  /\ Append(q, x) \in Seq(Cells) /\ Len(Append(q, x)) = Len(q) + 1
         /\ Append(q, x)[Len(q) + 1] = x
         /\ \A a \in 1 .. Len(q) : Append(q, x)[a] = q[a]
         /\ Sorted(Append(q, x))
<1> DEFINE s == Append(q, x)
<1>1. /\ s \in Seq(Cells) /\ Len(s) = Len(q) + 1 /\ Len(q) \in Nat
      /\ s[Len(q) + 1] = x /\ \A a \in 1 .. Len(q) : s[a] = q[a]
  BY AppendProperties
<1> HIDE DEF s
<1>2. ASSUME NEW a \in 1 .. Len(s), NEW b \in 1 .. Len(s), a < b
      PROVE  Before(s[a], s[b])
  <2>1. a \in 1 .. Len(q) /\ s[a] = q[a]
    BY <1>1, <1>2
  <2>2. CASE b = Len(q) + 1
    BY <1>1, <2>1, <2>2 DEF Before
  <2>3. CASE b # Len(q) + 1
    <3>1. b \in 1 .. Len(q) /\ s[b] = q[b]
      BY <1>1, <2>3
    <3> QED BY <1>2, <2>1, <3>1 DEF Sorted
  <2> QED BY <2>2, <2>3
<1> QED BY <1>1, <1>2 DEF Sorted, s

LEMMA SizeStraight ==
  ASSUME Pipe!Bounds, NEW q \in Seq(Cells), NEW s \in Seq(Cells), Len(s) = Len(q) + 1,
         s[Len(q) + 1].kind = "size", \A a \in 1 .. Len(q) : s[a] = q[a],
         NEW h \in Nat, h > 0, Straight(q, 0, 0, 0)
  PROVE  Straight(s, 0, 0, h)
<1> DEFINE l == Len(q)
<1>1. l \in Nat
  OBVIOUS
<1>2. Whole(s, 0, 0, 0)
  BY <1>1 DEF Straight, Whole
<1>3. ASSUME NEW a \in 1 .. Len(s), a # Len(s)
      PROVE  Whole(s, a, s[a].line, Behind(s[a]))
  <2>1. a \in 1 .. l /\ s[a] = q[a]
    BY <1>1, <1>3
  <2>2. PICK r : r = Behind(q[a])
    OBVIOUS
  <2>3. r \in Nat
    <3>1. q[a] \in Cells
      BY <2>1
    <3> QED BY <2>2, <3>1, BehindIs
  <2>4. Whole(q, a, q[a].line, r)
    BY <2>1, <2>2 DEF Straight
  <2>5. ASSUME NEW k \in 1 .. r
        PROVE  a + k <= Len(s) /\ IsText(s[a + k], q[a].line, r - k + 1)
    <3>1. a + k <= l /\ IsText(q[a + k], q[a].line, r - k + 1)
      BY <2>4 DEF Whole
    <3>2. a + k \in 1 .. l
      BY <1>1, <2>1, <2>3, <3>1
    <3> QED BY <1>1, <3>1, <3>2
  <2>6. ASSUME a + r + 1 <= Len(s) PROVE s[a + r + 1].kind = "size"
    <3>1. CASE a + r + 1 = l + 1
      BY <3>1
    <3>2. CASE a + r + 1 # l + 1
      <4>1. a + r + 1 \in Nat /\ a + r + 1 >= 1
        BY <2>1, <2>3
      <4>2. a + r + 1 <= l + 1
        BY <2>6
      <4>3. a + r + 1 \in 1 .. l
        BY <1>1, <3>2, <4>1, <4>2
      <4> QED BY <2>4, <4>3 DEF Whole
    <3> QED BY <3>1, <3>2
  <2> QED BY <2>1, <2>2, <2>5, <2>6 DEF Whole
<1> QED BY <1>2, <1>3 DEF Straight

\* A part of the text of a line is put behind its size.
LEMMA TextBehind ==
  ASSUME Pipe!Bounds, NEW q \in Seq(Cells), NEW t \in Seq(Cells),
         NEW i \in Int, NEW n \in Nat, NEW m \in 0 .. n, Begins(t, i, n, m),
         q # <<>>, q[Len(q)].kind = "size", q[Len(q)].line = i,
         Sorted(q)
  PROVE  /\ q \o t \in Seq(Cells) /\ Len(q \o t) = Len(q) + m
         /\ \A a \in 1 .. Len(q) : (q \o t)[a] = q[a]
         /\ \A k \in 1 .. m : (q \o t)[Len(q) + k] = t[k]
         /\ Sorted(q \o t)
<1> DEFINE s == q \o t
<1> DEFINE l == Len(q)
<1>0. Len(t) = m /\ \A k \in 1 .. m : IsText(t[k], i, n - k + 1)
  BY DEF Begins
<1>1. /\ s \in Seq(Cells) /\ Len(s) = l + m /\ l \in Nat /\ l >= 1 /\ m \in Nat
      /\ \A a \in 1 .. l + m : s[a] = IF a <= l THEN q[a] ELSE t[a - l]
  <2>1. l \in Nat /\ l >= 1 /\ m \in Nat
    OBVIOUS
  <2>2. /\ s \in Seq(Cells) /\ Len(s) = l + Len(t)
        /\ \A a \in 1 .. l + Len(t) : s[a] = IF a <= l THEN q[a] ELSE t[a - l]
    BY ConcatProperties
  <2> QED BY <1>0, <2>1, <2>2
<1> HIDE DEF s
<1>2. \A a \in 1 .. l : s[a] = q[a]
  BY <1>1
<1>3. ASSUME NEW k \in 1 .. m PROVE s[l + k] = t[k]
  <2>1. l + k \in 1 .. l + m /\ ~(l + k <= l) /\ (l + k) - l = k
    BY <1>1
  <2> QED BY <1>1, <2>1
<1>4. l \in 1 .. l /\ q[l] \in Cells
  BY <1>1
<1>5. ASSUME NEW a \in 1 .. Len(s), NEW b \in 1 .. Len(s), a < b
      PROVE  Before(s[a], s[b])
  <2>1. CASE b <= l
    <3>1. a \in 1 .. l /\ b \in 1 .. l
      BY <1>1, <1>5, <2>1
    <3> QED BY <1>2, <1>5, <3>1 DEF Sorted
  <2>2. CASE ~(b <= l)
    <3>1. PICK k \in 1 .. m : b = l + k
      <4>1. b - l \in 1 .. m /\ b = l + (b - l)
        BY <1>1, <2>2
      <4> QED BY <4>1
    <3>2. IsText(s[b], i, n - k + 1)
      BY <1>0, <1>3, <3>1
    <3>3. CASE a < l
      <4>1. a \in 1 .. l /\ s[a] = q[a] /\ q[a] \in Cells
        BY <1>1, <1>2, <3>3
      <4>2. Before(q[a], q[l])
        BY <1>4, <3>3, <4>1 DEF Sorted
      <4>3. q[a].line < i
        BY <4>2 DEF Before
      <4> QED BY <3>2, <4>1, <4>3 DEF Before, IsText
    <3>4. CASE a = l
      BY <1>2, <1>4, <3>2, <3>4 DEF Before, IsText
    <3>5. CASE a > l
      <4>1. PICK j \in 1 .. m : a = l + j
        <5>1. a <= l + m /\ a \in Nat
          BY <1>1
        <5>2. a - l \in 1 .. m /\ a = l + (a - l)
          BY <1>1, <3>5, <5>1
        <5> QED BY <5>2
      <4>2. IsText(s[a], i, n - j + 1)
        BY <1>0, <1>3, <4>1
      <4>3. n - j + 1 > n - k + 1
        BY <1>1, <1>5, <3>1, <4>1
      <4> QED BY <3>2, <4>2, <4>3 DEF Before, IsText
    <3> QED BY <1>1, <3>3, <3>4, <3>5
  <2> QED BY <2>1, <2>2
<1> QED BY <1>1, <1>2, <1>3, <1>5 DEF Sorted, s

LEMMA TextStraight ==
  ASSUME Pipe!Bounds, NEW q \in Seq(Cells), NEW s \in Seq(Cells), q # <<>>,
         NEW i \in Int, NEW n \in Nat, n > 0, Len(s) = Len(q) + n,
         q[Len(q)].kind = "size", q[Len(q)].line = i, q[Len(q)].n = n,
         \A a \in 1 .. Len(q) : s[a] = q[a],
         Lies(s, Len(q), i, n),
         Straight(q, 0, 0, n)
  PROVE  Straight(s, 0, 0, 0)
<1> DEFINE l == Len(q)
<1>0. \A k \in 1 .. n : IsText(s[l + k], i, n - k + 1)
  BY DEF Lies
<1>1. l \in Nat /\ l >= 1 /\ l \in 1 .. l
  OBVIOUS
<1>2. Whole(s, 0, 0, 0)
  <2>1. 1 <= l /\ q[1].kind = "size" /\ s[1] = q[1]
    BY <1>1 DEF Straight, Whole
  <2> QED BY <2>1 DEF Whole
<1>3. ASSUME NEW a \in 1 .. Len(s) PROVE Whole(s, a, s[a].line, Behind(s[a]))
  <2>1. CASE a < l
    <3>1. a \in 1 .. l /\ s[a] = q[a] /\ q[a] \in Cells
      BY <1>1, <2>1
    <3>2. PICK r : r = Behind(q[a])
      OBVIOUS
    <3>3. r \in Nat
      BY <3>1, <3>2, BehindIs
    <3>4. Whole(q, a, q[a].line, r)
      BY <2>1, <3>1, <3>2 DEF Straight
    <3>5. ASSUME NEW k \in 1 .. r
          PROVE  a + k <= Len(s) /\ IsText(s[a + k], q[a].line, r - k + 1)
      <4>1. a + k <= l /\ IsText(q[a + k], q[a].line, r - k + 1)
        BY <3>4 DEF Whole
      <4>2. a + k \in 1 .. l
        BY <1>1, <3>1, <3>3, <4>1
      <4> QED BY <1>1, <4>1, <4>2
    <3>6. a + r # l
      <4>1. CASE r = 0
        BY <2>1, <3>1, <4>1
      <4>2. CASE r # 0
        <5>1. r \in 1 .. r
          BY <3>3, <4>2
        <5>2. q[a + r].kind = "text"
          BY <3>4, <5>1 DEF Whole, IsText
        <5> QED BY <5>2
      <4> QED BY <4>1, <4>2
    <3>7. a + r < l
      <4>1. CASE r = 0
        BY <2>1, <3>1, <4>1
      <4>2. CASE r # 0
        <5>1. r \in 1 .. r
          BY <3>3, <4>2
        <5>2. a + r <= l
          BY <3>4, <5>1 DEF Whole
        <5> QED BY <1>1, <3>1, <3>3, <3>6, <5>2
      <4> QED BY <4>1, <4>2
    <3>8. s[a + r + 1].kind = "size"
      <4>1. a + r + 1 \in 1 .. l
        BY <1>1, <3>1, <3>3, <3>7
      <4> QED BY <3>4, <4>1 DEF Whole
    <3> QED BY <3>1, <3>2, <3>5, <3>8 DEF Whole
  <2>2. CASE a = l
    <3>1. s[a].line = i /\ Behind(s[a]) = n
      BY <1>1, <2>2 DEF Behind
    <3>2. ~(a + n + 1 <= Len(s))
      BY <1>1, <2>2
    <3>3. \A k \in 1 .. n : a + k <= Len(s)
      BY <1>1, <2>2
    <3> QED BY <1>0, <2>2, <3>1, <3>2, <3>3 DEF Whole
  <2>3. CASE a > l
    <3>1. PICK j \in 1 .. n : a = l + j
      <4>1. a - l \in 1 .. n /\ a = l + (a - l)
        BY <1>1, <2>3
      <4> QED BY <4>1
    <3>2. PICK r \in Nat : r = n - j
      OBVIOUS
    <3>3. s[a].line = i /\ Behind(s[a]) = r
      <4>1. IsText(s[a], i, n - j + 1)
        BY <1>0, <3>1
      <4>2. (n - j + 1) - 1 = r
        BY <3>2
      <4> QED BY <4>1, <4>2 DEF IsText, Behind
    <3>4. ASSUME NEW k \in 1 .. r
          PROVE  a + k <= Len(s) /\ IsText(s[a + k], i, r - k + 1)
      <4>1. j + k \in 1 .. n /\ a + k = l + (j + k) /\ r - k + 1 = n - (j + k) + 1
        BY <1>1, <3>1, <3>2, <3>4
      <4>2. a + k <= Len(s)
        BY <1>1, <4>1
      <4>3. IsText(s[l + (j + k)], i, n - (j + k) + 1)
        BY <1>0, <4>1
      <4> QED BY <4>1, <4>2, <4>3
    <3>5. ~(a + r + 1 <= Len(s))
      BY <1>1, <3>1, <3>2
    <3> QED BY <3>3, <3>4, <3>5 DEF Whole
  <2> QED BY <1>1, <2>1, <2>2, <2>3
<1> QED BY <1>2, <1>3 DEF Straight

\* The first n cells are read.
LEMMA Read ==
  ASSUME Pipe!Bounds, NEW q \in Seq(Cells), NEW s \in Seq(Cells), NEW n \in 0 .. Len(q),
         Rest(s, q, n), Sorted(q)
  PROVE  /\ Sorted(s)
         /\ \A a \in 0 .. Len(s), i \in Int, r \in Nat :
              Whole(q, a + n, i, r) => Whole(s, a, i, r)
<1> DEFINE l == Len(q)
<1>1. /\ l \in Nat /\ n \in Nat /\ n <= l /\ Len(s) = l - n
      /\ \A a \in 1 .. Len(s) : s[a] = q[a + n]
  BY DEF Rest
<1>2. ASSUME NEW a \in 1 .. Len(s), NEW b \in 1 .. Len(s), a < b
      PROVE  Before(s[a], s[b])
  <2>1. a + n \in 1 .. l /\ b + n \in 1 .. l /\ a + n < b + n
    BY <1>1, <1>2
  <2> QED BY <1>1, <2>1 DEF Sorted
<1>3. ASSUME NEW a \in 0 .. Len(s), NEW i \in Int, NEW r \in Nat, Whole(q, a + n, i, r)
      PROVE  Whole(s, a, i, r)
  <2>1. ASSUME NEW k \in 1 .. r
        PROVE  a + k <= Len(s) /\ IsText(s[a + k], i, r - k + 1)
    <3>1. (a + n) + k <= l /\ IsText(q[(a + n) + k], i, r - k + 1)
      BY <1>3 DEF Whole
    <3>2. a + k \in 1 .. Len(s) /\ (a + k) + n = (a + n) + k
      BY <1>1, <3>1
    <3> QED BY <1>1, <3>1, <3>2
  <2>2. ASSUME a + r + 1 <= Len(s) PROVE s[a + r + 1].kind = "size"
    <3>1. /\ a + r + 1 \in 1 .. Len(s) /\ (a + r + 1) + n = (a + n) + r + 1
          /\ (a + n) + r + 1 <= l
      BY <1>1, <2>2
    <3>2. q[(a + n) + r + 1].kind = "size"
      BY <1>3, <3>1 DEF Whole
    <3> QED BY <1>1, <3>1, <3>2
  <2> QED BY <2>1, <2>2 DEF Whole
<1> QED BY <1>2, <1>3 DEF Sorted

\* What is left is as straight as it was, if what is read is a size or the text behind one.
LEMMA ReadStraight ==
  ASSUME Pipe!Bounds, NEW q \in Seq(Cells), NEW s \in Seq(Cells), NEW n \in 0 .. Len(q),
         Rest(s, q, n), Sorted(q), NEW i \in Nat, NEW r \in Nat, NEW j \in Int, NEW m \in Nat,
         Straight(q, j, m, 0), Whole(q, n, i, r), r > 0 => i # 0
  PROVE  Straight(s, i, r, 0)
<1>1. /\ Len(q) \in Nat /\ n \in Nat /\ Len(s) = Len(q) - n
      /\ \A a \in 1 .. Len(s) : s[a] = q[a + n]
  <2>1. Len(q) \in Nat
    OBVIOUS
  <2>2. n \in Nat
    BY <2>1
  <2>3. Len(s) = Len(q) - n /\ \A a \in 1 .. Len(s) : s[a] = q[a + n]
    BY DEF Rest
  <2> QED BY <2>1, <2>2, <2>3
<1>2. Whole(s, 0, i, r)
  <2>1. 0 + n = n /\ 0 \in 0 .. Len(s)
    BY <1>1
  <2>2. Whole(q, 0 + n, i, r) /\ i \in Int
    BY <2>1
  <2> QED BY <2>1, <2>2, Read
<1>3. ASSUME NEW a \in 1 .. Len(s) PROVE Whole(s, a, s[a].line, Behind(s[a]))
  <2>1. a + n \in 1 .. Len(q) /\ s[a] = q[a + n] /\ a \in 0 .. Len(s)
    BY <1>1
  <2>2. Whole(q, a + n, q[a + n].line, Behind(q[a + n]))
    BY <2>1 DEF Straight
  <2>3. q[a + n].line \in Int /\ Behind(q[a + n]) \in Nat
    <3>1. q[a + n] \in Cells
      BY <2>1
    <3> QED BY <3>1, BehindIs
  <2> QED BY <2>1, <2>2, <2>3, Read
<1> QED BY <1>2, <1>3 DEF Straight

------------------------------------------------------------------------------
(* The steps *)

\* rns_log: the size
LEMMA LogSizeKeeps ==
  ASSUME Pipe!Bounds, PipeInv, Pipe!LogSize
  PROVE  PipeInv'
<1> USE DEF Pipe!LogSize
<1>1. /\ gHeader = 0 /\ ~gReading /\ gSize = 0 /\ gOf = 0 /\ gLogged \in Nat
      /\ gLogged' = gLogged + 1 /\ gLogged' \in 1 .. MaxLines
      /\ UNCHANGED <<gSize, gOf, gReading, gTorn, gFailed, gFile, gBad>>
  BY DEF PipeInv, PipeTypes, Turns, Pipe!Bounds
<1>2. gPipe \in Seq(Cells) /\ Len(gPipe) <= Cap /\ gFile \in Seq(0 .. MaxLines)
  BY DEF PipeInv, PipeTypes
<1>3. \A a \in 1 .. Len(gPipe) : gPipe[a] \in Cells /\ gPipe[a].line \in Nat
  BY <1>2, CellsAre DEF Pipe!Bounds
<1>4. \A j \in 1 .. Len(gFile) : gFile[j] \in Nat
  BY <1>2 DEF Pipe!Bounds
<1>5. CASE Pipe!Room > 0
  <2>1. PICK n \in Lengths :
          gPipe' = Append(gPipe, [kind |-> "size", line |-> gLogged + 1, n |-> n])
          /\ gHeader' = n
    BY <1>5
  <2>2. gEdge' = TRUE
    BY <1>5
  <2> DEFINE c == [kind |-> "size", line |-> gLogged + 1, n |-> n]
  <2>3. PICK x : x = c
    OBVIOUS
  <2>4. x \in Cells /\ x.kind = "size" /\ x.line = gLogged + 1 /\ x.n = n
    BY <1>1, <2>3, SizeIsCell
  <2>5. gPipe' = Append(gPipe, x)
    BY <2>1, <2>3
  <2> HIDE DEF c
  <2>6. \A a \in 1 .. Len(gPipe) : gPipe[a].line < x.line
    BY <1>1, <1>3, <2>4 DEF PipeInv, Older
  <2>7. /\ gPipe' \in Seq(Cells) /\ Len(gPipe') = Len(gPipe) + 1
        /\ gPipe'[Len(gPipe) + 1] = x
        /\ \A a \in 1 .. Len(gPipe) : gPipe'[a] = gPipe[a]
        /\ Sorted(gPipe')
    BY <1>2, <2>4, <2>5, <2>6, SizeBehind DEF PipeInv
  <2>8. n \in Nat /\ n > 0
    BY DEF Pipe!Bounds
  <2>9. PipeTypes'
    <3>1. Len(gPipe') <= Cap
      BY <1>2, <1>5, <2>7 DEF Pipe!Room, Pipe!Bounds
    <3>2. gLogged' \in 0 .. MaxLines /\ gHeader' \in {0} \cup Lengths
      BY <1>1, <2>1
    <3> QED BY <1>1, <2>2, <2>7, <3>1, <3>2 DEF PipeInv, PipeTypes
  <2>10. gPipe' # <<>> /\ gPipe'[Len(gPipe')] = x
    BY <2>7
  <2>11. Turns'
    BY <1>1, <2>1, <2>4, <2>10 DEF Turns
  <2>12. \A a \in 1 .. Len(gPipe') : gPipe'[a] = x \/ (a \in 1 .. Len(gPipe) /\ gPipe'[a] = gPipe[a])
    BY <1>2, <2>7
  <2>13. Older'
    <3>1. \A a \in 1 .. Len(gPipe') : gPipe'[a].line <= gLogged'
      BY <1>1, <1>3, <2>4, <2>12 DEF PipeInv, Older
    <3>2. ASSUME NEW j \in 1 .. Len(gFile'), gFile'[j] # 0
          PROVE  /\ gFile'[j] <= gLogged'
                 /\ \A a \in 1 .. Len(gPipe') : gFile'[j] < gPipe'[a].line
      <4>1. j \in 1 .. Len(gFile) /\ gFile'[j] = gFile[j] /\ gFile[j] \in Nat
        BY <1>1, <1>4
      <4>2. /\ gFile[j] <= gLogged
            /\ \A a \in 1 .. Len(gPipe) : gFile[j] < gPipe[a].line
        BY <3>2, <4>1 DEF PipeInv, Older
      <4> QED BY <1>1, <2>4, <2>12, <4>1, <4>2
    <3> QED BY <1>1, <3>1, <3>2 DEF PipeInv, Older
  <2>14. ASSUME ~gTorn' PROVE Straight(gPipe', gOf', gSize', gHeader')
    <3>1. Straight(gPipe, 0, 0, 0)
      BY <1>1, <2>14 DEF PipeInv
    <3> QED BY <1>1, <1>2, <2>1, <2>4, <2>7, <2>8, <3>1, SizeStraight
  <2> QED BY <1>1, <2>2, <2>7, <2>9, <2>11, <2>13, <2>14 DEF PipeInv
<1>6. CASE ~(Pipe!Room > 0)
  <2>1. UNCHANGED <<gPipe, gHeader, gEdge>>
    BY <1>6
  <2>2. PipeTypes'
    BY <1>1, <2>1 DEF PipeInv, PipeTypes
  <2>3. Turns'
    BY <1>1, <2>1 DEF Turns
  <2>4. Older'
    <3>1. \A a \in 1 .. Len(gPipe) : gPipe[a].line <= gLogged'
      BY <1>1, <1>3 DEF PipeInv, Older
    <3>2. \A j \in 1 .. Len(gFile) : gFile[j] # 0 => gFile[j] <= gLogged'
      BY <1>1, <1>4 DEF PipeInv, Older
    <3> QED BY <1>1, <2>1, <3>1, <3>2 DEF PipeInv, Older
  <2> QED BY <1>1, <2>1, <2>2, <2>3, <2>4 DEF PipeInv
<1> QED BY <1>5, <1>6

\* rns_log: the text, or a part of it, behind its size
LEMMA TextKeeps ==
  ASSUME Pipe!Bounds, PipeInv, gHeader > 0, ~gReading, gHeader' = 0,
         NEW m \in 0 .. gHeader, NEW t \in Seq(Cells),
         Begins(t, gLogged, gHeader, m),
         gPipe' = gPipe \o t, Len(gPipe) + m <= Cap,
         gTorn' \in BOOLEAN, gTorn' \/ (m = gHeader /\ gTorn' = gTorn), gEdge' = TRUE,
         UNCHANGED <<gLogged, gSize, gOf, gReading, gFailed, gFile, gBad>>
  PROVE  PipeInv'
<1>1. /\ gSize = 0 /\ gOf = 0 /\ gLogged \in Nat /\ gHeader \in Nat /\ m \in Nat
  BY DEF PipeInv, PipeTypes, Turns, Pipe!Bounds
<1>2. gPipe \in Seq(Cells) /\ gPipe # <<>> /\ Len(gPipe) \in Nat /\ Len(gPipe) >= 1
  BY DEF PipeInv, PipeTypes, Turns
<1>3. /\ gPipe[Len(gPipe)].kind = "size" /\ gPipe[Len(gPipe)].line = gLogged
      /\ gPipe[Len(gPipe)].n = gHeader
  BY DEF PipeInv, Turns
<1>4. /\ gPipe' \in Seq(Cells) /\ Len(gPipe') = Len(gPipe) + m
      /\ \A a \in 1 .. Len(gPipe) : gPipe'[a] = gPipe[a]
      /\ \A k \in 1 .. m : gPipe'[Len(gPipe) + k] = t[k]
      /\ Sorted(gPipe')
  <2>1. Sorted(gPipe) /\ gLogged \in Int
    BY <1>1 DEF PipeInv
  <2>2. /\ gPipe \o t \in Seq(Cells) /\ Len(gPipe \o t) = Len(gPipe) + m
        /\ \A a \in 1 .. Len(gPipe) : (gPipe \o t)[a] = gPipe[a]
        /\ \A k \in 1 .. m : (gPipe \o t)[Len(gPipe) + k] = t[k]
        /\ Sorted(gPipe \o t)
    BY <1>1, <1>2, <1>3, <2>1, TextBehind
  <2> QED BY <2>2 DEF Begins
<1>5. PipeTypes'
  BY <1>4 DEF PipeInv, PipeTypes
<1>6. Turns'
  BY DEF PipeInv, Turns
<1>7. \A a \in 1 .. Len(gPipe') : \/ a \in 1 .. Len(gPipe) /\ gPipe'[a] = gPipe[a]
                                  \/ gPipe'[a].line = gLogged
  <2> SUFFICES ASSUME NEW a \in 1 .. Len(gPipe'), ~(a <= Len(gPipe))
               PROVE  gPipe'[a].line = gLogged
    BY <1>2, <1>4
  <2>1. a - Len(gPipe) \in 1 .. m /\ a = Len(gPipe) + (a - Len(gPipe))
    BY <1>1, <1>2, <1>4
  <2> QED BY <1>4, <2>1 DEF Begins, IsText
<1>8. Older'
  <2>1. ASSUME NEW a \in 1 .. Len(gPipe') PROVE gPipe'[a].line <= gLogged
    <3>1. CASE a \in 1 .. Len(gPipe) /\ gPipe'[a] = gPipe[a]
      BY <3>1 DEF PipeInv, Older
    <3>2. CASE gPipe'[a].line = gLogged
      BY <1>1, <3>2
    <3> QED BY <1>7, <3>1, <3>2
  <2>2. Len(gPipe) \in 1 .. Len(gPipe)
    BY <1>2
  <2>3. ASSUME NEW j \in 1 .. Len(gFile), gFile[j] # 0, NEW a \in 1 .. Len(gPipe')
        PROVE  gFile[j] < gPipe'[a].line
    <3>1. \A b \in 1 .. Len(gPipe) : gFile[j] < gPipe[b].line
      BY <2>3 DEF PipeInv, Older
    <3> QED BY <1>3, <1>7, <2>2, <3>1
  <2> QED BY <2>1, <2>3 DEF PipeInv, Older
<1>9. ASSUME ~gTorn' PROVE Straight(gPipe', gOf', gSize', gHeader')
  <2>1. Straight(gPipe, 0, 0, gHeader) /\ m = gHeader
    BY <1>1, <1>9 DEF PipeInv
  <2>2. PICK s \in Seq(Cells) : s = gPipe'
    BY <1>4
  <2>3. /\ Len(s) = Len(gPipe) + gHeader
        /\ \A a \in 1 .. Len(gPipe) : s[a] = gPipe[a]
        /\ Lies(s, Len(gPipe), gLogged, gHeader)
    BY <1>4, <2>1, <2>2 DEF Begins, Lies
  <2>4. Straight(s, 0, 0, 0)
    BY <1>1, <1>2, <1>3, <2>1, <2>3, TextStraight
  <2> QED BY <1>1, <2>2, <2>4
<1> QED BY <1>4, <1>5, <1>6, <1>8, <1>9 DEF PipeInv

LEMMA LogTextKeeps ==
  ASSUME Pipe!Bounds, PipeInv, Pipe!LogText
  PROVE  PipeInv'
<1>1. /\ gHeader > 0 /\ ~gReading /\ gHeader' = 0 /\ gEdge' = TRUE
      /\ UNCHANGED <<gLogged, gSize, gOf, gReading, gFailed, gFile, gBad>>
  BY DEF Pipe!LogText
<1>2. /\ gHeader \in Lengths /\ gHeader \in Nat /\ Cap \in Nat /\ gTorn \in BOOLEAN
      /\ gPipe \in Seq(Cells) /\ Len(gPipe) \in Nat /\ Len(gPipe) <= Cap
  BY <1>1 DEF PipeInv, PipeTypes, Pipe!Bounds
<1>3. gLogged \in 1 .. MaxLines
  <2>1. gPipe # <<>> /\ gPipe[Len(gPipe)].line = gLogged
    BY <1>1 DEF PipeInv, Turns
  <2>2. gPipe[Len(gPipe)] \in Cells
    BY <1>2, <2>1
  <2> QED BY <2>1, <2>2, CellsAre
<1>4. PICK t \in Seq(Cells) :
        t = Pipe!Text(gLogged, gHeader) /\ Begins(t, gLogged, gHeader, gHeader)
  BY <1>2, <1>3, TextIs DEF Begins
<1>5. CASE Pipe!Room >= gHeader /\ gPipe' = gPipe \o Pipe!Text(gLogged, gHeader) /\ gTorn' = gTorn
  <2>1. Len(gPipe) + gHeader <= Cap /\ gHeader \in 0 .. gHeader
    BY <1>2, <1>5 DEF Pipe!Room
  <2> QED BY <1>1, <1>2, <1>4, <1>5, <2>1, TextKeeps
<1>6. CASE gTorn' = TRUE /\ gPipe' = gPipe
  <2>1. gPipe' = gPipe \o <<>> /\ <<>> \in Seq(Cells) /\ Len(<<>>) = 0
    BY <1>2, <1>6, ConcatEmptySeq
  <2>2. 0 \in 0 .. gHeader /\ Len(gPipe) + 0 <= Cap
    BY <1>2
  <2>3. Begins(<<>>, gLogged, gHeader, 0)
    BY DEF Begins
  <2> QED BY <1>1, <1>6, <2>1, <2>2, <2>3, TextKeeps
<1>7. CASE /\ Pipe!Room < gHeader /\ gTorn' = TRUE
           /\ gPipe' = gPipe \o SubSeq(Pipe!Text(gLogged, gHeader), 1, Pipe!Room)
  <2>1. PICK m \in Nat : m = Pipe!Room /\ m <= gHeader /\ Len(gPipe) + m <= Cap
    <3>1. Pipe!Room = Cap - Len(gPipe)
      BY DEF Pipe!Room
    <3>2. PICK l \in Nat : l = Len(gPipe)
      BY <1>2
    <3>3. Cap - l \in Nat /\ Cap - l < gHeader /\ l + (Cap - l) <= Cap
      BY <1>2, <1>7, <3>1, <3>2
    <3> QED BY <1>2, <3>1, <3>2, <3>3
  <2>2. PICK u : u = SubSeq(t, 1, m)
    OBVIOUS
  <2>3. \A k \in 1 .. m : t[k] \in Cells
    BY <1>4, <2>1 DEF Begins
  <2>4. u \in Seq(Cells) /\ Len(u) = m /\ \A k \in 1 .. m : u[k] = t[k]
    <3>1. /\ u \in Seq(Cells) /\ Len(u) = IF 1 <= m THEN m - 1 + 1 ELSE 0
          /\ \A k \in 1 .. m - 1 + 1 : u[k] = t[1 + k - 1]
      BY <2>2, <2>3, SubSeqProperties
    <3>2. m - 1 + 1 = m /\ \A k \in 1 .. m : 1 + k - 1 = k
      BY <2>1
    <3> QED BY <2>1, <3>1, <3>2
  <2>5. Begins(u, gLogged, gHeader, m)
    <3>1. \A k \in 1 .. m : k \in 1 .. gHeader /\ u[k] = t[k]
      BY <1>2, <2>1, <2>4
    <3>2. \A k \in 1 .. gHeader : IsText(t[k], gLogged, gHeader - k + 1)
      BY <1>4 DEF Begins
    <3> QED BY <2>4, <3>1, <3>2 DEF Begins
  <2>6. gPipe' = gPipe \o u /\ m \in 0 .. gHeader
    BY <1>4, <1>7, <2>1, <2>2
  <2> QED BY <1>1, <1>7, <2>1, <2>4, <2>5, <2>6, TextKeeps
<1> QED BY <1>5, <1>6, <1>7 DEF Pipe!LogText

\* The loop calls do_log.
LEMMA CalledKeeps ==
  ASSUME Pipe!Bounds, PipeInv, Pipe!Called
  PROVE  PipeInv'
<1>1. /\ gHeader = 0 /\ gEdge' = FALSE /\ gReading' = TRUE /\ gFailed' = FALSE
      /\ UNCHANGED <<gPipe, gLogged, gHeader, gSize, gOf, gTorn, gFile, gBad>>
  BY DEF Pipe!Called
<1>2. PipeTypes'
  BY <1>1 DEF PipeInv, PipeTypes
<1>3. Turns'
  BY <1>1 DEF PipeInv, Turns
<1>4. Older'
  BY <1>1 DEF PipeInv, Older
<1> QED BY <1>1, <1>2, <1>3, <1>4 DEF PipeInv

\* What is read leaves the order of what is left and of the lines that were written, but
\* for what is written itself.
LEMMA OlderStays ==
  ASSUME Pipe!Bounds, PipeInv, NEW n \in 0 .. Len(gPipe), gPipe' \in Seq(Cells),
         Len(gPipe') = Len(gPipe) - n,
         \A a \in 1 .. Len(gPipe') : gPipe'[a] = gPipe[a + n],
         gOf' = 0 \/ (n = 1 /\ gOf' = gPipe[1].line),
         UNCHANGED <<gLogged, gFile>>
  PROVE  Sorted(gPipe') /\ Older'
<1>1. gPipe \in Seq(Cells) /\ Len(gPipe) \in Nat /\ n \in Nat
  BY DEF PipeInv, PipeTypes
<1>2. Sorted(gPipe')
  <2>1. PICK s \in Seq(Cells) : s = gPipe'
    OBVIOUS
  <2>2. Sorted(s)
    BY <1>1, <2>1, Read DEF PipeInv, Rest
  <2> QED BY <2>1, <2>2
<1>3. \A a \in 1 .. Len(gPipe') : a + n \in 1 .. Len(gPipe) /\ gPipe'[a] = gPipe[a + n]
  BY <1>1
<1>4. gLogged \in Nat
  BY DEF PipeInv, PipeTypes
<1>5. gOf' <= gLogged /\ \A j \in 1 .. Len(gFile) : gFile[j] # 0 /\ gOf' # 0 => gFile[j] < gOf'
  <2>1. CASE gOf' = 0
    BY <1>4, <2>1
  <2>2. CASE n = 1 /\ gOf' = gPipe[1].line
    <3>1. 1 \in 1 .. Len(gPipe)
      BY <1>1, <2>2
    <3> QED BY <2>2, <3>1 DEF PipeInv, Older
  <2> QED BY <2>1, <2>2
<1>6. \A a \in 1 .. Len(gPipe') : gPipe'[a].line <= gLogged
  BY <1>3 DEF PipeInv, Older
<1>7. ASSUME NEW j \in 1 .. Len(gFile), gFile[j] # 0, NEW a \in 1 .. Len(gPipe')
      PROVE  gFile[j] < gPipe'[a].line
  BY <1>3, <1>7 DEF PipeInv, Older
<1> QED BY <1>2, <1>5, <1>6, <1>7 DEF PipeInv, Older

\* do_log reads a size.
LEMMA ReadSizeKeeps ==
  ASSUME Pipe!Bounds, PipeInv, Pipe!ReadSize
  PROVE  PipeInv'
<1>1. /\ gReading /\ gSize = 0 /\ gPipe # <<>> /\ gPipe' = Tail(gPipe)
      /\ UNCHANGED <<gLogged, gHeader, gEdge, gTorn, gFailed, gFile, gBad>>
  BY DEF Pipe!ReadSize
<1>2. /\ gPipe \in Seq(Cells) /\ Len(gPipe) \in Nat /\ Len(gPipe) >= 1 /\ Len(gPipe) <= Cap
      /\ gOf = 0 /\ gHeader = 0
  <2>1. gHeader = 0
    BY <1>1 DEF PipeInv, PipeTypes, Turns, Pipe!Bounds
  <2> QED BY <1>1, <2>1 DEF PipeInv, PipeTypes, Turns
<1>3. /\ gPipe' \in Seq(Cells) /\ Len(gPipe') = Len(gPipe) - 1
      /\ \A a \in 1 .. Len(gPipe') : gPipe'[a] = gPipe[a + 1]
  BY <1>1, <1>2, HeadTailProperties
<1>4. PICK c \in Cells : c = gPipe[1] /\ c = Head(gPipe)
  BY <1>1, <1>2
<1>5. c.kind \in {"size", "text"} /\ c.line \in 1 .. MaxLines /\ c.n \in 1 .. Cap
  BY CellsAre
<1>6. 1 \in 0 .. Len(gPipe)
  BY <1>2
<1>7. CASE c.kind = "size" /\ gSize' = c.n /\ gOf' = c.line /\ gReading' = TRUE
  <2>1. PipeTypes'
    <3>1. Len(gPipe') <= Cap /\ gSize' \in 0 .. Cap /\ gOf' \in 0 .. MaxLines
      BY <1>2, <1>3, <1>5, <1>7 DEF Pipe!Bounds
    <3> QED BY <1>1, <1>3, <1>7, <3>1 DEF PipeInv, PipeTypes
  <2>2. Turns'
    BY <1>1, <1>2, <1>5, <1>7 DEF Turns
  <2>3. Sorted(gPipe') /\ Older'
    BY <1>1, <1>3, <1>4, <1>6, <1>7, OlderStays
  <2>4. ASSUME ~gTorn' PROVE Straight(gPipe', gOf', gSize', gHeader')
    <3>1. Straight(gPipe, 0, 0, 0)
      BY <1>1, <1>2, <2>4 DEF PipeInv
    <3>2. Whole(gPipe, 1, c.line, c.n)
      <4>1. 1 \in 1 .. Len(gPipe) /\ Behind(gPipe[1]) = c.n
        BY <1>2, <1>4, <1>7 DEF Behind
      <4> QED BY <1>4, <3>1, <4>1 DEF Straight
    <3>3. PICK s \in Seq(Cells) : s = gPipe'
      BY <1>3
    <3>4. c.line \in Nat /\ c.n \in Nat /\ c.line # 0 /\ Sorted(gPipe)
      BY <1>5 DEF PipeInv
    <3>5. Rest(s, gPipe, 1)
      BY <1>3, <3>3 DEF Rest
    <3>6. Straight(s, c.line, c.n, 0)
      BY <1>2, <1>6, <3>1, <3>2, <3>4, <3>5, ReadStraight
    <3> QED BY <1>1, <1>2, <1>7, <3>3, <3>6
  <2> QED BY <1>1, <1>7, <2>1, <2>2, <2>3, <2>4 DEF PipeInv
<1>8. CASE /\ c.kind = "text" /\ gOf' = 0
           /\ \E n \in 0 .. Cap : gSize' = n /\ gReading' = (n > 0)
  <2>1. gTorn
    <3> SUFFICES ASSUME ~gTorn PROVE FALSE
      BY DEF PipeInv, PipeTypes
    <3>1. Whole(gPipe, 0, 0, 0)
      BY <1>1, <1>2 DEF PipeInv, Straight
    <3>2. gPipe[1].kind = "size"
      BY <1>2, <3>1 DEF Whole
    <3> QED BY <1>4, <1>8, <3>2
  <2>2. PICK n \in 0 .. Cap : gSize' = n /\ gReading' = (n > 0)
    BY <1>8
  <2>3. PipeTypes'
    <3>1. Len(gPipe') <= Cap /\ gSize' \in 0 .. Cap /\ gOf' \in 0 .. MaxLines
      BY <1>2, <1>3, <1>8, <2>2 DEF Pipe!Bounds
    <3>2. gReading' \in BOOLEAN
      BY <2>2
    <3> QED BY <1>1, <1>3, <3>1, <3>2 DEF PipeInv, PipeTypes
  <2>4. Turns'
    <3>1. n > 0 \/ n = 0
      OBVIOUS
    <3>2. gReading' \/ gSize' = 0
      BY <2>2, <3>1
    <3> QED BY <1>1, <1>2, <1>8, <3>2 DEF Turns
  <2>5. Sorted(gPipe') /\ Older'
    BY <1>1, <1>3, <1>6, <1>8, OlderStays
  <2> QED BY <1>1, <2>1, <2>3, <2>4, <2>5 DEF PipeInv
<1> QED BY <1>4, <1>7, <1>8 DEF Pipe!ReadSize

\* do_log reads what it takes for the text, and writes it.
LEMMA ReadTextKeeps ==
  ASSUME Pipe!Bounds, PipeInv, Pipe!ReadText
  PROVE  PipeInv'
<1>1. /\ gReading /\ gSize > 0 /\ gPipe # <<>> /\ gSize' = 0 /\ gOf' = 0
      /\ UNCHANGED <<gLogged, gHeader, gEdge, gTorn>>
  BY DEF Pipe!ReadText
<1>2. /\ gPipe \in Seq(Cells) /\ Len(gPipe) \in Nat /\ Len(gPipe) >= 1 /\ Len(gPipe) <= Cap
      /\ gHeader = 0 /\ gSize \in Nat /\ gOf \in 0 .. MaxLines /\ gFile \in Seq(0 .. MaxLines)
      /\ gBad = FALSE
  <2>1. gHeader = 0
    BY <1>1 DEF PipeInv, PipeTypes, Turns, Pipe!Bounds
  <2>2. gBad = FALSE
    BY DEF PipeInv, PipeTypes
  <2>3. gPipe \in Seq(Cells) /\ Len(gPipe) <= Cap /\ gSize \in Nat
    BY DEF PipeInv, PipeTypes
  <2> QED BY <1>1, <2>1, <2>2, <2>3 DEF PipeInv, PipeTypes
<1> DEFINE d == IF gSize < Len(gPipe) THEN gSize ELSE Len(gPipe)
<1>3. PICK n : n = d
  OBVIOUS
<1>16. Pipe!Got = SubSeq(gPipe, 1, n)
  BY <1>3 DEF Pipe!Got
<1>4. n \in Nat /\ n >= 1 /\ n <= Len(gPipe) /\ n <= gSize /\ n \in 0 .. Len(gPipe)
  BY <1>1, <1>2, <1>3
<1> DEFINE w == /\ gOf # 0 /\ n = gSize
                /\ \A k \in 1 .. n : IsText(gPipe[k], gOf, n - k + 1)
<1>5. /\ gPipe' = SubSeq(gPipe, n + 1, Len(gPipe))
      /\ w \/ Pipe!LineOf(Pipe!Got) = 0
      /\ w => Pipe!LineOf(Pipe!Got) = gOf /\ gOf # 0
  <2>1. PICK g : g = SubSeq(gPipe, 1, n)
    OBVIOUS
  <2>2. \A k \in 1 .. n : g[k] = gPipe[k]
    <3>1. \A k \in 1 .. n : gPipe[k] \in Cells
      BY <1>2, <1>4
    <3>2. \A k \in 1 .. n - 1 + 1 : g[k] = gPipe[1 + k - 1]
      BY <1>4, <2>1, <3>1, SubSeqProperties
    <3>3. n - 1 + 1 = n /\ \A k \in 1 .. n : 1 + k - 1 = k
      BY <1>4
    <3> QED BY <3>2, <3>3
  <2>5. Len(g) = n
    <3>1. \A k \in 1 .. n : gPipe[k] \in Cells
      BY <1>2, <1>4
    <3>2. Len(g) = IF 1 <= n THEN n - 1 + 1 ELSE 0
      BY <1>4, <2>1, <3>1, SubSeqProperties
    <3> QED BY <1>4, <3>2
  <2> DEFINE v == /\ gOf # 0 /\ n = gSize
                  /\ \A k \in 1 .. n : g[k].kind = "text" /\ g[k].line = gOf /\ g[k].n = n - k + 1
  <2>3. v <=> w
    BY <2>2 DEF IsText
  <2>4. gPipe' = SubSeq(gPipe, n + 1, Len(gPipe))
    BY <1>16, <2>1, <2>5 DEF Pipe!ReadText
  <2>6. Pipe!LineOf(g) = IF v THEN gOf ELSE 0
    BY <2>5 DEF Pipe!LineOf
  <2> HIDE DEF w
  <2>7. v => gOf # 0
    OBVIOUS
  <2> HIDE DEF v
  <2> QED BY <1>16, <2>1, <2>3, <2>4, <2>6, <2>7
<1> HIDE DEF d
<1>6. /\ gPipe' \in Seq(Cells) /\ Len(gPipe') = Len(gPipe) - n
      /\ \A a \in 1 .. Len(gPipe') : gPipe'[a] = gPipe[a + n]
  <2>1. PICK l \in Nat : l = Len(gPipe)
    BY <1>2
  <2>2. \A k \in n + 1 .. l : gPipe[k] \in Cells
    BY <1>2, <1>4, <2>1
  <2>3. /\ SubSeq(gPipe, n + 1, l) \in Seq(Cells)
        /\ Len(SubSeq(gPipe, n + 1, l)) = IF n + 1 <= l THEN l - (n + 1) + 1 ELSE 0
        /\ \A k \in 1 .. l - (n + 1) + 1 : SubSeq(gPipe, n + 1, l)[k] = gPipe[(n + 1) + k - 1]
    BY <1>4, <2>1, <2>2, SubSeqProperties
  <2>4. n <= l /\ l - (n + 1) + 1 = l - n /\ \A k \in 1 .. l - n : (n + 1) + k - 1 = k + n
    BY <1>4, <2>1
  <2>5. (IF n + 1 <= l THEN l - (n + 1) + 1 ELSE 0) = l - n
    BY <1>4, <2>4
  <2> QED BY <1>5, <2>1, <2>3, <2>4, <2>5
<1> HIDE DEF w
<1>7. Pipe!LineOf(Pipe!Got) \in 0 .. MaxLines /\ 0 \in 0 .. MaxLines
  BY <1>2, <1>5 DEF Pipe!Bounds
<1>17. PICK f \in 0 .. MaxLines :
         /\ f = 0 \/ f = Pipe!LineOf(Pipe!Got)
         /\ gFile' = Append(gFile, f) \/ gFile' = gFile
  BY <1>7 DEF Pipe!ReadText
<1>8. f # 0 => w /\ f = gOf
  BY <1>5, <1>17
<1>9. ASSUME gFile' = Append(gFile, f)
      PROVE  /\ gFile' \in Seq(0 .. MaxLines) /\ Len(gFile') = Len(gFile) + 1
             /\ Len(gFile) \in Nat /\ gFile'[Len(gFile) + 1] = f
             /\ \A j \in 1 .. Len(gFile) : gFile'[j] = gFile[j]
  BY <1>2, <1>9, AppendProperties
<1>18. gFile' \in Seq(0 .. MaxLines)
  BY <1>2, <1>9, <1>17
<1>19. /\ gReading' \in BOOLEAN /\ gFailed' \in BOOLEAN
       /\ gReading' \/ gFailed'
  BY <1>1 DEF Pipe!ReadText, PipeInv, PipeTypes
<1>20. gBad' = gBad \/ gBad' = (gBad \/ (Pipe!LineOf(Pipe!Got) = 0 /\ ~gTorn))
  BY DEF Pipe!ReadText
<1> USE DEF w
<1>10. gTorn \/ w
  <2> SUFFICES ASSUME ~gTorn PROVE w
    OBVIOUS
  <2>1. Whole(gPipe, 0, gOf, gSize) /\ gOf # 0
    BY <1>1, <1>2 DEF PipeInv, Straight
  <2>2. \A k \in 1 .. gSize : k <= Len(gPipe) /\ IsText(gPipe[k], gOf, gSize - k + 1)
    BY <1>2, <2>1 DEF Whole
  <2>3. gSize \in 1 .. gSize
    BY <1>1, <1>2
  <2>4. gSize <= Len(gPipe)
    BY <2>2, <2>3
  <2>5. n = gSize
    BY <1>2, <1>3, <2>4 DEF d
  <2> QED BY <2>1, <2>2, <2>5
<1>11. gBad' = FALSE
  <2>1. Pipe!LineOf(Pipe!Got) = 0 => ~w
    BY <1>5
  <2> HIDE DEF w
  <2> QED BY <1>2, <1>10, <1>20, <2>1
<1>12. PipeTypes'
  <2>1. Len(gPipe') <= Cap /\ gSize' \in 0 .. Cap /\ gOf' \in 0 .. MaxLines
    BY <1>1, <1>2, <1>4, <1>6 DEF Pipe!Bounds
  <2> QED BY <1>1, <1>6, <1>11, <1>18, <1>19, <2>1 DEF PipeInv, PipeTypes
<1>13. Turns'
  BY <1>1, <1>2 DEF Turns
<1>14. Sorted(gPipe') /\ Older'
  <2>9. CASE gFile' = gFile
    BY <1>1, <1>4, <1>6, <2>9, OlderStays
  <2>10. SUFFICES ASSUME gFile' = Append(gFile, f)
                  PROVE  Sorted(gPipe') /\ Older'
    BY <1>17, <2>9
  <2>1. \A a \in 1 .. Len(gPipe') : a + n \in 1 .. Len(gPipe) /\ gPipe'[a] = gPipe[a + n]
    BY <1>2, <1>4, <1>6
  <2>2. Sorted(gPipe')
    <3>1. PICK s \in Seq(Cells) : s = gPipe'
      BY <1>6
    <3>2. Sorted(s)
      BY <1>2, <1>4, <1>6, <3>1, Read DEF PipeInv, Rest
    <3> QED BY <3>1, <3>2
  <2>3. ASSUME f # 0, NEW a \in 1 .. Len(gPipe') PROVE f < gPipe'[a].line
    <3>1. IsText(gPipe[n], gOf, 1) /\ n \in 1 .. Len(gPipe)
      <4>1. n \in 1 .. n /\ n - n + 1 = 1 /\ n \in 1 .. Len(gPipe)
        BY <1>2, <1>4
      <4> QED BY <1>8, <2>3, <4>1
    <3>2. Before(gPipe[n], gPipe[a + n])
      <4>1. n < a + n
        BY <1>4
      <4> QED BY <2>1, <3>1, <4>1 DEF PipeInv, Sorted
    <3>3. gPipe[a + n].n \in 1 .. Cap
      BY <1>2, <2>1, CellsAre
    <3> QED BY <1>8, <2>1, <2>3, <3>1, <3>2, <3>3 DEF Before, IsText
  <2>4. f # 0 => f <= gLogged /\ \A j \in 1 .. Len(gFile) : gFile[j] # 0 => gFile[j] < f
    BY <1>8 DEF PipeInv, Older
  <2>5. \A a \in 1 .. Len(gPipe') : gPipe'[a].line <= gLogged
    BY <2>1 DEF PipeInv, Older
  <2>6. gLogged \in Nat
    BY DEF PipeInv, PipeTypes
  <2>7. ASSUME NEW j \in 1 .. Len(gFile'), gFile'[j] # 0
        PROVE  /\ gFile'[j] <= gLogged
               /\ \A a \in 1 .. Len(gPipe') : gFile'[j] < gPipe'[a].line
    <3>1. CASE j = Len(gFile) + 1
      BY <1>9, <2>3, <2>4, <2>7, <2>10, <3>1
    <3>2. CASE j # Len(gFile) + 1
      <4>1. j \in 1 .. Len(gFile) /\ gFile'[j] = gFile[j]
        BY <1>9, <2>10, <3>2
      <4> QED BY <2>1, <2>7, <4>1 DEF PipeInv, Older
    <3> QED BY <3>1, <3>2
  <2>8. ASSUME NEW i \in 1 .. Len(gFile'), NEW j \in 1 .. Len(gFile'), i < j,
               gFile'[i] # 0, gFile'[j] # 0
        PROVE  gFile'[i] < gFile'[j]
    <3>1. i \in 1 .. Len(gFile) /\ gFile'[i] = gFile[i]
      BY <1>9, <2>8, <2>10, <1>2
    <3>2. CASE j = Len(gFile) + 1
      BY <1>9, <2>4, <2>8, <2>10, <3>1, <3>2
    <3>3. CASE j # Len(gFile) + 1
      <4>1. j \in 1 .. Len(gFile) /\ gFile'[j] = gFile[j]
        BY <1>9, <2>10, <3>3
      <4> QED BY <2>8, <3>1, <4>1 DEF PipeInv, Older
    <3> QED BY <3>2, <3>3
  <2> QED BY <1>1, <2>2, <2>5, <2>6, <2>7, <2>8 DEF Older
<1>15. ASSUME ~gTorn' PROVE Straight(gPipe', gOf', gSize', gHeader')
  <2>1. Straight(gPipe, gOf, gSize, 0) /\ w
    BY <1>1, <1>2, <1>10, <1>15 DEF PipeInv
  <2>2. n = gSize
    BY <2>1
  <2>3. Whole(gPipe, n, 0, 0)
    <3>1. n + 0 + 1 <= Len(gPipe) => gPipe[n + 0 + 1].kind = "size"
      <4>1. n + 0 + 1 = 0 + gSize + 1
        BY <1>4, <2>2
      <4> QED BY <2>1, <4>1 DEF Straight, Whole
    <3> QED BY <3>1 DEF Whole
  <2>4. PICK s \in Seq(Cells) : s = gPipe'
    BY <1>6
  <2>5. Sorted(gPipe) /\ gOf \in Int /\ gSize \in Nat
    BY <1>2 DEF PipeInv, Pipe!Bounds
  <2>6. Rest(s, gPipe, n)
    BY <1>6, <2>4 DEF Rest
  <2>7. Straight(s, 0, 0, 0)
    BY <1>2, <1>4, <2>1, <2>3, <2>5, <2>6, ReadStraight
  <2> QED BY <1>1, <1>2, <2>4, <2>7
<1> QED BY <1>1, <1>11, <1>12, <1>13, <1>14, <1>15, <1>19 DEF PipeInv

\* The pipe is empty, and do_log returns.
LEMMA ReadNothingKeeps ==
  ASSUME Pipe!Bounds, PipeInv, Pipe!ReadNothing
  PROVE  PipeInv'
<1>1. /\ gReading /\ gPipe = <<>> /\ Len(gPipe) = 0 /\ gReading' = FALSE /\ gSize' = 0
      /\ gOf' = 0 /\ gTorn' = FALSE
      /\ UNCHANGED <<gPipe, gLogged, gHeader, gEdge, gFailed, gFile, gBad>>
  BY DEF Pipe!ReadNothing
<1>2. PipeTypes'
  <2>1. gSize' \in 0 .. Cap /\ gOf' \in 0 .. MaxLines
    BY <1>1 DEF Pipe!Bounds
  <2> QED BY <1>1, <2>1 DEF PipeInv, PipeTypes
<1>3. Turns'
  BY <1>1 DEF PipeInv, Turns
<1>4. Older' /\ Sorted(gPipe')
  <2>1. gLogged \in Nat
    BY DEF PipeInv, PipeTypes
  <2> QED BY <1>1, <2>1 DEF PipeInv, Older, Sorted
<1>5. Straight(gPipe', gOf', gSize', gHeader')
  BY <1>1 DEF Straight, Whole
<1> QED BY <1>1, <1>2, <1>3, <1>4, <1>5 DEF PipeInv

\* The invariant says what the property says.
LEMMA PipeSays == Pipe!Bounds /\ PipeInv => PipeSound
<1> SUFFICES ASSUME Pipe!Bounds, PipeInv PROVE PipeSound
  OBVIOUS
<1>1. Pipe!TypeOK
  BY DEF PipeInv, PipeTypes, Cells, Pipe!TypeOK
<1>2. DOMAIN gFile = 1 .. Len(gFile)
  BY DEF PipeInv, PipeTypes
<1>3. Pipe!InStep
  BY <1>2 DEF PipeInv, Older, Pipe!InStep
<1>4. Pipe!NoneForgotten
  BY DEF PipeInv, Pipe!NoneForgotten
<1> QED BY <1>1, <1>3, <1>4 DEF PipeSound, Pipe!PipeSound

\* As long as no write fails behind its size, do_log appends whole lines, in the order
\* rns_log was given them, but for those that the file does not take whole; whatever fails,
\* no line is written twice or out of order; and what is in the pipe whole has do_log
\* running or an edge that will call it, unless do_log ended because the file took nothing.
THEOREM PipeSafe == Pipe!Spec => []PipeSound
<1>1. Pipe!Init => PipeInv
  BY PipeInit, PipeBounds
<1>2. PipeInv /\ [Pipe!Next]_(Pipe!vars) => PipeInv'
  <2> SUFFICES ASSUME PipeInv, [Pipe!Next]_(Pipe!vars) PROVE PipeInv'
    OBVIOUS
  <2>1. CASE UNCHANGED Pipe!vars
    <3>1. UNCHANGED <<gPipe, gLogged, gHeader, gSize, gOf, gReading, gEdge, gTorn, gFailed,
                     gFile, gBad>>
      BY <2>1 DEF Pipe!vars
    <3>2. PipeTypes' /\ Turns' /\ Older'
      BY <3>1 DEF PipeInv, PipeTypes, Turns, Older
    <3> QED BY <3>1, <3>2 DEF PipeInv
  <2> QED BY <2>1, LogSizeKeeps, LogTextKeeps, CalledKeeps, ReadSizeKeeps, ReadTextKeeps,
             ReadNothingKeeps, PipeBounds DEF Pipe!Next, Pipe!DoLog
<1>3. PipeInv => PipeSound
  BY PipeSays, PipeBounds
<1> QED BY <1>1, <1>2, <1>3, PTL DEF Pipe!Spec
===============================================================================
