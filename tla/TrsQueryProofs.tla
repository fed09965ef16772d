---------------------------- MODULE TrsQueryProofs ----------------------------
(* Proofs about TrsQuery, for every set of clients, every finite pool and any *)
(* number of rows.                                                            *)
EXTENDS TrsQuery, FiniteSetTheorems, TLAPS

USE DEF vars

------------------------------------------------------------------------------
(* The values of queries *)

LEMMA NewForm ==
  ASSUME NEW o \in Ops, NEW c \in Conns \cup {None}
  PROVE  /\ Sent(o, c) \in Query /\ Sent(o, c) # None
         /\ Sent(o, c).op = o /\ Sent(o, c).conn = c /\ Sent(o, c).stage = "sent"
         /\ Lost(o, c) \in Query /\ Lost(o, c) # None
         /\ Lost(o, c).op = o /\ Lost(o, c).conn = c /\ Lost(o, c).stage = "lost"
<1>1. Sent(o, c) \in Query /\ Lost(o, c) \in Query
  BY BoundAssumption DEF Sent, Lost, Query
<1> QED BY <1>1, QueryAssumption DEF Sent, Lost

LEMMA RowForm ==
  ASSUME NEW r \in Query, NEW n \in 0 .. MaxRows
  PROVE  LET q == [r EXCEPT !.stage = "rows", !.rows = n] IN
         /\ q \in Query /\ q.op = r.op /\ q.conn = r.conn /\ q.stage = "rows"
BY DEF Query

LEMMA SteppedForm ==
  ASSUME TypeOK, NEW m \in Mysqls, query[m] # None, query[m].rows < MaxRows
  PROVE  /\ Stepped(m) \in [Mysqls -> Query \cup {None}]
         /\ \A x \in Mysqls \ {m} : Stepped(m)[x] = query[x]
         /\ Stepped(m)[m] # None
         /\ Stepped(m)[m].op = query[m].op /\ Stepped(m)[m].conn = query[m].conn
         /\ Stepped(m)[m].stage = "rows"
<1> DEFINE q == [query[m] EXCEPT !.stage = "rows", !.rows = @ + 1]
<1>1. query \in [Mysqls -> Query \cup {None}] /\ query[m] \in Query
  BY DEF TypeOK
<1>2. query[m].rows + 1 \in 0 .. MaxRows
  BY <1>1, BoundAssumption DEF Query
<1>4. /\ q \in Query
      /\ q.op = query[m].op /\ q.conn = query[m].conn /\ q.stage = "rows"
  BY <1>1, <1>2, RowForm
<1>3. Stepped(m) = [query EXCEPT ![m] = q]
  BY DEF Stepped
<1> HIDE DEF q
<1> QED BY <1>1, <1>3, <1>4, QueryAssumption

LEMMA StartsForm ==
  ASSUME NEW f \in [Mysqls -> Query \cup {None}], NEW k \in Mysqls, NEW q \in Query,
         query \in [Mysqls -> Query \cup {None}], undefined \in BOOLEAN, Starts(f, k, q)
  PROVE  query' \in [Mysqls -> Query \cup {None}] /\ undefined' \in BOOLEAN
BY DEF Starts

LEMMA FreedForm ==
  ASSUME TypeOK, NEW m \in Mysqls
  PROVE  [query EXCEPT ![m] = None] \in [Mysqls -> Query \cup {None}]
BY DEF TypeOK

LEMMA OpsForm ==
  /\ "boxes" \in Ops /\ "phones" \in Ops /\ "items" \in Ops /\ "users" \in Ops
  /\ "hist" \in Ops /\ "write" \in Ops /\ "insert" \in Ops
BY DEF Ops, Third, OfStb

------------------------------------------------------------------------------
(* Type correctness.  Shape: only the inserts of the CMS have no client.      *)

Shape == \A m \in Mysqls : query[m] # None /\ query[m].op # "insert" => query[m].conn \in Conns

Typed == TypeOK /\ Shape

LEMMA StartsShape ==
  ASSUME Typed, NEW f \in [Mysqls -> Query \cup {None}], NEW k \in Mysqls, NEW o \in Ops,
         NEW c \in Conns, NEW q \in {Sent(o, c), Lost(o, c)},
         \A x \in Mysqls : f[x] # None =>
           query[x] # None /\ f[x].op = query[x].op /\ f[x].conn = query[x].conn,
         Starts(f, k, q)
  PROVE  /\ query' \in [Mysqls -> Query \cup {None}] /\ undefined' \in BOOLEAN
         /\ Shape'
<1>1. q \in Query /\ q # None /\ q.op = o /\ q.conn = c
  BY NewForm
<1>2. query \in [Mysqls -> Query \cup {None}] /\ undefined \in BOOLEAN
  BY DEF Typed, TypeOK
<1>3. query' \in [Mysqls -> Query \cup {None}] /\ undefined' \in BOOLEAN
  BY <1>1, <1>2, StartsForm
<1>4. CASE query[k] = None
  <2>1. query' = [f EXCEPT ![k] = q]
    BY <1>4 DEF Starts
  <2> QED BY <2>1, <1>1, <1>3 DEF Shape, Typed
<1>5. CASE query[k] # None
  <2>1. query' = query
    BY <1>5 DEF Starts
  <2> QED BY <2>1, <1>3 DEF Shape, Typed
<1> QED BY <1>3, <1>4, <1>5

\* The same for a step that starts no query.
LEMMA PlainShape ==
  ASSUME Typed, query' \in [Mysqls -> Query \cup {None}],
         \A x \in Mysqls : query'[x] # None =>
           \/ query'[x].op = "insert"
           \/ query[x] # None /\ query'[x].op = query[x].op /\ query'[x].conn = query[x].conn
  PROVE  Shape'
BY DEF Typed, Shape

LEMMA SameTyped ==
  ASSUME Typed, UNCHANGED query
  PROVE  query' \in [Mysqls -> Query \cup {None}] /\ Shape'
BY DEF Typed, TypeOK, Shape

LEMMA SteppedTyped ==
  ASSUME Typed, NEW m \in Mysqls, query[m] # None, query[m].rows < MaxRows, query' = Stepped(m)
  PROVE  query' \in [Mysqls -> Query \cup {None}] /\ Shape'
<1>1. TypeOK
  BY DEF Typed
<1>2. /\ query' \in [Mysqls -> Query \cup {None}]
      /\ \A x \in Mysqls \ {m} : query'[x] = query[x]
      /\ query'[m].op = query[m].op /\ query'[m].conn = query[m].conn
  BY <1>1, SteppedForm
<1> QED BY <1>2, PlainShape

LEMMA ReturnedTyped ==
  ASSUME Typed, NEW m \in Mysqls, query' = [query EXCEPT ![m] = None]
  PROVE  query' \in [Mysqls -> Query \cup {None}] /\ Shape'
<1>1. query' \in [Mysqls -> Query \cup {None}]
  BY FreedForm DEF Typed
<1> QED BY <1>1, PlainShape DEF Typed, TypeOK

\* A query started while f holds the others.
LEMMA StartsTyped ==
  ASSUME Typed, NEW k \in Mysqls, NEW o \in Ops, NEW c \in Conns, NEW q \in {Sent(o, c), Lost(o, c)},
         NEW m \in Mysqls,
         \/ Starts(query, k, q)
         \/ Starts([query EXCEPT ![m] = None], k, q)
         \/ /\ query[m] # None /\ query[m].rows < MaxRows
            /\ Starts(Stepped(m), k, q)
  PROVE  query' \in [Mysqls -> Query \cup {None}] /\ undefined' \in BOOLEAN /\ Shape'
<1>1. TypeOK /\ query \in [Mysqls -> Query \cup {None}]
  BY DEF Typed, TypeOK
<1>2. CASE Starts(query, k, q)
  BY <1>1, <1>2, StartsShape
<1>3. CASE Starts([query EXCEPT ![m] = None], k, q)
  <2> DEFINE f == [query EXCEPT ![m] = None]
  <2>1. \A x \in Mysqls : f[x] # None =>
           query[x] # None /\ f[x].op = query[x].op /\ f[x].conn = query[x].conn
    BY <1>1
  <2>2. f \in [Mysqls -> Query \cup {None}] /\ Starts(f, k, q)
    BY <1>1, <1>3, FreedForm
  <2> HIDE DEF f
  <2> QED BY <2>1, <2>2, StartsShape
<1>4. CASE /\ query[m] # None /\ query[m].rows < MaxRows
           /\ Starts(Stepped(m), k, q)
  <2>1. /\ Stepped(m) \in [Mysqls -> Query \cup {None}]
        /\ \A x \in Mysqls : Stepped(m)[x] # None =>
             query[x] # None /\ Stepped(m)[x].op = query[x].op /\ Stepped(m)[x].conn = query[x].conn
    BY <1>1, <1>4, SteppedForm
  <2> QED BY <2>1, <1>4, StartsShape
<1> QED BY <1>2, <1>3, <1>4

\* The error callbacks that are left behind: one that holds the context of a tree
\* holds a context that was not destroyed.
Held(f, g) == \A x \in Mysqls :
  f[x] # None /\ f[x].error = "third_error" /\ f[x].conn # None => g[f[x].conn] # None

LeftInv ==
  /\ stale \in [Mysqls -> Callback \cup {None}] /\ again \in BOOLEAN
  /\ Held(stale, ctx)

\* What an action leaves of the type invariant beside the queries.
Rest ==
  /\ free \in SUBSET Mysqls
  /\ ctx \in [Conns -> (Nat \ {0}) \cup {None}]
  /\ busy \in SUBSET Conns
  /\ cms \in 0 .. MaxCms
  /\ spoiled \in SUBSET Conns

LEMMA TypedParts ==
  ASSUME Rest', LeftInv', query' \in [Mysqls -> Query \cup {None}] /\ undefined' \in BOOLEAN /\ Shape'
  PROVE  Typed'
BY DEF Typed, TypeOK, Rest, LeftInv

LEMMA CountForm ==
  ASSUME Typed, NEW f, NEW c \in Conns, ctx[c] # None
  PROVE  /\ ctx[c] \in Nat \ {0}
         /\ Down(c, f) => ctx' \in [Conns -> (Nat \ {0}) \cup {None}] /\ busy' \in SUBSET Conns
         /\ Up(c) => ctx' \in [Conns -> (Nat \ {0}) \cup {None}]
<1>1. ctx \in [Conns -> (Nat \ {0}) \cup {None}] /\ busy \in SUBSET Conns
  BY DEF Typed, TypeOK
<1>2. ctx[c] \in Nat \ {0}
  BY <1>1
<1>3. Down(c, f) => ctx' \in [Conns -> (Nat \ {0}) \cup {None}]
  <2>1. CASE ctx[c] = 1
    BY <1>1, <2>1 DEF Down
  <2>2. CASE ctx[c] # 1
    <3>1. ctx[c] - 1 \in Nat \ {0}
      BY <1>2, <2>2
    <3> QED BY <1>1, <2>2, <3>1 DEF Down
  <2> QED BY <2>1, <2>2
<1>4. Down(c, f) => busy' \in SUBSET Conns
  BY <1>1 DEF Down, Answer
<1>5. Up(c) => ctx' \in [Conns -> (Nat \ {0}) \cup {None}]
  <2>1. ctx[c] + 1 \in Nat \ {0}
    BY <1>2
  <2> QED BY <1>1, <2>1 DEF Up
<1> QED BY <1>2, <1>3, <1>4, <1>5

LEMMA ConnForm ==
  ASSUME Typed, NEW m \in Mysqls, NEW ops, Carries(m, ops), "insert" \notin ops
  PROVE  query[m] # None /\ query[m].op \in ops /\ query[m].conn \in Conns
BY DEF Typed, Shape, Carries

------------------------------------------------------------------------------
(* Trees.  Op(m) and Con(m): which client m works for, if it was started.     *)

Idle(q) == q = None \/ q.stage = "lost" \/ q.op = "insert"

Op(m)  == IF Idle(query[m]) THEN "none" ELSE query[m].op
Con(m) == IF Idle(query[m]) THEN None ELSE query[m].conn

Trees == Third \cup OfStb
Refs(c) == {m \in Mysqls : Op(m) \in Trees /\ Con(m) = c}

\* A step leaves Op and Con of all connections but S, takes k, ends m.
SameTags(S) == \A x \in Mysqls \ S : Op(x)' = Op(x) /\ Con(x)' = Con(x)
SameNone(S) == \A x \in Mysqls \ S :
  (query[x] = None => query'[x] = None) /\ (query[x] # None => query'[x] # None)
Taken(k, o, c) == Op(k) = "none" /\ Op(k)' = o /\ Con(k)' = c
Ended(m) == Op(m)' = "none" /\ Con(m)' = None

LEMMA OpsApart ==
  /\ "none" \notin Trees /\ "write" \notin Trees /\ "none" # "write"
  /\ "insert" \notin Trees
  /\ "users" \in Trees /\ "hist" \in Trees /\ "users" \notin Third /\ "hist" \notin Third
  /\ "boxes" \in Third /\ "phones" \in Third /\ "items" \in Third
  /\ Third \subseteq Trees /\ OfStb \subseteq Trees /\ Trees \subseteq Ops
  /\ Third \cap OfStb = {}
  /\ "none" \notin Third /\ "write" \notin Third
BY DEF Trees, Third, OfStb, Ops

LEMMA RefsRefers == \A c : Refs(c) = Refers(c)
<1>1. \A m : Op(m) \in Trees <=> Carries(m, Trees)
  BY OpsApart DEF Op, Idle, Carries
<1>2. \A m : Op(m) \in Trees => Con(m) = query[m].conn
  BY OpsApart DEF Op, Con, Idle
<1> QED BY <1>1, <1>2 DEF Refs, Refers, Trees

LEMMA CarriesOp ==
  ASSUME NEW m, NEW ops, "none" \notin ops, "insert" \notin ops
  PROVE  /\ Carries(m, ops) <=> Op(m) \in ops
         /\ Carries(m, ops) => Op(m) = query[m].op /\ Con(m) = query[m].conn
BY DEF Op, Con, Idle, Carries

LEMMA ConTyped ==
  ASSUME Typed, NEW m \in Mysqls, Op(m) # "none"
  PROVE  Con(m) \in Conns
BY DEF Typed, Shape, Op, Con, Idle

LEMMA SameEffect == UNCHANGED query => SameTags({}) /\ SameNone({})
BY DEF SameTags, SameNone, Op, Con, Idle

LEMMA SteppedEffect ==
  ASSUME Typed, NEW m \in Mysqls, query[m] # None, query[m].stage # "lost", query[m].rows < MaxRows,
         query' = Stepped(m)
  PROVE  SameTags({}) /\ SameNone({})
<1>1. /\ \A x \in Mysqls \ {m} : query'[x] = query[x]
      /\ query'[m] # None
      /\ query'[m].op = query[m].op /\ query'[m].conn = query[m].conn /\ query'[m].stage = "rows"
  BY SteppedForm DEF Typed
<1> QED BY <1>1 DEF SameTags, SameNone, Op, Con, Idle

LEMMA ReturnedEffect ==
  ASSUME Typed, NEW m \in Mysqls, query' = [query EXCEPT ![m] = None]
  PROVE  SameTags({m}) /\ Ended(m) /\ SameNone({m}) /\ query'[m] = None
<1>1. query' \in [Mysqls -> Query \cup {None}] /\ query'[m] = None
      /\ \A x \in Mysqls \ {m} : query'[x] = query[x]
  BY DEF Typed, TypeOK
<1> QED BY <1>1 DEF SameTags, SameNone, Ended, Op, Con, Idle

LEMMA StartsEffect ==
  ASSUME Typed, NEW k \in Mysqls, NEW f \in [Mysqls -> Query \cup {None}],
         NEW q, Starts(f, k, q), ~undefined'
  PROVE  /\ query[k] = None /\ query'[k] = q
         /\ \A x \in Mysqls \ {k} : query'[x] = f[x]
<1>1. query[k] = None /\ query' = [f EXCEPT ![k] = q]
  BY DEF Starts
<1> QED BY <1>1

LEMMA SentEffect ==
  ASSUME Typed, NEW k \in Mysqls, NEW o \in Ops \ {"insert"}, NEW c \in Conns,
         Starts(query, k, Sent(o, c)), ~undefined'
  PROVE  query[k] = None /\ SameTags({k}) /\ Taken(k, o, c)
         /\ SameNone({k}) /\ query'[k] # None
<1>1. query \in [Mysqls -> Query \cup {None}]
  BY DEF Typed, TypeOK
<1>2. /\ query[k] = None /\ query'[k] = Sent(o, c)
      /\ \A x \in Mysqls \ {k} : query'[x] = query[x]
  BY <1>1, StartsEffect
<1>3. query'[k] # None /\ query'[k].op = o /\ query'[k].conn = c /\ query'[k].stage = "sent"
  BY <1>2, NewForm
<1> QED BY <1>2, <1>3 DEF SameTags, SameNone, Taken, Op, Con, Idle

LEMMA LostEffect ==
  ASSUME Typed, NEW k \in Mysqls, NEW o \in Ops, NEW c \in Conns,
         Starts(query, k, Lost(o, c)), ~undefined'
  PROVE  query[k] = None /\ SameTags({}) /\ SameNone({k}) /\ query'[k] # None
<1>1. query \in [Mysqls -> Query \cup {None}]
  BY DEF Typed, TypeOK
<1>2. /\ query[k] = None /\ query'[k] = Lost(o, c)
      /\ \A x \in Mysqls \ {k} : query'[x] = query[x]
  BY <1>1, StartsEffect
<1>3. query'[k].stage = "lost" /\ query'[k] # None
  BY <1>2, NewForm
<1> QED BY <1>2, <1>3 DEF SameTags, SameNone, Op, Con, Idle

\* The same when a row of m, or its end, starts the query.
LEMMA RowSentEffect ==
  ASSUME Typed, NEW m \in Mysqls, query[m] # None, query[m].stage # "lost", query[m].rows < MaxRows,
         NEW k \in Mysqls, NEW o \in Ops \ {"insert"}, NEW c \in Conns,
         Starts(Stepped(m), k, Sent(o, c)), ~undefined'
  PROVE  query[k] = None /\ k # m /\ SameTags({k}) /\ Taken(k, o, c)
         /\ SameNone({k}) /\ query'[k] # None
<1>1. /\ Stepped(m) \in [Mysqls -> Query \cup {None}]
      /\ \A x \in Mysqls \ {m} : Stepped(m)[x] = query[x]
      /\ Stepped(m)[m] # None
      /\ Stepped(m)[m].op = query[m].op /\ Stepped(m)[m].conn = query[m].conn
      /\ Stepped(m)[m].stage = "rows"
  BY SteppedForm DEF Typed
<1>2. /\ query[k] = None /\ query'[k] = Sent(o, c)
      /\ \A x \in Mysqls \ {k} : query'[x] = Stepped(m)[x]
  BY <1>1, StartsEffect
<1>3. query'[k] # None /\ query'[k].op = o /\ query'[k].conn = c /\ query'[k].stage = "sent"
  BY <1>2, NewForm
<1>4. k # m
  BY <1>2
<1> QED BY <1>1, <1>2, <1>3, <1>4 DEF SameTags, SameNone, Taken, Op, Con, Idle

LEMMA RowLostEffect ==
  ASSUME Typed, NEW m \in Mysqls, query[m] # None, query[m].stage # "lost", query[m].rows < MaxRows,
         NEW k \in Mysqls, NEW o \in Ops, NEW c \in Conns,
         Starts(Stepped(m), k, Lost(o, c)), ~undefined'
  PROVE  query[k] = None /\ k # m /\ SameTags({}) /\ SameNone({k}) /\ query'[k] # None
<1>1. /\ Stepped(m) \in [Mysqls -> Query \cup {None}]
      /\ \A x \in Mysqls \ {m} : Stepped(m)[x] = query[x]
      /\ Stepped(m)[m] # None
      /\ Stepped(m)[m].op = query[m].op /\ Stepped(m)[m].conn = query[m].conn
      /\ Stepped(m)[m].stage = "rows"
  BY SteppedForm DEF Typed
<1>2. /\ query[k] = None /\ query'[k] = Lost(o, c)
      /\ \A x \in Mysqls \ {k} : query'[x] = Stepped(m)[x]
  BY <1>1, StartsEffect
<1>3. query'[k].stage = "lost" /\ query'[k] # None
  BY <1>2, NewForm
<1>4. k # m
  BY <1>2
<1> QED BY <1>1, <1>2, <1>3, <1>4 DEF SameTags, SameNone, Op, Con, Idle

LEMMA EndSentEffect ==
  ASSUME Typed, NEW m \in Mysqls, query[m] # None,
         NEW k \in Mysqls, NEW o \in Ops \ {"insert"}, NEW c \in Conns,
         Starts([query EXCEPT ![m] = None], k, Sent(o, c)), ~undefined'
  PROVE  query[k] = None /\ k # m /\ SameTags({k, m}) /\ Taken(k, o, c) /\ Ended(m)
         /\ SameNone({k, m}) /\ query'[k] # None /\ query'[m] = None
<1>1. /\ [query EXCEPT ![m] = None] \in [Mysqls -> Query \cup {None}]
      /\ \A x \in Mysqls \ {m} : [query EXCEPT ![m] = None][x] = query[x]
      /\ [query EXCEPT ![m] = None][m] = None
  BY DEF Typed, TypeOK
<1>2. /\ query[k] = None /\ query'[k] = Sent(o, c)
      /\ \A x \in Mysqls \ {k} : query'[x] = [query EXCEPT ![m] = None][x]
  BY <1>1, StartsEffect
<1>3. query'[k] # None /\ query'[k].op = o /\ query'[k].conn = c /\ query'[k].stage = "sent"
  BY <1>2, NewForm
<1>4. k # m /\ query'[m] = None /\ \A x \in Mysqls \ {k, m} : query'[x] = query[x]
  BY <1>1, <1>2
<1> QED BY <1>2, <1>3, <1>4 DEF SameTags, SameNone, Taken, Ended, Op, Con, Idle

LEMMA EndLostEffect ==
  ASSUME Typed, NEW m \in Mysqls, query[m] # None,
         NEW k \in Mysqls, NEW o \in Ops, NEW c \in Conns,
         Starts([query EXCEPT ![m] = None], k, Lost(o, c)), ~undefined'
  PROVE  query[k] = None /\ k # m /\ SameTags({m}) /\ Ended(m)
         /\ SameNone({k, m}) /\ query'[k] # None /\ query'[m] = None
<1>1. /\ [query EXCEPT ![m] = None] \in [Mysqls -> Query \cup {None}]
      /\ \A x \in Mysqls \ {m} : [query EXCEPT ![m] = None][x] = query[x]
      /\ [query EXCEPT ![m] = None][m] = None
  BY DEF Typed, TypeOK
<1>2. /\ query[k] = None /\ query'[k] = Lost(o, c)
      /\ \A x \in Mysqls \ {k} : query'[x] = [query EXCEPT ![m] = None][x]
  BY <1>1, StartsEffect
<1>3. query'[k].stage = "lost" /\ query'[k] # None
  BY <1>2, NewForm
<1>4. k # m /\ query'[m] = None /\ \A x \in Mysqls \ {k, m} : query'[x] = query[x]
  BY <1>1, <1>2
<1> QED BY <1>2, <1>3, <1>4 DEF SameTags, SameNone, Ended, Op, Con, Idle

------------------------------------------------------------------------------
(* What a step does to the queries of each tree                               *)

LEMMA RefsFinite == \A c : IsFiniteSet(Refs(c)) /\ Cardinality(Refs(c)) \in Nat
<1>1. \A c : Refs(c) \subseteq Mysqls
  BY DEF Refs
<1> QED BY <1>1, MysqlsAssumption, FS_Subset, FS_CardinalityType

LEMMA RefsSame ==
  ASSUME SameTags({})
  PROVE  \A c : Refs(c)' = Refs(c)
BY DEF SameTags, Refs

LEMMA RefsAside ==
  ASSUME NEW k \in Mysqls, SameTags({k}), Op(k) \notin Trees, Op(k)' \notin Trees
  PROVE  \A c : Refs(c)' = Refs(c)
BY DEF SameTags, Refs

LEMMA RefsTaken ==
  ASSUME NEW k \in Mysqls, NEW o \in Trees, NEW c, SameTags({k}), Taken(k, o, c)
  PROVE  /\ Refs(c)' = Refs(c) \cup {k} /\ k \notin Refs(c)
         /\ Cardinality(Refs(c)') = Cardinality(Refs(c)) + 1
         /\ \A d : d # c => Refs(d)' = Refs(d)
<1>1. Refs(c)' = Refs(c) \cup {k} /\ k \notin Refs(c)
  BY OpsApart DEF SameTags, Taken, Refs
<1>2. \A d : d # c => Refs(d)' = Refs(d)
  BY OpsApart DEF SameTags, Taken, Refs
<1> QED BY <1>1, <1>2, RefsFinite, FS_AddElement

LEMMA RefsEnded ==
  ASSUME NEW m \in Mysqls, NEW c, SameTags({m}), Ended(m), Op(m) \in Trees, Con(m) = c
  PROVE  /\ Refs(c)' = Refs(c) \ {m} /\ m \in Refs(c)
         /\ Cardinality(Refs(c)') = Cardinality(Refs(c)) - 1
         /\ \A d : d # c => Refs(d)' = Refs(d)
<1>1. Refs(c)' = Refs(c) \ {m} /\ m \in Refs(c)
  BY OpsApart DEF SameTags, Ended, Refs
<1>2. \A d : d # c => Refs(d)' = Refs(d)
  BY OpsApart DEF SameTags, Ended, Refs
<1> QED BY <1>1, <1>2, RefsFinite, FS_RemoveElement

LEMMA RefsSwapped ==
  ASSUME NEW m \in Mysqls, NEW k \in Mysqls, NEW o \in Trees, NEW c, k # m,
         SameTags({k, m}), Taken(k, o, c), Ended(m), Op(m) \in Trees, Con(m) = c
  PROVE  /\ Refs(c)' = (Refs(c) \ {m}) \cup {k} /\ k \notin Refs(c) /\ m \in Refs(c)
         /\ Cardinality(Refs(c)') = Cardinality(Refs(c))
         /\ \A d : d # c => Refs(d)' = Refs(d)
<1>1. Refs(c)' = (Refs(c) \ {m}) \cup {k} /\ k \notin Refs(c) /\ m \in Refs(c)
  BY OpsApart DEF SameTags, Taken, Ended, Refs
<1>2. \A d : d # c => Refs(d)' = Refs(d)
  BY OpsApart DEF SameTags, Taken, Ended, Refs
<1>3. IsFiniteSet(Refs(c) \ {m}) /\ Cardinality(Refs(c) \ {m}) = Cardinality(Refs(c)) - 1
  BY <1>1, RefsFinite, FS_RemoveElement
<1>4. Cardinality((Refs(c) \ {m}) \cup {k}) = Cardinality(Refs(c) \ {m}) + 1
  BY <1>1, <1>3, FS_AddElement
<1> QED BY <1>1, <1>2, <1>3, <1>4, RefsFinite

\* A tree with one query has no other; one with none counts none.
LEMMA RefsOne ==
  ASSUME NEW c, NEW m \in Refs(c), Cardinality(Refs(c)) <= 1
  PROVE  Refs(c) = {m}
<1>1. Refs(c) # {}
  OBVIOUS
<1>2. Cardinality(Refs(c)) # 0
  BY <1>1, RefsFinite, FS_EmptySet
<1>3. Cardinality(Refs(c)) = 1
  BY <1>2, RefsFinite
<1>4. \E x : Refs(c) = {x}
  BY <1>3, RefsFinite, FS_Singleton
<1> QED BY <1>4

------------------------------------------------------------------------------
(* The inductive invariant of the trees                                       *)

BusyTree == \A c \in Conns \ spoiled : ctx[c] # None => c \in busy

WriteAlone == \A m \in Mysqls : Op(m) = "write" =>
  /\ Con(m) \in busy \cup spoiled /\ ctx[Con(m)] = None
  /\ \A k \in Mysqls : Op(k) = "write" /\ Con(k) = Con(m) => k = m

Waits == \A c \in busy \ spoiled :
  ctx[c] # None \/ \E m \in Mysqls : Op(m) = "write" /\ Con(m) = c

CountInv == \A c \in Conns \ spoiled :
  IF ctx[c] = None THEN Refs(c) = {} ELSE ctx[c] = Cardinality(Refs(c))

\* A tree of /third is not mixed, and may count too many, but too few only when
\* a callback was called again.
ThirdAt(c) == \A m \in Refs(c) : Op(m) \in Third =>
  /\ again \/ (ctx[c] # None /\ Cardinality(Refs(c)) <= ctx[c])
  /\ \A k \in Refs(c) : Op(k) \in Third

ThirdInv == \A c \in Conns : ThirdAt(c)

TreeInv == BusyTree /\ WriteAlone /\ Waits /\ CountInv /\ ThirdInv

\* A tree that a step leaves alone.
LEMMA ThirdElse ==
  ASSUME TreeInv, again' = again, NEW d \in Conns, Refs(d)' = Refs(d), ctx'[d] = ctx[d],
         \A x \in Refs(d) : Op(x)' = Op(x)
  PROVE  ThirdAt(d)'
BY DEF TreeInv, ThirdInv, ThirdAt

\* Nothing happens to the trees.
LEMMA QuietTree ==
  ASSUME TypeOK, TreeInv, again' = again, SameTags({}), UNCHANGED <<ctx, busy, spoiled>>
  PROVE  TreeInv'
<1>1. \A c : Refs(c)' = Refs(c)
  BY RefsSame
<1>2. BusyTree'
  BY DEF TreeInv, BusyTree
<1>3. WriteAlone'
  BY DEF TreeInv, WriteAlone, SameTags
<1>4. Waits'
  BY DEF TreeInv, Waits, SameTags
<1>5. CountInv'
  BY <1>1 DEF TreeInv, CountInv
<1>6. ThirdInv'
  BY <1>1 DEF TreeInv, ThirdInv, ThirdAt, SameTags, Refs
<1> QED BY <1>2, <1>3, <1>4, <1>5, <1>6 DEF TreeInv

\* A client that nobody will answer.
LEMMA MutedTree ==
  ASSUME TypeOK, TreeInv, again' = again, SameTags({}), UNCHANGED ctx, NEW c \in Conns, c \notin busy, Mute(c)
  PROVE  TreeInv'
<1>1. \A d : Refs(d)' = Refs(d)
  BY RefsSame
<1>2. busy' = busy \cup {c} /\ spoiled' = spoiled \cup {c}
  BY DEF Mute
<1>3. BusyTree'
  BY <1>2 DEF TreeInv, BusyTree
<1>4. WriteAlone'
  BY <1>2 DEF TreeInv, WriteAlone, SameTags
<1>5. Waits'
  BY <1>2 DEF TreeInv, Waits, SameTags
<1>6. CountInv'
  BY <1>1, <1>2 DEF TreeInv, CountInv
<1>7. ThirdInv'
  BY <1>1 DEF TreeInv, ThirdInv, ThirdAt, SameTags, Refs
<1> QED BY <1>3, <1>4, <1>5, <1>6, <1>7 DEF TreeInv

\* A client of a tree is spoiled; its count may grow.
LEMMA SpoiledTree ==
  ASSUME TypeOK, Typed, TreeInv, again' = again,
         SameTags({}), NEW c \in Conns, ctx[c] # None, UNCHANGED busy, spoiled' = spoiled \cup {c},
         UNCHANGED ctx \/ Up(c)
  PROVE  TreeInv'
<1>1. \A d : Refs(d)' = Refs(d)
  BY RefsSame
<1>2. /\ ctx[c] \in Nat /\ ctx'[c] \in {ctx[c], ctx[c] + 1} /\ ctx'[c] # None
      /\ \A d \in Conns \ {c} : ctx'[d] = ctx[d]
  BY NoneAssumption DEF TypeOK, Up
<1>3. \A x \in Mysqls : Op(x) # "none" => Con(x) \in Conns
  BY ConTyped
<1>11. BusyTree'
  BY <1>2 DEF TreeInv, BusyTree
<1>12. WriteAlone'
  BY <1>2, <1>3, OpsApart DEF TreeInv, BusyTree, WriteAlone, SameTags, Taken, Ended
<1>6. \A x \in Mysqls : Op(x) = "write" => Op(x)' = "write" /\ Con(x)' = Con(x)
  BY OpsApart DEF SameTags, Taken
<1>7. \A d \in busy \ spoiled : ctx[d] # None => ctx'[d] # None
  BY <1>2 DEF TypeOK
<1>8. busy' = busy /\ spoiled \subseteq spoiled'
  OBVIOUS
<1>13. Waits'
  BY <1>6, <1>7, <1>8 DEF TreeInv, Waits
<1>14. CountInv'
  BY <1>1, <1>2, RefsFinite, FS_EmptySet DEF TreeInv, CountInv, BusyTree
<1>4. \A d \in Conns \ {c} : \A x \in Refs(d) : Op(x)' = Op(x)
  BY OpsApart DEF Refs, SameTags, Taken
<1>5. ThirdAt(c)'
  BY <1>1, <1>2, RefsFinite, OpsApart DEF TreeInv, ThirdInv, ThirdAt, SameTags, Taken, Refs
<1>15. ThirdInv'
  BY <1>1, <1>2, <1>4, <1>5, ThirdElse DEF ThirdInv
<1> QED BY <1>11, <1>12, <1>13, <1>14, <1>15 DEF TreeInv

\* A query of a box tree ends, but one more stays counted.
LEMMA SpoiledEnd ==
  ASSUME TypeOK, Typed, TreeInv, again' = again,
         NEW m \in Mysqls, NEW c \in Conns, SameTags({m}), Ended(m), Op(m) = "users", Con(m) = c,
         ctx[c] # None, UNCHANGED <<ctx, busy>>, spoiled' = spoiled \cup {c}
  PROVE  TreeInv'
<1>1. /\ Refs(c)' = Refs(c) \ {m} /\ m \in Refs(c)
      /\ \A d : d # c => Refs(d)' = Refs(d)
  BY RefsEnded, OpsApart
<1>2. ctx' = ctx
  OBVIOUS
<1>3. \A x \in Mysqls : Op(x) # "none" => Con(x) \in Conns
  BY ConTyped
<1>11. BusyTree'
  BY <1>2 DEF TreeInv, BusyTree
<1>12. WriteAlone'
  BY <1>2, <1>3, OpsApart DEF TreeInv, BusyTree, WriteAlone, SameTags, Taken, Ended
<1>13. Waits'
  BY <1>2, <1>3, OpsApart DEF TreeInv, BusyTree, WriteAlone, Waits, SameTags, Taken, Ended
<1>14. CountInv'
  BY <1>1, <1>2, RefsFinite, FS_EmptySet DEF TreeInv, CountInv, BusyTree
<1>4. \A d \in Conns \ {c} : \A x \in Refs(d) : Op(x)' = Op(x)
  BY OpsApart DEF Refs, SameTags, Taken
<1>5. ThirdAt(c)'
  <2>1. \A x \in Refs(c) : Op(x) \notin Third
    BY <1>1, OpsApart DEF TreeInv, ThirdInv, ThirdAt
  <2>2. \A x \in Refs(c)' : x \in Refs(c) /\ Op(x)' = Op(x)
    BY <1>1 DEF Refs, SameTags
  <2> QED BY <2>1, <2>2 DEF ThirdAt
<1>15. ThirdInv'
  BY <1>1, <1>2, <1>4, <1>5, ThirdElse DEF ThirdInv
<1> QED BY <1>11, <1>12, <1>13, <1>14, <1>15 DEF TreeInv

\* A request starts a tree.
LEMMA RootTree ==
  ASSUME TypeOK, Typed, TreeInv, again' = again,
         NEW k \in Mysqls, NEW c \in Conns, NEW o \in {"boxes", "users"},
         SameTags({k}), Taken(k, o, c), c \notin busy, Refs(c) = {},
         \A x \in Mysqls : Op(x) = "write" => Con(x) # c,
         ctx' = [ctx EXCEPT ![c] = 1], busy' = busy \cup {c}, spoiled' = spoiled \ {c}
  PROVE  TreeInv'
<1>1. /\ Refs(c)' = {k} /\ Cardinality(Refs(c)') = 1
      /\ \A d : d # c => Refs(d)' = Refs(d)
  <2>1. o \in Trees
    BY OpsApart
  <2>2. /\ Refs(c)' = Refs(c) \cup {k}
        /\ \A d : d # c => Refs(d)' = Refs(d)
    BY <2>1, RefsTaken
  <2> QED BY <2>2, FS_Singleton
<1>2. ctx'[c] = 1 /\ 1 # None /\ \A d \in Conns \ {c} : ctx'[d] = ctx[d]
  BY NoneAssumption DEF TypeOK
<1>3. \A x \in Mysqls : Op(x) # "none" => Con(x) \in Conns
  BY ConTyped
<1>11. BusyTree'
  BY <1>2 DEF TreeInv, BusyTree
<1>12. WriteAlone'
  BY <1>2, <1>3, OpsApart DEF TreeInv, BusyTree, WriteAlone, SameTags, Taken, Ended
<1>13. Waits'
  BY <1>2, <1>3, OpsApart DEF TreeInv, BusyTree, WriteAlone, Waits, SameTags, Taken, Ended
<1>14. CountInv'
  BY <1>1, <1>2, RefsFinite, FS_EmptySet DEF TreeInv, CountInv, BusyTree
<1>4. \A d \in Conns \ {c} : \A x \in Refs(d) : Op(x)' = Op(x)
  BY OpsApart DEF Refs, SameTags, Taken
<1>5. ThirdAt(c)'
  BY <1>1, <1>2, RefsFinite, OpsApart DEF TreeInv, ThirdInv, ThirdAt, SameTags, Taken, Refs
<1>15. ThirdInv'
  BY <1>1, <1>2, <1>4, <1>5, ThirdElse DEF ThirdInv
<1> QED BY <1>11, <1>12, <1>13, <1>14, <1>15 DEF TreeInv

\* A request starts a single query.
LEMMA WriteTree ==
  ASSUME TypeOK, Typed, TreeInv, again' = again,
         NEW k \in Mysqls, NEW c \in Conns,
         SameTags({k}), Taken(k, "write", c), c \notin busy, Refs(c) = {}, ctx[c] = None,
         \A x \in Mysqls : Op(x) = "write" => Con(x) # c,
         UNCHANGED ctx, busy' = busy \cup {c}, spoiled' = spoiled \ {c}
  PROVE  TreeInv'
<1>1. \A d : Refs(d)' = Refs(d)
  BY RefsAside, OpsApart DEF Taken
<1>2. ctx' = ctx
  OBVIOUS
<1>3. \A x \in Mysqls : Op(x) # "none" => Con(x) \in Conns
  BY ConTyped
<1>11. BusyTree'
  BY <1>2 DEF TreeInv, BusyTree
<1>12. WriteAlone'
  BY <1>2, <1>3, OpsApart DEF TreeInv, BusyTree, WriteAlone, SameTags, Taken, Ended
<1>13. Waits'
  BY <1>2, <1>3, OpsApart DEF TreeInv, BusyTree, WriteAlone, Waits, SameTags, Taken, Ended
<1>14. CountInv'
  BY <1>1, <1>2, RefsFinite, FS_EmptySet DEF TreeInv, CountInv, BusyTree
<1>4. \A d \in Conns \ {c} : \A x \in Refs(d) : Op(x)' = Op(x)
  BY OpsApart DEF Refs, SameTags, Taken
<1>5. ThirdAt(c)'
  BY <1>1, <1>2, RefsFinite, OpsApart DEF TreeInv, ThirdInv, ThirdAt, SameTags, Taken, Refs
<1>15. ThirdInv'
  BY <1>1, <1>2, <1>4, <1>5, ThirdElse DEF ThirdInv
<1> QED BY <1>11, <1>12, <1>13, <1>14, <1>15 DEF TreeInv

\* A row starts one more query.
LEMMA GrownTree ==
  ASSUME TypeOK, Typed, TreeInv, again' = again,
         NEW k \in Mysqls, NEW m \in Mysqls, NEW c \in Conns, NEW o \in Trees, k # m,
         SameTags({k}), Taken(k, o, c), Op(m) \in Trees, Con(m) = c, o \in Third <=> Op(m) \in Third,
         ctx[c] # None, Up(c), UNCHANGED <<busy, spoiled>>
  PROVE  TreeInv'
<1>1. /\ Refs(c)' = Refs(c) \cup {k} /\ k \notin Refs(c) /\ m \in Refs(c)
      /\ Cardinality(Refs(c)') = Cardinality(Refs(c)) + 1
      /\ \A d : d # c => Refs(d)' = Refs(d)
  <2>1. m \in Refs(c)
    BY DEF Refs
  <2> QED BY <2>1, RefsTaken
<1>2. /\ ctx[c] \in Nat /\ ctx'[c] = ctx[c] + 1 /\ ctx'[c] # None
      /\ \A d \in Conns \ {c} : ctx'[d] = ctx[d]
  BY NoneAssumption DEF TypeOK, Up
<1>3. \A x \in Mysqls : Op(x) # "none" => Con(x) \in Conns
  BY ConTyped
<1>11. BusyTree'
  BY <1>2 DEF TreeInv, BusyTree
<1>12. WriteAlone'
  BY <1>2, <1>3, OpsApart DEF TreeInv, BusyTree, WriteAlone, SameTags, Taken, Ended
<1>6. \A x \in Mysqls : Op(x) = "write" => Op(x)' = "write" /\ Con(x)' = Con(x)
  BY OpsApart DEF SameTags, Taken
<1>7. \A d \in busy \ spoiled : ctx[d] # None => ctx'[d] # None
  BY <1>2 DEF TypeOK
<1>8. busy' = busy /\ spoiled \subseteq spoiled'
  OBVIOUS
<1>13. Waits'
  BY <1>6, <1>7, <1>8 DEF TreeInv, Waits
<1>14. CountInv'
  BY <1>1, <1>2, RefsFinite, FS_EmptySet DEF TreeInv, CountInv, BusyTree
<1>4. \A d \in Conns \ {c} : \A x \in Refs(d) : Op(x)' = Op(x)
  BY OpsApart DEF Refs, SameTags, Taken
<1>9. \A x \in Refs(c) : Op(x)' = Op(x)
  BY <1>1 DEF Refs, SameTags
<1>10. Op(k)' = o /\ Cardinality(Refs(c)) \in Nat
  BY RefsFinite DEF Taken
<1>5. ThirdAt(c)'
  <2>1. CASE Op(m) \in Third
    <3>1. /\ again \/ Cardinality(Refs(c)) <= ctx[c]
          /\ \A x \in Refs(c) : Op(x) \in Third
      BY <1>1, <2>1 DEF TreeInv, ThirdInv, ThirdAt
    <3>2. \A x \in Refs(c)' : Op(x)' \in Third
      BY <1>1, <1>9, <1>10, <2>1, <3>1
    <3>3. again' \/ Cardinality(Refs(c)') <= ctx'[c]
      BY <1>1, <1>2, <1>10, <3>1
    <3> QED BY <1>2, <3>2, <3>3 DEF ThirdAt
  <2>2. CASE Op(m) \notin Third
    <3>1. \A x \in Refs(c) : Op(x) \notin Third
      BY <1>1, <2>2 DEF TreeInv, ThirdInv, ThirdAt
    <3> QED BY <1>1, <1>9, <1>10, <2>2, <3>1 DEF ThirdAt
  <2> QED BY <2>1, <2>2
<1>15. ThirdInv'
  BY <1>1, <1>2, <1>4, <1>5, ThirdElse DEF ThirdInv
<1> QED BY <1>11, <1>12, <1>13, <1>14, <1>15 DEF TreeInv

\* A query ends when the one that follows it has started.
LEMMA SwappedTree ==
  ASSUME TypeOK, Typed, TreeInv, again' = again,
         NEW k \in Mysqls, NEW m \in Mysqls, NEW c \in Conns, k # m,
         SameTags({k, m}), Taken(k, "hist", c), Ended(m), Op(m) = "users", Con(m) = c,
         ctx[c] # None, UNCHANGED <<ctx, busy, spoiled>>
  PROVE  TreeInv'
<1>1. /\ Refs(c)' = (Refs(c) \ {m}) \cup {k} /\ k \notin Refs(c) /\ m \in Refs(c)
      /\ Cardinality(Refs(c)') = Cardinality(Refs(c))
      /\ \A d : d # c => Refs(d)' = Refs(d)
  BY RefsSwapped, OpsApart
<1>2. ctx' = ctx
  OBVIOUS
<1>3. \A x \in Mysqls : Op(x) # "none" => Con(x) \in Conns
  BY ConTyped
<1>11. BusyTree'
  BY <1>2 DEF TreeInv, BusyTree
<1>12. WriteAlone'
  BY <1>2, <1>3, OpsApart DEF TreeInv, BusyTree, WriteAlone, SameTags, Taken, Ended
<1>13. Waits'
  BY <1>2, <1>3, OpsApart DEF TreeInv, BusyTree, WriteAlone, Waits, SameTags, Taken, Ended
<1>14. CountInv'
  BY <1>1, <1>2, RefsFinite, FS_EmptySet DEF TreeInv, CountInv, BusyTree
<1>4. \A d \in Conns \ {c} : \A x \in Refs(d) : Op(x)' = Op(x)
  BY OpsApart DEF Refs, SameTags, Taken
<1>5. ThirdAt(c)'
  BY <1>1, <1>2, RefsFinite, OpsApart DEF TreeInv, ThirdInv, ThirdAt, SameTags, Taken, Refs
<1>15. ThirdInv'
  BY <1>1, <1>2, <1>4, <1>5, ThirdElse DEF ThirdInv
<1> QED BY <1>11, <1>12, <1>13, <1>14, <1>15 DEF TreeInv

\* A query ends and is counted off; the last one ends the tree.
LEMMA ShrunkTree ==
  ASSUME TypeOK, Typed, TreeInv, again' = again,
         NEW m \in Mysqls, NEW c \in Conns, SameTags({m}), Ended(m), Op(m) \in Trees, Con(m) = c,
         ctx[c] # None, NEW f, Down(c, f), UNCHANGED spoiled
  PROVE  TreeInv'
<1>1. /\ Refs(c)' = Refs(c) \ {m} /\ m \in Refs(c)
      /\ Cardinality(Refs(c)') = Cardinality(Refs(c)) - 1
      /\ \A d : d # c => Refs(d)' = Refs(d)
  BY RefsEnded
<1>2. ctx[c] \in Nat \ {0} /\ busy \subseteq Conns
  BY DEF TypeOK
<1>3. \A d \in Conns \ {c} : ctx'[d] = ctx[d]
  BY DEF TypeOK, Down
<1>4. \A x \in Mysqls : Op(x) # "none" => Con(x) \in Conns
  BY ConTyped
<1>5. \A d \in Conns \ {c} : \A x \in Refs(d) : Op(x)' = Op(x)
  BY DEF Refs, SameTags
<1>6. \A x \in Refs(c)' : x \in Refs(c) /\ Op(x)' = Op(x)
  BY <1>1 DEF Refs, SameTags
<1>7. \A x \in Mysqls : Op(x)' = "write" <=> Op(x) = "write"
  BY OpsApart DEF SameTags, Ended
<1>8. \A x \in Mysqls : Op(x) = "write" => Con(x)' = Con(x) /\ Con(x) # c
  BY OpsApart DEF SameTags, TreeInv, WriteAlone
<1>9. ThirdInv' <=> ThirdAt(c)'
  BY <1>1, <1>3, <1>5, ThirdElse DEF ThirdInv
<1>10. CASE ctx[c] = 1
  <2>1. ctx'[c] = None /\ busy' = busy \ {c}
    BY <1>10 DEF Down, Answer, TypeOK
  <2>2. Cardinality(Refs(c)) <= 1 => Refs(c)' = {}
    BY <1>1, RefsOne
  <2>3. BusyTree'
    BY <1>3, <2>1 DEF TreeInv, BusyTree
  <2>4. WriteAlone'
    BY <1>3, <1>4, <1>7, <1>8, <2>1, OpsApart DEF TreeInv, WriteAlone
  <2>5. Waits'
    BY <1>2, <1>3, <1>7, <1>8, <2>1 DEF TreeInv, Waits
  <2>6. CountInv'
    BY <1>1, <1>3, <1>10, <2>1, <2>2, NoneAssumption DEF TreeInv, CountInv
  <2>7. ThirdAt(c)'
    <3>1. CASE Op(m) \in Third
      <4>1. /\ again \/ Cardinality(Refs(c)) <= 1
            /\ \A x \in Refs(c) : Op(x) \in Third
        BY <1>1, <1>10, <3>1 DEF TreeInv, ThirdInv, ThirdAt
      <4>2. CASE Cardinality(Refs(c)) <= 1
        BY <4>2, <2>2 DEF ThirdAt
      <4>3. CASE again
        BY <1>6, <4>1, <4>3 DEF ThirdAt
      <4> QED BY <4>1, <4>2, <4>3
    <3>2. CASE Op(m) \notin Third
      BY <1>1, <1>6, <3>2 DEF TreeInv, ThirdInv, ThirdAt
    <3> QED BY <3>1, <3>2
  <2> QED BY <1>9, <2>3, <2>4, <2>5, <2>6, <2>7 DEF TreeInv
<1>11. CASE ctx[c] # 1
  <2>1. ctx'[c] = ctx[c] - 1 /\ ctx'[c] # None /\ busy' = busy
    BY <1>2, <1>11, NoneAssumption DEF Down, TypeOK
  <2>3. BusyTree'
    BY <1>3, <2>1 DEF TreeInv, BusyTree
  <2>4. WriteAlone'
    BY <1>3, <1>4, <1>7, <1>8, <2>1, OpsApart DEF TreeInv, WriteAlone
  <2>5. Waits'
    BY <1>2, <1>3, <1>7, <1>8, <2>1 DEF TreeInv, Waits
  <2>6. CountInv'
    BY <1>1, <1>3, <2>1 DEF TreeInv, CountInv
  <2>7. ThirdAt(c)'
    BY <1>1, <1>2, <1>6, <2>1, RefsFinite DEF TreeInv, ThirdInv, ThirdAt
  <2> QED BY <1>9, <2>3, <2>4, <2>5, <2>6, <2>7 DEF TreeInv
<1> QED BY <1>10, <1>11

\* A query of a box tree fails and ends the tree.
LEMMA FailedTree ==
  ASSUME TypeOK, Typed, TreeInv, again' = again,
         NEW m \in Mysqls, NEW c \in Conns, SameTags({m}), Ended(m), Op(m) \in OfStb, Con(m) = c,
         ctx[c] # None, ctx' = [ctx EXCEPT ![c] = None], Answer(c),
         spoiled' = IF Refs(c) # {m} THEN spoiled \cup {c} ELSE spoiled
  PROVE  TreeInv'
<1>1. /\ Refs(c)' = Refs(c) \ {m} /\ m \in Refs(c)
      /\ \A d : d # c => Refs(d)' = Refs(d)
  BY RefsEnded, OpsApart
<1>2. /\ ctx'[c] = None /\ \A d \in Conns \ {c} : ctx'[d] = ctx[d]
      /\ busy \subseteq Conns /\ busy' = busy \ {c}
  BY DEF TypeOK, Answer
<1>3. spoiled \subseteq spoiled' /\ spoiled' \subseteq spoiled \cup {c}
      /\ (c \notin spoiled' => Refs(c) = {m})
  OBVIOUS
<1>4. \A x \in Mysqls : Op(x) # "none" => Con(x) \in Conns
  BY ConTyped
<1>5. \A d \in Conns \ {c} : \A x \in Refs(d) : Op(x)' = Op(x)
  BY DEF Refs, SameTags
<1>6. \A x \in Refs(c)' : x \in Refs(c) /\ Op(x)' = Op(x)
  BY <1>1 DEF Refs, SameTags
<1>7. \A x \in Mysqls : Op(x)' = "write" <=> Op(x) = "write"
  BY OpsApart DEF SameTags, Ended
<1>8. \A x \in Mysqls : Op(x) = "write" => Con(x)' = Con(x) /\ Con(x) # c
  BY OpsApart DEF SameTags, TreeInv, WriteAlone
<1>9. ThirdAt(c)'
  BY <1>1, <1>6, OpsApart DEF TreeInv, ThirdInv, ThirdAt
<1>10. BusyTree'
  BY <1>2 DEF TreeInv, BusyTree
<1>11. WriteAlone'
  BY <1>2, <1>3, <1>4, <1>7, <1>8, OpsApart DEF TreeInv, WriteAlone
<1>12. Waits'
  BY <1>2, <1>3, <1>7, <1>8 DEF TreeInv, Waits
<1>13. CountInv'
  BY <1>1, <1>2, <1>3 DEF TreeInv, CountInv
<1>14. ThirdInv'
  BY <1>1, <1>2, <1>5, <1>9, ThirdElse DEF ThirdInv
<1> QED BY <1>10, <1>11, <1>12, <1>13, <1>14 DEF TreeInv

\* A single query ends.
LEMMA WrittenTree ==
  ASSUME TypeOK, Typed, TreeInv, again' = again,
         NEW m \in Mysqls, NEW c \in Conns, SameTags({m}), Ended(m), Op(m) = "write", Con(m) = c,
         UNCHANGED <<ctx, spoiled>>, Answer(c)
  PROVE  TreeInv'
<1>1. \A d : Refs(d)' = Refs(d)
  BY RefsAside, OpsApart DEF Ended
<1>2. busy' = busy \ {c} /\ ctx[c] = None
  BY DEF Answer, TreeInv, WriteAlone
<1>3. \A x \in Mysqls : Op(x)' = "write" <=> Op(x) = "write" /\ x # m
  BY OpsApart DEF SameTags, Ended
<1>4. \A x \in Mysqls : Op(x) = "write" /\ x # m => Con(x)' = Con(x) /\ Con(x) # c
  BY DEF SameTags, TreeInv, WriteAlone
<1>5. BusyTree'
  BY <1>2 DEF TreeInv, BusyTree
<1>6. WriteAlone'
  BY <1>2, <1>3, <1>4 DEF TreeInv, WriteAlone
<1>7. Waits'
  BY <1>2, <1>3, <1>4 DEF TreeInv, Waits
<1>8. CountInv'
  BY <1>1 DEF TreeInv, CountInv
<1>9. \A d \in Conns : \A x \in Refs(d) : Op(x)' = Op(x)
  BY OpsApart DEF Refs, SameTags
<1>10. ThirdInv'
  BY <1>1, <1>9, ThirdElse DEF ThirdInv
<1> QED BY <1>5, <1>6, <1>7, <1>8, <1>10 DEF TreeInv

\* A callback that was left behind is called again for c.
LEMMA AgainTree ==
  ASSUME TypeOK, TreeInv, SameTags({}), again' = TRUE, NEW c \in Conns, spoiled' = spoiled \cup {c},
         \A d \in Conns \ {c} : ctx'[d] = ctx[d], ctx[c] = None => ctx'[c] = None,
         busy' \in {busy, busy \ {c}}
  PROVE  TreeInv'
<1>1. \A d : Refs(d)' = Refs(d)
  BY RefsSame
<1>2. BusyTree'
  BY DEF TreeInv, BusyTree
<1>3. WriteAlone'
  <2>1. \A d \in Conns : ctx[d] = None => ctx'[d] = None
    OBVIOUS
  <2>2. \A x \in Mysqls : Op(x)' = Op(x) /\ Con(x)' = Con(x)
    BY DEF SameTags
  <2>3. busy \cup spoiled \subseteq Conns /\ busy \cup spoiled \subseteq busy' \cup spoiled'
    BY DEF TypeOK
  <2> QED BY <2>1, <2>2, <2>3 DEF TreeInv, WriteAlone
<1>4. Waits'
  <2>1. \A d \in busy' \ spoiled' : d \in busy \ spoiled /\ d \in Conns \ {c}
    BY DEF TypeOK
  <2> QED BY <2>1 DEF TreeInv, Waits, SameTags
<1>5. CountInv'
  BY <1>1 DEF TreeInv, CountInv
<1>6. ThirdInv'
  BY <1>1 DEF TreeInv, ThirdInv, ThirdAt, SameTags, Refs
<1> QED BY <1>2, <1>3, <1>4, <1>5, <1>6 DEF TreeInv

------------------------------------------------------------------------------
(* The inductive invariant of the pool                                        *)

PoolInv == \A x \in Mysqls :
  /\ query[x] = None => x \in free
  /\ x \in free => query[x] = None \/ (Op(x) = "users" /\ Con(x) \in spoiled)

LEMMA PoolSame ==
  ASSUME PoolInv, SameTags({}), SameNone({}), UNCHANGED free, spoiled \subseteq spoiled'
  PROVE  PoolInv'
BY DEF PoolInv, SameTags, SameNone

\* k is taken; c may start anew and is then no longer spoiled.
LEMMA PoolTaken ==
  ASSUME PoolInv, NEW k \in Mysqls, SameTags({k}) \/ SameTags({}), SameNone({k}), query'[k] # None,
         free' = free \ {k}, NEW c, Refs(c) = {}, spoiled \ {c} \subseteq spoiled'
  PROVE  PoolInv'
<1>1. \A x \in Mysqls : Op(x) = "users" => Con(x) # c
  BY OpsApart DEF Refs
<1>2. \A x \in Mysqls \ {k} : Op(x)' = Op(x) /\ Con(x)' = Con(x)
  BY DEF SameTags
<1> QED BY <1>1, <1>2 DEF PoolInv, SameNone

LEMMA PoolTakenMore ==
  ASSUME PoolInv, NEW k \in Mysqls, SameTags({k}), SameNone({k}), query'[k] # None,
         free' = free \ {k}, spoiled \subseteq spoiled'
  PROVE  PoolInv'
BY DEF PoolInv, SameNone, SameTags

LEMMA PoolReturned ==
  ASSUME PoolInv, NEW m \in Mysqls, SameTags({m}), SameNone({m}), query'[m] = None,
         free' = free \cup {m}, spoiled \subseteq spoiled'
  PROVE  PoolInv'
BY DEF PoolInv, SameTags, SameNone

LEMMA PoolSwapped ==
  ASSUME PoolInv, NEW k \in Mysqls, NEW m \in Mysqls, k # m,
         SameTags({k, m}) \/ SameTags({m}), SameNone({k, m}), query'[k] # None, query'[m] = None,
         free' = (free \ {k}) \cup {m}, spoiled \subseteq spoiled'
  PROVE  PoolInv'
<1>1. \A x \in Mysqls \ {k, m} : Op(x)' = Op(x) /\ Con(x)' = Con(x)
  BY DEF SameTags
<1> QED BY <1>1 DEF PoolInv, SameNone

\* A connection is used twice only if it was returned while it carried the
\* query of a tree of boxes, whose client is spoiled.
LEMMA TwiceSpoiled ==
  ASSUME PoolInv, ~undefined, NEW k \in Mysqls, k \in free, NEW f, NEW q, Starts(f, k, q), undefined'
  PROVE  Op(k) = "users" /\ Con(k) \in spoiled /\ k \in Refs(Con(k))
<1>1. query[k] # None
  BY DEF Starts
<1> QED BY <1>1, OpsApart DEF PoolInv, Refs

AloneInv == \A x \in Mysqls : Op(x) \notin OfStb

LEMMA AloneOnce ==
  ASSUME PoolInv, AloneInv, ~undefined, NEW k \in Mysqls, k \in free, NEW f, NEW q, Starts(f, k, q)
  PROVE  ~undefined'
BY TwiceSpoiled DEF AloneInv, OfStb

LEMMA AloneSame ==
  ASSUME AloneInv, NEW S \in SUBSET Mysqls, SameTags(S), \A x \in S : Op(x)' \notin OfStb
  PROVE  AloneInv'
BY DEF AloneInv, SameTags

------------------------------------------------------------------------------
(* Each action keeps the invariant                                            *)

Defined == ~undefined => TreeInv /\ PoolInv
Spoils  == undefined => spoiled # {} \/ again
Alone   == MaxCms = 0 => (undefined => again) /\ AloneInv

IInv == Typed /\ LeftInv /\ Defined /\ Spoils /\ Alone

LEMMA Parts ==
  ASSUME IInv, ~undefined
  PROVE  /\ TypeOK /\ Typed /\ TreeInv /\ PoolInv /\ Alone
         /\ query \in [Mysqls -> Query \cup {None}] /\ free \in SUBSET Mysqls
         /\ MaxCms = 0 => AloneInv
BY DEF IInv, Defined, Typed, TypeOK, Alone

LEMMA NewClient ==
  ASSUME NEW c \in Conns, New(c)
  PROVE  /\ c \notin busy /\ Refs(c) = {} /\ ctx[c] = None
         /\ \A x \in Mysqls : Op(x) = "write" => Con(x) # c
<1>1. \A x \in Mysqls : Op(x) = "write" => Carries(x, {"write"}) /\ Con(x) = query[x].conn
  BY CarriesOp
<1> QED BY <1>1, RefsRefers DEF New, Writes

\* ThirdGet, StbGet and Write: a request starts a query.
LEMMA RootStep ==
  ASSUME IInv, ~undefined, LeftInv', again' = again, NEW c \in Conns, New(c), NEW k \in free, free' = free \ {k},
         NEW o \in {"boxes", "users", "write"}, Starts(query, k, Sent(o, c)),
         ctx' = IF o = "write" THEN ctx ELSE [ctx EXCEPT ![c] = 1],
         busy' = busy \cup {c}, spoiled' = spoiled \ {c}, cms' \in 0 .. MaxCms,
         MaxCms = 0 => o # "users"
  PROVE  IInv'
<1>1. /\ TypeOK /\ Typed /\ TreeInv /\ PoolInv /\ k \in Mysqls /\ (MaxCms = 0 => AloneInv)
      /\ c \notin busy /\ Refs(c) = {} /\ ctx[c] = None /\ o \in Ops /\ o # "insert"
      /\ \A x \in Mysqls : Op(x) = "write" => Con(x) # c
  BY Parts, NewClient, OpsForm
<1>2. query' \in [Mysqls -> Query \cup {None}] /\ undefined' \in BOOLEAN /\ Shape'
  BY <1>1, StartsTyped
<1>3. Rest'
  BY <1>1 DEF Rest, TypeOK
<1>4. Typed'
  BY <1>2, <1>3, TypedParts
<1>5. ASSUME ~undefined'
      PROVE  TreeInv' /\ PoolInv' /\ SameTags({k}) /\ Taken(k, o, c)
  <2>1. SameTags({k}) /\ Taken(k, o, c) /\ SameNone({k}) /\ query'[k] # None
    BY <1>1, <1>5, SentEffect
  <2>2. PoolInv'
    BY <1>1, <2>1, PoolTaken
  <2>3. CASE o = "write"
    BY <1>1, <2>1, <2>2, <2>3, WriteTree
  <2>4. CASE o # "write"
    BY <1>1, <2>1, <2>2, <2>4, RootTree
  <2> QED BY <2>3, <2>4
<1>6. Spoils'
  <2>1. undefined' => \E d \in spoiled : Refs(d) # {}
    BY <1>1, TwiceSpoiled
  <2> QED BY <1>1, <2>1 DEF Spoils
<1>7. Alone'
  <2>1. SUFFICES ASSUME MaxCms = 0 PROVE ~undefined' /\ AloneInv'
    BY DEF Alone
  <2>2. ~undefined'
    BY <1>1, <2>1, AloneOnce
  <2>3. o \notin OfStb
    BY <2>1 DEF OfStb
  <2> QED BY <1>1, <1>5, <2>1, <2>2, <2>3, AloneSame DEF Taken
<1> QED BY <1>4, <1>5, <1>6, <1>7 DEF IInv, Defined

\* PoolMute, SwitchIgnored and StbGet without a connection.
LEMMA MuteStep ==
  ASSUME IInv, ~undefined, LeftInv', again' = again, NEW c \in Conns, New(c), Mute(c),
         UNCHANGED <<free, query, ctx, undefined>>, cms' \in 0 .. MaxCms
  PROVE  IInv'
<1>1. /\ TypeOK /\ Typed /\ TreeInv /\ PoolInv /\ (MaxCms = 0 => AloneInv)
      /\ c \notin busy /\ spoiled' = spoiled \cup {c} /\ busy' = busy \cup {c}
  BY Parts, NewClient DEF Mute
<1>2. query' \in [Mysqls -> Query \cup {None}] /\ undefined' \in BOOLEAN /\ Shape'
  BY <1>1, SameTyped DEF TypeOK
<1>3. Rest'
  BY <1>1 DEF Rest, TypeOK
<1>4. Typed'
  BY <1>2, <1>3, TypedParts
<1>5. SameTags({}) /\ SameNone({})
  BY SameEffect
<1>6. TreeInv'
  BY <1>1, <1>5, MutedTree
<1>7. PoolInv'
  BY <1>1, <1>5, PoolSame
<1>8. AloneInv => AloneInv'
  BY <1>5, AloneSame
<1> QED BY <1>1, <1>4, <1>6, <1>7, <1>8 DEF IInv, Defined, Spoils, Alone

\* StbUnstarted and WriteUnstarted.
LEMMA UnstartedStep ==
  ASSUME IInv, ~undefined, LeftInv', again' = again, NEW c \in Conns, New(c), NEW k \in free, free' = free \ {k},
         NEW o \in {"users", "write"}, Starts(query, k, Lost(o, c)),
         Mute(c) \/ UNCHANGED <<busy, spoiled>>, UNCHANGED ctx, cms' \in 0 .. MaxCms
  PROVE  IInv'
<1>1. /\ TypeOK /\ Typed /\ TreeInv /\ PoolInv /\ k \in Mysqls /\ (MaxCms = 0 => AloneInv)
      /\ c \notin busy /\ Refs(c) = {} /\ o \in Ops
  BY Parts, NewClient, OpsForm
<1>2. query' \in [Mysqls -> Query \cup {None}] /\ undefined' \in BOOLEAN /\ Shape'
  BY <1>1, StartsTyped
<1>3. Rest' /\ spoiled \subseteq spoiled'
  BY <1>1 DEF Rest, TypeOK, Mute
<1>4. Typed'
  BY <1>2, <1>3, TypedParts
<1>5. ASSUME ~undefined'
      PROVE  TreeInv' /\ PoolInv' /\ SameTags({})
  <2>1. SameTags({}) /\ SameNone({k}) /\ query'[k] # None
    BY <1>1, <1>5, LostEffect
  <2>2. PoolInv'
    BY <1>1, <1>3, <2>1, PoolTaken
  <2>3. CASE Mute(c)
    BY <1>1, <2>1, <2>2, <2>3, MutedTree
  <2>4. CASE UNCHANGED <<busy, spoiled>>
    BY <1>1, <2>1, <2>2, <2>4, QuietTree
  <2> QED BY <2>3, <2>4
<1>6. Spoils'
  BY <1>1, <1>3, TwiceSpoiled DEF Spoils
<1>7. Alone'
  <2>1. SUFFICES ASSUME MaxCms = 0 PROVE ~undefined' /\ AloneInv'
    BY DEF Alone
  <2>2. ~undefined'
    BY <1>1, <2>1, AloneOnce
  <2> QED BY <1>1, <1>5, <2>1, <2>2, AloneSame
<1> QED BY <1>4, <1>5, <1>6, <1>7 DEF IInv, Defined

\* CmsAway
LEMMA AwayStep ==
  ASSUME IInv, ~undefined, LeftInv', again' = again, NEW c \in Conns, CmsAway(c)
  PROVE  IInv'
<1>1. /\ TypeOK /\ Typed /\ undefined' = TRUE /\ cms < MaxCms
      /\ busy' = busy \cup {c} /\ spoiled' = spoiled \cup {c} /\ UNCHANGED <<free, query, ctx, cms>>
  BY Parts DEF CmsAway, Mute
<1>2. query' \in [Mysqls -> Query \cup {None}] /\ undefined' \in BOOLEAN /\ Shape'
  BY <1>1, SameTyped
<1>3. Rest' /\ MaxCms # 0
  BY <1>1, BoundAssumption DEF Rest, TypeOK
<1>4. Typed'
  BY <1>2, <1>3, TypedParts
<1> QED BY <1>1, <1>3, <1>4 DEF IInv, Defined, Spoils, Alone

LEMMA AsksStep ==
  ASSUME IInv, ~undefined, LeftInv', again' = again, NEW c \in Conns, Asks(c)
  PROVE  IInv'
<1>1. cms \in 0 .. MaxCms /\ MaxCms \in Nat
      /\ (cms < MaxCms /\ cms' = cms + 1 => cms' \in 0 .. MaxCms /\ MaxCms # 0)
      /\ (UNCHANGED cms => cms' \in 0 .. MaxCms)
  BY Parts, BoundAssumption DEF TypeOK
<1>2. CASE ThirdGet(c)
  BY <1>1, <1>2, RootStep DEF ThirdGet, Begins
<1>3. CASE PoolMute(c) \/ SwitchIgnored(c)
  BY <1>1, <1>3, MuteStep DEF PoolMute, SwitchIgnored
<1>4. CASE StbGet(c)
  <2>1. CASE free = {}
    BY <1>1, <1>4, <2>1, MuteStep DEF StbGet
  <2>2. CASE free # {}
    BY <1>1, <1>4, <2>2, RootStep DEF StbGet, Begins
  <2> QED BY <2>1, <2>2
<1>5. CASE StbUnstarted(c)
  BY <1>1, <1>5, UnstartedStep DEF StbUnstarted
<1>6. CASE CmsAway(c)
  BY <1>6, AwayStep
<1>7. CASE Write(c)
  BY <1>1, <1>7, RootStep DEF Write, Begins
<1>8. CASE WriteUnstarted(c)
  BY <1>1, <1>8, UnstartedStep DEF WriteUnstarted
<1> QED BY <1>2, <1>3, <1>4, <1>5, <1>6, <1>7, <1>8 DEF Asks

\* ItemsRow, and a row that starts no query: Deeper counts it all the same, or
\* finds the pool empty.
LEMMA RowStep ==
  ASSUME IInv, ~undefined, LeftInv', again' = again, NEW m \in Mysqls, Carries(m, Trees), query[m].rows < MaxRows,
         ctx[query[m].conn] # None, query' = Stepped(m),
         \/ UNCHANGED <<ctx, spoiled>>
         \/ Up(query[m].conn) /\ spoiled' = spoiled \cup {query[m].conn},
         UNCHANGED <<free, busy, cms, undefined>>
  PROVE  IInv'
<1> DEFINE c == query[m].conn
<1>1. /\ TypeOK /\ Typed /\ TreeInv /\ PoolInv /\ (MaxCms = 0 => AloneInv)
      /\ query[m] # None /\ query[m].stage # "lost" /\ c \in Conns
  BY Parts, ConnForm, OpsApart DEF Carries
<1>2. /\ query' \in [Mysqls -> Query \cup {None}] /\ Shape'
      /\ SameTags({}) /\ SameNone({})
  BY <1>1, SteppedTyped, SteppedEffect
<1> HIDE DEF c
<1>3. \/ UNCHANGED <<ctx, spoiled>>
      \/ Up(c) /\ spoiled' = spoiled \cup {c}
  BY DEF c
<1>4. ctx[c] # None
  BY DEF c
<1>5. Rest' /\ undefined' \in BOOLEAN /\ spoiled \subseteq spoiled'
  BY <1>1, <1>3, <1>4, CountForm DEF Rest, TypeOK
<1>6. Typed'
  BY <1>2, <1>5, TypedParts
<1>7. TreeInv'
  BY <1>1, <1>2, <1>3, <1>4, QuietTree, SpoiledTree
<1>8. PoolInv'
  BY <1>1, <1>2, <1>5, PoolSame
<1>9. AloneInv => AloneInv'
  BY <1>2, AloneSame
<1> QED BY <1>1, <1>6, <1>7, <1>8, <1>9 DEF IInv, Defined, Spoils, Alone

\* BoxesRow, PhonesRow and UsersRow: the row starts a query.
LEMMA RowSentStep ==
  ASSUME IInv, ~undefined, LeftInv', again' = again, NEW m \in Mysqls, Carries(m, Trees), query[m].rows < MaxRows,
         ctx[query[m].conn] # None, NEW k \in free, free' = free \ {k}, NEW o \in Trees,
         Starts(Stepped(m), k, Sent(o, query[m].conn)), Up(query[m].conn),
         o \in Third <=> query[m].op \in Third,
         UNCHANGED <<busy, cms, spoiled>>
  PROVE  IInv'
<1> DEFINE c == query[m].conn
<1>1. /\ TypeOK /\ Typed /\ TreeInv /\ PoolInv /\ (MaxCms = 0 => AloneInv) /\ k \in Mysqls
      /\ query[m] # None /\ query[m].stage # "lost" /\ c \in Conns /\ o \in Ops \ {"insert"}
      /\ Op(m) = query[m].op /\ Con(m) = c /\ Op(m) \in Trees
  BY Parts, ConnForm, CarriesOp, OpsApart DEF Carries
<1> HIDE DEF c
<1>2. Starts(Stepped(m), k, Sent(o, c)) /\ Up(c) /\ ctx[c] # None
  BY DEF c
<1>3. query' \in [Mysqls -> Query \cup {None}] /\ undefined' \in BOOLEAN /\ Shape'
  BY <1>1, <1>2, StartsTyped
<1>4. Rest'
  BY <1>1, <1>2, CountForm DEF Rest, TypeOK
<1>5. Typed'
  BY <1>3, <1>4, TypedParts
<1>6. ASSUME ~undefined'
      PROVE  TreeInv' /\ PoolInv' /\ SameTags({k}) /\ Taken(k, o, c)
  <2>1. /\ k # m /\ SameTags({k}) /\ Taken(k, o, c) /\ SameNone({k}) /\ query'[k] # None
    BY <1>1, <1>2, <1>6, RowSentEffect
  <2>2. PoolInv'
    BY <1>1, <2>1, PoolTakenMore
  <2>3. TreeInv'
    BY <1>1, <1>2, <2>1, GrownTree
  <2> QED BY <2>1, <2>2, <2>3
<1>7. Spoils'
  BY <1>1, <1>2, TwiceSpoiled DEF Spoils
<1>8. Alone'
  <2>1. SUFFICES ASSUME MaxCms = 0 PROVE ~undefined' /\ AloneInv'
    BY DEF Alone
  <2>2. ~undefined'
    BY <1>1, <1>2, <2>1, AloneOnce
  <2>3. o \notin OfStb
    BY <1>1, <2>1, OpsApart DEF AloneInv, Trees
  <2> QED BY <1>1, <1>6, <2>1, <2>2, <2>3, AloneSame DEF Taken
<1> QED BY <1>5, <1>6, <1>7, <1>8 DEF IInv, Defined

LEMMA DeeperStep ==
  ASSUME IInv, ~undefined, LeftInv', again' = again, NEW m \in Mysqls, Carries(m, Third), query[m].rows < MaxRows,
         ctx[query[m].conn] # None, NEW o \in Third, Deeper(m, o), UNCHANGED <<busy, cms>>
  PROVE  IInv'
<1>1. Carries(m, Trees) /\ o \in Trees /\ query[m].op \in Third
  BY OpsApart DEF Carries
<1>2. CASE query' = Stepped(m) /\ UNCHANGED <<free, ctx, spoiled, undefined>>
  BY <1>1, <1>2, RowStep
<1>3. CASE /\ \E k \in free : free' = free \ {k} /\ Starts(Stepped(m), k, Sent(o, query[m].conn))
           /\ Up(query[m].conn) /\ UNCHANGED spoiled
  BY <1>1, <1>3, RowSentStep
<1>4. CASE /\ query' = Stepped(m) /\ Up(query[m].conn)
           /\ spoiled' = spoiled \cup {query[m].conn} /\ UNCHANGED <<free, undefined>>
  BY <1>1, <1>4, RowStep
<1> QED BY <1>2, <1>3, <1>4 DEF Deeper

\* The connection whose rows are still coming is returned.
LEMMA UsersRowFailsStep ==
  ASSUME IInv, ~undefined, LeftInv', again' = again, NEW m \in Mysqls, UsersRowFails(m)
  PROVE  IInv'
<1> DEFINE c == query[m].conn
<1>1. /\ TypeOK /\ Typed /\ TreeInv /\ PoolInv /\ (MaxCms = 0 => AloneInv)
      /\ query[m] # None /\ query[m].stage # "lost" /\ c \in Conns /\ query[m].rows < MaxRows
      /\ Op(m) = "users" /\ Con(m) = c /\ "hist" \in Ops /\ free \in SUBSET Mysqls
  BY Parts, ConnForm, CarriesOp, OpsApart, OpsForm DEF Carries, UsersRowFails
<1> HIDE DEF c
<1>2. ctx[c] # None /\ spoiled' = spoiled \cup {c} /\ UNCHANGED <<busy, cms>>
  BY DEF UsersRowFails, c
<1>3. MaxCms # 0
  BY <1>1 DEF AloneInv, OfStb
<1>4. CASE free' = {m} /\ free = {} /\ query' = Stepped(m) /\ UNCHANGED <<ctx, undefined>>
  <2>1. /\ query' \in [Mysqls -> Query \cup {None}] /\ Shape'
        /\ SameTags({}) /\ SameNone({})
    BY <1>1, <1>4, SteppedTyped, SteppedEffect
  <2>2. Rest' /\ undefined' \in BOOLEAN
    BY <1>1, <1>2, <1>4 DEF Rest, TypeOK
  <2>3. Typed'
    BY <2>1, <2>2, TypedParts
  <2>4. TreeInv'
    BY <1>1, <1>2, <1>4, <2>1, SpoiledTree
  <2>5. PoolInv'
    BY <1>1, <1>2, <1>4, <2>1 DEF PoolInv, SameTags, SameNone
  <2> QED BY <1>3, <1>4, <2>3, <2>4, <2>5 DEF IInv, Defined, Spoils, Alone
<1>5. ASSUME NEW k \in free, free' = (free \ {k}) \cup {m},
             Starts(Stepped(m), k, Lost("hist", c)), Up(c)
      PROVE  IInv'
  <2>1. k \in Mysqls
    BY <1>1
  <2>2. query' \in [Mysqls -> Query \cup {None}] /\ undefined' \in BOOLEAN /\ Shape'
    BY <1>1, <1>5, <2>1, StartsTyped
  <2>3. Rest'
    BY <1>1, <1>2, <1>5, CountForm DEF Rest, TypeOK
  <2>4. Typed'
    BY <2>2, <2>3, TypedParts
  <2>5. ASSUME ~undefined'
        PROVE  TreeInv' /\ PoolInv'
    <3>1. k # m /\ SameTags({}) /\ SameNone({k}) /\ query'[k] # None
      BY <1>1, <1>5, <2>1, <2>5, RowLostEffect
    <3>2. TreeInv'
      BY <1>1, <1>2, <1>5, <3>1, SpoiledTree
    <3>3. PoolInv'
      BY <1>1, <1>2, <1>5, <3>1 DEF PoolInv, SameTags, SameNone
    <3> QED BY <3>2, <3>3
  <2> QED BY <1>2, <1>3, <2>4, <2>5 DEF IInv, Defined, Spoils, Alone
<1> QED BY <1>4, <1>5 DEF UsersRowFails, c

LEMMA RowsStep ==
  ASSUME IInv, ~undefined, LeftInv', again' = again, NEW m \in Mysqls, Row(m)
  PROVE  IInv'
<1>1. CASE BoxesRow(m)
  <2>1. Carries(m, Third) /\ "phones" \in Third
    BY <1>1, OpsApart DEF BoxesRow, Carries
  <2> QED BY <1>1, <2>1, DeeperStep DEF BoxesRow
<1>2. CASE PhonesRow(m)
  <2>1. Carries(m, Third) /\ "items" \in Third
    BY <1>2, OpsApart DEF PhonesRow, Carries
  <2> QED BY <1>2, <2>1, DeeperStep DEF PhonesRow
<1>3. CASE ItemsRow(m)
  <2>1. Carries(m, Trees)
    BY <1>3, OpsApart DEF ItemsRow, Carries
  <2> QED BY <1>3, <2>1, RowStep DEF ItemsRow
<1>4. CASE UsersRow(m)
  <2>1. Carries(m, Trees) /\ "hist" \in Trees /\ "hist" \notin Third /\ query[m].op \notin Third
    BY <1>4, OpsApart DEF UsersRow, Carries
  <2> QED BY <1>4, <2>1, RowSentStep DEF UsersRow
<1>5. CASE UsersRowFails(m)
  BY <1>5, UsersRowFailsStep
<1> QED BY <1>1, <1>2, <1>3, <1>4, <1>5 DEF Row

\* ThirdEnds, HistDone and UsersDone without a connection: counted off.
LEMMA OffStep ==
  ASSUME IInv, ~undefined, LeftInv', again' = again, NEW m \in Mysqls, Carries(m, Trees), ctx[query[m].conn] # None,
         Returned(m), NEW f, Down(query[m].conn, f), UNCHANGED <<cms, spoiled, undefined>>
  PROVE  IInv'
<1> DEFINE c == query[m].conn
<1>1. /\ TypeOK /\ Typed /\ TreeInv /\ PoolInv /\ (MaxCms = 0 => AloneInv)
      /\ c \in Conns /\ Op(m) \in Trees /\ Con(m) = c
  BY Parts, ConnForm, CarriesOp, OpsApart
<1> HIDE DEF c
<1>2. Down(c, f) /\ ctx[c] # None /\ free' = free \cup {m} /\ query' = [query EXCEPT ![m] = None]
  BY DEF c, Returned
<1>3. /\ query' \in [Mysqls -> Query \cup {None}] /\ Shape'
      /\ SameTags({m}) /\ Ended(m) /\ SameNone({m}) /\ query'[m] = None
  BY <1>1, <1>2, ReturnedTyped, ReturnedEffect
<1>4. Rest' /\ undefined' \in BOOLEAN
  BY <1>1, <1>2, CountForm DEF Rest, TypeOK
<1>5. Typed'
  BY <1>3, <1>4, TypedParts
<1>6. TreeInv'
  BY <1>1, <1>2, <1>3, ShrunkTree
<1>7. PoolInv'
  BY <1>1, <1>2, <1>3, PoolReturned
<1>8. AloneInv => AloneInv'
  <2>1. Op(m)' \notin OfStb
    BY <1>3 DEF Ended, OfStb
  <2> QED BY <1>3, <2>1, AloneSame
<1> QED BY <1>1, <1>5, <1>6, <1>7, <1>8 DEF IInv, Defined, Spoils, Alone

\* UsersDone with a connection, and UsersDoneUnstarted.
LEMMA FollowStep ==
  ASSUME IInv, ~undefined, LeftInv', again' = again, NEW m \in Mysqls, Carries(m, {"users"}), ctx[query[m].conn] # None,
         NEW k \in free, free' = (free \ {k}) \cup {m},
         \/ /\ Starts([query EXCEPT ![m] = None], k, Sent("hist", query[m].conn))
            /\ UNCHANGED spoiled
         \/ /\ Starts([query EXCEPT ![m] = None], k, Lost("hist", query[m].conn))
            /\ spoiled' = spoiled \cup {query[m].conn},
         UNCHANGED <<ctx, busy, cms>>
  PROVE  IInv'
<1> DEFINE c == query[m].conn
<1>1. /\ TypeOK /\ Typed /\ TreeInv /\ PoolInv /\ (MaxCms = 0 => AloneInv) /\ k \in Mysqls
      /\ query[m] # None /\ c \in Conns /\ "hist" \in Ops \ {"insert"}
      /\ Op(m) = "users" /\ Con(m) = c
  BY Parts, ConnForm, CarriesOp, OpsForm
<1> HIDE DEF c
<1>2. /\ ctx[c] # None
      /\ \/ /\ Starts([query EXCEPT ![m] = None], k, Sent("hist", c))
            /\ UNCHANGED spoiled
         \/ /\ Starts([query EXCEPT ![m] = None], k, Lost("hist", c))
            /\ spoiled' = spoiled \cup {c}
  BY DEF c
<1>3. query' \in [Mysqls -> Query \cup {None}] /\ undefined' \in BOOLEAN /\ Shape'
  BY <1>1, <1>2, StartsTyped
<1>4. Rest' /\ spoiled \subseteq spoiled'
  BY <1>1, <1>2 DEF Rest, TypeOK
<1>5. Typed'
  BY <1>3, <1>4, TypedParts
<1>6. ASSUME ~undefined'
      PROVE  TreeInv' /\ PoolInv'
  <2>1. CASE /\ Starts([query EXCEPT ![m] = None], k, Sent("hist", c))
             /\ UNCHANGED spoiled
    <3>1. /\ k # m /\ SameTags({k, m}) /\ Taken(k, "hist", c) /\ Ended(m)
          /\ SameNone({k, m}) /\ query'[k] # None /\ query'[m] = None
      BY <1>1, <1>6, <2>1, EndSentEffect
    <3>2. TreeInv'
      BY <1>1, <1>2, <2>1, <3>1, SwappedTree
    <3>3. PoolInv'
      BY <1>1, <1>4, <3>1, PoolSwapped
    <3> QED BY <3>2, <3>3
  <2>2. CASE /\ Starts([query EXCEPT ![m] = None], k, Lost("hist", c))
             /\ spoiled' = spoiled \cup {c}
    <3>1. /\ k # m /\ SameTags({m}) /\ Ended(m)
          /\ SameNone({k, m}) /\ query'[k] # None /\ query'[m] = None
      BY <1>1, <1>6, <2>2, EndLostEffect
    <3>2. TreeInv'
      BY <1>1, <1>2, <2>2, <3>1, SpoiledEnd
    <3>3. PoolInv'
      BY <1>1, <1>4, <3>1, PoolSwapped
    <3> QED BY <3>2, <3>3
  <2> QED BY <1>2, <2>1, <2>2
<1>7. Spoils'
  BY <1>1, <1>2, <1>4, TwiceSpoiled DEF Spoils
<1>8. MaxCms # 0
  BY <1>1 DEF AloneInv, OfStb
<1> QED BY <1>5, <1>6, <1>7, <1>8 DEF IInv, Defined, Alone

LEMMA StbFailsStep ==
  ASSUME IInv, ~undefined, LeftInv', again' = again, NEW m \in Mysqls, StbFails(m)
  PROVE  IInv'
<1> DEFINE c == query[m].conn
<1>1. /\ TypeOK /\ Typed /\ TreeInv /\ PoolInv /\ (MaxCms = 0 => AloneInv)
      /\ c \in Conns /\ Op(m) \in OfStb /\ Con(m) = c
  BY Parts, ConnForm, CarriesOp, OpsApart DEF StbFails
<1> HIDE DEF c
<1>2. /\ ctx[c] # None /\ ctx' = [ctx EXCEPT ![c] = None] /\ Answer(c)
      /\ free' = free \cup {m} /\ query' = [query EXCEPT ![m] = None]
      /\ spoiled' = IF Refs(c) # {m} THEN spoiled \cup {c} ELSE spoiled
      /\ UNCHANGED <<cms, undefined>>
  BY RefsRefers DEF StbFails, Returned, c
<1>3. /\ query' \in [Mysqls -> Query \cup {None}] /\ Shape'
      /\ SameTags({m}) /\ Ended(m) /\ SameNone({m}) /\ query'[m] = None
  BY <1>1, <1>2, ReturnedTyped, ReturnedEffect
<1>4. Rest' /\ undefined' \in BOOLEAN /\ spoiled \subseteq spoiled'
  BY <1>1, <1>2 DEF Rest, TypeOK, Answer
<1>5. Typed'
  BY <1>3, <1>4, TypedParts
<1>6. TreeInv'
  BY <1>1, <1>2, <1>3, FailedTree
<1>7. PoolInv'
  BY <1>1, <1>2, <1>3, <1>4, PoolReturned
<1>8. MaxCms # 0
  BY <1>1 DEF AloneInv
<1> QED BY <1>2, <1>5, <1>6, <1>7, <1>8 DEF IInv, Defined, Spoils, Alone

\* A callback whose context is gone belongs to a box tree of a spoiled client.
LEMMA DanglesStep ==
  ASSUME IInv, ~undefined, LeftInv', again' = again, NEW m \in Mysqls, Dangles(m)
  PROVE  IInv'
<1> DEFINE c == query[m].conn
<1>1. /\ TypeOK /\ Typed /\ TreeInv /\ PoolInv /\ (MaxCms = 0 => AloneInv)
      /\ c \in Conns /\ Op(m) \in Trees /\ Con(m) = c
  BY Parts, ConnForm, CarriesOp, OpsApart DEF Dangles, Trees
<1> HIDE DEF c
<1>2. ctx[c] = None /\ undefined' = TRUE /\ UNCHANGED <<free, query, ctx, busy, cms, spoiled>>
  BY DEF Dangles, c
<1>3. m \in Refs(c)
  BY <1>1 DEF Refs
<1>4. c \in spoiled
  BY <1>1, <1>2, <1>3 DEF TreeInv, CountInv
<1>5. again \/ Op(m) \in OfStb
  BY <1>1, <1>2, <1>3 DEF TreeInv, ThirdInv, ThirdAt, Trees
<1>9. AloneInv => AloneInv'
  BY <1>2, SameEffect, AloneSame
<1>6. query' \in [Mysqls -> Query \cup {None}] /\ undefined' \in BOOLEAN /\ Shape'
  BY <1>1, <1>2, SameTyped
<1>7. Rest'
  BY <1>1, <1>2 DEF Rest, TypeOK
<1>8. Typed'
  BY <1>6, <1>7, TypedParts
<1>10. Alone'
  BY <1>1, <1>5, <1>9 DEF Alone, AloneInv
<1> QED BY <1>2, <1>4, <1>8, <1>10 DEF IInv, Defined, Spoils

LEMMA WriteEndsStep ==
  ASSUME IInv, ~undefined, LeftInv', again' = again, NEW m \in Mysqls, WriteEnds(m)
  PROVE  IInv'
<1> DEFINE c == query[m].conn
<1>1. /\ TypeOK /\ Typed /\ TreeInv /\ PoolInv /\ (MaxCms = 0 => AloneInv)
      /\ c \in Conns /\ Op(m) = "write" /\ Con(m) = c
  BY Parts, ConnForm, CarriesOp DEF WriteEnds
<1> HIDE DEF c
<1>2. /\ Answer(c) /\ free' = free \cup {m} /\ query' = [query EXCEPT ![m] = None]
      /\ UNCHANGED <<ctx, cms, spoiled, undefined>>
  BY DEF WriteEnds, Returned, c
<1>3. /\ query' \in [Mysqls -> Query \cup {None}] /\ Shape'
      /\ SameTags({m}) /\ Ended(m) /\ SameNone({m}) /\ query'[m] = None
  BY <1>1, <1>2, ReturnedTyped, ReturnedEffect
<1>4. Rest' /\ undefined' \in BOOLEAN
  BY <1>1, <1>2 DEF Rest, TypeOK, Answer
<1>5. Typed'
  BY <1>3, <1>4, TypedParts
<1>6. TreeInv'
  BY <1>1, <1>2, <1>3, WrittenTree
<1>7. PoolInv'
  BY <1>1, <1>2, <1>3, PoolReturned
<1>8. AloneInv => AloneInv'
  <2>1. Op(m)' \notin OfStb
    BY <1>3 DEF Ended, OfStb
  <2> QED BY <1>3, <2>1, AloneSame
<1> QED BY <1>1, <1>2, <1>5, <1>6, <1>7, <1>8 DEF IInv, Defined, Spoils, Alone

LEMMA InsertEndsStep ==
  ASSUME IInv, ~undefined, LeftInv', again' = again, NEW m \in Mysqls, InsertEnds(m)
  PROVE  IInv'
<1>1. /\ TypeOK /\ Typed /\ TreeInv /\ PoolInv /\ (MaxCms = 0 => AloneInv)
      /\ Op(m) = "none" /\ Con(m) = None
  BY Parts DEF InsertEnds, Carries, Op, Con, Idle
<1>2. /\ free' = free \cup {m} /\ query' = [query EXCEPT ![m] = None]
      /\ UNCHANGED <<ctx, busy, cms, spoiled, undefined>>
  BY DEF InsertEnds, Returned
<1>3. /\ query' \in [Mysqls -> Query \cup {None}] /\ Shape'
      /\ SameTags({m}) /\ Ended(m) /\ SameNone({m}) /\ query'[m] = None
  BY <1>1, <1>2, ReturnedTyped, ReturnedEffect
<1>4. SameTags({})
  BY <1>1, <1>3 DEF SameTags, Ended
<1>5. Rest' /\ undefined' \in BOOLEAN
  BY <1>1, <1>2 DEF Rest, TypeOK
<1>6. Typed'
  BY <1>3, <1>5, TypedParts
<1>7. TreeInv'
  BY <1>1, <1>2, <1>4, QuietTree
<1>8. PoolInv'
  BY <1>1, <1>2, <1>3, PoolReturned
<1>9. AloneInv => AloneInv'
  BY <1>4, AloneSame
<1> QED BY <1>1, <1>2, <1>6, <1>7, <1>8, <1>9 DEF IInv, Defined, Spoils, Alone

LEMMA EndsStep ==
  ASSUME IInv, ~undefined, LeftInv', again' = again, NEW m \in Mysqls, Ends(m)
  PROVE  IInv'
<1>1. CASE ThirdEnds(m) \/ ThirdFails(m)
  <2>1. Carries(m, Trees)
    BY <1>1, OpsApart DEF ThirdEnds, ThirdFails, Carries
  <2> QED BY <1>1, <2>1, OffStep DEF ThirdEnds, ThirdFails
<1>2. CASE UsersDone(m)
  <2>1. Carries(m, Trees)
    BY <1>2, OpsApart DEF UsersDone, Carries
  <2>2. CASE free = {}
    BY <1>2, <2>1, <2>2, OffStep DEF UsersDone
  <2>3. CASE free # {}
    BY <1>2, <2>3, FollowStep DEF UsersDone
  <2> QED BY <2>2, <2>3
<1>3. CASE UsersDoneUnstarted(m)
  BY <1>3, FollowStep DEF UsersDoneUnstarted
<1>4. CASE HistDone(m)
  <2>1. Carries(m, Trees)
    BY <1>4, OpsApart DEF HistDone, Carries
  <2> QED BY <1>4, <2>1, OffStep DEF HistDone
<1>5. CASE StbFails(m)
  BY <1>5, StbFailsStep
<1>6. CASE Dangles(m)
  BY <1>6, DanglesStep
<1>7. CASE WriteEnds(m)
  BY <1>7, WriteEndsStep
<1>8. CASE InsertEnds(m)
  BY <1>8, InsertEndsStep
<1> QED BY <1>1, <1>2, <1>3, <1>4, <1>5, <1>6, <1>7, <1>8 DEF Ends

LEMMA CmsStep ==
  ASSUME IInv, ~undefined, LeftInv', again' = again, CmsResp
  PROVE  IInv'
<1>1. /\ TypeOK /\ Typed /\ TreeInv /\ PoolInv
      /\ query \in [Mysqls -> Query \cup {None}] /\ free \in SUBSET Mysqls
  BY Parts
<1>2. /\ cms' \in 0 .. MaxCms /\ MaxCms # 0 /\ UNCHANGED <<ctx, busy, spoiled>>
  BY <1>1, BoundAssumption DEF CmsResp, TypeOK
<1>3. PICK S \in SUBSET free :
        IF \A k \in S : query[k] = None
          THEN /\ free' = free \ S
               /\ query' = [m \in Mysqls |-> IF m \in S THEN Sent("insert", None) ELSE query[m]]
               /\ UNCHANGED undefined
          ELSE undefined' = TRUE /\ UNCHANGED <<free, query>>
  BY DEF CmsResp
<1>4. /\ Sent("insert", None) \in Query /\ Sent("insert", None) # None
      /\ Sent("insert", None).op = "insert"
  BY NewForm, OpsForm
<1>5. CASE \A k \in S : query[k] = None
  <2>1. /\ free' = free \ S /\ UNCHANGED undefined
        /\ query' = [m \in Mysqls |-> IF m \in S THEN Sent("insert", None) ELSE query[m]]
    BY <1>3, <1>5
  <2>2. query' \in [Mysqls -> Query \cup {None}]
    BY <1>1, <1>4, <2>1
  <2>3. /\ \A x \in Mysqls \ S : query'[x] = query[x]
        /\ \A x \in S : query[x] = None /\ query'[x] # None /\ query'[x].op = "insert"
    BY <1>1, <1>4, <1>5, <2>1
  <2>4. Shape'
    BY <1>1, <2>2, <2>3, PlainShape
  <2>5. Rest' /\ undefined' \in BOOLEAN
    BY <1>1, <1>2, <2>1 DEF Rest, TypeOK
  <2>6. Typed'
    BY <2>2, <2>4, <2>5, TypedParts
  <2>7. SameTags({})
    BY <2>3 DEF SameTags, Op, Con, Idle
  <2>8. TreeInv'
    BY <1>1, <1>2, <2>7, QuietTree
  <2>9. PoolInv'
    BY <1>1, <1>2, <2>1, <2>3, <2>7 DEF PoolInv, SameTags
  <2> QED BY <1>2, <2>1, <2>6, <2>8, <2>9 DEF IInv, Defined, Spoils, Alone
<1>6. CASE \E k \in S : query[k] # None
  <2>1. undefined' = TRUE /\ UNCHANGED <<free, query>>
    BY <1>3, <1>6
  <2>2. query' \in [Mysqls -> Query \cup {None}] /\ undefined' \in BOOLEAN /\ Shape'
    BY <1>1, <2>1, SameTyped
  <2>3. Rest'
    BY <1>1, <1>2, <2>1 DEF Rest, TypeOK
  <2>4. Typed'
    BY <2>2, <2>3, TypedParts
  <2>5. spoiled # {}
    BY <1>1, <1>6 DEF PoolInv
  <2> QED BY <1>2, <2>1, <2>4, <2>5 DEF IInv, Defined, Spoils, Alone
<1> QED BY <1>5, <1>6

------------------------------------------------------------------------------
(* The callbacks that failed queries leave behind                             *)

Lefts == [Mysqls -> Callback \cup {None}]

LEMMA LeftParts ==
  ASSUME IInv
  PROVE  stale \in Lefts /\ Held(stale, ctx) /\ ctx \in [Conns -> (Nat \ {0}) \cup {None}]
BY DEF IInv, LeftInv, Lefts, Typed, TypeOK

LEMMA HoldsForm ==
  ASSUME NEW e \in {"third_error", "get_error", "error_func"}, NEW c \in Conns \cup {None}
  PROVE  /\ Holds(e, c) \in Callback /\ Holds(e, c).error = e /\ Holds(e, c).conn = c
         /\ Dangling \in Callback /\ Dangling.error = "get_error"
BY DEF Holds, Dangling, Callback

\* A callback that failed, and one that a query replaces.
LEMMA LeavesForm ==
  ASSUME NEW m \in Mysqls, NEW e \in Callback \cup {None}, stale \in Lefts
  PROVE  /\ Leaves(m, e) \in Lefts /\ Leaves(m, e)[m] = e
         /\ \A x \in Mysqls \ {m} : Leaves(m, e)[x] = stale[x]
BY DEF Leaves, Lefts

LEMMA OrphanedForm ==
  ASSUME NEW f \in Lefts, NEW c \in Conns
  PROVE  /\ Orphaned(f, c) \in Lefts
         /\ \A x \in Mysqls : LET g == Orphaned(f, c)[x] IN
              g # None /\ g.error = "third_error" => g = f[x] /\ g.conn # c
<1>1. Dangling \in Callback /\ Dangling.error = "get_error"
  BY HoldsForm
<1>2. Orphaned(f, c) \in Lefts
  BY <1>1 DEF Lefts, Orphaned
<1>3. ASSUME NEW x \in Mysqls, Orphaned(f, c)[x] # None, Orphaned(f, c)[x].error = "third_error"
      PROVE  Orphaned(f, c)[x] = f[x] /\ Orphaned(f, c)[x].conn # c
  BY <1>1, <1>3 DEF Orphaned
<1> QED BY <1>2, <1>3

\* Callbacks are kept or replaced, and no context is destroyed.
LEMMA HeldSame ==
  ASSUME NEW f \in Lefts, Held(f, ctx), stale' \in Lefts,
         \A x \in Mysqls : stale'[x] \in {f[x], None},
         \A d \in Conns : ctx[d] # None => ctx'[d] # None
  PROVE  Held(stale, ctx)'
<1> SUFFICES ASSUME NEW x \in Mysqls, stale'[x] # None, stale'[x].error = "third_error",
                    stale'[x].conn # None
             PROVE  ctx'[stale'[x].conn] # None
  BY DEF Held
<1>1. stale'[x] = f[x] /\ f[x].conn \in Conns
  BY DEF Lefts, Callback
<1> QED BY <1>1 DEF Held

\* The context of c is destroyed.
LEMMA HeldOff ==
  ASSUME NEW f \in Lefts, Held(f, ctx), NEW c \in Conns, stale' = Orphaned(f, c),
         \A d \in Conns \ {c} : ctx'[d] = ctx[d]
  PROVE  stale' \in Lefts /\ Held(stale, ctx)'
<1>1. stale' \in Lefts
  BY OrphanedForm
<1>2. ASSUME NEW x \in Mysqls, stale'[x] # None, stale'[x].error = "third_error",
             stale'[x].conn # None
      PROVE  ctx'[stale'[x].conn] # None
  <2>1. stale'[x] = f[x] /\ f[x].conn # c
    BY <1>2, OrphanedForm
  <2>2. f[x].conn \in Conns
    BY <1>2, <2>1 DEF Lefts, Callback
  <2> QED BY <1>2, <2>1, <2>2 DEF Held
<1> QED BY <1>1, <1>2 DEF Held

LEMMA HeldDown ==
  ASSUME NEW f \in Lefts, Held(f, ctx), NEW c \in Conns, ctx[c] # None, Down(c, f),
         ctx \in [Conns -> (Nat \ {0}) \cup {None}]
  PROVE  stale' \in Lefts /\ Held(stale, ctx)'
<1>1. CASE ctx[c] = 1
  BY <1>1, HeldOff DEF Down
<1>2. CASE ctx[c] # 1
  <2>1. stale' = f /\ \A d \in Conns : ctx[d] # None => ctx'[d] # None
    BY <1>2, NoneAssumption DEF Down
  <2> QED BY <2>1, HeldSame
<1> QED BY <1>1, <1>2

LEMMA LeftStarts ==
  ASSUME stale \in Lefts, NEW k \in Mysqls, NEW f, NEW q, Starts(f, k, q)
  PROVE  stale' \in Lefts /\ \A x \in Mysqls : stale'[x] \in {stale[x], None}
BY DEF Lefts, Starts

\* A step that destroys no context, and starts a query or none.
LEMMA LeftQuiet ==
  ASSUME IInv, again' = again,
         UNCHANGED stale \/ \E k \in Mysqls : \E f, q : Starts(f, k, q),
         \A d \in Conns : ctx[d] # None => ctx'[d] # None
  PROVE  LeftInv'
<1>1. stale \in Lefts /\ Held(stale, ctx)
  BY LeftParts
<1>2. stale' \in Lefts /\ \A x \in Mysqls : stale'[x] \in {stale[x], None}
  BY <1>1, LeftStarts
<1>3. Held(stale, ctx)'
  BY <1>1, <1>2, HeldSame
<1> QED BY <1>2, <1>3 DEF LeftInv, Lefts, IInv

LEMMA AsksLeft ==
  ASSUME IInv, ~undefined, again' = again, NEW c \in Conns, Asks(c)
  PROVE  LeftInv'
<1>1. /\ ctx \in [Conns -> (Nat \ {0}) \cup {None}] /\ 1 # None
      /\ free \subseteq Mysqls
  BY LeftParts, NoneAssumption, Parts
<1>2. ctx' \in {ctx, [ctx EXCEPT ![c] = 1]}
  BY DEF Asks, ThirdGet, PoolMute, SwitchIgnored, StbGet, StbUnstarted, CmsAway, Write,
         WriteUnstarted
<1>3. UNCHANGED stale \/ \E k \in free : \E f, q : Starts(f, k, q)
  BY DEF Asks, ThirdGet, PoolMute, SwitchIgnored, StbGet, StbUnstarted, CmsAway, Write,
         WriteUnstarted
<1>4. \A d \in Conns : ctx[d] # None => ctx'[d] # None
  BY <1>1, <1>2
<1> QED BY <1>1, <1>3, <1>4, LeftQuiet

LEMMA RowsLeft ==
  ASSUME IInv, ~undefined, again' = again, NEW m \in Mysqls, Row(m)
  PROVE  LeftInv'
<1> DEFINE c == query[m].conn
<1>1. ctx \in [Conns -> (Nat \ {0}) \cup {None}] /\ free \subseteq Mysqls
  BY LeftParts, Parts
<1>2. ctx[c] # None /\ (ctx' = ctx \/ Up(c))
  BY DEF Row, BoxesRow, PhonesRow, ItemsRow, UsersRow, UsersRowFails, Deeper
<1>3. UNCHANGED stale \/ \E k \in free : \E f, q : Starts(f, k, q)
  BY DEF Row, BoxesRow, PhonesRow, ItemsRow, UsersRow, UsersRowFails, Deeper
<1> HIDE DEF c
<1>4. \A d \in Conns : ctx[d] # None => ctx'[d] # None
  BY <1>1, <1>2, NoneAssumption DEF Up
<1> QED BY <1>1, <1>3, <1>4, LeftQuiet

\* A query that ends well, or fails, and is counted off.
LEMMA LeftDown ==
  ASSUME IInv, again' = again, NEW c \in Conns, ctx[c] # None,
         NEW f \in {stale} \cup {Leaves(m, Holds("third_error", c)) : m \in Mysqls}
                         \cup {Leaves(m, None) : m \in Mysqls}, Down(c, f)
  PROVE  LeftInv'
<1>1. stale \in Lefts /\ Held(stale, ctx) /\ ctx \in [Conns -> (Nat \ {0}) \cup {None}]
  BY LeftParts
<1>2. f \in Lefts /\ Held(f, ctx)
  <2>1. CASE f = stale
    BY <1>1, <2>1
  <2>2. ASSUME NEW m \in Mysqls, f = Leaves(m, Holds("third_error", c))
        PROVE  f \in Lefts /\ Held(f, ctx)
    <3>1. /\ Holds("third_error", c) \in Callback
          /\ Holds("third_error", c).conn = c
      BY HoldsForm
    <3>2. f \in Lefts /\ f[m] = Holds("third_error", c) /\ \A x \in Mysqls \ {m} : f[x] = stale[x]
      BY <1>1, <2>2, <3>1, LeavesForm
    <3> QED BY <1>1, <3>1, <3>2 DEF Held
  <2>3. ASSUME NEW m \in Mysqls, f = Leaves(m, None)
        PROVE  f \in Lefts /\ Held(f, ctx)
    <3>1. f \in Lefts /\ f[m] = None /\ \A x \in Mysqls \ {m} : f[x] = stale[x]
      BY <1>1, <2>3, LeavesForm
    <3> QED BY <1>1, <3>1 DEF Held
  <2> QED BY <2>1, <2>2, <2>3
<1>3. stale' \in Lefts /\ Held(stale, ctx)'
  BY <1>1, <1>2, HeldDown
<1> QED BY <1>3 DEF LeftInv, Lefts, IInv

LEMMA EndsLeft ==
  ASSUME IInv, ~undefined, again' = again, NEW m \in Mysqls, Ends(m)
  PROVE  LeftInv'
<1>1. /\ stale \in Lefts /\ Held(stale, ctx) /\ ctx \in [Conns -> (Nat \ {0}) \cup {None}]
      /\ free \subseteq Mysqls /\ Typed /\ again \in BOOLEAN
  BY LeftParts, Parts DEF IInv, LeftInv
<1>2. CASE ThirdEnds(m) \/ ThirdFails(m) \/ HistDone(m)
  <2>1. query[m].conn \in Conns
    BY <1>1, <1>2, ConnForm, OpsApart DEF ThirdEnds, ThirdFails, HistDone
  <2> QED BY <1>2, <2>1, LeftDown DEF ThirdEnds, ThirdFails, HistDone
<1>3. CASE UsersDone(m)
  <2>1. query[m].conn \in Conns
    BY <1>1, <1>3, ConnForm DEF UsersDone
  <2>2. CASE free = {}
    BY <1>3, <2>1, <2>2, LeftDown DEF UsersDone
  <2>3. CASE free # {}
    BY <1>1, <1>3, <2>3, LeftQuiet DEF UsersDone
  <2> QED BY <2>2, <2>3
<1>4. CASE UsersDoneUnstarted(m)
  BY <1>1, <1>4, LeftQuiet DEF UsersDoneUnstarted
<1>5. CASE StbFails(m)
  <2> DEFINE c == query[m].conn
  <2>1. c \in Conns
    BY <1>1, <1>5, ConnForm, OpsApart DEF StbFails
  <2>2. stale' = Orphaned(Leaves(m, Dangling), c) /\ ctx' = [ctx EXCEPT ![c] = None]
    BY <1>5 DEF StbFails
  <2> HIDE DEF c
  <2>3. Dangling \in Callback /\ Dangling.error = "get_error"
    BY <2>1, HoldsForm
  <2>4. /\ Leaves(m, Dangling) \in Lefts /\ Leaves(m, Dangling)[m] = Dangling
        /\ \A x \in Mysqls \ {m} : Leaves(m, Dangling)[x] = stale[x]
    BY <1>1, <2>3, LeavesForm
  <2>5. Held(Leaves(m, Dangling), ctx)
    BY <1>1, <2>3, <2>4 DEF Held
  <2>6. stale' \in Lefts /\ Held(stale, ctx)'
    BY <1>1, <2>1, <2>2, <2>4, <2>5, HeldOff
  <2> QED BY <1>1, <2>6 DEF LeftInv, Lefts
<1>6. CASE Dangles(m) \/ InsertEnds(m)
  BY <1>6, LeftQuiet DEF Dangles, InsertEnds
<1>7. CASE WriteEnds(m)
  <2>1. query[m].conn \in Conns /\ UNCHANGED ctx
    BY <1>1, <1>7, ConnForm DEF WriteEnds
  <2>2. CASE UNCHANGED stale
    BY <2>1, <2>2, LeftQuiet
  <2>3. CASE stale' = Leaves(m, Holds("error_func", query[m].conn))
    <3>1. /\ Holds("error_func", query[m].conn) \in Callback
          /\ Holds("error_func", query[m].conn).error = "error_func"
      BY <2>1, HoldsForm
    <3>2. /\ stale' \in Lefts /\ stale'[m] = Holds("error_func", query[m].conn)
          /\ \A x \in Mysqls \ {m} : stale'[x] = stale[x]
      BY <1>1, <2>3, <3>1, LeavesForm
    <3>3. Held(stale, ctx)'
      BY <1>1, <2>1, <3>1, <3>2 DEF Held
    <3> QED BY <1>1, <3>2, <3>3 DEF LeftInv, Lefts
  <2> QED BY <1>7, <2>2, <2>3 DEF WriteEnds
<1> QED BY <1>2, <1>3, <1>4, <1>5, <1>6, <1>7 DEF Ends

LEMMA CmsLeft ==
  ASSUME IInv, ~undefined, again' = again, CmsResp
  PROVE  LeftInv'
<1>1. stale \in Lefts /\ Held(stale, ctx) /\ again \in BOOLEAN
  BY LeftParts DEF IInv, LeftInv
<1>2. UNCHANGED ctx /\ \E S \in SUBSET free :
        stale' \in {stale, [m \in Mysqls |-> IF m \in S THEN None ELSE stale[m]]}
  BY DEF CmsResp
<1>3. stale' \in Lefts /\ \A x \in Mysqls : stale'[x] \in {stale[x], None}
  BY <1>1, <1>2 DEF Lefts
<1>4. Held(stale, ctx)'
  BY <1>1, <1>2, <1>3, HeldSame
<1> QED BY <1>1, <1>3, <1>4 DEF LeftInv, Lefts

------------------------------------------------------------------------------
(* The server closes a connection whose last query failed                     *)

\* The connection carries nothing that the trees or the writes wait for.
LEMMA AtRestEffect ==
  ASSUME Typed, NEW m \in Mysqls, AtRest(m), query' = [query EXCEPT ![m] = None]
  PROVE  /\ SameTags({}) /\ SameTags({m}) /\ SameNone({m}) /\ query'[m] = None
         /\ query' \in [Mysqls -> Query \cup {None}] /\ Shape'
<1>1. Op(m) = "none" /\ Con(m) = None
  BY DEF AtRest, Op, Con, Idle
<1>2. SameTags({m}) /\ Ended(m) /\ SameNone({m}) /\ query'[m] = None
  BY ReturnedEffect
<1>3. SameTags({})
  BY <1>1, <1>2 DEF SameTags, Ended
<1> QED BY <1>2, <1>3, ReturnedTyped

\* AgainCounted and AgainAnswered: a client is spoiled.
LEMMA AgainStep ==
  ASSUME IInv, ~undefined, NEW m \in Mysqls, NEW c \in Conns, AtRest(m), Returned(m), LeftInv',
         again' = TRUE, spoiled' = spoiled \cup {c}, UNCHANGED <<cms, undefined>>,
         ctx' \in [Conns -> (Nat \ {0}) \cup {None}], busy' \in {busy, busy \ {c}},
         \A d \in Conns \ {c} : ctx'[d] = ctx[d], ctx[c] = None => ctx'[c] = None
  PROVE  IInv'
<1>1. /\ TypeOK /\ Typed /\ TreeInv /\ PoolInv /\ (MaxCms = 0 => AloneInv)
  BY Parts
<1>2. free' = free \cup {m} /\ query' = [query EXCEPT ![m] = None]
  BY DEF Returned
<1>3. /\ SameTags({}) /\ SameTags({m}) /\ SameNone({m}) /\ query'[m] = None
      /\ query' \in [Mysqls -> Query \cup {None}] /\ Shape'
  BY <1>1, <1>2, AtRestEffect
<1>4. Rest' /\ undefined' \in BOOLEAN
  BY <1>1, <1>2 DEF Rest, TypeOK
<1>5. Typed'
  BY <1>3, <1>4, TypedParts
<1>6. TreeInv'
  BY <1>1, <1>3, AgainTree
<1>7. PoolInv'
  BY <1>1, <1>2, <1>3, PoolReturned
<1>8. AloneInv => AloneInv'
  BY <1>3, AloneSame
<1> QED BY <1>1, <1>5, <1>6, <1>7, <1>8 DEF IInv, Defined, Spoils, Alone

LEMMA ClosedStep ==
  ASSUME IInv, ~undefined, NEW m \in Mysqls, Closed(m)
  PROVE  IInv'
<1>1. /\ TypeOK /\ Typed /\ (MaxCms = 0 => AloneInv)
      /\ stale \in Lefts /\ Held(stale, ctx) /\ ctx \in [Conns -> (Nat \ {0}) \cup {None}]
  BY LeftParts, Parts
<1>2. CASE AgainFreed(m)
  <2>1. undefined' = TRUE /\ again' = TRUE /\ UNCHANGED <<free, query, ctx, busy, cms, spoiled, stale>>
    BY <1>2 DEF AgainFreed
  <2>2. query' \in [Mysqls -> Query \cup {None}] /\ undefined' \in BOOLEAN /\ Shape'
    BY <1>1, <2>1, SameTyped
  <2>3. LeftInv'
    BY <1>1, <2>1 DEF LeftInv, Lefts, Held
  <2>4. Rest'
    BY <1>1, <2>1 DEF Rest, TypeOK
  <2>5. Typed'
    BY <2>2, <2>3, <2>4, TypedParts
  <2>6. AloneInv => AloneInv'
    BY <2>1, SameEffect, AloneSame
  <2> QED BY <1>1, <2>1, <2>3, <2>5, <2>6 DEF IInv, Defined, Spoils, Alone
<1>3. CASE AgainCounted(m)
  <2> DEFINE c == stale[m].conn
             f == Leaves(m, None)
  <2>1. /\ AtRest(m) /\ c # None /\ stale[m].error = "third_error" /\ Returned(m) /\ Down(c, f)
        /\ spoiled' = spoiled \cup {c} /\ again' = TRUE /\ UNCHANGED <<cms, undefined>>
    BY <1>3 DEF AgainCounted, Leaves
  <2>2. c \in Conns /\ ctx[c] # None
    BY <1>1, <2>1 DEF AtRest, Lefts, Callback, Held
  <2>3. f \in Lefts /\ Held(f, ctx)
    <3>1. f \in Lefts /\ f[m] = None /\ \A x \in Mysqls \ {m} : f[x] = stale[x]
      BY <1>1, LeavesForm
    <3> QED BY <1>1, <3>1 DEF Held
  <2> HIDE DEF c, f
  <2>4. stale' \in Lefts /\ Held(stale, ctx)'
    BY <1>1, <2>1, <2>2, <2>3, HeldDown
  <2>5. LeftInv'
    BY <2>1, <2>4 DEF LeftInv, Lefts
  <2>6. ctx' \in [Conns -> (Nat \ {0}) \cup {None}] /\ busy' \in {busy, busy \ {c}}
    BY <1>1, <2>1, <2>2, CountForm DEF Down, Answer
  <2>7. \A d \in Conns \ {c} : ctx'[d] = ctx[d]
    BY <1>1, <2>1 DEF Down
  <2> QED BY <2>1, <2>2, <2>5, <2>6, <2>7, AgainStep
<1>4. CASE AgainAnswered(m)
  <2> DEFINE c == stale[m].conn
             f == Leaves(m, None)
  <2>1. /\ AtRest(m) /\ c # None /\ Returned(m) /\ busy' = busy \ {c} /\ stale' = f
        /\ spoiled' = spoiled \cup {c} /\ again' = TRUE /\ UNCHANGED <<ctx, cms, undefined>>
    BY <1>4 DEF AgainAnswered, Answer, Leaves
  <2>2. c \in Conns
    BY <1>1, <2>1 DEF AtRest, Lefts, Callback
  <2>3. f \in Lefts /\ \A x \in Mysqls : f[x] \in {stale[x], None}
    BY <1>1, LeavesForm
  <2> HIDE DEF c, f
  <2>4. Held(stale, ctx)'
    BY <1>1, <2>1, <2>3, HeldSame
  <2>5. LeftInv'
    BY <2>1, <2>3, <2>4 DEF LeftInv, Lefts
  <2> QED BY <1>1, <2>1, <2>2, <2>5, AgainStep
<1> QED BY <1>2, <1>3, <1>4 DEF Closed

------------------------------------------------------------------------------
(* The invariant holds                                                        *)

\* Nothing is under way when the process starts.
LEMMA FreshInv ==
  ASSUME Init
  PROVE  IInv
<1>1. TypeOK
  <2>1. query \in [Mysqls -> Query \cup {None}] /\ ctx \in [Conns -> (Nat \ {0}) \cup {None}]
    BY DEF Init
  <2>2. cms \in 0 .. MaxCms
    BY BoundAssumption DEF Init
  <2>3. stale \in [Mysqls -> Callback \cup {None}]
    BY DEF Init
  <2> QED BY <2>1, <2>2, <2>3 DEF Init, TypeOK
<1>2. \A m \in Mysqls : query[m] = None
  BY DEF Init
<1>3. \A m \in Mysqls : Op(m) = "none"
  BY <1>2 DEF Op, Idle
<1>4. \A c : Refs(c) = {}
  BY <1>3, OpsApart DEF Refs
<1>5. Typed
  BY <1>1, <1>2 DEF Typed, Shape
<1>6. \A c \in Conns : ctx[c] = None
  BY DEF Init
<1>7. BusyTree /\ Waits /\ CountInv
  BY <1>4, <1>6 DEF BusyTree, Waits, CountInv, Init
<1>8. WriteAlone
  BY <1>3, OpsApart DEF WriteAlone
<1>9. ThirdInv
  BY <1>4 DEF ThirdInv, ThirdAt
<1>10. PoolInv
  BY <1>2 DEF PoolInv, Init
<1>11. AloneInv
  BY <1>3 DEF AloneInv, OfStb
<1>12. LeftInv
  BY <1>1 DEF TypeOK, LeftInv, Held, Init
<1> QED BY <1>5, <1>7, <1>8, <1>9, <1>10, <1>11, <1>12 DEF IInv, Defined, TreeInv, Spoils, Alone, Init

LEMMA RestartStep ==
  ASSUME Restart
  PROVE  IInv'
<1>1. Init'
  BY DEF Restart, Init
<1> QED BY <1>1, FreshInv, PTL

LEMMA StutterStep ==
  ASSUME IInv, UNCHANGED vars
  PROVE  IInv'
<1>1. SameTags({}) /\ SameNone({}) /\ Typed
  BY SameEffect DEF IInv
<1>2. query' \in [Mysqls -> Query \cup {None}] /\ Shape'
  BY <1>1, SameTyped
<1>3. Rest' /\ undefined' \in BOOLEAN /\ TypeOK
  BY <1>1 DEF Typed, TypeOK, Rest
<1>8. LeftInv' /\ again' = again
  BY DEF IInv, LeftInv, Held, left
<1>4. Typed'
  BY <1>2, <1>3, <1>8, TypedParts
<1>5. TreeInv => TreeInv'
  BY <1>1, <1>3, <1>8, QuietTree
<1>6. PoolInv => PoolInv'
  BY <1>1, PoolSame
<1>7. AloneInv => AloneInv'
  BY <1>1, AloneSame
<1> QED BY <1>4, <1>5, <1>6, <1>7, <1>8 DEF IInv, Defined, Spoils, Alone

LEMMA NextStep == IInv /\ [Next]_vars => IInv'
<1> SUFFICES ASSUME IInv, [Next]_vars PROVE IInv'
  OBVIOUS
<1>1. CASE ~undefined /\ again' = again /\ \E c \in Conns : Asks(c)
  BY <1>1, AsksLeft, AsksStep
<1>2. CASE ~undefined /\ again' = again /\ \E m \in Mysqls : Row(m) \/ Ends(m)
  BY <1>2, RowsLeft, EndsLeft, RowsStep, EndsStep
<1>3. CASE ~undefined /\ again' = again /\ CmsResp
  BY <1>3, CmsLeft, CmsStep
<1>4. CASE ~undefined /\ \E m \in Mysqls : Closed(m)
  BY <1>4, ClosedStep
<1>5. CASE Restart
  BY <1>5, RestartStep
<1>6. CASE UNCHANGED vars
  BY <1>6, StutterStep
<1> QED BY <1>1, <1>2, <1>3, <1>4, <1>5, <1>6 DEF Next

LEMMA Invariance == Spec => []IInv
<1>1. Init => IInv
  BY FreshInv
<1> QED BY <1>1, NextStep, PTL DEF Spec

------------------------------------------------------------------------------
(* The properties *)

\* The pool, the queries and the counts of the contexts keep their shape: no
\* count is ever zero or below while its context lives.
THEOREM TypeCorrect == Spec => []TypeOK
<1>1. IInv => TypeOK
  BY DEF IInv, Typed
<1> QED BY <1>1, Invariance, PTL

\* The count of a tree is the number of its queries under way, in whatever
\* order their rows and ends come, as long as the code gave up nowhere.
THEOREM CountSafe == Spec => []Counted
<1>1. IInv => Counted
  BY RefsRefers DEF IInv, Defined, TreeInv, CountInv, Counted
<1> QED BY <1>1, Invariance, PTL

\* A callback of a tree of /third finds its context, whatever fails, as long as no
\* error callback is called a second time (third_error, rns_mysql_query_cont).
THEOREM ThirdSafe == Spec => []ThirdPinned
<1>1. IInv => ThirdPinned
  <2> SUFFICES ASSUME IInv, ~undefined, ~again, NEW m \in Mysqls, Carries(m, Third)
               PROVE  ctx[query[m].conn] # None
    BY DEF ThirdPinned
  <2>1. Typed /\ TreeInv
    BY DEF IInv, Defined
  <2>2. Op(m) \in Third /\ Con(m) = query[m].conn /\ query[m].conn \in Conns
    BY <2>1, CarriesOp, ConnForm, OpsApart
  <2>3. m \in Refs(Con(m))
    BY <2>2, OpsApart DEF Refs
  <2> QED BY <2>1, <2>2, <2>3 DEF TreeInv, ThirdInv, ThirdAt
<1> QED BY <1>1, Invariance, PTL

\* A client waits exactly as long as its tree, or its single query, lives.
THEOREM OwnerSafe == Spec => []Owned
<1>1. IInv => Owned
  <2> SUFFICES ASSUME IInv, ~undefined, NEW c \in Conns \ spoiled
               PROVE  /\ c \in busy <=> ctx[c] # None \/ Writes(c) # {}
                      /\ Writes(c) # {} => ctx[c] = None /\ \E m \in Mysqls : Writes(c) = {m}
    BY DEF Owned
  <2>1. TreeInv /\ busy \subseteq Conns
    BY DEF IInv, Defined, Typed, TypeOK
  <2>2. \A m : m \in Writes(c) <=> m \in Mysqls /\ Op(m) = "write" /\ Con(m) = c
    BY CarriesOp DEF Writes
  <2>3. c \in busy => ctx[c] # None \/ Writes(c) # {}
    BY <2>1, <2>2 DEF TreeInv, Waits
  <2>4. ctx[c] # None => c \in busy
    BY <2>1 DEF TreeInv, BusyTree
  <2>5. ASSUME NEW m \in Writes(c)
        PROVE  c \in busy /\ ctx[c] = None /\ m \in Mysqls /\ Writes(c) = {m}
    BY <2>1, <2>2, <2>5 DEF TreeInv, WriteAlone
  <2> QED BY <2>3, <2>4, <2>5
<1> QED BY <1>1, Invariance, PTL

\* What a callback relies on: shapes, counts, contexts and owners together.
THEOREM TreesSafe == Spec => []TreesSound
<1>1. TypeOK /\ Counted /\ ThirdPinned /\ Owned => TreesSound
  BY DEF TreesSound
<1> QED BY <1>1, TypeCorrect, CountSafe, ThirdSafe, OwnerSafe, PTL

\* No connection of the pool is forgotten by a query that ends, and one is
\* returned too early only in a tree of /stb that met an empty pool.
THEOREM PoolSafe == Spec => []PoolKept
<1>1. IInv => PoolKept
  BY OpsApart DEF IInv, Defined, PoolInv, PoolKept, Op, Con, Idle
<1> QED BY <1>1, Invariance, PTL

\* Freed memory is used, or a connection used twice, only while a client is
\* spoiled, or because a connection was closed whose last query had failed.
THEOREM DefinedSafe == Spec => []StaysDefined
<1>1. IInv => StaysDefined
  BY DEF IInv, Spoils, StaysDefined
<1> QED BY <1>1, Invariance, PTL

\* ... and without the requests of /stb for the second reason only.
THEOREM AloneSafe == Spec => []AloneDefined
<1>1. IInv => AloneDefined
  BY DEF IInv, Alone, AloneDefined
<1> QED BY <1>1, Invariance, PTL
===============================================================================
