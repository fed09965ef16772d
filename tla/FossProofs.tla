------------------------------ MODULE FossProofs ------------------------------
(* Proofs about Foss, for every set of servers, boxes, clients and MySQL      *)
(* connections.                                                               *)
EXTENDS Foss, TLAPS

USE DEF dbVars, vars

\* What a query carries, by its callbacks; a row comes once, for the queries
\* that read.
WellFormed(q) ==
  /\ q.op # "register" => q.conn \in Conns
  /\ q.op \in {"find", "register", "bind", "update", "stb"} => q.stb \in Stbs
  /\ q.op \in {"bind", "unbind", "phone"} => q.phone \in Phones
  /\ q.op = "register" => q.trs \in Trss
  /\ q.stage # "ran" => q.row = None /\ q.rownum = 0
  /\ q.row # None =>
       /\ q.rownum = 0
       /\ \/ q.op = "find" /\ q.row \in Trss
          \/ q.op = "phone" /\ q.row \in Stbs
          \/ q.op = "stb"
  /\ q.rownum = 1 => q.op \in {"find", "phone", "stb"}

Shape == \A m \in Mysqls : query[m] # None => WellFormed(query[m])

\* A query as it is sent.
LEMMA AskingForm ==
  ASSUME NEW o \in Ops, NEW c \in Conns \cup {None}, NEW s \in Stbs \cup {None},
         NEW p \in Phones \cup {None}, NEW t \in Trss \cup {None}
  PROVE  /\ Asking(o, c, s, p, t) \in Query
         /\ Asking(o, c, s, p, t) # None
         /\ Asking(o, c, s, p, t).op = o /\ Asking(o, c, s, p, t).conn = c
         /\ Asking(o, c, s, p, t).stb = s /\ Asking(o, c, s, p, t).phone = p
         /\ Asking(o, c, s, p, t).trs = t /\ Asking(o, c, s, p, t).stage = "sent"
         /\ Asking(o, c, s, p, t).row = None /\ Asking(o, c, s, p, t).rownum = 0
<1>1. Asking(o, c, s, p, t) \in Query
  BY DEF Asking, Query
<1> QED BY <1>1, QueryAssumption DEF Asking

LEMMA AskingWell ==
  ASSUME NEW o \in Ops, NEW c \in Conns \cup {None}, NEW s \in Stbs \cup {None},
         NEW p \in Phones \cup {None}, NEW t \in Trss \cup {None},
         o # "register" => c \in Conns,
         o \in {"find", "register", "bind", "update", "stb"} => s \in Stbs,
         o \in {"bind", "unbind", "phone"} => p \in Phones,
         o = "register" => t \in Trss
  PROVE  Asking(o, c, s, p, t) \in Query /\ WellFormed(Asking(o, c, s, p, t))
<1> DEFINE q == Asking(o, c, s, p, t)
<1>1. /\ q \in Query
      /\ q.op = o /\ q.conn = c /\ q.stb = s /\ q.phone = p /\ q.trs = t
      /\ q.stage = "sent" /\ q.row = None /\ q.rownum = 0
  BY AskingForm
<1> HIDE DEF q
<1>2. WellFormed(q)
  BY <1>1 DEF WellFormed
<1> QED BY <1>1, <1>2 DEF q

\* A query that ran, with a row r or none.
LEMMA RanForm ==
  ASSUME NEW q \in Query, WellFormed(q), q.stage = "sent",
         NEW r \in Trss \cup Stbs \cup {None},
         r # None => \/ q.op = "find" /\ r \in Trss
                     \/ q.op = "phone" /\ r \in Stbs
                     \/ q.op = "stb"
  PROVE  /\ [q EXCEPT !.stage = "ran", !.row = r] \in Query
         /\ WellFormed([q EXCEPT !.stage = "ran", !.row = r])
<1>1. [q EXCEPT !.stage = "ran", !.row = r] \in Query
  BY DEF Query
<1> QED BY <1>1 DEF Query, WellFormed

LEMMA StageForm ==
  ASSUME NEW q \in Query, WellFormed(q), q.stage = "sent", NEW st \in {"ran", "lost"}
  PROVE  /\ [q EXCEPT !.stage = st] \in Query
         /\ WellFormed([q EXCEPT !.stage = st])
<1>1. [q EXCEPT !.stage = st] \in Query
  BY DEF Query
<1> QED BY <1>1 DEF Query, WellFormed

\* A query whose row was taken.
LEMMA FetchedForm ==
  ASSUME NEW q \in Query, WellFormed(q), q.stage = "ran", q.row # None
  PROVE  /\ [q EXCEPT !.row = None, !.rownum = 1] \in Query
         /\ WellFormed([q EXCEPT !.row = None, !.rownum = 1])
<1>1. [q EXCEPT !.row = None, !.rownum = 1] \in Query
  BY DEF Query
<1> QED BY <1>1 DEF Query, WellFormed

\* One connection gets another query, or none.
LEMMA Replaced ==
  ASSUME query \in [Mysqls -> Query \cup {None}], Shape,
         NEW m \in Mysqls, NEW q \in Query \cup {None}, q # None => WellFormed(q),
         query' = [query EXCEPT ![m] = q]
  PROVE  query' \in [Mysqls -> Query \cup {None}] /\ Shape'
<1>1. query' \in [Mysqls -> Query \cup {None}]
  OBVIOUS
<1>2. \A n \in Mysqls : query'[n] = IF n = m THEN q ELSE query[n]
  OBVIOUS
<1> QED BY <1>1, <1>2 DEF Shape

LEMMA ReplacedTwo ==
  ASSUME query \in [Mysqls -> Query \cup {None}], Shape,
         NEW m \in Mysqls, NEW q \in Query \cup {None}, q # None => WellFormed(q),
         NEW n \in Mysqls, NEW r \in Query, WellFormed(r),
         query' = [query EXCEPT ![m] = q, ![n] = r]
  PROVE  query' \in [Mysqls -> Query \cup {None}] /\ Shape'
<1>1. query' \in [Mysqls -> Query \cup {None}]
  OBVIOUS
<1>2. \A k \in Mysqls : query'[k] = IF k = n THEN r ELSE IF k = m THEN q ELSE query[k]
  OBVIOUS
<1> QED BY <1>1, <1>2 DEF Shape

TypeInv == TypeOK /\ Shape

\* The types of what a step of the program may change.
Core ==
  /\ number \in [Trss -> (0 .. MaxNumber) \cup {None}]
  /\ open \in SUBSET Mysqls /\ free \in SUBSET Mysqls
  /\ query \in [Mysqls -> Query \cup {None}] /\ Shape
  /\ busy \in SUBSET Conns
  /\ home \in [Stbs -> Trss \cup {None}]
  /\ link \in [Phones -> Stbs \cup {None}]
  /\ told \in [Stbs -> SUBSET Trss]
  /\ spoiled \in SUBSET Stbs /\ raced \in SUBSET Stbs
  /\ stale \in SUBSET Mysqls

LEMMA TypeStep ==
  ASSUME TypeInv, [Next]_vars
  PROVE  TypeInv'
<1> USE BoundAssumption DEF TypeInv, TypeOK, Core
<1>a. \A m \in Mysqls : query[m] # None => query[m] \in Query /\ WellFormed(query[m])
  BY DEF Shape
<1>b. \A q \in Query :
        /\ q.op \in Ops /\ q.conn \in Conns \cup {None} /\ q.stb \in Stbs \cup {None}
        /\ q.phone \in Phones \cup {None} /\ q.trs \in Trss \cup {None}
        /\ q.row \in Trss \cup Stbs \cup {None}
        /\ q.stage \in {"sent", "ran", "lost"} /\ q.rownum \in {0, 1}
  BY DEF Query
<1>1. ASSUME NEW t \in Trss, Login(t) \/ LoginTimeout(t) PROVE Core'
  BY <1>1 DEF Login, LoginTimeout, Shape
<1>2. ASSUME NEW m \in Mysqls, Connected(m) PROVE Core'
  BY <1>2 DEF Connected, Shape
<1>3. ASSUME NEW c \in Conns, NEW o \in Ops, NEW s \in Stbs \cup {None},
             NEW p \in Phones \cup {None},
             o \in {"find", "bind"} => s \in Stbs,
             o \in {"bind", "unbind", "phone"} => p \in Phones,
             o \in {"find", "bind", "unbind", "phone"},
             Request(c, Asking(o, c, s, p, None))
      PROVE  Core'
  <2> DEFINE q == Asking(o, c, s, p, None)
  <2>1. q \in Query /\ WellFormed(q)
    BY <1>3, AskingWell
  <2>2. PICK m \in Mysqls : free' = free \ {m} /\ query' = [query EXCEPT ![m] = q]
    BY <1>3 DEF Request
  <2> HIDE DEF q
  <2>3. query' \in [Mysqls -> Query \cup {None}] /\ Shape'
    BY <2>1, <2>2, Replaced
  <2> QED BY <1>3, <2>2, <2>3 DEF Request
<1>4. ASSUME NEW m \in Mysqls, Run(m) PROVE Core'
  <2> DEFINE q == query[m]
  <2>1. q \in Query /\ WellFormed(q) /\ q.stage = "sent"
    BY <1>4, <1>a DEF Run
  <2>2. /\ home' \in [Stbs -> Trss \cup {None}] /\ link' \in [Phones -> Stbs \cup {None}]
        /\ UNCHANGED <<number, open, free, busy, told, spoiled, stale>>
    BY <1>4, <1>b, <2>1 DEF Run
  <2>3. PICK r \in Trss \cup Stbs \cup {None} :
          /\ query' = [query EXCEPT ![m] = [@ EXCEPT !.stage = "ran", !.row = r]]
          /\ r # None => \/ q.op = "find" /\ r \in Trss
                         \/ q.op = "phone" /\ r \in Stbs
                         \/ q.op = "stb"
    BY <1>4, <2>1 DEF Run, WellFormed
  <2> DEFINE n == [q EXCEPT !.stage = "ran", !.row = r]
  <2>4. n \in Query /\ WellFormed(n)
    BY <2>1, <2>3, RanForm
  <2>5. query' = [query EXCEPT ![m] = n]
    BY <2>3
  <2> HIDE DEF n
  <2>6. query' \in [Mysqls -> Query \cup {None}] /\ Shape'
    BY <2>4, <2>5, Replaced
  <2>7. raced' \in SUBSET Stbs
    BY <1>4, <2>1 DEF Run, WellFormed
  <2> QED BY <2>2, <2>6, <2>7
<1>5. ASSUME NEW m \in Mysqls, Silent(m) PROVE Core'
  <2> DEFINE n == [query[m] EXCEPT !.stage = "ran"]
  <2>1. n \in Query /\ WellFormed(n)
    BY <1>5, <1>a, StageForm DEF Silent
  <2>2. query' = [query EXCEPT ![m] = n]
    BY <1>5 DEF Silent
  <2> HIDE DEF n
  <2>3. query' \in [Mysqls -> Query \cup {None}] /\ Shape'
    BY <2>1, <2>2, Replaced
  <2>4. spoiled' \in SUBSET Stbs
    BY <1>5, <1>a DEF Silent, WellFormed
  <2> QED BY <1>5, <2>3, <2>4 DEF Silent
<1>6. ASSUME NEW m \in Mysqls, Fails(m) PROVE Core'
  <2>1. CASE query[m].op = "register"
    <3> DEFINE n == [query[m] EXCEPT !.stage = "lost"]
    <3>1. n \in Query /\ WellFormed(n)
      BY <1>6, <1>a, StageForm DEF Fails
    <3>2. query' = [query EXCEPT ![m] = n]
      BY <1>6, <2>1 DEF Fails
    <3> HIDE DEF n
    <3>3. query' \in [Mysqls -> Query \cup {None}] /\ Shape'
      BY <3>1, <3>2, Replaced
    <3>4. spoiled' \in SUBSET Stbs
      BY <1>6, <1>a, <2>1 DEF Fails, WellFormed
    <3> QED BY <1>6, <2>1, <3>3, <3>4 DEF Fails
  <2>2. CASE query[m].op # "register"
    <3>1. query' = [query EXCEPT ![m] = None] /\ free' = free \cup {m} /\ busy' \in SUBSET Conns
      BY <1>6, <2>2 DEF Fails, Returned, Answer
    <3>2. query' \in [Mysqls -> Query \cup {None}] /\ Shape'
      BY <3>1, Replaced
    <3> QED BY <1>6, <2>2, <3>1, <3>2 DEF Fails
  <2> QED BY <2>1, <2>2
<1>7. ASSUME NEW m \in Mysqls, GotRow(m)
      PROVE  /\ [query[m] EXCEPT !.row = None, !.rownum = 1] \in Query
             /\ WellFormed([query[m] EXCEPT !.row = None, !.rownum = 1])
  BY <1>7, <1>a, FetchedForm DEF GotRow
<1>8. ASSUME NEW m \in Mysqls, FindRow(m) \/ StbRow(m) PROVE Core'
  <2> DEFINE n == [query[m] EXCEPT !.row = None, !.rownum = 1]
  <2>1. n \in Query /\ WellFormed(n)
    BY <1>7, <1>8 DEF FindRow, StbRow
  <2>2. query' = [query EXCEPT ![m] = n]
    BY <1>8 DEF FindRow, StbRow, Fetched
  <2> HIDE DEF n
  <2>3. query' \in [Mysqls -> Query \cup {None}] /\ Shape'
    BY <2>1, <2>2, Replaced
  <2>4. busy' \in SUBSET Conns /\ UNCHANGED <<number, open, free, dbVars, stale>>
    BY <1>8 DEF FindRow, StbRow, Answer
  <2>5. told' \in [Stbs -> SUBSET Trss]
    <3>1. CASE FindRow(m)
      <4>1. query[m].stb \in Stbs /\ query[m].row \in Trss
        BY <1>a, <3>1 DEF FindRow, GotRow, WellFormed
      <4>2. told[query[m].stb] \cup {query[m].row} \in SUBSET Trss
        BY <4>1
      <4> QED BY <3>1, <4>1, <4>2 DEF FindRow
    <3>2. CASE StbRow(m)
      BY <3>2 DEF StbRow
    <3> QED BY <1>8, <3>1, <3>2
  <2> QED BY <2>3, <2>4, <2>5
<1>9. ASSUME NEW m \in Mysqls, PhoneRow(m) PROVE Core'
  <2> DEFINE n == [query[m] EXCEPT !.row = None, !.rownum = 1]
             q == Asking("stb", query[m].conn, query[m].row, None, None)
             l == [q EXCEPT !.stage = "lost"]
  <2>1. n \in Query /\ WellFormed(n)
    BY <1>7, <1>9 DEF PhoneRow
  <2>2. query[m].conn \in Conns /\ query[m].row \in Stbs
    BY <1>9, <1>a DEF PhoneRow, GotRow, WellFormed
  <2>3. q \in Query /\ WellFormed(q) /\ q.stage = "sent"
    BY <2>2, AskingWell DEF Asking, Ops
  <2>4. l \in Query /\ WellFormed(l)
    BY <2>3, StageForm
  <2>5. /\ busy' \in SUBSET Conns /\ free' \in SUBSET Mysqls /\ stale' \in SUBSET Mysqls
        /\ UNCHANGED <<number, open, told, dbVars>>
    BY <1>9 DEF PhoneRow, Answer
  <2>6. \/ query' = [query EXCEPT ![m] = n]
        \/ \E k \in Mysqls : query' = [query EXCEPT ![m] = n, ![k] = q]
        \/ \E k \in Mysqls : query' = [query EXCEPT ![m] = n, ![k] = l]
    BY <1>9 DEF PhoneRow, Fetched
  <2> HIDE DEF n, q, l
  <2>7. query' \in [Mysqls -> Query \cup {None}] /\ Shape'
    <3>1. CASE query' = [query EXCEPT ![m] = n]
      BY <2>1, <3>1, Replaced
    <3>2. ASSUME NEW k \in Mysqls, query' = [query EXCEPT ![m] = n, ![k] = q]
          PROVE  query' \in [Mysqls -> Query \cup {None}] /\ Shape'
      BY <2>1, <2>3, <3>2, ReplacedTwo
    <3>3. ASSUME NEW k \in Mysqls, query' = [query EXCEPT ![m] = n, ![k] = l]
          PROVE  query' \in [Mysqls -> Query \cup {None}] /\ Shape'
      BY <2>1, <2>4, <3>3, ReplacedTwo
    <3> QED BY <2>6, <3>1, <3>2, <3>3
  <2> QED BY <2>5, <2>7
<1>10. ASSUME NEW m \in Mysqls,
              DoneAnswered(m) \/ FindDoneUnstarted(m) \/ FindDoneFails(m) \/ DoneAnswers(m)
       PROVE  Core'
  <2>1. query' = [query EXCEPT ![m] = None] /\ free' \in SUBSET Mysqls
    BY <1>10 DEF DoneAnswered, FindDoneUnstarted, FindDoneFails, DoneAnswers, Returned
  <2>2. query' \in [Mysqls -> Query \cup {None}] /\ Shape'
    BY <2>1, Replaced
  <2>3. busy' \in SUBSET Conns /\ UNCHANGED <<open, told, dbVars, stale>>
    BY <1>10 DEF DoneAnswered, FindDoneUnstarted, FindDoneFails, DoneAnswers, Answer
  <2>4. number' \in [Trss -> (0 .. MaxNumber) \cup {None}]
    BY <1>10, NoneAssumption
       DEF DoneAnswered, FindDoneUnstarted, FindDoneFails, DoneAnswers, Least, Counted
  <2> QED BY <2>1, <2>2, <2>3, <2>4
<1>11. ASSUME NEW m \in Mysqls, NEW k \in Mysqls, NEW r \in Query, WellFormed(r),
              Chained(m, k, r)
       PROVE  /\ query' \in [Mysqls -> Query \cup {None}] /\ Shape'
              /\ free' \in SUBSET Mysqls /\ stale' \in SUBSET Mysqls
  <2>1. /\ query' = [query EXCEPT ![m] = None, ![k] = r]
        /\ free' = (free \ {k}) \cup {m} /\ stale' = stale \ {k}
    BY <1>11 DEF Chained
  <2> QED BY <1>11, <2>1, ReplacedTwo
<1>12. ASSUME NEW m \in Mysqls, FindDonePlaces(m) PROVE Core'
  <2>1. PICK t \in Trss, k \in Mysqls :
          /\ Least(t)
          /\ Counted(t)
          /\ Chained(m, k, Asking("register", None, query[m].stb, None, t))
          /\ told' = [told EXCEPT ![query[m].stb] = @ \cup {t}]
    BY <1>12 DEF FindDonePlaces
  <2>2. query[m].stb \in Stbs
    BY <1>12, <1>a DEF FindDonePlaces, Ended, Carries, WellFormed
  <2> DEFINE r == Asking("register", None, query[m].stb, None, t)
  <2>3. r \in Query /\ WellFormed(r)
    BY <2>2, AskingWell DEF Ops
  <2>4. Chained(m, k, r)
    BY <2>1
  <2> HIDE DEF r
  <2>5. /\ query' \in [Mysqls -> Query \cup {None}] /\ Shape'
        /\ free' \in SUBSET Mysqls /\ stale' \in SUBSET Mysqls
    BY <2>3, <2>4, <1>11
  <2>6. number' \in [Trss -> (0 .. MaxNumber) \cup {None}]
    BY <2>1, NoneAssumption DEF Least, Counted
  <2>7. told[query[m].stb] \cup {t} \in SUBSET Trss
    BY <2>2
  <2>8. told' \in [Stbs -> SUBSET Trss]
    BY <2>1, <2>2, <2>7
  <2>9. busy' \in SUBSET Conns /\ UNCHANGED <<open, dbVars>>
    BY <1>12 DEF FindDonePlaces, Answer
  <2> QED BY <2>5, <2>6, <2>8, <2>9
<1>13. ASSUME NEW m \in Mysqls, BindDone(m) PROVE Core'
  <2>1. UNCHANGED <<number, open, told, dbVars>>
    BY <1>13 DEF BindDone
  <2>2. CASE Answer(query[m].conn) /\ Returned(m) /\ UNCHANGED stale
    <3>1. query' = [query EXCEPT ![m] = None] /\ free' \in SUBSET Mysqls /\ busy' \in SUBSET Conns
      BY <2>2 DEF Returned, Answer
    <3>2. query' \in [Mysqls -> Query \cup {None}] /\ Shape'
      BY <3>1, Replaced
    <3> QED BY <2>1, <2>2, <3>1, <3>2
  <2>3. CASE /\ \E n \in free : Chained(m, n, Asking("update", query[m].conn, query[m].stb, None, None))
             /\ UNCHANGED busy
    <3> DEFINE r == Asking("update", query[m].conn, query[m].stb, None, None)
    <3>1. PICK n \in Mysqls : Chained(m, n, r)
      BY <2>3
    <3>2. query[m].conn \in Conns /\ query[m].stb \in Stbs
      BY <1>13, <1>a DEF BindDone, Ended, Carries, WellFormed
    <3>3. r \in Query /\ WellFormed(r)
      BY <3>2, AskingWell DEF Ops
    <3> HIDE DEF r
    <3>4. /\ query' \in [Mysqls -> Query \cup {None}] /\ Shape'
          /\ free' \in SUBSET Mysqls /\ stale' \in SUBSET Mysqls
      BY <3>1, <3>3, <1>11
    <3> QED BY <2>1, <2>3, <3>4
  <2> QED BY <1>13, <2>2, <2>3 DEF BindDone
<1>14. ASSUME Restart PROVE Core'
  <2>1. query' = [m \in Mysqls |-> None] /\ spoiled' \in SUBSET Stbs
    BY <1>14 DEF Restart
  <2>2. Shape'
    BY <2>1 DEF Shape
  <2> QED BY <1>14, <2>1, <2>2 DEF Restart
<1>15. CASE UNCHANGED vars
  BY <1>15 DEF Shape
<1>16. ASSUME NEW c \in Conns, NEW s \in Stbs, GetServer(c, s) PROVE Core'
  BY <1>16, <1>3 DEF GetServer, Ops
<1>17. ASSUME NEW c \in Conns, NEW p \in Phones, Unbind(c, p) \/ GetStbid(c, p) PROVE Core'
  BY <1>17, <1>3 DEF Unbind, GetStbid, Ops
<1>18. ASSUME NEW c \in Conns, NEW p \in Phones, NEW s \in Stbs, Bind(c, p, s) PROVE Core'
  BY <1>18, <1>3 DEF Bind, Ops
<1>19. ASSUME NEW m \in Mysqls, Callback(m) PROVE Core'
  BY <1>19, <1>8, <1>9, <1>10, <1>12, <1>13 DEF Callback
<1>20. ASSUME NEW m \in Mysqls, Again(m) PROVE Core'
  BY <1>20 DEF Again, Shape
<1>21. Core'
  BY <1>1, <1>2, <1>4, <1>5, <1>6, <1>14, <1>15, <1>16, <1>17, <1>18, <1>19, <1>20
     DEF Next, Step
<1>22. undefined' \in BOOLEAN
  BY DEF Next, Restart, Again
<1> QED BY <1>21, <1>22

\* Type correctness: the registry, the pool, the queries and the tables keep
\* their shape, whatever the clients, the database and restarts do.
THEOREM TypeCorrect == Spec => []TypeOK
<1>1. Init => TypeInv
  BY DEF Init, Fresh, TypeInv, TypeOK, Shape
<1>2. TypeInv /\ [Next]_vars => TypeInv'
  BY TypeStep
<1>3. TypeInv => TypeOK
  BY DEF TypeInv
<1> QED BY <1>1, <1>2, <1>3, PTL DEF Spec

------------------------------------------------------------------------------
(* The pool.  PoolInv is PoolKept, also behind a repeated error callback.  A   *)
(* step changes the pool in one of four ways; in each PoolInv stays.           *)

PoolInv == \A m \in Mysqls :
  /\ m \in free <=> m \in open /\ query[m] = None
  /\ query[m] # None => m \in open

\* m comes back.
LEMMA PoolReturn ==
  ASSUME TypeOK, PoolInv, NEW m \in Mysqls, query[m] # None, open' = open,
         free' = free \cup {m}, query' = [query EXCEPT ![m] = None]
  PROVE  PoolInv'
BY DEF TypeOK, PoolInv

\* m goes on with another query.
LEMMA PoolGoesOn ==
  ASSUME TypeOK, PoolInv, NEW m \in Mysqls, query[m] # None, open' = open,
         NEW q, q # None, free' = free, query' = [query EXCEPT ![m] = q]
  PROVE  PoolInv'
BY DEF TypeOK, PoolInv

\* n is taken.
LEMMA PoolTake ==
  ASSUME TypeOK, PoolInv, NEW n \in free, open' = open,
         NEW q, q # None, free' = free \ {n}, query' = [query EXCEPT ![n] = q]
  PROVE  PoolInv'
BY DEF TypeOK, PoolInv

\* n is taken while m comes back (q = None), or goes on with q.
LEMMA PoolTwo ==
  ASSUME TypeOK, PoolInv, NEW m \in Mysqls, query[m] # None, NEW n \in free, open' = open,
         NEW q, NEW r, r # None,
         free' = (free \ {n}) \cup (IF q = None THEN {m} ELSE {}),
         query' = [query EXCEPT ![m] = q, ![n] = r]
  PROVE  PoolInv'
<1>1. m # n /\ n \in Mysqls
  BY DEF TypeOK, PoolInv
<1>2. \A k \in Mysqls : query'[k] = IF k = n THEN r ELSE IF k = m THEN q ELSE query[k]
  BY <1>1 DEF TypeOK
<1>3. \A k \in Mysqls : k \in free' <=> k # n /\ (k \in free \/ (k = m /\ q = None))
  BY <1>1
<1> QED BY <1>1, <1>2, <1>3 DEF TypeOK, PoolInv

LEMMA NotNone ==
  /\ \A o \in Ops, c \in Conns \cup {None}, s \in Stbs \cup {None},
        p \in Phones \cup {None}, t \in Trss \cup {None} : Asking(o, c, s, p, t) # None
  /\ \A q \in Query, st \in {"ran", "lost"}, r \in Trss \cup Stbs \cup {None} :
        /\ [q EXCEPT !.stage = st] # None
        /\ [q EXCEPT !.stage = "ran", !.row = r] # None
        /\ [q EXCEPT !.row = None, !.rownum = 1] # None
<1>1. ASSUME NEW q \in Query, NEW st \in {"ran", "lost"}, NEW r \in Trss \cup Stbs \cup {None}
      PROVE  /\ [q EXCEPT !.stage = st] \in Query
             /\ [q EXCEPT !.stage = "ran", !.row = r] \in Query
             /\ [q EXCEPT !.row = None, !.rownum = 1] \in Query
  BY DEF Query
<1>2. ASSUME NEW o \in Ops, NEW c \in Conns \cup {None}, NEW s \in Stbs \cup {None},
             NEW p \in Phones \cup {None}, NEW t \in Trss \cup {None}
      PROVE  Asking(o, c, s, p, t) # None
  BY AskingForm
<1>3. \A q \in Query : q # None
  BY QueryAssumption
<1>4. ASSUME NEW q \in Query, NEW st \in {"ran", "lost"}, NEW r \in Trss \cup Stbs \cup {None}
      PROVE  /\ [q EXCEPT !.stage = st] # None
             /\ [q EXCEPT !.stage = "ran", !.row = r] # None
             /\ [q EXCEPT !.row = None, !.rownum = 1] # None
  BY <1>1, <1>3
<1> QED BY <1>2, <1>4

LEMMA PoolStep ==
  ASSUME TypeInv, PoolInv, [Next]_vars
  PROVE  PoolInv'
<1>a. TypeOK /\ Shape
  BY DEF TypeInv
<1>b. \A m \in Mysqls : query[m] # None => query[m] \in Query /\ WellFormed(query[m])
  BY <1>a DEF TypeOK, Shape
<1>c. \A q \in Query :
        /\ q.conn \in Conns \cup {None} /\ q.stb \in Stbs \cup {None}
        /\ q.row \in Trss \cup Stbs \cup {None}
  BY DEF Query
<1>1. ASSUME UNCHANGED <<open, free, query>> PROVE PoolInv'
  BY <1>1 DEF PoolInv
<1>2. ASSUME NEW m \in Mysqls, Connected(m) PROVE PoolInv'
  BY <1>a, <1>2 DEF Connected, PoolInv, TypeOK
<1>3. ASSUME NEW c \in Conns, NEW q, q # None, Request(c, q) PROVE PoolInv'
  BY <1>a, <1>3, PoolTake DEF Request
<1>4. ASSUME NEW c \in Conns, NEW o \in Ops, NEW s \in Stbs \cup {None},
             NEW p \in Phones \cup {None}, Request(c, Asking(o, c, s, p, None))
      PROVE  PoolInv'
  BY <1>3, <1>4, NotNone
<1>5. ASSUME NEW m \in Mysqls, Run(m) PROVE PoolInv'
  <2>1. query[m] \in Query /\ WellFormed(query[m]) /\ UNCHANGED <<open, free>>
    BY <1>5, <1>b DEF Run
  <2>2. PICK r \in Trss \cup Stbs \cup {None} :
          query' = [query EXCEPT ![m] = [@ EXCEPT !.stage = "ran", !.row = r]]
    <3>1. /\ query[m].op \in {"find", "register", "bind", "update", "stb"} => query[m].stb \in Stbs
          /\ query[m].op \in {"bind", "unbind", "phone"} => query[m].phone \in Phones
      BY <2>1 DEF WellFormed
    <3> QED BY <1>5, <1>a, <2>1, <3>1 DEF Run, TypeOK
  <2> DEFINE n == [query[m] EXCEPT !.stage = "ran", !.row = r]
  <2>3. n # None /\ query' = [query EXCEPT ![m] = n]
    BY <2>1, <2>2, NotNone
  <2> HIDE DEF n
  <2> QED BY <1>a, <1>5, <2>1, <2>3, PoolGoesOn DEF Run
<1>6. ASSUME NEW m \in Mysqls, NEW st \in {"ran", "lost"}, query[m] # None,
             query' = [query EXCEPT ![m] = [@ EXCEPT !.stage = st]], UNCHANGED <<open, free>>
      PROVE  PoolInv'
  <2> DEFINE n == [query[m] EXCEPT !.stage = st]
  <2>1. n # None /\ query' = [query EXCEPT ![m] = n]
    BY <1>6, <1>b, NotNone
  <2> HIDE DEF n
  <2> QED BY <1>a, <1>6, <2>1, PoolGoesOn
<1>7. ASSUME NEW m \in Mysqls, query[m] # None, Returned(m), open' = open PROVE PoolInv'
  BY <1>a, <1>7, PoolReturn DEF Returned
<1>8. ASSUME NEW m \in Mysqls, Silent(m) \/ Fails(m) PROVE PoolInv'
  BY <1>6, <1>7, <1>8 DEF Silent, Fails
<1>9. ASSUME NEW m \in Mysqls, FindRow(m) \/ PhoneRow(m) \/ StbRow(m) PROVE PoolInv'
  <2> DEFINE q == [query[m] EXCEPT !.row = None, !.rownum = 1]
             r == Asking("stb", query[m].conn, query[m].row, None, None)
             l == [r EXCEPT !.stage = "lost"]
  <2>1. query[m] \in Query /\ query[m] # None /\ q # None
    BY <1>9, <1>b, NotNone DEF FindRow, PhoneRow, StbRow, GotRow
  <2>2. PhoneRow(m) => r # None /\ l # None
    <3>1. PhoneRow(m) => query[m].conn \in Conns /\ query[m].row \in Stbs
      BY <2>1, <1>b DEF PhoneRow, GotRow, WellFormed
    <3>2. PhoneRow(m) => r \in Query
      BY <3>1, AskingForm DEF Ops
    <3> QED BY <3>2, NotNone, QueryAssumption
  <2>3. \/ query' = [query EXCEPT ![m] = q] /\ UNCHANGED <<open, free>>
        \/ /\ PhoneRow(m) /\ UNCHANGED open
           /\ \E n \in free : \E k \in {r, l} :
                free' = free \ {n} /\ query' = [query EXCEPT ![m] = q, ![n] = k]
    BY <1>9 DEF FindRow, PhoneRow, StbRow, Fetched
  <2> HIDE DEF q, r, l
  <2>4. CASE query' = [query EXCEPT ![m] = q] /\ UNCHANGED <<open, free>>
    BY <1>a, <2>1, <2>4, PoolGoesOn
  <2>5. ASSUME NEW n \in free, NEW k \in {r, l}, PhoneRow(m), UNCHANGED open,
               free' = free \ {n}, query' = [query EXCEPT ![m] = q, ![n] = k]
        PROVE  PoolInv'
    BY <1>a, <2>1, <2>2, <2>5, PoolTwo
  <2> QED BY <2>3, <2>4, <2>5
<1>10. ASSUME NEW m \in Mysqls,
              DoneAnswered(m) \/ FindDoneUnstarted(m) \/ FindDoneFails(m) \/ DoneAnswers(m)
       PROVE  PoolInv'
  BY <1>7, <1>10 DEF DoneAnswered, FindDoneUnstarted, FindDoneFails, DoneAnswers, Ended, Carries
<1>11. ASSUME NEW m \in Mysqls, query[m] # None, NEW n \in free, NEW r, r # None,
              Chained(m, n, r), open' = open
       PROVE  PoolInv'
  BY <1>a, <1>11, PoolTwo DEF Chained
<1>12. ASSUME NEW m \in Mysqls, FindDonePlaces(m) PROVE PoolInv'
  <2>1. query[m] # None /\ query[m].stb \in Stbs /\ open' = open
    BY <1>12, <1>b DEF FindDonePlaces, Ended, Carries, WellFormed
  <2>2. PICK t \in Trss, n \in free :
          Chained(m, n, Asking("register", None, query[m].stb, None, t))
    BY <1>12 DEF FindDonePlaces
  <2>3. Asking("register", None, query[m].stb, None, t) # None
    BY <2>1, NotNone DEF Ops
  <2> QED BY <1>11, <2>1, <2>2, <2>3
<1>13. ASSUME NEW m \in Mysqls, BindDone(m) PROVE PoolInv'
  <2>1. query[m] # None /\ query[m].conn \in Conns /\ query[m].stb \in Stbs /\ open' = open
    BY <1>13, <1>b DEF BindDone, Ended, Carries, WellFormed
  <2>2. Asking("update", query[m].conn, query[m].stb, None, None) # None
    BY <2>1, NotNone DEF Ops
  <2> QED BY <1>7, <1>11, <1>13, <2>1, <2>2 DEF BindDone
<1>14. ASSUME Restart PROVE PoolInv'
  BY <1>14 DEF Restart, PoolInv
<1>15. ASSUME NEW t \in Trss, Login(t) \/ LoginTimeout(t) PROVE PoolInv'
  BY <1>1, <1>15 DEF Login, LoginTimeout
<1>16. ASSUME NEW c \in Conns, NEW s \in Stbs, GetServer(c, s) PROVE PoolInv'
  BY <1>16, <1>4 DEF GetServer, Ops
<1>17. ASSUME NEW c \in Conns, NEW p \in Phones, Unbind(c, p) \/ GetStbid(c, p) PROVE PoolInv'
  BY <1>17, <1>4 DEF Unbind, GetStbid, Ops
<1>18. ASSUME NEW c \in Conns, NEW p \in Phones, NEW s \in Stbs, Bind(c, p, s) PROVE PoolInv'
  BY <1>18, <1>4 DEF Bind, Ops
<1>19. ASSUME NEW m \in Mysqls, Callback(m) PROVE PoolInv'
  BY <1>19, <1>9, <1>10, <1>12, <1>13 DEF Callback
<1> QED
  BY <1>1, <1>2, <1>5, <1>8, <1>14, <1>15, <1>16, <1>17, <1>18, <1>19 DEF Next, Step, Again

\* A connection of the pool is free exactly when it is made and carries no
\* query, however the callbacks chain queries on two connections, whatever
\* fails, and across restarts: none is lost (but for the queries at stage
\* "lost", which it is still said to carry) and none is handed out twice.
THEOREM PoolSafe == Spec => []PoolSound
<1>1. Init => TypeInv /\ PoolInv
  BY DEF Init, Fresh, TypeInv, TypeOK, Shape, PoolInv
<1>2. TypeInv /\ PoolInv /\ [Next]_vars => (TypeInv /\ PoolInv)'
  BY TypeStep, PoolStep
<1>3. TypeInv /\ PoolInv => PoolSound
  BY DEF TypeInv, PoolSound, PoolInv, PoolKept
<1> QED BY <1>1, <1>2, <1>3, PTL DEF Spec

------------------------------------------------------------------------------
(* Owners.  Owner gives the client each query will answer, if any.  Single    *)
(* says that the clients waiting are those that have an owner, and have one.  *)

Of(q) == IF q # None /\ Owns(q) THEN q.conn ELSE None
Owner == [m \in Mysqls |-> Of(query[m])]

Single(own, b) ==
  /\ \A m, k \in Mysqls : own[m] # None /\ own[m] = own[k] => m = k
  /\ \A m \in Mysqls : own[m] # None => own[m] \in b
  /\ \A c \in b : \E m \in Mysqls : own[m] = c

LEMMA SingleAnswered ==
  ASSUME NEW own \in [Mysqls -> Conns \cup {None}], NEW b \in SUBSET Conns, Single(own, b),
         NEW m \in Mysqls, own[m] # None
  PROVE  Single([own EXCEPT ![m] = None], b \ {own[m]})
<1> DEFINE new == [own EXCEPT ![m] = None]
<1>1. \A k \in Mysqls : new[k] = IF k = m THEN None ELSE own[k]
  OBVIOUS
<1> HIDE DEF new
<1> QED BY <1>1 DEF Single, new

LEMMA SingleAsks ==
  ASSUME NEW own \in [Mysqls -> Conns \cup {None}], NEW b \in SUBSET Conns, Single(own, b),
         NEW n \in Mysqls, own[n] = None, NEW c \in Conns \ b
  PROVE  Single([own EXCEPT ![n] = c], b \cup {c})
<1> DEFINE new == [own EXCEPT ![n] = c]
<1>1. \A k \in Mysqls : new[k] = IF k = n THEN c ELSE own[k]
  OBVIOUS
<1>2. c # None
  BY NoneAssumption
<1> HIDE DEF new
<1>3. Single(new, b \cup {c})
  <2>1. \A d \in b \cup {c} : \E k \in Mysqls : new[k] = d
    <3>1. ASSUME NEW d \in b PROVE \E k \in Mysqls : new[k] = d
      <4>1. PICK k \in Mysqls : own[k] = d
        BY DEF Single
      <4>2. d # None
        BY NoneAssumption
      <4> QED BY <1>1, <4>1, <4>2
    <3> QED BY <1>1, <3>1
  <2>2. \A k \in Mysqls : own[k] # c
    BY <1>2 DEF Single
  <2> QED BY <1>1, <1>2, <2>1, <2>2 DEF Single
<1> QED BY <1>3 DEF new

Two(f, m, x, n, y) == [f EXCEPT ![m] = x, ![n] = y]

LEMMA SinglePasses ==
  ASSUME NEW own \in [Mysqls -> Conns \cup {None}], NEW b \in SUBSET Conns, Single(own, b),
         NEW m \in Mysqls, own[m] # None, NEW n \in Mysqls, own[n] = None
  PROVE  Single(Two(own, m, None, n, own[m]), b)
<1> DEFINE c == own[m]
           new == Two(own, m, None, n, c)
<1>1. m # n /\ \A k \in Mysqls : new[k] = IF k = n THEN c ELSE IF k = m THEN None ELSE own[k]
  BY DEF Two
<1>2. c # None /\ c \in b /\ \A k \in Mysqls : own[k] = c => k = m
  BY DEF Single
<1>3. \A d \in b : d # None
  BY NoneAssumption
<1> HIDE DEF new
<1>4. Single(new, b)
  <2>1. ASSUME NEW d \in b PROVE \E k \in Mysqls : new[k] = d
    <3>1. PICK k \in Mysqls : own[k] = d
      BY DEF Single
    <3> QED BY <1>1, <1>3, <3>1
  <2> QED BY <1>1, <1>2, <2>1 DEF Single
<1> QED BY <1>4 DEF new

LEMMA OwnerOne ==
  ASSUME query \in [Mysqls -> Query \cup {None}], NEW m \in Mysqls, NEW q,
         query' = [query EXCEPT ![m] = q]
  PROVE  Owner' = [Owner EXCEPT ![m] = Of(q)]
<1>1. \A k \in Mysqls : query'[k] = IF k = m THEN q ELSE query[k]
  OBVIOUS
<1>2. Owner' = [k \in Mysqls |-> Of(query'[k])]
  BY DEF Owner, Of, Owns
<1>3. Owner = [k \in Mysqls |-> Of(query[k])]
  BY DEF Owner
<1> QED BY <1>1, <1>2, <1>3

LEMMA OwnerTwo ==
  ASSUME query \in [Mysqls -> Query \cup {None}], NEW m \in Mysqls, NEW q,
         NEW n \in Mysqls, NEW r, query' = Two(query, m, q, n, r)
  PROVE  Owner' = Two(Owner, m, Of(q), n, Of(r))
<1>1. \A k \in Mysqls : query'[k] = IF k = n THEN r ELSE IF k = m THEN q ELSE query[k]
  BY DEF Two
<1>2. Owner' = [k \in Mysqls |-> Of(query'[k])]
  BY DEF Owner, Of, Owns
<1>3. Owner = [k \in Mysqls |-> Of(query[k])]
  BY DEF Owner
<1> QED BY <1>1, <1>2, <1>3 DEF Two

LEMMA OwnerForm ==
  ASSUME TypeInv
  PROVE  /\ Owner \in [Mysqls -> Conns \cup {None}]
         /\ \A m \in Mysqls : Owner[m] = Of(query[m])
         /\ \A m \in Mysqls : query[m] # None =>
              /\ query[m] \in Query /\ WellFormed(query[m])
              /\ query[m].conn \in Conns \cup {None}
         /\ Of(None) = None
<1>1. \A m \in Mysqls : query[m] # None => query[m] \in Query /\ WellFormed(query[m])
  BY DEF TypeInv, TypeOK, Shape
<1>2. \A q \in Query : q.conn \in Conns \cup {None}
  BY DEF Query
<1> QED BY <1>1, <1>2 DEF Owner, Of

\* How a query changes hands.
LEMMA OfForms ==
  ASSUME NEW q \in Query
  PROVE  /\ q.stage = "sent" =>
              \A r \in Trss \cup Stbs \cup {None} :
                /\ Of([q EXCEPT !.stage = "ran"]) = Of(q)
                /\ Of([q EXCEPT !.stage = "ran", !.row = r]) = Of(q)
         /\ Of([q EXCEPT !.stage = "lost"]) = None
         /\ Of([q EXCEPT !.row = None, !.rownum = 1]) = None
         /\ q.op # "register" /\ q.stage # "lost" /\ q.rownum = 0 => Of(q) = q.conn
         /\ q.op = "register" \/ q.rownum = 1 => Of(q) = None
<1>1. \A r \in Trss \cup Stbs \cup {None}, st \in {"ran", "lost"} :
        /\ [q EXCEPT !.stage = st] # None
        /\ [q EXCEPT !.stage = "ran", !.row = r] # None
        /\ [q EXCEPT !.row = None, !.rownum = 1] # None
  BY NotNone
<1>2. q # None
  BY QueryAssumption
<1>3. ASSUME NEW r \in Trss \cup Stbs \cup {None}, q.stage = "sent"
      PROVE  /\ Of([q EXCEPT !.stage = "ran"]) = Of(q)
             /\ Of([q EXCEPT !.stage = "ran", !.row = r]) = Of(q)
  BY <1>1, <1>2, <1>3 DEF Of, Owns, Query
<1>4. Of([q EXCEPT !.stage = "lost"]) = None
  BY DEF Of, Owns, Query
<1>5. Of([q EXCEPT !.row = None, !.rownum = 1]) = None
  BY DEF Of, Owns, Query
<1>6. q.op # "register" /\ q.stage # "lost" /\ q.rownum = 0 => Of(q) = q.conn
  BY <1>2 DEF Of, Owns
<1>7. q.op = "register" \/ q.rownum = 1 => Of(q) = None
  BY DEF Of, Owns
<1> QED BY <1>3, <1>4, <1>5, <1>6, <1>7

LEMMA OfAsking ==
  ASSUME NEW o \in Ops, NEW c \in Conns, NEW s \in Stbs \cup {None},
         NEW p \in Phones \cup {None}, NEW t \in Trss \cup {None}
  PROVE  /\ o # "register" => Of(Asking(o, c, s, p, t)) = c
         /\ Of([Asking(o, c, s, p, t) EXCEPT !.stage = "lost"]) = None
         /\ Of(Asking("register", None, s, p, t)) = None
<1> DEFINE q == Asking(o, c, s, p, t)
           r == Asking("register", None, s, p, t)
<1>1. q \in Query /\ q.op = o /\ q.conn = c /\ q.stage = "sent" /\ q.rownum = 0
  BY AskingForm
<1>2. "register" \in Ops
  BY DEF Ops
<1>3. r \in Query /\ r.op = "register"
  BY <1>2, AskingForm
<1> HIDE DEF q, r
<1>4. /\ o # "register" => Of(q) = c
      /\ Of([q EXCEPT !.stage = "lost"]) = None
      /\ Of(r) = None
  BY <1>1, <1>3, OfForms
<1> QED BY <1>4 DEF q, r

\* The second queries.
LEMMA OfSecond ==
  /\ \A c \in Conns, s \in Stbs : Of(Asking("stb", c, s, None, None)) = c
  /\ \A c \in Conns, s \in Stbs :
       Of([Asking("stb", c, s, None, None) EXCEPT !.stage = "lost"]) = None
  /\ \A c \in Conns, s \in Stbs : Of(Asking("update", c, s, None, None)) = c
  /\ \A s \in Stbs, t \in Trss : Of(Asking("register", None, s, None, t)) = None
<1>1. ASSUME NEW c \in Conns, NEW s \in Stbs, NEW o \in {"stb", "update"}
      PROVE  LET q == Asking(o, c, s, None, None)
             IN  Of(q) = c /\ Of([q EXCEPT !.stage = "lost"]) = None
  <2> DEFINE q == Asking(o, c, s, None, None)
  <2>1. /\ o \in Ops /\ o # "register" /\ c \in Conns \cup {None} /\ s \in Stbs \cup {None}
        /\ None \in Phones \cup {None} /\ None \in Trss \cup {None}
    BY DEF Ops
  <2>2. q \in Query /\ q.op = o /\ q.conn = c /\ q.stage = "sent" /\ q.rownum = 0
    BY <2>1, AskingForm
  <2> HIDE DEF q
  <2>3. Of(q) = c /\ Of([q EXCEPT !.stage = "lost"]) = None
    BY <2>1, <2>2, OfForms
  <2> QED BY <2>3 DEF q
<1>2. ASSUME NEW s \in Stbs, NEW t \in Trss
      PROVE  Of(Asking("register", None, s, None, t)) = None
  <2> DEFINE q == Asking("register", None, s, None, t)
  <2>1. "register" \in Ops /\ None \in Conns \cup {None} /\ None \in Phones \cup {None}
    BY DEF Ops
  <2>2. q \in Query /\ q.op = "register"
    BY <2>1, AskingForm
  <2> HIDE DEF q
  <2>3. Of(q) = None
    BY <2>2, OfForms
  <2> QED BY <2>3 DEF q
<1> QED BY <1>1, <1>2

OwnInv == TypeInv /\ PoolInv /\ Single(Owner, busy)

\* Steps of the requests and the database.
LEMMA OwnerRequest ==
  ASSUME OwnInv, NEW c \in Conns, NEW o \in Ops \ {"register"}, NEW s \in Stbs \cup {None},
         NEW p \in Phones \cup {None}, Request(c, Asking(o, c, s, p, None))
  PROVE  Single(Owner, busy)'
<1>1. TypeInv /\ TypeOK /\ PoolInv /\ Single(Owner, busy)
  BY DEF OwnInv, TypeInv
<1> DEFINE q == Asking(o, c, s, p, None)
<1>2. Of(q) = c
  <2>1. None \in Trss \cup {None} /\ o \in Ops /\ o # "register"
    OBVIOUS
  <2> QED BY <2>1, OfAsking
<1>3. PICK n \in free : query' = [query EXCEPT ![n] = q]
  BY DEF Request
<1>4. c \in Conns \ busy /\ busy' = busy \cup {c}
  BY DEF Request
<1> HIDE DEF q
<1>5. n \in Mysqls /\ Owner[n] = None
  BY <1>1, OwnerForm DEF PoolInv, TypeOK
<1>6. Owner' = [Owner EXCEPT ![n] = c]
  BY <1>1, <1>2, <1>3, <1>5, OwnerOne DEF TypeOK
<1>7. Single([Owner EXCEPT ![n] = c], busy \cup {c})
  BY <1>1, <1>4, <1>5, OwnerForm, SingleAsks DEF TypeOK
<1> QED BY <1>4, <1>6, <1>7 DEF Single

\* A query keeps its client.
LEMMA OwnerKept ==
  ASSUME OwnInv, NEW m \in Mysqls, NEW q, query' = [query EXCEPT ![m] = q],
         Of(q) = Owner[m], busy' = busy
  PROVE  Single(Owner, busy)'
<1>1. TypeInv /\ TypeOK /\ Single(Owner, busy)
  BY DEF OwnInv, TypeInv
<1>2. Owner' = [Owner EXCEPT ![m] = Owner[m]]
  BY <1>1, OwnerOne DEF TypeOK
<1>3. Owner' = Owner
  BY <1>1, <1>2, OwnerForm
<1> QED BY <1>1, <1>3 DEF Single

\* A query answers its client.
LEMMA OwnerAnswers ==
  ASSUME OwnInv, NEW m \in Mysqls, NEW q, query' = [query EXCEPT ![m] = q],
         Of(q) = None, Owner[m] # None, busy' = busy \ {Owner[m]}
  PROVE  Single(Owner, busy)'
<1>1. TypeInv /\ TypeOK /\ Single(Owner, busy)
  BY DEF OwnInv, TypeInv
<1>2. Owner' = [Owner EXCEPT ![m] = None]
  BY <1>1, OwnerOne DEF TypeOK
<1>3. Single([Owner EXCEPT ![m] = None], busy \ {Owner[m]})
  BY <1>1, OwnerForm, SingleAnswered DEF TypeOK
<1> QED BY <1>2, <1>3 DEF Single

\* ... and starts another that answers nobody.
LEMMA OwnerAnswersTwo ==
  ASSUME OwnInv, NEW m \in Mysqls, NEW q, NEW n \in free, NEW r,
         query' = Two(query, m, q, n, r), query[m] # None,
         Of(q) = None, Of(r) = None, Owner[m] # None, busy' = busy \ {Owner[m]}
  PROVE  Single(Owner, busy)'
<1>1. TypeInv /\ TypeOK /\ Single(Owner, busy)
  BY DEF OwnInv, TypeInv
<1>2. n \in Mysqls /\ Owner[n] = None /\ n # m
  BY <1>1, OwnerForm DEF OwnInv, PoolInv, TypeOK
<1>3. Owner' = Two(Owner, m, Of(q), n, Of(r))
  <2>1. query \in [Mysqls -> Query \cup {None}] /\ n \in Mysqls
    BY <1>1, <1>2 DEF TypeOK
  <2> QED BY <2>1, OwnerTwo
<1>4. Owner' = [Owner EXCEPT ![m] = None]
  <2>1. Owner' = Two(Owner, m, None, n, None)
    BY <1>3
  <2>2. Owner \in [Mysqls -> Conns \cup {None}]
    BY <1>1, OwnerForm
  <2> QED BY <1>2, <2>1, <2>2 DEF Two
<1>5. Single([Owner EXCEPT ![m] = None], busy \ {Owner[m]})
  BY <1>1, OwnerForm, SingleAnswered DEF TypeOK
<1> QED BY <1>4, <1>5 DEF Single

\* A query passes its client on to another.
LEMMA OwnerPasses ==
  ASSUME OwnInv, NEW m \in Mysqls, NEW q, NEW n \in free, NEW r,
         query' = Two(query, m, q, n, r), query[m] # None,
         Of(q) = None, Owner[m] # None, Of(r) = Owner[m], busy' = busy
  PROVE  Single(Owner, busy)'
<1>1. TypeInv /\ TypeOK /\ Single(Owner, busy)
  BY DEF OwnInv, TypeInv
<1>2. n \in Mysqls /\ Owner[n] = None
  BY <1>1, OwnerForm DEF OwnInv, PoolInv, TypeOK
<1>3. Owner' = Two(Owner, m, Of(q), n, Of(r))
  <2>1. query \in [Mysqls -> Query \cup {None}] /\ n \in Mysqls
    BY <1>1, <1>2 DEF TypeOK
  <2> QED BY <2>1, OwnerTwo
<1>4. Single(Two(Owner, m, None, n, Owner[m]), busy)
  BY <1>1, <1>2, OwnerForm, SinglePasses DEF TypeOK
<1> QED BY <1>3, <1>4 DEF Single

LEMMA OwnerStep ==
  ASSUME OwnInv, [Next]_vars
  PROVE  Single(Owner, busy)'
<1>a. TypeInv /\ PoolInv /\ Single(Owner, busy) /\ query \in [Mysqls -> Query \cup {None}]
  BY DEF OwnInv, TypeInv, TypeOK
<1>b. \A m \in Mysqls : query[m] # None =>
        query[m] \in Query /\ WellFormed(query[m]) /\ Owner[m] = Of(query[m])
  BY <1>a, OwnerForm
<1>c. /\ Of(None) = None
      /\ \A c \in Conns : c # None
      /\ \A n \in free : n \in Mysqls
  BY <1>a, OwnerForm, NoneAssumption DEF TypeInv, TypeOK
<1>1. ASSUME UNCHANGED <<query, busy>> PROVE Single(Owner, busy)'
  BY <1>1, <1>a DEF Single, Owner, Of, Owns
<1>2. ASSUME NEW m \in Mysqls, query[m] # None, query[m].op # "register",
             query[m].stage # "lost", query[m].rownum = 0
      PROVE  Owner[m] = query[m].conn /\ Owner[m] # None /\ query[m].conn \in Conns
  BY <1>2, <1>b, <1>c, OfForms DEF WellFormed
<1>3. ASSUME NEW m \in Mysqls, query[m] # None, query[m].stage = "sent"
      PROVE  query[m].rownum = 0
  BY <1>3, <1>b DEF WellFormed
<1>4. ASSUME NEW m \in Mysqls, query[m] # None, query[m].stage # "lost", query[m].rownum = 0,
             query[m].op # "register", Answer(query[m].conn), Returned(m)
      PROVE  Single(Owner, busy)'
  BY <1>c, <1>2, <1>4, OwnerAnswers DEF Answer, Returned
<1>5. ASSUME NEW m \in Mysqls, Run(m) PROVE Single(Owner, busy)'
  <2>1. query[m] \in Query /\ WellFormed(query[m]) /\ query[m].stage = "sent" /\ busy' = busy
    BY <1>5, <1>b DEF Run
  <2>2. PICK r \in Trss \cup Stbs \cup {None} :
          query' = [query EXCEPT ![m] = [@ EXCEPT !.stage = "ran", !.row = r]]
    <3>1. /\ query[m].op \in {"find", "register", "bind", "update", "stb"} => query[m].stb \in Stbs
          /\ query[m].op \in {"bind", "unbind", "phone"} => query[m].phone \in Phones
      BY <2>1 DEF WellFormed
    <3> QED BY <1>5, <1>a, <2>1, <3>1 DEF Run, TypeInv, TypeOK
  <2> DEFINE n == [query[m] EXCEPT !.stage = "ran", !.row = r]
  <2>3. query' = [query EXCEPT ![m] = n]
    BY <2>2
  <2>4. Of(n) = Of(query[m]) /\ Of(query[m]) = Owner[m]
    BY <1>5, <1>b, <2>1, OfForms DEF Run
  <2> HIDE DEF n
  <2>5. Of(n) = Owner[m]
    BY <2>4
  <2> QED BY <2>1, <2>3, <2>5, OwnerKept
<1>6. ASSUME NEW m \in Mysqls, Silent(m) PROVE Single(Owner, busy)'
  <2> DEFINE n == [query[m] EXCEPT !.stage = "ran"]
  <2>1. query' = [query EXCEPT ![m] = n] /\ busy' = busy
    BY <1>6 DEF Silent
  <2>2. Of(n) = Of(query[m]) /\ Of(query[m]) = Owner[m]
    BY <1>6, <1>b, OfForms DEF Silent
  <2> HIDE DEF n
  <2>3. Of(n) = Owner[m]
    BY <2>2
  <2> QED BY <2>1, <2>3, OwnerKept
<1>7. ASSUME NEW m \in Mysqls, Fails(m) PROVE Single(Owner, busy)'
  <2>1. CASE query[m].op = "register"
    <3> DEFINE n == [query[m] EXCEPT !.stage = "lost"]
    <3>1. query' = [query EXCEPT ![m] = n] /\ busy' = busy
      BY <1>7, <2>1 DEF Fails
    <3>2. Of(n) = None /\ Owner[m] = None
      BY <1>7, <1>b, <2>1, OfForms DEF Fails
    <3> HIDE DEF n
    <3> QED BY <3>1, <3>2, OwnerKept
  <2>2. CASE query[m].op # "register"
    BY <1>3, <1>4, <1>7, <2>2 DEF Fails
  <2> QED BY <2>1, <2>2
<1>8. ASSUME NEW m \in Mysqls, GotRow(m), query[m].op # "register"
      PROVE  /\ Owner[m] = query[m].conn /\ Owner[m] # None /\ query[m].conn \in Conns
             /\ Of([query[m] EXCEPT !.row = None, !.rownum = 1]) = None
  <2>1. query[m] # None /\ query[m].stage = "ran" /\ query[m].rownum = 0
    BY <1>8, <1>b DEF GotRow, WellFormed
  <2> QED BY <1>2, <1>8, <1>b, <2>1, OfForms
<1>9. ASSUME NEW m \in Mysqls, FindRow(m) \/ StbRow(m) PROVE Single(Owner, busy)'
  <2> DEFINE n == [query[m] EXCEPT !.row = None, !.rownum = 1]
  <2>1. query' = [query EXCEPT ![m] = n] /\ busy' = busy \ {query[m].conn}
    BY <1>9 DEF FindRow, StbRow, Fetched, Answer
  <2>2. Of(n) = None /\ Owner[m] = query[m].conn /\ Owner[m] # None
    BY <1>8, <1>9 DEF FindRow, StbRow
  <2> HIDE DEF n
  <2> QED BY <2>1, <2>2, OwnerAnswers
<1>10. ASSUME NEW m \in Mysqls, PhoneRow(m) PROVE Single(Owner, busy)'
  <2> DEFINE q == [query[m] EXCEPT !.row = None, !.rownum = 1]
             c == query[m].conn
             r == Asking("stb", c, query[m].row, None, None)
             l == [r EXCEPT !.stage = "lost"]
  <2>1. Of(q) = None /\ Owner[m] = c /\ Owner[m] # None /\ c \in Conns /\ query[m] # None
    BY <1>8, <1>10 DEF PhoneRow, GotRow
  <2>2. Of(r) = c /\ Of(l) = None
    <3>1. query[m].row \in Stbs
      BY <1>10, <1>b DEF PhoneRow, GotRow, WellFormed
    <3> QED BY <2>1, <3>1, OfSecond
  <2>3. \/ query' = [query EXCEPT ![m] = q] /\ busy' = busy \ {c}
        \/ \E n \in free : query' = Two(query, m, q, n, r) /\ busy' = busy
        \/ \E n \in free : query' = Two(query, m, q, n, l) /\ busy' = busy \ {c}
    BY <1>10 DEF PhoneRow, Fetched, Answer, Two
  <2> HIDE DEF q, c, r, l
  <2>4. CASE query' = [query EXCEPT ![m] = q] /\ busy' = busy \ {c}
    BY <2>1, <2>4, OwnerAnswers
  <2>5. ASSUME NEW n \in free, query' = Two(query, m, q, n, r), busy' = busy
        PROVE  Single(Owner, busy)'
    BY <2>1, <2>2, <2>5, OwnerPasses
  <2>6. ASSUME NEW n \in free, query' = Two(query, m, q, n, l), busy' = busy \ {c}
        PROVE  Single(Owner, busy)'
    BY <2>1, <2>2, <2>6, OwnerAnswersTwo
  <2> QED BY <2>3, <2>4, <2>5, <2>6
<1>11. ASSUME NEW m \in Mysqls, DoneAnswered(m) PROVE Single(Owner, busy)'
  <2>1. Owner[m] = None
    BY <1>11, <1>b, OfForms DEF DoneAnswered, Ended, Carries
  <2>2. query' = [query EXCEPT ![m] = None] /\ busy' = busy
    BY <1>11 DEF DoneAnswered, Returned
  <2> QED BY <1>c, <2>1, <2>2, OwnerKept
<1>12. ASSUME NEW m \in Mysqls, FindDoneUnstarted(m) \/ FindDoneFails(m) \/ DoneAnswers(m)
       PROVE  Single(Owner, busy)'
  BY <1>4, <1>12 DEF FindDoneUnstarted, FindDoneFails, DoneAnswers, Ended, Carries
<1>13. ASSUME NEW m \in Mysqls, FindDonePlaces(m) PROVE Single(Owner, busy)'
  <2>1. /\ query[m] # None /\ Owner[m] = query[m].conn /\ Owner[m] # None
        /\ query[m].conn \in Conns /\ query[m].stb \in Stbs
        /\ busy' = busy \ {query[m].conn}
    <3>1. query[m] # None /\ query[m].op = "find" /\ query[m].stage = "ran" /\ query[m].rownum = 0
      BY <1>13 DEF FindDonePlaces, Ended, Carries
    <3>2. query[m].stb \in Stbs
      BY <1>b, <3>1 DEF WellFormed
    <3> QED BY <1>13, <1>2, <3>1, <3>2 DEF FindDonePlaces, Answer
  <2>2. PICK t \in Trss, n \in free :
          query' = Two(query, m, None, n, Asking("register", None, query[m].stb, None, t))
    BY <1>13 DEF FindDonePlaces, Chained, Two
  <2> DEFINE r == Asking("register", None, query[m].stb, None, t)
  <2>3. Of(r) = None
    BY <2>1, OfSecond
  <2>4. query' = Two(query, m, None, n, r)
    BY <2>2
  <2> HIDE DEF r
  <2> QED BY <1>c, <2>1, <2>3, <2>4, OwnerAnswersTwo
<1>14. ASSUME NEW m \in Mysqls, BindDone(m) PROVE Single(Owner, busy)'
  <2>1. query[m] # None /\ query[m].op = "bind" /\ query[m].stage = "ran" /\ query[m].rownum = 0
    BY <1>14, <1>b DEF BindDone, Ended, Carries, WellFormed, Query
  <2>2. Owner[m] = query[m].conn /\ Owner[m] # None /\ query[m].conn \in Conns
    BY <1>2, <2>1
  <2>3. CASE Answer(query[m].conn) /\ Returned(m)
    BY <1>4, <2>1, <2>3
  <2> DEFINE r == Asking("update", query[m].conn, query[m].stb, None, None)
  <2>4. Of(r) = query[m].conn
    <3>1. query[m].stb \in Stbs
      BY <1>b, <2>1 DEF WellFormed
    <3> QED BY <2>2, <3>1, OfSecond
  <2>5. CASE \E n \in free : Chained(m, n, r) /\ UNCHANGED busy
    <3>1. PICK n \in free : query' = Two(query, m, None, n, r) /\ busy' = busy
      BY <2>5 DEF Chained, Two
    <3> HIDE DEF r
    <3> QED BY <1>c, <2>1, <2>2, <2>4, <3>1, OwnerPasses
  <2> QED BY <1>14, <2>3, <2>5 DEF BindDone
<1>15. ASSUME Restart PROVE Single(Owner, busy)'
  <2>1. query' = [m \in Mysqls |-> None] /\ busy' = {}
    BY <1>15 DEF Restart
  <2>2. \A m \in Mysqls : Owner'[m] = None
    BY <2>1 DEF Owner, Of
  <2> QED BY <2>1, <2>2 DEF Single
<1>16. ASSUME NEW t \in Trss, Login(t) \/ LoginTimeout(t) PROVE Single(Owner, busy)'
  BY <1>1, <1>16 DEF Login, LoginTimeout
<1>17. ASSUME NEW m \in Mysqls, Connected(m) PROVE Single(Owner, busy)'
  BY <1>1, <1>17 DEF Connected
<1>18. ASSUME NEW c \in Conns, NEW s \in Stbs, GetServer(c, s) PROVE Single(Owner, busy)'
  BY <1>18, OwnerRequest DEF GetServer, Ops
<1>19. ASSUME NEW c \in Conns, NEW p \in Phones, Unbind(c, p) \/ GetStbid(c, p)
       PROVE  Single(Owner, busy)'
  BY <1>19, OwnerRequest DEF Unbind, GetStbid, Ops
<1>20. ASSUME NEW c \in Conns, NEW p \in Phones, NEW s \in Stbs, Bind(c, p, s)
       PROVE  Single(Owner, busy)'
  BY <1>20, OwnerRequest DEF Bind, Ops
<1>21. ASSUME NEW m \in Mysqls, Callback(m) PROVE Single(Owner, busy)'
  BY <1>21, <1>9, <1>10, <1>11, <1>12, <1>13, <1>14 DEF Callback
<1> QED
  BY <1>1, <1>5, <1>6, <1>7, <1>15, <1>16, <1>17, <1>18, <1>19, <1>20, <1>21
     DEF Next, Step, Again

\* A client is owned by exactly one query from its request to its answer, also
\* while the request goes from one connection to the next: it is answered once,
\* by its own query, however the callbacks and the failures interleave, until an
\* error callback is called a second time (rns_mysql_query_cont).
THEOREM OwnerSafe == Spec => []OneOwner
<1>1. Init => OwnInv
  BY DEF Init, Fresh, TypeInv, TypeOK, Shape, PoolInv, OwnInv, Single, Owner, Of
<1>2. OwnInv /\ [Next]_vars => OwnInv'
  BY TypeStep, PoolStep, OwnerStep DEF OwnInv
<1>3. OwnInv => OneOwner
  <2> SUFFICES ASSUME OwnInv, NEW c \in Conns, ~undefined
               PROVE  LET owners == {m \in Mysqls :
                                       query[m] # None /\ query[m].conn = c /\ Owns(query[m])}
                      IN  IF c \in busy THEN \E m \in owners : owners = {m} ELSE owners = {}
    BY DEF OneOwner
  <2> DEFINE owners == {m \in Mysqls :
                          query[m] # None /\ query[m].conn = c /\ Owns(query[m])}
  <2>1. c # None /\ TypeInv /\ Single(Owner, busy)
    BY NoneAssumption DEF OwnInv
  <2>2. \A m \in Mysqls : m \in owners <=> Owner[m] = c
    BY <2>1, OwnerForm DEF Of
  <2>3. owners \subseteq Mysqls
    OBVIOUS
  <2> HIDE DEF owners
  <2>4. CASE c \in busy
    <3>1. PICK m \in Mysqls : Owner[m] = c
      BY <2>1, <2>4 DEF Single
    <3>2. owners = {m}
      BY <2>1, <2>2, <2>3, <3>1 DEF Single
    <3> QED BY <2>4, <3>2 DEF owners
  <2>5. CASE c \notin busy
    <3>1. owners = {}
      BY <2>1, <2>2, <2>3, <2>5 DEF Single
    <3> QED BY <2>5, <3>1 DEF owners
  <2> QED BY <2>4, <2>5
<1> QED BY <1>1, <1>2, <1>3, PTL DEF Spec

------------------------------------------------------------------------------
(* One TRS for a box.  A query is loose for a box when it found no row and    *)
(* goes on, or is the insert that this caused; it has a row when the lookup   *)
(* gave one that is not answered yet.                                         *)

Loose(q, s) ==
  /\ q # None /\ q.stb = s
  /\ \/ q.op = "find" /\ q.stage = "ran" /\ q.row = None /\ q.rownum = 0
     \/ q.op = "register" /\ q.stage = "sent"

HasRow(q, s) == q # None /\ q.op = "find" /\ q.stb = s /\ q.row # None

LEMMA UnplacedLoose ==
  ASSUME NEW s, NEW m \in Mysqls
  PROVE  m \in Unplaced(s) <=> Loose(query[m], s)
BY DEF Unplaced, Loose

\* A row that a lookup gave is the stored one.
RowsHome == \A m \in Mysqls, s \in Stbs : HasRow(query[m], s) => query[m].row = home[s]

\* What was told of a box is in its row, or in the only insert on its way; a lookup
\* that found no row was run before anything was told.
SettledAt(s) ==
  /\ \A m, n \in Mysqls : Loose(query[m], s) /\ Loose(query[n], s) => m = n
  /\ \A m \in Mysqls : Loose(query[m], s) =>
       /\ home[s] = None
       /\ query[m].op = "find" => told[s] = {}
       /\ query[m].op = "register" => told[s] = {query[m].trs}
  /\ home[s] # None => told[s] \subseteq {home[s]}
  /\ home[s] = None /\ told[s] # {} => \E m \in Mysqls : Loose(query[m], s)

Settled == \A s \in Stbs \ (spoiled \cup raced) : SettledAt(s)
SettledInv == TypeInv /\ PoolInv /\ RowsHome /\ Settled

\* What most steps do to m, for the box s: nothing that matters, or a lookup that
\* found no row ends.
Passes(m, s) ==
  /\ Loose(query[m], s)' \/ HasRow(query[m], s)' => query'[m] = query[m]
  /\ Loose(query[m], s) => query'[m] = query[m] \/ query[m].op = "find"

\* A step that passes for the boxes it does not spoil.
Passing ==
  /\ home' = home /\ told' = told /\ raced' = raced /\ spoiled \subseteq spoiled'
  /\ \A m \in Mysqls, s \in Stbs : s \notin spoiled' => Passes(m, s)
  /\ \A m \in Mysqls, s \in Stbs : HasRow(query[m], s)' => query'[m] = query[m]

LEMMA PassingSettled ==
  ASSUME RowsHome, Settled, Passing
  PROVE  RowsHome' /\ Settled'
<1>1. RowsHome'
  BY DEF RowsHome, Passing, HasRow
<1> SUFFICES ASSUME NEW s \in Stbs, s \notin spoiled' \cup raced' PROVE SettledAt(s)'
  BY <1>1 DEF Settled
<1>2. SettledAt(s) /\ home' = home /\ told' = told
  BY DEF Settled, Passing
<1>3. \A m \in Mysqls :
        /\ Loose(query[m], s)' => Loose(query[m], s) /\ query'[m] = query[m]
        /\ Loose(query[m], s) => Loose(query[m], s)' \/ query[m].op = "find"
  BY DEF Passing, Passes, Loose
<1> QED BY <1>2, <1>3 DEF SettledAt

\* One connection's query changes.
LEMMA PassingOne ==
  ASSUME TypeOK, UNCHANGED <<home, told, raced>>, spoiled \subseteq spoiled',
         NEW m \in Mysqls, NEW q, query' = [query EXCEPT ![m] = q],
         \A s \in Stbs : ~HasRow(q, s),
         \A s \in Stbs \ spoiled' :
           ~Loose(q, s) /\ (Loose(query[m], s) => query[m].op = "find")
  PROVE  Passing
<1>1. query'[m] = q /\ \A k \in Mysqls \ {m} : query'[k] = query[k]
  BY DEF TypeOK
<1> QED BY <1>1 DEF Passing, Passes, Loose, HasRow

\* ... or those of two.
LEMMA PassingTwo ==
  ASSUME TypeOK, PoolInv, UNCHANGED <<home, told, raced>>, spoiled \subseteq spoiled',
         NEW m \in Mysqls, NEW q, NEW n \in free, NEW r, query[m] # None,
         query' = [query EXCEPT ![m] = q, ![n] = r],
         \A s \in Stbs : ~HasRow(q, s) /\ ~HasRow(r, s) /\ ~Loose(q, s) /\ ~Loose(r, s),
         \A s \in Stbs : ~Loose(query[m], s)
  PROVE  Passing
<1>1. n \in Mysqls /\ query[n] = None
  BY DEF TypeOK, PoolInv
<1>2. query'[n] = r /\ query'[m] = q /\ \A k \in Mysqls \ {m, n} : query'[k] = query[k]
  BY <1>1 DEF TypeOK
<1>3. ASSUME NEW k \in Mysqls, NEW s \in Stbs
      PROVE  Passes(k, s) /\ (HasRow(query[k], s)' => query'[k] = query[k])
  <2>1. CASE k = m
    <3>1. ~Loose(query[k], s)' /\ ~HasRow(query[k], s)' /\ ~Loose(query[k], s)
      BY <1>2, <2>1 DEF Loose, HasRow
    <3> QED BY <3>1 DEF Passes
  <2>2. CASE k = n
    <3>1. ~Loose(query[k], s)' /\ ~HasRow(query[k], s)' /\ ~Loose(query[k], s)
      BY <1>1, <1>2, <2>2 DEF Loose, HasRow
    <3> QED BY <3>1 DEF Passes
  <2>3. CASE k \notin {m, n}
    BY <1>2, <2>3 DEF Passes
  <2> QED BY <2>1, <2>2, <2>3
<1> QED BY <1>3 DEF Passing

LEMMA BlankForm == \A s : ~Loose(None, s) /\ ~HasRow(None, s)
BY DEF Loose, HasRow

LEMMA PassingBack ==
  ASSUME TypeOK, UNCHANGED <<home, told, raced>>, spoiled \subseteq spoiled',
         NEW m \in Mysqls, Returned(m),
         query[m].op # "register" \/ query[m].stage # "sent"
  PROVE  Passing
<1>1. \A s \in Stbs : Loose(query[m], s) => query[m].op = "find"
  BY DEF Loose
<1>2. query' = [query EXCEPT ![m] = None]
  BY DEF Returned
<1> QED BY <1>1, <1>2, BlankForm, PassingOne

\* Everything but the database's part of GetServer, its row and the insert
Apart(m) ==
  \/ Silent(m) \/ Fails(m) \/ PhoneRow(m) \/ StbRow(m) \/ DoneAnswered(m)
  \/ FindDoneUnstarted(m) \/ FindDoneFails(m) \/ BindDone(m) \/ DoneAnswers(m)

LEMMA ApartPassing ==
  ASSUME TypeInv, PoolInv, NEW m \in Mysqls, Apart(m)
  PROVE  Passing
<1>1. TypeOK /\ (query[m] # None => query[m] \in Query /\ WellFormed(query[m]))
  BY DEF TypeInv, TypeOK, Shape
<1>2. CASE Silent(m)
  <2> DEFINE q == [query[m] EXCEPT !.stage = "ran"]
  <2>1. query' = [query EXCEPT ![m] = q] /\ UNCHANGED <<home, told, raced>>
    BY <1>2 DEF Silent
  <2>2. /\ query[m] \in Query /\ query[m] # None /\ query[m].row = None
        /\ query[m].op \in {"find", "register"} => query[m].stb \in spoiled'
        /\ spoiled \subseteq spoiled'
    BY <1>1, <1>2 DEF Silent, WellFormed
  <2>3. q.op = query[m].op /\ q.stb = query[m].stb /\ q.row = None
    BY <2>2 DEF Query
  <2> HIDE DEF q
  <2>4. /\ \A s \in Stbs : ~HasRow(q, s)
        /\ \A s \in Stbs \ spoiled' : ~Loose(q, s) /\ ~Loose(query[m], s)
    BY <2>2, <2>3 DEF HasRow, Loose
  <2> QED BY <1>1, <2>1, <2>2, <2>4, PassingOne
<1>3. CASE Fails(m)
  <2>1. CASE query[m].op = "register"
    <3> DEFINE q == [query[m] EXCEPT !.stage = "lost"]
    <3>1. /\ query' = [query EXCEPT ![m] = q] /\ UNCHANGED <<home, told, raced>>
          /\ spoiled' = spoiled \cup {query[m].stb} /\ query[m] \in Query
      BY <1>1, <1>3, <2>1 DEF Fails
    <3>2. q.op = "register" /\ q.stage = "lost"
      BY <2>1, <3>1 DEF Query
    <3> HIDE DEF q
    <3>3. /\ \A s \in Stbs : ~HasRow(q, s) /\ ~Loose(q, s)
          /\ \A s \in Stbs \ spoiled' : ~Loose(query[m], s)
      BY <3>1, <3>2 DEF HasRow, Loose
    <3> QED BY <1>1, <3>1, <3>3, PassingOne
  <2>2. CASE query[m].op # "register"
    <3>1. Returned(m) /\ UNCHANGED <<home, told, raced, spoiled>>
      BY <1>3, <2>2 DEF Fails
    <3> QED BY <1>1, <2>2, <3>1, PassingBack
  <2> QED BY <2>1, <2>2
<1>4. CASE PhoneRow(m) \/ StbRow(m)
  <2>1. /\ query[m] \in Query /\ query[m] # None /\ query[m].op \in {"phone", "stb"}
        /\ UNCHANGED <<home, told, raced, spoiled>>
    BY <1>1, <1>4 DEF PhoneRow, StbRow, GotRow
  <2> DEFINE q == [query[m] EXCEPT !.row = None, !.rownum = 1]
             a == Asking("stb", query[m].conn, query[m].row, None, None)
             b == [a EXCEPT !.stage = "lost"]
  <2>2. q.op = query[m].op /\ a.op = "stb" /\ b.op = "stb"
    BY <2>1 DEF Query, Asking
  <2>3. \/ query' = [query EXCEPT ![m] = q]
        \/ \E n \in free, r \in {a, b} : query' = [query EXCEPT ![m] = q, ![n] = r]
    BY <1>4 DEF PhoneRow, StbRow, Fetched
  <2> HIDE DEF q, a, b
  <2>4. \A s \in Stbs : /\ ~HasRow(q, s) /\ ~HasRow(a, s) /\ ~HasRow(b, s)
                        /\ ~Loose(q, s) /\ ~Loose(a, s) /\ ~Loose(b, s)
                        /\ ~Loose(query[m], s)
    BY <2>1, <2>2 DEF HasRow, Loose
  <2>5. CASE query' = [query EXCEPT ![m] = q]
    BY <1>1, <2>1, <2>4, <2>5, PassingOne
  <2>6. ASSUME NEW n \in free, NEW r \in {a, b}, query' = [query EXCEPT ![m] = q, ![n] = r]
        PROVE  Passing
    BY <1>1, <2>1, <2>4, <2>6, PassingTwo
  <2> QED BY <2>3, <2>5, <2>6
<1>5. CASE DoneAnswered(m) \/ FindDoneUnstarted(m) \/ FindDoneFails(m) \/ DoneAnswers(m)
  <2>1. Returned(m) /\ query[m].stage = "ran" /\ UNCHANGED <<home, told, raced, spoiled>>
    BY <1>5 DEF DoneAnswered, FindDoneUnstarted, FindDoneFails, DoneAnswers, Ended
  <2> QED BY <1>1, <2>1, PassingBack
<1>6. CASE BindDone(m)
  <2>1. /\ query[m] # None /\ query[m].op = "bind" /\ UNCHANGED <<home, told, raced, spoiled>>
    BY <1>6 DEF BindDone, Ended, Carries
  <2> DEFINE r == Asking("update", query[m].conn, query[m].stb, None, None)
  <2>2. r.op = "update"
    BY DEF Asking
  <2> HIDE DEF r
  <2>3. Returned(m) \/ \E n \in free : query' = [query EXCEPT ![m] = None, ![n] = r]
    BY <1>6 DEF BindDone, Chained, r
  <2>4. CASE Returned(m)
    BY <1>1, <2>1, <2>4, PassingBack
  <2>5. \A s \in Stbs : ~HasRow(r, s) /\ ~Loose(r, s) /\ ~Loose(query[m], s)
    BY <2>1, <2>2 DEF HasRow, Loose
  <2>6. ASSUME NEW n \in free, query' = [query EXCEPT ![m] = None, ![n] = r] PROVE Passing
    BY <1>1, <2>1, <2>5, <2>6, BlankForm, PassingTwo
  <2> QED BY <2>3, <2>4, <2>6
<1> QED BY <1>2, <1>3, <1>4, <1>5, <1>6 DEF Apart

\* A request begins: it has not been run.
LEMMA RequestPassing ==
  ASSUME TypeInv, PoolInv, NEW c \in Conns, NEW o \in {"find", "bind", "unbind", "phone"},
         NEW s \in Stbs \cup {None}, NEW p \in Phones \cup {None},
         Request(c, Asking(o, c, s, p, None))
  PROVE  Passing
<1> DEFINE q == Asking(o, c, s, p, None)
<1>1. TypeOK /\ UNCHANGED <<home, told, raced, spoiled>>
  BY DEF TypeInv, Request
<1>2. q.op = o /\ q.stage = "sent" /\ q.row = None
  BY AskingForm DEF Ops
<1>3. PICK n \in free : query' = [query EXCEPT ![n] = q]
  BY DEF Request
<1> HIDE DEF q
<1>4. \A b \in Stbs : ~HasRow(q, b) /\ ~Loose(q, b)
  BY <1>2 DEF HasRow, Loose
<1>5. n \in Mysqls /\ query[n] = None
  BY <1>1, <1>3 DEF TypeOK, PoolInv
<1> QED BY <1>1, <1>3, <1>4, <1>5, BlankForm, PassingOne

\* The database runs a query: a lookup finds what was told, or that nothing was; an
\* insert makes it the row.
LEMMA RunSettled ==
  ASSUME SettledInv, NEW m \in Mysqls, Run(m)
  PROVE  RowsHome' /\ Settled'
<1> DEFINE q == query[m]
<1>1. /\ TypeOK /\ RowsHome /\ Settled /\ q # None /\ q.stage = "sent"
      /\ q \in Query /\ WellFormed(q)
  BY DEF SettledInv, TypeInv, TypeOK, Shape, Run
<1>2. told' = told /\ spoiled' = spoiled /\ raced \subseteq raced'
  BY DEF Run
<1> DEFINE Ran(r) == [q EXCEPT !.stage = "ran", !.row = r]
<1>3. ASSUME NEW r
      PROVE  /\ Ran(r).op = q.op /\ Ran(r).stb = q.stb /\ Ran(r).stage = "ran"
             /\ Ran(r).row = r /\ Ran(r).rownum = 0 /\ Ran(r).trs = q.trs
  BY <1>1 DEF Query, WellFormed
<1> HIDE DEF Ran
<1>4. CASE q.op \notin {"find", "register"}
  <2>1. PICK r : query' = [query EXCEPT ![m] = Ran(r)]
    BY <1>1, <1>4 DEF Run, Ran
  <2>2. UNCHANGED <<home, told, raced, spoiled>>
    BY <1>4 DEF Run
  <2>3. \A s \in Stbs : ~HasRow(Ran(r), s) /\ ~Loose(Ran(r), s) /\ ~Loose(q, s)
    BY <1>3, <1>4 DEF HasRow, Loose
  <2>4. Passing
    <3> DEFINE n == Ran(r)
    <3>1. query' = [query EXCEPT ![m] = n]
      BY <2>1
    <3>2. \A s \in Stbs : ~HasRow(n, s) /\ ~Loose(n, s)
      BY <2>3
    <3> HIDE DEF n
    <3> QED BY <1>1, <2>2, <2>3, <3>1, <3>2, PassingOne
  <2> QED BY <1>1, <2>4, PassingSettled
<1>5. CASE q.op = "find"
  <2> DEFINE n == Ran(home[q.stb])
  <2>1. /\ query' = [query EXCEPT ![m] = n] /\ home' = home /\ q.stb \in Stbs
        /\ raced' = IF home[q.stb] = None /\ Unplaced(q.stb) # {}
                      THEN raced \cup {q.stb} ELSE raced
    BY <1>1, <1>5 DEF Run, Ran, WellFormed
  <2>2. n.op = "find" /\ n.stb = q.stb /\ n.row = home[q.stb]
    BY <1>3, <1>5
  <2> HIDE DEF n
  <2>3. query'[m] = n /\ \A k \in Mysqls \ {m} : query'[k] = query[k]
    BY <1>1, <2>1 DEF TypeOK
  <2>4. RowsHome'
    BY <1>1, <2>1, <2>2, <2>3 DEF RowsHome, HasRow
  <2> SUFFICES ASSUME NEW s \in Stbs, s \notin spoiled' \cup raced' PROVE SettledAt(s)'
    BY <2>4 DEF Settled
  <2>5. SettledAt(s) /\ home'[s] = home[s] /\ told'[s] = told[s]
    BY <1>1, <1>2, <2>1 DEF Settled
  <2>6. \A k \in Mysqls \ {m} : query'[k] = query[k]
    BY <2>3
  <2>7. ~Loose(q, s)
    BY <1>1, <1>5 DEF Loose
  <2>8. CASE ~Loose(query[m], s)'
    BY <2>5, <2>6, <2>7, <2>8 DEF SettledAt
  <2>9. CASE Loose(query[m], s)'
    <3>1. q.stb = s /\ home[s] = None
      BY <2>2, <2>3, <2>9 DEF Loose
    <3>2. Unplaced(s) = {}
      BY <2>1, <3>1
    <3>3. \A k \in Mysqls : ~Loose(query[k], s)
      BY <3>2, UnplacedLoose
    <3>4. told[s] = {}
      BY <2>5, <3>1, <3>3 DEF SettledAt
    <3>5. \A k \in Mysqls : Loose(query[k], s)' => k = m
      BY <2>6, <3>3
    <3> QED BY <2>2, <2>3, <2>5, <3>1, <3>4, <3>5 DEF SettledAt
  <2> QED BY <2>8, <2>9
<1>6. CASE q.op = "register"
  <2> DEFINE n == Ran(None)
  <2>1. /\ query' = [query EXCEPT ![m] = n] /\ q.stb \in Stbs /\ q.trs \in Trss
        /\ home[q.stb] = None /\ home' = [home EXCEPT ![q.stb] = q.trs] /\ raced' = raced
    BY <1>1, <1>6 DEF Run, Ran, WellFormed
  <2>2. \A s \in Stbs : ~Loose(n, s) /\ ~HasRow(n, s)
    BY <1>3, <1>6 DEF Loose, HasRow
  <2> HIDE DEF n
  <2>3. query'[m] = n /\ \A k \in Mysqls \ {m} : query'[k] = query[k]
    BY <1>1, <2>1 DEF TypeOK
  <2>4. /\ home'[q.stb] = q.trs /\ \A s \in Stbs \ {q.stb} : home'[s] = home[s]
    BY <1>1, <2>1 DEF TypeOK
  <2>5. q.trs # None
    BY <2>1, NoneAssumption
  <2>6. RowsHome'
    <3> SUFFICES ASSUME NEW k \in Mysqls, NEW s \in Stbs, HasRow(query[k], s)'
                 PROVE  query'[k].row = home'[s]
      BY DEF RowsHome
    <3>1. query'[k] = query[k] /\ HasRow(query[k], s)
      BY <2>2, <2>3 DEF HasRow
    <3>2. query[k].row = home[s] /\ query[k].row # None
      BY <1>1, <3>1 DEF RowsHome, HasRow
    <3> QED BY <2>1, <2>4, <3>1, <3>2
  <2> SUFFICES ASSUME NEW s \in Stbs, s \notin spoiled' \cup raced' PROVE SettledAt(s)'
    BY <2>6 DEF Settled
  <2>7. SettledAt(s) /\ told'[s] = told[s]
    BY <1>1, <1>2, <2>1 DEF Settled
  <2>8. ~Loose(query[m], s)' /\ \A k \in Mysqls \ {m} : query'[k] = query[k]
    BY <2>2, <2>3
  <2>9. CASE s = q.stb
    <3>1. Loose(q, s)
      BY <1>1, <1>6, <2>9 DEF Loose
    <3>2. \A k \in Mysqls : ~Loose(query[k], s)'
      BY <2>7, <2>8, <3>1 DEF SettledAt
    <3>3. told[s] = {q.trs}
      BY <1>6, <2>7, <3>1 DEF SettledAt
    <3> QED BY <2>4, <2>5, <2>7, <2>9, <3>2, <3>3 DEF SettledAt
  <2>10. CASE s # q.stb
    <3>1. ~Loose(q, s) /\ home'[s] = home[s]
      BY <2>4, <2>10 DEF Loose
    <3> QED BY <2>7, <2>8, <3>1 DEF SettledAt
  <2> QED BY <2>9, <2>10
<1> QED BY <1>4, <1>5, <1>6

\* A row is answered: the server in it is the one of the table.
LEMMA FindRowSettled ==
  ASSUME SettledInv, NEW m \in Mysqls, FindRow(m)
  PROVE  RowsHome' /\ Settled'
<1> DEFINE q == query[m]
           n == [q EXCEPT !.row = None, !.rownum = 1]
<1>1. /\ TypeOK /\ RowsHome /\ Settled
      /\ q # None /\ q.op = "find" /\ q.row # None /\ q \in Query /\ q.stb \in Stbs
  BY DEF SettledInv, TypeInv, TypeOK, Shape, FindRow, GotRow, WellFormed
<1>2. n.op = "find" /\ n.row = None /\ n.rownum = 1
  BY <1>1 DEF Query
<1>3. query' = [query EXCEPT ![m] = n] /\ UNCHANGED dbVars
  BY DEF FindRow, Fetched
<1>4. query'[m] = n /\ \A k \in Mysqls \ {m} : query'[k] = query[k]
  BY <1>1, <1>3 DEF TypeOK
<1> HIDE DEF n
<1>5. \A s \in Stbs : ~Loose(q, s) /\ ~Loose(query[m], s)' /\ ~HasRow(query[m], s)'
  BY <1>1, <1>2, <1>4 DEF Loose, HasRow
<1>6. RowsHome'
  <2>1. home' = home
    BY <1>3
  <2> QED BY <1>1, <1>4, <1>5, <2>1 DEF RowsHome, HasRow
<1>7. home[q.stb] = q.row /\ home[q.stb] # None
  BY <1>1 DEF RowsHome, HasRow
<1>8. \A s \in Stbs : told'[s] = told[s] \/ (s = q.stb /\ told'[s] = told[s] \cup {home[s]})
  BY <1>1, <1>7 DEF FindRow, TypeOK
<1> SUFFICES ASSUME NEW s \in Stbs, s \notin spoiled' \cup raced' PROVE SettledAt(s)'
  BY <1>6 DEF Settled
<1>9. SettledAt(s) /\ home'[s] = home[s]
  BY <1>1, <1>3 DEF Settled
<1>10. \A k \in Mysqls : Loose(query[k], s)' => Loose(query[k], s) /\ query'[k] = query[k]
  BY <1>4, <1>5 DEF Loose
<1>11. \A k \in Mysqls : Loose(query[k], s) => Loose(query[k], s)'
  BY <1>4, <1>5 DEF Loose
<1>12. CASE told'[s] = told[s]
  BY <1>9, <1>10, <1>11, <1>12 DEF SettledAt
<1>13. CASE s = q.stb /\ told'[s] = told[s] \cup {home[s]}
  BY <1>7, <1>9, <1>10, <1>13 DEF SettledAt
<1> QED BY <1>8, <1>12, <1>13

\* A box that has no row is told the server of the insert that begins, and was told no
\* other.
LEMMA PlacesSettled ==
  ASSUME SettledInv, NEW m \in Mysqls, FindDonePlaces(m)
  PROVE  RowsHome' /\ Settled'
<1> DEFINE b == query[m].stb
<1>1. /\ TypeOK /\ PoolInv /\ RowsHome /\ Settled
      /\ query[m] # None /\ b \in Stbs /\ Loose(query[m], b) /\ query[m].op = "find"
  BY DEF SettledInv, TypeInv, Shape, WellFormed, FindDonePlaces, Ended, Carries, Loose
<1>2. PICK t \in Trss, n \in free :
        /\ Chained(m, n, Asking("register", None, b, None, t))
        /\ told' = [told EXCEPT ![b] = @ \cup {t}]
  BY DEF FindDonePlaces
<1> DEFINE r == Asking("register", None, b, None, t)
<1>3. r # None /\ r.op = "register" /\ r.stb = b /\ r.trs = t /\ r.stage = "sent"
  <2>1. /\ "register" \in Ops /\ None \in Conns \cup {None} /\ b \in Stbs \cup {None}
        /\ None \in Phones \cup {None} /\ t \in Trss \cup {None}
    BY <1>1 DEF Ops
  <2> HIDE DEF b
  <2> QED BY <2>1, AskingForm
<1>4. n \in Mysqls /\ n # m /\ query[n] = None /\ UNCHANGED dbVars
  BY <1>1 DEF TypeOK, PoolInv, FindDonePlaces
<1>5. query' = [query EXCEPT ![m] = None, ![n] = r]
  BY <1>2 DEF Chained
<1> HIDE DEF r
<1>6. query'[n] = r /\ query'[m] = None /\ \A k \in Mysqls \ {m, n} : query'[k] = query[k]
  BY <1>1, <1>4, <1>5 DEF TypeOK
<1>7. RowsHome'
  BY <1>1, <1>3, <1>4, <1>6 DEF RowsHome, HasRow
<1> SUFFICES ASSUME NEW s \in Stbs, s \notin spoiled' \cup raced' PROVE SettledAt(s)'
  BY <1>7 DEF Settled
<1>8. SettledAt(s) /\ home'[s] = home[s]
  BY <1>1, <1>4 DEF Settled
<1>9. ~Loose(query[m], s)' /\ ~Loose(query[n], s)
  BY <1>4, <1>6 DEF Loose
<1>10. CASE s # b
  <2>1. told'[s] = told[s] /\ ~Loose(query[m], s) /\ ~Loose(query[n], s)'
    BY <1>1, <1>2, <1>3, <1>6, <1>10 DEF TypeOK, Loose
  <2>2. \A k \in Mysqls : Loose(query[k], s)' => Loose(query[k], s) /\ query'[k] = query[k]
    BY <1>6, <1>9, <2>1
  <2>3. \A k \in Mysqls : Loose(query[k], s) => Loose(query[k], s)'
    BY <1>6, <1>9, <2>1
  <2> QED BY <1>8, <2>1, <2>2, <2>3 DEF SettledAt
<1>11. CASE s = b
  <2>1. home[s] = None /\ told[s] = {}
    BY <1>1, <1>8, <1>11 DEF SettledAt
  <2>2. told'[s] = {t}
    BY <1>1, <1>2, <1>11, <2>1 DEF TypeOK
  <2>3. Loose(query[n], s)' /\ query'[n].trs = t /\ query'[n].op = "register"
    BY <1>3, <1>6, <1>11 DEF Loose
  <2>4. \A k \in Mysqls : Loose(query[k], s)' => k = n
    BY <1>1, <1>6, <1>8, <1>9, <1>11 DEF SettledAt
  <2>5. home'[s] = None
    BY <1>8, <2>1
  <2>6. \A k, l \in Mysqls : Loose(query[k], s)' /\ Loose(query[l], s)' => k = l
    BY <2>4
  <2>7. \A k \in Mysqls : Loose(query[k], s)' =>
          query'[k].op = "register" /\ told'[s] = {query'[k].trs}
    BY <2>2, <2>3, <2>4
  <2>8. \A k \in Mysqls : Loose(query[k], s)' =>
          /\ home'[s] = None
          /\ query'[k].op = "find" => told'[s] = {}
          /\ query'[k].op = "register" => told'[s] = {query'[k].trs}
    BY <2>5, <2>7
  <2>9. \E k \in Mysqls : Loose(query[k], s)'
    BY <1>4, <2>3
  <2> QED BY <2>5, <2>6, <2>8, <2>9 DEF SettledAt
<1> QED BY <1>10, <1>11

\* What was told of a box is in its row behind a restart, or the row was lost.
LEMMA RestartSettled ==
  ASSUME SettledInv, Restart
  PROVE  RowsHome' /\ Settled'
<1>1. Settled /\ \A m \in Mysqls : query'[m] = None
  BY DEF SettledInv, Restart
<1>2. \A m \in Mysqls, s \in Stbs : ~HasRow(query[m], s)' /\ ~Loose(query[m], s)'
  BY <1>1 DEF HasRow, Loose
<1>3. RowsHome'
  BY <1>2 DEF RowsHome
<1> SUFFICES ASSUME NEW s \in Stbs, s \notin spoiled' \cup raced' PROVE SettledAt(s)'
  BY <1>3 DEF Settled
<1>4. /\ s \notin spoiled \cup raced
      /\ told[s] = {} \/ home'[s] # None
      /\ told'[s] = told[s]
  BY DEF Restart
<1>5. SettledAt(s)
  BY <1>1, <1>4 DEF Settled
<1>6. \/ home'[s] = home[s]
      \/ home[s] = None /\ \E m \in Mysqls :
           Loose(query[m], s) /\ query[m].op = "register" /\ query[m].trs = home'[s]
  BY DEF Restart, Loose, Carries
<1>7. home'[s] # None => told'[s] \subseteq {home'[s]}
  BY <1>4, <1>5, <1>6 DEF SettledAt
<1> QED BY <1>2, <1>4, <1>7 DEF SettledAt

LEMMA SettledStep ==
  ASSUME SettledInv, [Next]_vars
  PROVE  RowsHome' /\ Settled'
<1>1. TypeInv /\ PoolInv /\ RowsHome /\ Settled
  BY DEF SettledInv
<1>2. ASSUME Passing PROVE RowsHome' /\ Settled'
  BY <1>1, <1>2, PassingSettled
<1>3. ASSUME UNCHANGED <<query, told, dbVars>> PROVE RowsHome' /\ Settled'
  <2>1. Passing
    BY <1>3 DEF Passing, Passes
  <2> QED BY <1>2, <2>1
<1>4. ASSUME NEW c \in Conns, NEW s \in Stbs, NEW p \in Phones,
             Bind(c, p, s)
      PROVE  RowsHome' /\ Settled'
  BY <1>1, <1>2, <1>4, RequestPassing DEF Bind
<1>5. ASSUME NEW m \in Mysqls, Apart(m) PROVE RowsHome' /\ Settled'
  BY <1>1, <1>2, <1>5, ApartPassing
<1>6. ASSUME NEW m \in Mysqls, Run(m) \/ Silent(m) \/ Fails(m) \/ Callback(m)
      PROVE  RowsHome' /\ Settled'
  BY <1>5, <1>6, RunSettled, FindRowSettled, PlacesSettled DEF Callback, Apart
<1>7. ASSUME NEW c \in Conns, NEW s \in Stbs, GetServer(c, s) PROVE RowsHome' /\ Settled'
  <2>1. None \in Phones \cup {None}
    OBVIOUS
  <2> QED BY <1>1, <1>2, <1>7, <2>1, RequestPassing DEF GetServer
<1>8. ASSUME NEW c \in Conns, NEW p \in Phones, Unbind(c, p) \/ GetStbid(c, p)
      PROVE  RowsHome' /\ Settled'
  BY <1>1, <1>2, <1>8, RequestPassing DEF Unbind, GetStbid
<1>9. ASSUME NEW t \in Trss, Login(t) \/ LoginTimeout(t) PROVE RowsHome' /\ Settled'
  BY <1>3, <1>9 DEF Login, LoginTimeout
<1>10. ASSUME NEW m \in Mysqls, Connected(m) \/ Again(m) PROVE RowsHome' /\ Settled'
  BY <1>3, <1>10 DEF Connected, Again
<1>11. CASE Restart
  BY <1>11, RestartSettled
<1>12. CASE UNCHANGED vars
  BY <1>3, <1>12
<1> QED
  BY <1>4, <1>6, <1>7, <1>8, <1>9, <1>10, <1>11, <1>12 DEF Next, Step

LEMMA SettledAlways == Spec => []SettledInv
<1>1. Init => SettledInv
  BY DEF Init, Fresh, SettledInv, TypeInv, TypeOK, Shape, PoolInv, RowsHome, HasRow, Settled,
         SettledAt, Loose
<1>2. SettledInv /\ [Next]_vars => SettledInv'
  BY TypeStep, PoolStep, SettledStep DEF SettledInv
<1> QED BY <1>1, <1>2, PTL DEF Spec

\* A box and its phones are told one server only, the one stored or on its way to be,
\* unless two lookups ran before the first insert or the database failed a query for
\* the box: whatever comes between the answer and the insert, which the answer does not
\* wait for (server_get_done), and across failures for other boxes and restarts.
THEOREM SettledSafe == Spec => []BoxSettled
<1>1. SettledInv => BoxSettled
  <2> SUFFICES ASSUME SettledInv, NEW s \in Stbs \ (spoiled \cup raced), NEW t \in told[s]
               PROVE  /\ told[s] = {t}
                      /\ \/ home[s] = t
                         \/ \E m \in Unplaced(s) : query[m].op = "register" /\ query[m].trs = t
    BY DEF BoxSettled
  <2>1. SettledAt(s)
    BY DEF SettledInv, Settled
  <2>2. CASE home[s] # None
    BY <2>1, <2>2 DEF SettledAt
  <2>3. CASE home[s] = None
    <3>1. PICK m \in Mysqls : Loose(query[m], s)
      BY <2>1, <2>3 DEF SettledAt
    <3>2. query[m].op \in {"find", "register"}
      BY <3>1 DEF Loose
    <3>3. query[m].op = "register" /\ told[s] = {query[m].trs}
      BY <2>1, <3>1, <3>2 DEF SettledAt
    <3>4. m \in Unplaced(s)
      BY <3>1, UnplacedLoose
    <3> QED BY <3>3, <3>4
  <2> QED BY <2>2, <2>3
<1> QED BY <1>1, SettledAlways, PTL

\* A box that was raced for settles: behind its stored row, when no lookup from before
\* goes on, no step moves it or tells another server, for any number of boxes, servers
\* and connections (server_get_work, server_get_done).
THEOREM SettlesSafe == Spec => Settles
<1>1. SettledInv /\ [Next]_vars => [\A s \in Stbs \ spoiled' :
        LET Sure == /\ home[s] # None
                    /\ \A m \in Unplaced(s) : query[m].op = "register"
        IN  Sure => /\ home'[s] = home[s]
                    /\ told'[s] \ {home[s]} = told[s] \ {home[s]}
                    /\ \A m \in Unplaced(s)' : query'[m].op = "register"]_vars
  <2> SUFFICES ASSUME SettledInv, [Next]_vars, NEW s \in Stbs \ spoiled', home[s] # None,
                      \A m \in Unplaced(s) : query[m].op = "register"
               PROVE  /\ home'[s] = home[s]
                      /\ told'[s] \ {home[s]} = told[s] \ {home[s]}
                      /\ \A m \in Unplaced(s)' : query'[m].op = "register"
    OBVIOUS
  <2>a. /\ TypeInv /\ TypeOK /\ PoolInv /\ RowsHome
        /\ \A m \in Mysqls : query[m] # None => query[m] \in Query /\ WellFormed(query[m])
    BY DEF SettledInv, TypeInv, TypeOK, Shape
  <2>b. \A m \in Mysqls : Loose(query[m], s) => query[m].op = "register"
    BY UnplacedLoose
  <2> DEFINE Stays == /\ home'[s] = home[s]
                      /\ told'[s] \ {home[s]} = told[s] \ {home[s]}
                      /\ \A m \in Mysqls : Loose(query[m], s)' => query'[m].op = "register"
  <2>1. ASSUME Passing PROVE Stays
    BY <2>1, <2>b DEF Passing, Passes
  <2>2. ASSUME NEW m \in Mysqls, Run(m) PROVE Stays
    <3>1. /\ query[m] \in Query /\ WellFormed(query[m]) /\ query[m].stage = "sent"
          /\ query[m] # None /\ told' = told
      BY <2>2, <2>a DEF Run
    <3>2. home'[s] = home[s]
      BY <2>2, <2>a, <3>1 DEF Run, WellFormed, TypeOK
    <3>3. PICK x : /\ query' = [query EXCEPT ![m] = [query[m] EXCEPT !.stage = "ran", !.row = x]]
                   /\ query[m].op = "find" => x = home[query[m].stb]
      BY <2>2, <3>1 DEF Run
    <3> DEFINE n == [query[m] EXCEPT !.stage = "ran", !.row = x]
    <3>5. n.op = query[m].op /\ n.stb = query[m].stb /\ n.row = x /\ n.stage = "ran"
      BY <3>1 DEF Query
    <3>6. query' = [query EXCEPT ![m] = n]
      BY <3>3
    <3> HIDE DEF n
    <3>7. query'[m] = n /\ \A k \in Mysqls \ {m} : query'[k] = query[k]
      BY <2>a, <3>6 DEF TypeOK
    <3>4. \A k \in Mysqls : Loose(query[k], s)' => query'[k].op = "register"
      BY <2>b, <3>3, <3>5, <3>7 DEF Loose
    <3> QED BY <3>1, <3>2, <3>4
  <2>3. ASSUME NEW m \in Mysqls, FindRow(m) PROVE Stays
    <3> DEFINE n == [query[m] EXCEPT !.row = None, !.rownum = 1]
    <3>1. /\ query[m] \in Query /\ query[m] # None /\ query[m].op = "find"
          /\ query[m].row # None /\ query[m].stb \in Stbs
      BY <2>3, <2>a DEF FindRow, GotRow, WellFormed
    <3>2. query' = [query EXCEPT ![m] = n] /\ home' = home /\ n.op = "find" /\ n.rownum = 1
      BY <2>3, <3>1 DEF FindRow, Fetched, Query
    <3> HIDE DEF n
    <3>3. query'[m] = n /\ \A k \in Mysqls \ {m} : query'[k] = query[k]
      BY <2>a, <3>2 DEF TypeOK
    <3>4. \A k \in Mysqls : Loose(query[k], s)' => query'[k].op = "register"
      BY <2>b, <3>2, <3>3 DEF Loose
    <3>5. query[m].row = home[query[m].stb]
      BY <2>a, <3>1 DEF RowsHome, HasRow
    <3>6. told'[s] = told[s] \/ told'[s] = told[s] \cup {home[s]}
      BY <2>3, <2>a, <3>1, <3>5 DEF FindRow, TypeOK
    <3> QED BY <3>2, <3>4, <3>6
  <2>4. ASSUME NEW m \in Mysqls, FindDonePlaces(m) PROVE Stays
    <3> DEFINE b == query[m].stb
    <3>1. /\ Loose(query[m], b) /\ query[m].op = "find" /\ b \in Stbs /\ query[m] # None
      BY <2>4, <2>a DEF FindDonePlaces, Ended, Carries, Loose, WellFormed
    <3>2. b # s /\ UNCHANGED home
      BY <2>4, <2>b, <3>1 DEF FindDonePlaces
    <3>3. PICK t \in Trss, n \in free :
            /\ query' = [query EXCEPT ![m] = None, ![n] = Asking("register", None, b, None, t)]
            /\ told' = [told EXCEPT ![b] = @ \cup {t}]
      BY <2>4 DEF FindDonePlaces, Chained
    <3> DEFINE r == Asking("register", None, b, None, t)
    <3>4. r.op = "register"
      BY DEF Asking
    <3> HIDE DEF r, b
    <3>5. /\ query'[n] = r /\ \A k \in Mysqls \ {n} : query'[k] \in {query[k], None}
          /\ told'[s] = told[s]
      BY <2>a, <3>1, <3>2, <3>3 DEF TypeOK, r
    <3>6. \A k \in Mysqls : Loose(query[k], s)' => query'[k].op = "register"
      BY <2>b, <3>4, <3>5 DEF Loose
    <3> QED BY <3>2, <3>5, <3>6
  <2>5. ASSUME Restart PROVE Stays
    <3>1. home'[s] = home[s] /\ told' = told /\ \A m \in Mysqls : query'[m] = None
      BY <2>5 DEF Restart
    <3>2. \A m \in Mysqls : ~Loose(query[m], s)'
      BY <3>1 DEF Loose
    <3> QED BY <3>1, <3>2
  <2>6. ASSUME UNCHANGED <<query, told, dbVars>> PROVE Stays
    BY <2>6, <2>b DEF Loose
  <2>7. ASSUME NEW c \in Conns, NEW t \in Stbs, GetServer(c, t) PROVE Stays
    <3>1. None \in Phones \cup {None}
      OBVIOUS
    <3> QED BY <2>a, <2>1, <2>7, <3>1, RequestPassing DEF GetServer
  <2>8. ASSUME NEW c \in Conns, NEW p \in Phones, Unbind(c, p) \/ GetStbid(c, p) PROVE Stays
    BY <2>a, <2>1, <2>8, RequestPassing DEF Unbind, GetStbid
  <2>9. ASSUME NEW c \in Conns, NEW p \in Phones, NEW t \in Stbs, Bind(c, p, t) PROVE Stays
    BY <2>a, <2>1, <2>9, RequestPassing DEF Bind
  <2>10. ASSUME NEW m \in Mysqls, Run(m) \/ Silent(m) \/ Fails(m) \/ Callback(m) PROVE Stays
    BY <2>a, <2>1, <2>2, <2>3, <2>4, <2>10, ApartPassing DEF Callback, Apart
  <2>11. ASSUME NEW m \in Mysqls, Connected(m) \/ Again(m) PROVE Stays
    BY <2>6, <2>11 DEF Connected, Again
  <2>12. ASSUME NEW t \in Trss, Login(t) \/ LoginTimeout(t) PROVE Stays
    BY <2>6, <2>12 DEF Login, LoginTimeout
  <2>13. Stays
    <3> HIDE DEF Stays
    <3>1. CASE UNCHANGED vars
      BY <2>6, <3>1
    <3> QED BY <2>5, <2>7, <2>8, <2>9, <2>10, <2>11, <2>12, <3>1 DEF Next, Step
  <2>14. \A m : m \in Unplaced(s)' => m \in Mysqls /\ Loose(query[m], s)'
    BY DEF Unplaced, Loose
  <2> QED BY <2>13, <2>14
<1> QED BY <1>1, SettledAlways, PTL DEF Spec, Settles

===============================================================================
