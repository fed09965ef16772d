--------------------------------- MODULE Foss ---------------------------------
(****************************************************************************)
(* The FOSS (src/src/foss): the registry of TRS servers, and the requests    *)
(* it answers from its database.  GetServer tells a box or a phone which TRS *)
(* serves the box, and places an unknown box on the TRS with fewest boxes;   *)
(* bind, unbind and lookup keep the pairs of phones and boxes.  Each request *)
(* takes a MySQL connection from a pool, sends a query on it and goes on in  *)
(* the callbacks of rns_mysql.c: work for a row, done at the end, error.     *)
(****************************************************************************)
EXTENDS Integers, FiniteSets

CONSTANTS
  Trss,       \* TRS servers (trsmgr_t)
  Stbs,       \* set-top boxes, the keys of the database table foss
  Phones,     \* phones, the keys of the database table phone
  Conns,      \* client connections (rns_hconn_t)
  Mysqls,     \* connections of the pool (rns_mysql_t)
  None,       \* NULL
  MaxNumber   \* bound: the count of boxes of a TRS is kept up to here

ASSUME NoneAssumption ==
  None \notin Int \cup Trss \cup Stbs \cup Phones \cup Conns \cup Mysqls
ASSUME BoundAssumption == MaxNumber \in Nat

VARIABLES
  number,   \* foss->ntrsmgr and strsmgr: the key of each TRS that is logged in
  open,     \* the connections made so far (dbpool->num counts them)
  free,     \* dbpool->mysqls
  query,    \* the query each connection carries, with its context
  busy,     \* connections whose request is not answered
  home,     \* table foss: the TRS (tr_peer) of each box
  link,     \* table phone: the box of each phone
  told,     \* the TRSs a box, or a phone for it, was told so far
  spoiled,  \* boxes whose row the database failed to read or to write
  raced,    \* boxes that two lookups found unknown before the first insert ran
  stale,    \* connections whose last query failed: error_func stays set
  undefined \* error_func was called a second time, with a destroyed context

dbVars == <<home, link, spoiled, raced>>
vars == <<number, open, free, query, busy, told, dbVars, stale, undefined>>

\* The callbacks of a query: find and register serve GetServer, bind and update
\* /Foss/bind, unbind /Foss/unbind, phone and stb /phone/GetStbid.
Ops == {"find", "register", "bind", "update", "unbind", "phone", "stb"}

\* stage "lost": nobody will return the connection to the pool.
Query == [op : Ops, conn : Conns \cup {None}, stb : Stbs \cup {None},
          phone : Phones \cup {None}, trs : Trss \cup {None},
          stage : {"sent", "ran", "lost"},
          row : Trss \cup Stbs \cup {None}, rownum : {0, 1}]

ASSUME QueryAssumption == None \notin Query

Asking(o, c, s, p, t) ==
  [op |-> o, conn |-> c, stb |-> s, phone |-> p, trs |-> t,
   stage |-> "sent", row |-> None, rownum |-> 0]

TypeOK ==
  /\ number \in [Trss -> (0 .. MaxNumber) \cup {None}]
  /\ open \in SUBSET Mysqls
  /\ free \in SUBSET Mysqls
  /\ query \in [Mysqls -> Query \cup {None}]
  /\ busy \in SUBSET Conns
  /\ home \in [Stbs -> Trss \cup {None}]
  /\ link \in [Phones -> Stbs \cup {None}]
  /\ told \in [Stbs -> SUBSET Trss]
  /\ spoiled \in SUBSET Stbs
  /\ raced \in SUBSET Stbs
  /\ stale \in SUBSET Mysqls
  /\ undefined \in BOOLEAN

\* The process has started: the pool is empty and no TRS has logged in.
Fresh ==
  /\ number = [t \in Trss |-> None]
  /\ open = {} /\ free = {}
  /\ query = [m \in Mysqls |-> None]
  /\ busy = {}
  /\ stale = {} /\ undefined = FALSE

Init ==
  /\ Fresh
  /\ home = [s \in Stbs |-> None]
  /\ link \in [Phones -> Stbs \cup {None}]
  /\ told = [s \in Stbs |-> {}]
  /\ spoiled = {} /\ raced = {}

------------------------------------------------------------------------------
(* Helpers *)

Carries(m, o) == query[m] # None /\ query[m].op = o

\* The query on m will answer its client: no row has come yet.
Owns(q) == q.op # "register" /\ q.stage # "lost" /\ q.rownum = 0

\* The least key of ntrsmgr; equal keys in any order.
Least(t) ==
  /\ number[t] # None
  /\ \A u \in Trss : number[u] # None => number[t] <= number[u]

\* Faulty variant of Counted: the count goes down.
CountedDown(t) == number' = [number EXCEPT ![t] = @ - 1]

\* rbt_set_key_int(&trsmgr->nnode, number + 1)
Counted(t) == number' = [number EXCEPT ![t] = IF @ < MaxNumber THEN @ + 1 ELSE @]

\* rns_hconn_resp2
Answer(c) == busy' = busy \ {c}

\* rns_dbpool_free(m)
Returned(m) == free' = free \cup {m} /\ query' = [query EXCEPT ![m] = None]

\* Faulty variant of Chained: m is forgotten.
ChainedKeeps(m, n, q) ==
  /\ free' = free \ {n}
  /\ query' = [query EXCEPT ![m] = None, ![n] = q]
  /\ stale' = stale \ {n}

\* A query q starts on n, taken from the pool, with callbacks of its own, and m is
\* returned.
Chained(m, n, q) ==
  /\ free' = (free \ {n}) \cup {m}
  /\ query' = [query EXCEPT ![m] = None, ![n] = q]
  /\ stale' = stale \ {n}

------------------------------------------------------------------------------
(* The registry of TRS servers *)

\* /Foss/login of a TRS: it is registered, or its timer is delayed.
Login(t) ==
  /\ number[t] = None
  /\ number' = [number EXCEPT ![t] = 0]
  /\ UNCHANGED <<open, free, query, busy, told, dbVars, stale>>

\* trs_login: a TRS has not logged in for 120 s.
LoginTimeout(t) ==
  /\ number[t] # None
  /\ number' = [number EXCEPT ![t] = None]
  /\ UNCHANGED <<open, free, query, busy, told, dbVars, stale>>

------------------------------------------------------------------------------
(* The pool *)

\* connectcb: one more connection is made and joins the pool.
Connected(m) ==
  /\ m \notin open
  /\ open' = open \cup {m}
  /\ free' = free \cup {m}
  /\ UNCHANGED <<number, query, busy, told, dbVars, stale>>

------------------------------------------------------------------------------
(* Requests.  One that finds no free connection, or whose query cannot be    *)
(* started (mysql_real_query_start gives a negative value), is answered with *)
(* an error at once and changes nothing.                                     *)

Request(c, q) ==
  /\ c \notin busy
  /\ \E m \in free :
       free' = free \ {m} /\ query' = [query EXCEPT ![m] = q] /\ stale' = stale \ {m}
  /\ busy' = busy \cup {c}
  /\ UNCHANGED <<number, open, told, dbVars>>

GetServer(c, s) == Request(c, Asking("find", c, s, None, None))
Bind(c, p, s) == Request(c, Asking("bind", c, s, p, None))
Unbind(c, p)  == Request(c, Asking("unbind", c, None, p, None))
GetStbid(c, p) == Request(c, Asking("phone", c, None, p, None))

------------------------------------------------------------------------------
(* The database *)

\* A lookup found no row for s and goes on, or the insert that it caused has not run.
Unplaced(s) == {m \in Mysqls :
  /\ query[m] # None /\ query[m].stb = s
  /\ \/ query[m].op = "find" /\ query[m].stage = "ran"
        /\ query[m].row = None /\ query[m].rownum = 0
     \/ query[m].op = "register" /\ query[m].stage = "sent"}

\* The server runs a query; foss has a unique key, so that a register of a box
\* that has a row fails.
Run(m) ==
  /\ query[m] # None /\ query[m].stage = "sent"
  /\ LET q == query[m]
         Result(r) == query' = [query EXCEPT ![m] = [@ EXCEPT !.stage = "ran", !.row = r]]
     IN  \/ /\ q.op = "find"
            /\ Result(home[q.stb]) /\ UNCHANGED <<home, link>>
            /\ raced' = IF home[q.stb] = None /\ Unplaced(q.stb) # {}
                          THEN raced \cup {q.stb} ELSE raced
         \/ /\ q.op = "register" /\ home[q.stb] = None
            /\ home' = [home EXCEPT ![q.stb] = q.trs]
            /\ Result(None) /\ UNCHANGED <<link, raced>>
         \/ /\ q.op = "bind"
            /\ link' = [link EXCEPT ![q.phone] = q.stb]
            /\ Result(None) /\ UNCHANGED <<home, raced>>
         \/ /\ q.op = "update"
            /\ Result(None) /\ UNCHANGED <<home, link, raced>>
         \/ /\ q.op = "unbind"
            /\ link' = [link EXCEPT ![q.phone] = None]
            /\ Result(None) /\ UNCHANGED <<home, raced>>
         \/ /\ q.op = "phone"
            /\ Result(link[q.phone]) /\ UNCHANGED <<home, link, raced>>
         \/ /\ q.op = "stb"
            /\ Result(IF home[q.stb] = None THEN None ELSE q.stb)
            /\ UNCHANGED <<home, link, raced>>
  /\ UNCHANGED <<number, open, free, busy, told, spoiled, stale>>

\* A query that rns_mysql_query cannot start (mysql_real_query_start gives 1,
\* and only a negative value is an error), or whose rows cannot be fetched,
\* looks like one with no result.
Silent(m) ==
  /\ query[m] # None /\ query[m].stage = "sent"
  /\ query' = [query EXCEPT ![m] = [@ EXCEPT !.stage = "ran"]]
  /\ spoiled' = IF query[m].op \in {"find", "register"}
                  THEN spoiled \cup {query[m].stb} ELSE spoiled
  /\ UNCHANGED <<number, open, free, busy, told, home, link, raced, stale>>

\* rns_mysql_query_cont meets an error: error_func answers 400, destroys the
\* context and stays set.  The error callback of a register is an uninitialised
\* field: where it is NULL nobody returns the connection (and any other value
\* ends the process).
Fails(m) ==
  /\ query[m] # None /\ query[m].stage = "sent"
  /\ IF query[m].op = "register"
       THEN /\ query' = [query EXCEPT ![m] = [@ EXCEPT !.stage = "lost"]]
            /\ spoiled' = spoiled \cup {query[m].stb}
            /\ UNCHANGED <<free, busy, stale>>
       ELSE /\ Answer(query[m].conn)
            /\ Returned(m)
            /\ stale' = stale \cup {m}
            /\ UNCHANGED spoiled
  /\ UNCHANGED <<number, open, told, home, link, raced>>

\* The server closes the connection m at rest, whose last query failed:
\* rns_mysql_query_cont finds the state QUERY and calls error_func once more.
\* What it does with the destroyed context is not followed.
Again(m) ==
  /\ m \in stale
  /\ query[m] # None => query[m].stage = "lost"
  /\ undefined' = TRUE
  /\ UNCHANGED <<number, open, free, query, busy, told, dbVars, stale>>

------------------------------------------------------------------------------
(* The callbacks of a row: work *)

GotRow(m) == query[m] # None /\ query[m].stage = "ran" /\ query[m].row # None

\* Faulty variant of Fetched: the row is not counted.
FetchedUncounted(m) == [query EXCEPT ![m] = [@ EXCEPT !.row = None]]

\* ++mysql->rownum
Fetched(m) == [query EXCEPT ![m] = [@ EXCEPT !.row = None, !.rownum = 1]]

\* Faulty variant of FindRow: a box whose TRS is away is sent to another one.
FindRowMoves(m) ==
  /\ GotRow(m) /\ query[m].op = "find"
  /\ query' = Fetched(m)
  /\ Answer(query[m].conn)
  /\ \E t \in Trss :
       /\ number[t] # None /\ (number[query[m].row] # None => t = query[m].row)
       /\ told' = [told EXCEPT ![query[m].stb] = @ \cup {t}]
  /\ UNCHANGED <<number, open, free, dbVars, stale>>

\* server_get_work: the box has a TRS; an error when it is not logged in.
FindRow(m) ==
  /\ GotRow(m) /\ query[m].op = "find"
  /\ query' = Fetched(m)
  /\ Answer(query[m].conn)
  /\ told' = IF number[query[m].row] # None
               THEN [told EXCEPT ![query[m].stb] = @ \cup {query[m].row}]
               ELSE told
  /\ UNCHANGED <<number, open, free, dbVars, stale>>

\* stb_get_work: the phone has a box, which is looked up on a second
\* connection with the same context; an error when there is none, or when the
\* query cannot be started on it: then it is not returned.
PhoneRow(m) ==
  /\ GotRow(m) /\ query[m].op = "phone"
  /\ \/ /\ free = {}
        /\ Answer(query[m].conn)
        /\ query' = Fetched(m)
        /\ UNCHANGED <<free, stale>>
     \/ /\ \E n \in free :
             /\ free' = free \ {n}
             /\ query' = [Fetched(m) EXCEPT
                            ![n] = Asking("stb", query[m].conn, query[m].row, None, None)]
             /\ stale' = stale \ {n}
        /\ UNCHANGED busy
     \/ /\ \E n \in free :
             /\ free' = free \ {n}
             /\ query' = [Fetched(m) EXCEPT
                   ![n] = [Asking("stb", query[m].conn, query[m].row, None, None)
                             EXCEPT !.stage = "lost"]]
        /\ Answer(query[m].conn)
        /\ UNCHANGED stale
  /\ UNCHANGED <<number, open, told, dbVars>>

\* stb_getstb_work
StbRow(m) ==
  /\ GotRow(m) /\ query[m].op = "stb"
  /\ query' = Fetched(m)
  /\ Answer(query[m].conn)
  /\ UNCHANGED <<number, open, free, told, dbVars, stale>>

------------------------------------------------------------------------------
(* The callbacks at the end of a query: done *)

Ended(m, o) == Carries(m, o) /\ query[m].stage = "ran" /\ query[m].row = None

\* server_get_done and stb_get_done of a query that gave its row, stb_getstb_done
\* of one that did, free_mysql after a register.
DoneAnswered(m) ==
  /\ \/ query[m] # None /\ query[m].rownum = 1 /\ Ended(m, query[m].op)
     \/ Ended(m, "register")
  /\ Returned(m)
  /\ UNCHANGED <<number, open, busy, told, dbVars, stale>>

\* server_get_done: the box is unknown.  It is placed on the least loaded TRS;
\* the answer does not wait for the insert.
FindDonePlaces(m) ==
  /\ Ended(m, "find") /\ query[m].rownum = 0
  /\ \E t \in Trss, n \in free :
       /\ Least(t)
       /\ Counted(t)
       /\ Chained(m, n, Asking("register", None, query[m].stb, None, t))
       /\ told' = [told EXCEPT ![query[m].stb] = @ \cup {t}]
  /\ Answer(query[m].conn)
  /\ UNCHANGED <<open, dbVars>>

\* ... or it is counted there, but the insert cannot be started.
FindDoneUnstarted(m) ==
  /\ Ended(m, "find") /\ query[m].rownum = 0
  /\ free # {} /\ \E t \in Trss : Least(t) /\ Counted(t)
  /\ Answer(query[m].conn)
  /\ Returned(m)
  /\ UNCHANGED <<open, told, dbVars, stale>>

\* Faulty variant of FindDoneFails: the client is forgotten.
FindDoneFailsMute(m) ==
  /\ Ended(m, "find") /\ query[m].rownum = 0
  /\ free = {} \/ \A t \in Trss : number[t] = None
  /\ Returned(m)
  /\ UNCHANGED <<number, open, busy, told, dbVars, stale>>

\* ... or no TRS is logged in, or no second connection is free.
FindDoneFails(m) ==
  /\ Ended(m, "find") /\ query[m].rownum = 0
  /\ free = {} \/ \A t \in Trss : number[t] = None
  /\ Answer(query[m].conn)
  /\ Returned(m)
  /\ UNCHANGED <<number, open, told, dbVars, stale>>

\* phone_stb_done: the pair is stored; the details of the box follow on a
\* second connection, or an error when there is none or it cannot be used.
BindDone(m) ==
  /\ Ended(m, "bind")
  /\ \/ Answer(query[m].conn) /\ Returned(m) /\ UNCHANGED stale
     \/ /\ \E n \in free :
             Chained(m, n, Asking("update", query[m].conn, query[m].stb, None, None))
        /\ UNCHANGED busy
  /\ UNCHANGED <<number, open, told, dbVars>>

\* stb_update_done and phone_stb_unbind_done; stb_get_done and stb_getstb_done
\* of a query that gave no row.
DoneAnswers(m) ==
  /\ \E o \in {"update", "unbind", "phone", "stb"} : Ended(m, o)
  /\ query[m].rownum = 0
  /\ Answer(query[m].conn)
  /\ Returned(m)
  /\ UNCHANGED <<number, open, told, dbVars, stale>>

------------------------------------------------------------------------------
\* The process ends and is started again: what it kept in memory is lost, and
\* queries under way may still be run by the database.
Restart ==
  /\ number' = [t \in Trss |-> None]
  /\ open' = {} /\ free' = {}
  /\ query' = [m \in Mysqls |-> None]
  /\ busy' = {}
  /\ stale' = {} /\ undefined' = FALSE
  /\ home' \in {h \in [Stbs -> Trss \cup {None}] : \A s \in Stbs :
                  \/ h[s] = home[s]
                  \/ home[s] = None /\ \E m \in Mysqls :
                       Carries(m, "register") /\ query[m].stage = "sent"
                         /\ query[m].stb = s /\ query[m].trs = h[s]}
  /\ link' \in {l \in [Phones -> Stbs \cup {None}] : \A p \in Phones :
                  \/ l[p] = link[p]
                  \/ \E m \in Mysqls :
                       /\ Carries(m, "bind") \/ Carries(m, "unbind")
                       /\ query[m].stage = "sent"
                       /\ query[m].phone = p /\ query[m].stb = l[p]}
  /\ spoiled' = spoiled \cup {s \in Stbs : told[s] # {} /\ home'[s] = None}
  /\ UNCHANGED <<told, raced>>

Callback(m) ==
  \/ FindRow(m) \/ PhoneRow(m) \/ StbRow(m)
  \/ DoneAnswered(m) \/ FindDonePlaces(m) \/ FindDoneUnstarted(m) \/ FindDoneFails(m)
  \/ BindDone(m) \/ DoneAnswers(m)

Step ==
  \/ \E t \in Trss : Login(t) \/ LoginTimeout(t)
  \/ \E c \in Conns, s \in Stbs : GetServer(c, s)
  \/ \E c \in Conns, p \in Phones : Unbind(c, p) \/ GetStbid(c, p)
  \/ \E c \in Conns, p \in Phones, s \in Stbs : Bind(c, p, s)
  \/ \E m \in Mysqls : Connected(m) \/ Run(m) \/ Silent(m) \/ Fails(m) \/ Callback(m)

Next ==
  \/ /\ ~undefined
     /\ \/ Step /\ UNCHANGED undefined
        \/ \E m \in Mysqls : Again(m)
  \/ Restart

Spec == Init /\ [][Next]_vars

\* The database ends every query, and the loop runs the callbacks.
Fairness == \A m \in Mysqls :
  /\ WF_vars(~undefined /\ (Run(m) \/ Silent(m) \/ Fails(m)) /\ UNCHANGED undefined)
  /\ WF_vars(~undefined /\ Callback(m) /\ UNCHANGED undefined)

FairSpec == Spec /\ Fairness

------------------------------------------------------------------------------
(* Properties.  Nothing is said of the pool and the clients once an error     *)
(* callback was called again.                                                *)

\* A MySQL connection is in the pool exactly when it is made and carries no
\* query, and none carries a query that was not made: the
\* callbacks, which take a second connection before they return the first,
\* neither lose one nor hand one out twice (rns_dbpool_get, rns_dbpool_free).
PoolKept == ~undefined => \A m \in Mysqls :
  /\ m \in free <=> m \in open /\ query[m] = None
  /\ query[m] # None => m \in open

\* A client whose request is outstanding is owned by one query, the one that
\* will answer it, also while a request goes on from one connection to the
\* next; a client that was answered is owned by none.
OneOwner == ~undefined => \A c \in Conns :
  LET owners == {m \in Mysqls : query[m] # None /\ query[m].conn = c /\ Owns(query[m])}
  IN  IF c \in busy THEN \E m \in owners : owners = {m} ELSE owners = {}

\* A box and its phones are sent to one TRS only, the one that is stored or whose
\* insert is on its way, although the answer that places a box does not wait for
\* the insert: unless a second lookup ran before that insert did, or the database
\* failed one of the queries.  A request that comes between the answer and the
\* insert is no exception when its lookup runs behind the insert.
BoxSettled == \A s \in Stbs \ (spoiled \cup raced) : \A t \in told[s] :
  /\ told[s] = {t}
  /\ \/ home[s] = t
     \/ \E m \in Unplaced(s) : query[m].op = "register" /\ query[m].trs = t

\* A box that was raced for settles too: when a row is stored and no lookup from
\* before goes on, nobody is told another TRS than the stored one any more.
Settles == [][\A s \in Stbs \ spoiled' :
  LET Sure == /\ home[s] # None
              /\ \A m \in Unplaced(s) : query[m].op = "register"
  IN  Sure => /\ home'[s] = home[s]
              /\ told'[s] \ {home[s]} = told[s] \ {home[s]}
              /\ \A m \in Unplaced(s)' : query'[m].op = "register"]_vars

\* Every request is answered: with an empty pool, with no TRS logged in, and
\* when the database fails.
Answered == \A c \in Conns : c \in busy ~> c \notin busy \/ undefined

\* The connection of a query comes back to the pool, except the two kinds that
\* nobody returns: a register that failed, and the second query of a lookup
\* that could not be started.
ComesBack == \A m \in Mysqls :
  query[m] # None ~> \/ m \in free \/ m \notin open \/ undefined
                     \/ query[m] # None /\ query[m].stage = "lost"

\* The pool and the tables, for the two that go together: shapes and ownership.
PoolSound == TypeOK /\ PoolKept

\* Both ends of a request: its client is answered, its connection comes back.
Served == Answered /\ ComesBack
===============================================================================
