------------------------------- MODULE TrsQuery -------------------------------
(****************************************************************************)
(* The database requests of the TRS (src/src/trs/event.c).  A box or a phone *)
(* adds or deletes a row with one query.  Somebody who asks for the play     *)
(* history or the marks of a user starts a tree of queries: for each box of  *)
(* the user, or for each phone of each box, one more query is started when   *)
(* its row comes, and the last query to end gives the answer.  The queries   *)
(* of a tree share a context (rns_ctx_t) with a count, and all requests share *)
(* a small pool of MySQL connections (rns_dbpool.c).                         *)
(****************************************************************************)
EXTENDS Integers, FiniteSets

CONSTANTS
  Conns,    \* client connections (rns_hconn_t)
  Mysqls,   \* connections of the pool (rns_mysql_t)
  None,     \* NULL
  MaxRows,  \* bound: rows that a query gives
  MaxCms    \* bound: requests to the CMS under way

ASSUME NoneAssumption == None \notin Int
ASSUME MysqlsAssumption == IsFiniteSet(Mysqls)
ASSUME BoundAssumption == MaxRows \in Nat /\ MaxCms \in Nat

VARIABLES
  free,      \* dbpool->mysqls
  query,     \* the query each MySQL connection carries, with its callbacks
  ctx,       \* the count in the context of each client's tree, or None
  busy,      \* clients that wait for an answer
  cms,       \* requests to the CMS under way
  spoiled,   \* clients whose request met a path on which the code gives up
  undefined, \* memory was used after it was freed, or a connection used twice
  stale,     \* mysql->qcb.error and its data, left behind by a query that failed
  again      \* such a callback was called a second time

left == <<stale, again>>
vars == <<free, query, ctx, busy, cms, spoiled, undefined, left>>

\* The trees of /third/playhistory/get and /third/marks/get have three levels:
\* boxes of a user, phones of a box, rows of a phone.  Those of
\* /stb/playhistory/get and /stb/marks/get have two: boxes (users), rows (hist).
Third == {"boxes", "phones", "items"}
OfStb == {"users", "hist"}
Ops   == Third \cup OfStb \cup {"write", "insert"}

\* stage "lost": the query was not started and nobody returns the connection.
Query == [op : Ops, conn : Conns \cup {None}, stage : {"sent", "rows", "lost"},
          rows : 0 .. MaxRows]

\* A failed query leaves its error callback set and the state at QUERY.  conn is
\* None once the context that the callback holds was destroyed, as get_error does.
Callback == [error : {"third_error", "get_error", "error_func"}, conn : Conns \cup {None}]

Holds(e, c) == [error |-> e, conn |-> c]
Dangling == Holds("get_error", None)

ASSUME QueryAssumption == None \notin Query /\ None \notin Callback

Sent(o, c) == [op |-> o, conn |-> c, stage |-> "sent", rows |-> 0]
Lost(o, c) == [Sent(o, c) EXCEPT !.stage = "lost"]

TypeOK ==
  /\ free \in SUBSET Mysqls
  /\ query \in [Mysqls -> Query \cup {None}]
  /\ ctx \in [Conns -> (Nat \ {0}) \cup {None}]
  /\ busy \in SUBSET Conns
  /\ cms \in 0 .. MaxCms
  /\ spoiled \in SUBSET Conns
  /\ undefined \in BOOLEAN
  /\ stale \in [Mysqls -> Callback \cup {None}]
  /\ again \in BOOLEAN

Init ==
  /\ free = Mysqls
  /\ query = [m \in Mysqls |-> None]
  /\ ctx = [c \in Conns |-> None]
  /\ busy = {} /\ cms = 0 /\ spoiled = {} /\ undefined = FALSE
  /\ stale = [m \in Mysqls |-> None] /\ again = FALSE

------------------------------------------------------------------------------
(* Helpers *)

Carries(m, ops) == query[m] # None /\ query[m].op \in ops /\ query[m].stage # "lost"

\* The queries under way that will use the context of c.
Refers(c) == {m \in Mysqls : Carries(m, Third \cup OfStb) /\ query[m].conn = c}

\* The writes of c under way.
Writes(c) == {m \in Mysqls : Carries(m, {"write"}) /\ query[m].conn = c}

\* rns_hconn_resp2
Answer(c) == busy' = busy \ {c}

\* rns_mysql_query on k, which f carries queries of, sets its own callbacks.  A
\* connection that already carries a query was returned to the pool too early.  (One
\* that cannot be started sets them too; the model keeps the stale ones, since the
\* state QUERY stays and a close calls a callback that ran or was given up either way.)
Starts(f, k, q) ==
  /\ IF query[k] = None THEN query' = [f EXCEPT ![k] = q] /\ UNCHANGED undefined
                        ELSE undefined' = TRUE /\ UNCHANGED query
  /\ stale' = IF q.stage = "sent" THEN [stale EXCEPT ![k] = None] ELSE stale

\* ++(*n)
Up(c) == ctx' = [ctx EXCEPT ![c] = @ + 1]

\* The context of c is destroyed: the callbacks of f that hold it dangle.
Orphaned(f, c) == [m \in Mysqls |->
  IF f[m] # None /\ f[m].error = "third_error" /\ f[m].conn = c
    THEN Dangling ELSE f[m]]

\* Faulty variant of Down: the context is kept.
DownKeeps(c, f) ==
  /\ IF ctx[c] = 1 THEN ctx' = [ctx EXCEPT ![c] = 0] /\ Answer(c)
                   ELSE ctx' = [ctx EXCEPT ![c] = @ - 1] /\ UNCHANGED busy
  /\ stale' = f

\* Faulty variant of Down: the answer is forgotten.
DownMute(c, f) ==
  /\ ctx' = [ctx EXCEPT ![c] = IF @ = 1 THEN None ELSE @ - 1]
  /\ stale' = IF ctx[c] = 1 THEN Orphaned(f, c) ELSE f
  /\ UNCHANGED busy

\* --(*n); the last query answers and destroys the context.  f: the callbacks
\* that are left behind.
Down(c, f) ==
  IF ctx[c] = 1
    THEN ctx' = [ctx EXCEPT ![c] = None] /\ Answer(c) /\ stale' = Orphaned(f, c)
    ELSE ctx' = [ctx EXCEPT ![c] = @ - 1] /\ UNCHANGED busy /\ stale' = f

\* rns_dbpool_free(m)
Returned(m) == free' = free \cup {m} /\ query' = [query EXCEPT ![m] = None]

\* The query on m failed: qcb, whose error callback is e, and the state stay.
Leaves(m, e) == [stale EXCEPT ![m] = e]

\* A row of m was handled.
Stepped(m) ==
  [query EXCEPT ![m] = [query[m] EXCEPT !.stage = "rows", !.rows = query[m].rows + 1]]

------------------------------------------------------------------------------
(* Requests.  The context of c is new: nothing of an earlier one is left.  A   *)
(* request that is answered with an error at once changes nothing: one to add *)
(* a row, to switch the user or for the marks of phones with an empty pool;   *)
(* a third get or a switch whose query cannot be started.                     *)

New(c) == c \notin busy /\ ctx[c] = None /\ Refers(c) \cup Writes(c) = {}

Begins(c) == busy' = busy \cup {c} /\ spoiled' = spoiled \ {c}

\* A request that nobody will answer.
Mute(c) == busy' = busy \cup {c} /\ spoiled' = spoiled \cup {c}

\* phone_playhistory_get and phone_mark_get: the boxes of a user.
ThirdGet(c) ==
  /\ New(c)
  /\ \E k \in free : free' = free \ {k} /\ Starts(query, k, Sent("boxes", c))
  /\ ctx' = [ctx EXCEPT ![c] = 1]
  /\ Begins(c)
  /\ UNCHANGED cms

\* phone_playhistory_get, stb_mark_delete and phone_mark_delete return without
\* an answer when the pool is empty.
PoolMute(c) ==
  /\ New(c) /\ free = {}
  /\ Mute(c)
  /\ UNCHANGED <<free, query, ctx, cms, undefined, stale>>

\* /stb/switchuser calls nothing for a user who is not the one that is stored.
SwitchIgnored(c) ==
  /\ New(c)
  /\ Mute(c)
  /\ UNCHANGED <<free, query, ctx, cms, undefined, stale>>

\* stb_ps_get and stb_mark_get: the CMS is asked for its list, then the pool
\* for the boxes of the user.  Without a connection the client is forgotten.
StbGet(c) ==
  /\ New(c)
  /\ cms < MaxCms /\ cms' = cms + 1
  /\ \/ /\ \E k \in free : free' = free \ {k} /\ Starts(query, k, Sent("users", c))
        /\ ctx' = [ctx EXCEPT ![c] = 1]
        /\ Begins(c)
     \/ /\ free = {}
        /\ Mute(c)
        /\ UNCHANGED <<free, query, ctx, undefined, stale>>

\* ... or its query cannot be started: the connection is forgotten as well.
StbUnstarted(c) ==
  /\ New(c)
  /\ cms < MaxCms /\ cms' = cms + 1
  /\ \E k \in free : free' = free \ {k} /\ Starts(query, k, Lost("users", c))
  /\ Mute(c)
  /\ UNCHANGED ctx

\* ... or no connection to the CMS can be made: the check of rns_hconn_get tests
\* another pointer, and NULL is used.
CmsAway(c) ==
  /\ New(c) /\ cms < MaxCms
  /\ undefined' = TRUE
  /\ Mute(c)
  /\ UNCHANGED <<free, query, ctx, cms, stale>>

\* stb_playhistory_add, stb_mark_add, stb_switchUser, phone_playhistory_add,
\* phone_mark_add, stb_mark_delete, phone_mark_delete: one query.
Write(c) ==
  /\ New(c)
  /\ \E k \in free : free' = free \ {k} /\ Starts(query, k, Sent("write", c))
  /\ Begins(c)
  /\ UNCHANGED <<ctx, cms>>

\* The query cannot be started: the connection is forgotten, and the client
\* too, except by the two deletes.
WriteUnstarted(c) ==
  /\ New(c)
  /\ \E k \in free : free' = free \ {k} /\ Starts(query, k, Lost("write", c))
  /\ Mute(c) \/ UNCHANGED <<busy, spoiled>>
  /\ UNCHANGED <<ctx, cms>>

\* stb_ps_update and stb_mark_update: the list of the CMS has come, and its
\* items are inserted as far as the pool goes.  Nobody waits for them.
CmsResp ==
  /\ cms > 0 /\ cms' = cms - 1
  /\ \E S \in SUBSET free :
       /\ Cardinality(S) <= MaxRows
       /\ IF \A k \in S : query[k] = None
            THEN /\ free' = free \ S
                 /\ query' = [m \in Mysqls |-> IF m \in S THEN Sent("insert", None) ELSE query[m]]
                 /\ stale' = [m \in Mysqls |-> IF m \in S THEN None ELSE stale[m]]
                 /\ UNCHANGED undefined
            ELSE undefined' = TRUE /\ UNCHANGED <<free, query, stale>>
  /\ UNCHANGED <<ctx, busy, spoiled>>

------------------------------------------------------------------------------
(* A row has come: the work callback                                          *)

\* The next query of a tree whose row came on m: not started when the pool is
\* empty; counted though it cannot be started, and then the tree never ends.
Deeper(m, o) ==
  LET c == query[m].conn IN
  \/ /\ free = {}
     /\ query' = Stepped(m)
     /\ UNCHANGED <<free, ctx, spoiled, undefined, stale>>
  \/ /\ \E k \in free : free' = free \ {k} /\ Starts(Stepped(m), k, Sent(o, c))
     /\ Up(c)
     /\ UNCHANGED spoiled
  \/ /\ free # {}
     /\ query' = Stepped(m)
     /\ Up(c) /\ spoiled' = spoiled \cup {c}
     /\ UNCHANGED <<free, undefined, stale>>

\* Faulty variant of BoxesRow: the new query is not counted.
BoxesRowUncounted(m) ==
  /\ Carries(m, {"boxes"}) /\ query[m].rows < MaxRows /\ ctx[query[m].conn] # None
  /\ \E k \in free :
       free' = free \ {k} /\ Starts(Stepped(m), k, Sent("phones", query[m].conn))
  /\ UNCHANGED <<ctx, busy, cms, spoiled>>

\* fstb_get and stb_get: the phones of a box.
BoxesRow(m) ==
  /\ Carries(m, {"boxes"}) /\ query[m].rows < MaxRows /\ ctx[query[m].conn] # None
  /\ Deeper(m, "phones")
  /\ UNCHANGED <<busy, cms>>

\* fphone_get and phone_get: the history, or the marks, of a phone.
PhonesRow(m) ==
  /\ Carries(m, {"phones"}) /\ query[m].rows < MaxRows /\ ctx[query[m].conn] # None
  /\ Deeper(m, "items")
  /\ UNCHANGED <<busy, cms>>

\* fphone_playhistory_get_work, phone_mark_get_work, ps_get_work and
\* mark_get_work: the row goes into the answer.
ItemsRow(m) ==
  /\ Carries(m, {"items", "hist"}) /\ query[m].rows < MaxRows
  /\ ctx[query[m].conn] # None
  /\ query' = Stepped(m)
  /\ UNCHANGED <<free, ctx, busy, cms, spoiled, undefined, stale>>

\* ps_get and mark_get: the rows of a box.
UsersRow(m) ==
  /\ Carries(m, {"users"}) /\ query[m].rows < MaxRows
  /\ ctx[query[m].conn] # None
  /\ \E k \in free :
       free' = free \ {k} /\ Starts(Stepped(m), k, Sent("hist", query[m].conn))
  /\ Up(query[m].conn)
  /\ UNCHANGED <<busy, cms, spoiled>>

\* ... without a connection, or with one that is forgotten because the query
\* cannot be started: m itself is returned, whose rows are still coming.
UsersRowFails(m) ==
  LET c == query[m].conn IN
  /\ Carries(m, {"users"}) /\ query[m].rows < MaxRows
  /\ ctx[c] # None
  /\ \/ /\ free = {}
        /\ free' = {m}
        /\ query' = Stepped(m)
        /\ UNCHANGED <<ctx, undefined, stale>>
     \/ /\ \E k \in free :
             free' = (free \ {k}) \cup {m} /\ Starts(Stepped(m), k, Lost("hist", c))
        /\ Up(c)
  /\ spoiled' = spoiled \cup {c}
  /\ UNCHANGED <<busy, cms>>

------------------------------------------------------------------------------
(* A query ends: the done and error callbacks                                 *)

\* Faulty variant of ThirdEnds: the context is destroyed with the first query.
ThirdEndsAtOnce(m) ==
  /\ Carries(m, Third) /\ ctx[query[m].conn] # None
  /\ Returned(m)
  /\ ctx' = [ctx EXCEPT ![query[m].conn] = None] /\ Answer(query[m].conn)
  /\ UNCHANGED <<cms, spoiled, undefined, stale>>

\* fstb_get_done, fphone_get_done, fphone_playhistory_get_done and those of the
\* marks
ThirdEnds(m) ==
  /\ Carries(m, Third) /\ ctx[query[m].conn] # None
  /\ Returned(m)
  /\ Down(query[m].conn, stale)
  /\ UNCHANGED <<cms, spoiled, undefined>>

\* third_error does the same, and stays set.
ThirdFails(m) ==
  /\ Carries(m, Third) /\ query[m].stage = "sent" /\ ctx[query[m].conn] # None
  /\ Returned(m)
  /\ Down(query[m].conn, Leaves(m, Holds("third_error", query[m].conn)))
  /\ UNCHANGED <<cms, spoiled, undefined>>

\* Faulty variant of UsersDone: the query that follows is not counted.
UsersDoneUncounted(m) ==
  LET c == query[m].conn IN
  /\ Carries(m, {"users"}) /\ ctx[c] # None
  /\ \E k \in free :
       /\ free' = (free \ {k}) \cup {m}
       /\ query' = [query EXCEPT ![m] = None, ![k] = Sent("hist", c)]
       /\ Down(c, [stale EXCEPT ![k] = None])
  /\ UNCHANGED <<cms, spoiled, undefined>>

\* stb_get_done and stb_get_done2: the rows of the user himself follow, when
\* there is a connection, before the query on m is counted off.
UsersDone(m) ==
  LET c == query[m].conn IN
  /\ Carries(m, {"users"}) /\ ctx[c] # None
  /\ \/ /\ free = {}
        /\ Returned(m)
        /\ Down(c, stale)
        /\ UNCHANGED undefined
     \/ /\ \E k \in free :
             /\ free' = (free \ {k}) \cup {m}
             /\ Starts([query EXCEPT ![m] = None], k, Sent("hist", c))
        /\ UNCHANGED <<ctx, busy>>
  /\ UNCHANGED <<cms, spoiled>>

\* ... or it is counted but cannot be started, and its connection is forgotten.
UsersDoneUnstarted(m) ==
  LET c == query[m].conn IN
  /\ Carries(m, {"users"}) /\ ctx[c] # None
  /\ \E k \in free :
       /\ free' = (free \ {k}) \cup {m}
       /\ Starts([query EXCEPT ![m] = None], k, Lost("hist", c))
  /\ spoiled' = spoiled \cup {c}
  /\ UNCHANGED <<ctx, busy, cms>>

\* Faulty variant of HistDone: the connection is returned with the answer only.
HistDoneKeeps(m) ==
  /\ Carries(m, {"hist"}) /\ ctx[query[m].conn] # None
  /\ Down(query[m].conn, stale)
  /\ query' = [query EXCEPT ![m] = None]
  /\ free' = IF ctx[query[m].conn] = 1 THEN free \cup {m} ELSE free
  /\ UNCHANGED <<cms, spoiled, undefined>>

\* ps_get_done and mark_get_done
HistDone(m) ==
  /\ Carries(m, {"hist"}) /\ ctx[query[m].conn] # None
  /\ Returned(m)
  /\ Down(query[m].conn, stale)
  /\ UNCHANGED <<cms, spoiled, undefined>>

\* get_error answers and destroys the context, whatever the count is.
StbFails(m) ==
  LET c == query[m].conn IN
  /\ Carries(m, OfStb) /\ query[m].stage = "sent" /\ ctx[c] # None
  /\ Returned(m)
  /\ ctx' = [ctx EXCEPT ![c] = None] /\ Answer(c)
  /\ stale' = Orphaned(Leaves(m, Dangling), c)
  /\ spoiled' = IF Refers(c) # {m} THEN spoiled \cup {c} ELSE spoiled
  /\ UNCHANGED <<cms, undefined>>

\* A callback of a query whose context is gone.
Dangles(m) ==
  /\ Carries(m, Third \cup OfStb) /\ ctx[query[m].conn] = None
  /\ undefined' = TRUE
  /\ UNCHANGED <<free, query, ctx, busy, cms, spoiled, stale>>

\* Faulty variant of WriteEnds: an error is not answered.
WriteEndsMute(m) ==
  /\ Carries(m, {"write"})
  /\ Returned(m)
  /\ UNCHANGED <<ctx, busy, cms, spoiled, undefined, stale>>

\* done_func, or error_func, which stays set.
WriteEnds(m) ==
  /\ Carries(m, {"write"})
  /\ Returned(m)
  /\ Answer(query[m].conn)
  /\ \/ UNCHANGED stale
     \/ stale' = Leaves(m, Holds("error_func", query[m].conn))
  /\ UNCHANGED <<ctx, cms, spoiled, undefined>>

\* free_mysql, also for an error: to return a connection again changes nothing.
InsertEnds(m) ==
  /\ Carries(m, {"insert"})
  /\ Returned(m)
  /\ UNCHANGED <<ctx, busy, cms, spoiled, undefined, stale>>

------------------------------------------------------------------------------
(* The database server closes the connection m at rest, whose last query       *)
(* failed: rns_mysql_query_cont finds the state QUERY and calls its error      *)
(* callback once more.                                                         *)

AtRest(m) == stale[m] # None /\ (query[m] # None => query[m].stage = "lost")

\* The context was destroyed by the first call, or by the queries that followed;
\* or the client of error_func has gone.
AgainFreed(m) ==
  /\ AtRest(m)
  /\ stale[m].conn = None \/ stale[m].error = "error_func"
  /\ undefined' = TRUE /\ again' = TRUE
  /\ UNCHANGED <<free, query, ctx, busy, cms, spoiled, stale>>

\* third_error takes a query off the count that was taken off before.
AgainCounted(m) ==
  /\ AtRest(m)
  /\ stale[m].conn # None /\ stale[m].error = "third_error"
  /\ Returned(m)
  /\ Down(stale[m].conn, [stale EXCEPT ![m] = None])
  /\ spoiled' = spoiled \cup {stale[m].conn} /\ again' = TRUE
  /\ UNCHANGED <<cms, undefined>>

\* error_func answers its client again, whatever it asks now.
AgainAnswered(m) ==
  /\ AtRest(m)
  /\ stale[m].conn # None /\ stale[m].error = "error_func"
  /\ Returned(m)
  /\ Answer(stale[m].conn)
  /\ stale' = [stale EXCEPT ![m] = None]
  /\ spoiled' = spoiled \cup {stale[m].conn} /\ again' = TRUE
  /\ UNCHANGED <<ctx, cms, undefined>>

------------------------------------------------------------------------------
\* The process ends and is started again.
Restart ==
  /\ free' = Mysqls
  /\ query' = [m \in Mysqls |-> None]
  /\ ctx' = [c \in Conns |-> None]
  /\ busy' = {} /\ cms' = 0 /\ spoiled' = {} /\ undefined' = FALSE
  /\ stale' = [m \in Mysqls |-> None] /\ again' = FALSE

Asks(c) ==
  \/ ThirdGet(c) \/ PoolMute(c) \/ SwitchIgnored(c) \/ StbGet(c) \/ StbUnstarted(c) \/ CmsAway(c)
  \/ Write(c) \/ WriteUnstarted(c)

Row(m) == BoxesRow(m) \/ PhonesRow(m) \/ ItemsRow(m) \/ UsersRow(m) \/ UsersRowFails(m)

Ends(m) ==
  \/ ThirdEnds(m) \/ ThirdFails(m) \/ UsersDone(m) \/ UsersDoneUnstarted(m) \/ HistDone(m)
  \/ StbFails(m) \/ Dangles(m) \/ WriteEnds(m) \/ InsertEnds(m)

Closed(m) == AgainFreed(m) \/ AgainCounted(m) \/ AgainAnswered(m)

Next ==
  \/ /\ ~undefined
     /\ \/ /\ \/ \E c \in Conns : Asks(c)
              \/ \E m \in Mysqls : Row(m) \/ Ends(m)
              \/ CmsResp
           /\ UNCHANGED again
        \/ \E m \in Mysqls : Closed(m)
  \/ Restart

Spec == Init /\ [][Next]_vars

\* The database gives the rows of a query, or fails it, and it ends.
FairSpec == Spec /\ \A m \in Mysqls : WF_vars(~undefined /\ Ends(m) /\ UNCHANGED again)

------------------------------------------------------------------------------
(* Properties.  Nothing is said of an undefined state, but when it comes.     *)

\* The count of a context is the number of queries that will still use it: the
\* rows that start queries and the queries that end never miscount, in any
\* order, as long as every query of the tree could be started.
Counted == ~undefined => \A c \in Conns \ spoiled :
  IF ctx[c] = None THEN Refers(c) = {} ELSE ctx[c] = Cardinality(Refers(c))

\* The trees of /third count also when queries cannot be started or fail: a
\* callback of theirs never finds its context destroyed, as long as none is
\* called again.
ThirdPinned == ~undefined /\ ~again => \A m \in Mysqls :
  Carries(m, Third) => ctx[query[m].conn] # None

\* A client waits exactly as long as its tree has a context or its one query is
\* under way: it is answered with the last query, and not before.
Owned == ~undefined => \A c \in Conns \ spoiled :
  /\ c \in busy <=> ctx[c] # None \/ Writes(c) # {}
  /\ Writes(c) # {} => ctx[c] = None /\ \E m \in Mysqls : Writes(c) = {m}

\* A connection is in the pool exactly when it carries no query, except the one
\* of a tree of /stb that met an empty pool.
PoolKept == ~undefined => \A m \in Mysqls :
  /\ query[m] = None => m \in free
  /\ m \in free /\ query[m] # None => query[m].op = "users" /\ query[m].conn \in spoiled

\* Memory is used after it was freed, or a connection used twice, only while a
\* client is spoiled (its request met a failure, an empty pool or no CMS), or
\* because a connection was closed whose last query had failed.
StaysDefined == undefined => spoiled # {} \/ again

\* Without requests to the CMS, that is of /stb: the trees of /third and the
\* writes use no freed context and no connection twice, whatever fails, until
\* the server closes a connection whose last query had failed.
AloneDefined == MaxCms = 0 => (undefined => again)

\* Who waits is answered, or was given up on a path that the code does not
\* answer.
Answered == \A c \in Conns : c \in busy ~> c \notin busy \/ c \in spoiled \/ undefined

\* What a callback relies on when it looks at its context: the count, the
\* context itself and the client behind it.
TreesSound == TypeOK /\ Counted /\ ThirdPinned /\ Owned
===============================================================================
