------------------------------ MODULE HttpClient ------------------------------
(****************************************************************************)
(* The client side of rns_http.c: a pool of connections to one server        *)
(* (rns_httpclient_create), requests that take a connection from it          *)
(* (rns_hconn_get), and read_func, which calls the request's callbacks and    *)
(* puts the connection back when recv meets EAGAIN after a complete answer.   *)
(* An action is one system call of a callback, so that the server acts        *)
(* between a handler and the EAGAIN behind it.                               *)
(*                                                                          *)
(* An answer is read in one piece (HttpParse has the pieces).  Connections    *)
(* of the pool keep a descriptor: rns_hconn_open is only reached with fd < 0,  *)
(* which no connection of the list has.                                      *)
(****************************************************************************)
EXTENDS Integers, Sequences, FiniteSets, SequencesExt

CONSTANTS
  Conns,    \* rns_hconn_t objects
  Reqs,     \* requests of the program
  Told,     \* requests with close and error callbacks (yms_live.c)
  Freeing,  \* requests whose done callback frees the connection (rtl.c)
  Num,      \* connections made by rns_httpclient_create
  None

ASSUME NoneAssumption == None \notin Conns \cup Reqs
ASSUME ReqsAssumption == Told \subseteq Reqs /\ Freeing \subseteq Reqs
ASSUME NumAssumption  == Num \in Nat

VARIABLES
  pool,   \* http->hconns, first to last
  live,   \* connections that are allocated and in the epoll set
  cb,     \* tune[1].cb.data: the request the callbacks belong to
  got,    \* the answer in tune[1].read_info is DONE, EAGAIN not met yet:
          \* "no", "keep" or "close", after its Connection header
  cur,    \* the connection whose read_func is running, or None
  out,    \* tasks not written yet
  wire,   \* requests the server has to answer, in order
  ans,    \* answers on their way
  peer,   \* the server's side: "open", "fin" or "reset"
  asked,  \* requests the program has made
  work,   \* calls of cb.work
  lost,   \* calls of cb.close and cb.error
  from,   \* whose answer the calls of cb.work delivered
  undefined  \* read_func went on with freed memory

userVars == <<asked, work, lost, from>>
connVars == <<pool, live, cb, got>>
netVars  == <<out, wire, ans, peer>>
vars == <<connVars, cur, netVars, userVars, undefined>>

Answers == [req : Reqs, conn : {"keep", "close"}]

TypeOK ==
  /\ pool \in Seq(Conns) /\ live \subseteq Conns
  /\ cb \in [Conns -> Reqs \cup {None}]
  /\ got \in [Conns -> {"no", "keep", "close"}]
  /\ cur \in live \cup {None}
  /\ out \in [Conns -> Seq(Reqs)]
  /\ wire \in [Conns -> Seq(Reqs)]
  /\ ans \in [Conns -> Seq(Answers)]
  /\ peer \in [Conns -> {"open", "fin", "reset"}]
  /\ asked \subseteq Reqs
  /\ work \in [Reqs -> Nat] /\ lost \in [Reqs -> Nat]
  /\ from \in [Reqs -> SUBSET Reqs]
  /\ undefined \in BOOLEAN

\* rns_httpclient_create: Num connections, of which some may fail.
Init ==
  /\ \E n \in 0 .. Num : pool \in [1 .. n -> Conns] /\ IsInjective(pool)
  /\ live = ToSet(pool)
  /\ cb = [c \in Conns |-> None] /\ got = [c \in Conns |-> "no"]
  /\ cur = None
  /\ out = [c \in Conns |-> <<>>] /\ wire = out /\ ans = out
  /\ peer = [c \in Conns |-> "open"]
  /\ asked = {} /\ work = [r \in Reqs |-> 0] /\ lost = work
  /\ from = [r \in Reqs |-> {}]
  /\ undefined = FALSE

------------------------------------------------------------------------------
(* Requests: from the loop's other callbacks, or under cb.work of an answer *)

\* rns_htune_init of tune[1]: an answer of before is forgotten.
Tuned(r, c) ==
  /\ cb' = [cb EXCEPT ![c] = r]
  /\ got' = [got EXCEPT ![c] = "no"]

\* The header, with the body behind it, is attached to the connection's tasks.
HeaderAttached(r, c) == out' = [out EXCEPT ![c] = Append(@, r)]

\* rns_hconn_req or rns_hconn_req2, on a connection that rns_hconn_get gave
Sent(r, c) ==
  /\ asked' = asked \cup {r}
  /\ Tuned(r, c)
  /\ HeaderAttached(r, c)
  /\ UNCHANGED <<cur, wire, ans, work, lost, from, undefined>>

\* Faulty variant of GetPooled: the connection stays in the list.
GetPooledShares(r) ==
  /\ ~undefined /\ r \notin asked /\ pool # <<>>
  /\ Sent(r, Head(pool))
  /\ UNCHANGED <<pool, live, peer>>

\* rns_hconn_get: the first connection of the list
GetPooled(r) ==
  /\ ~undefined /\ r \notin asked /\ pool # <<>>
  /\ pool' = Tail(pool)
  /\ Sent(r, Head(pool))
  /\ UNCHANGED <<live, peer>>

\* rns_hconn_get with an empty list: rns_hconn_create
GetCreated(r) ==
  /\ ~undefined /\ r \notin asked /\ pool = <<>>
  /\ \E c \in Conns \ live :
       /\ live' = live \cup {c}
       /\ peer' = [peer EXCEPT ![c] = "open"]
       /\ Sent(r, c)
  /\ UNCHANGED pool

\* rns_hconn_create fails: rns_hconn_get returns NULL.
GetFails(r) ==
  /\ ~undefined /\ r \notin asked /\ pool = <<>>
  /\ asked' = asked \cup {r}
  /\ UNCHANGED <<connVars, cur, netVars, work, lost, from, undefined>>

\* Faulty variant of Write: nothing is written after EAGAIN.
WriteNever(c) == FALSE /\ UNCHANGED vars

\* write_func, under rns_hconn_req or at EPOLLOUT; a request to a server that
\* has closed is lost with what the socket discards.
Write(c) ==
  /\ ~undefined /\ c \in live /\ out[c] # <<>> /\ cur = None
  /\ wire' = [wire EXCEPT ![c] = IF peer[c] = "open" THEN @ \o out[c] ELSE @]
  /\ out' = [out EXCEPT ![c] = <<>>]
  /\ UNCHANGED <<connVars, cur, ans, peer, userVars, undefined>>

------------------------------------------------------------------------------
(* The server *)

\* Requests are answered in order.
ServerAnswers(c) ==
  /\ ~undefined /\ c \in live /\ wire[c] # <<>> /\ peer[c] = "open"
  /\ \E k \in {"keep", "close"} :
       ans' = [ans EXCEPT ![c] = Append(@, [req |-> Head(wire[c]), conn |-> k])]
  /\ wire' = [wire EXCEPT ![c] = Tail(@)]
  /\ UNCHANGED <<connVars, cur, out, peer, userVars, undefined>>

\* The server closes or resets the connection, or it could not be made.
ServerLeaves(c) ==
  /\ ~undefined /\ c \in live /\ peer[c] = "open"
  /\ \/ peer' = [peer EXCEPT ![c] = "fin"] /\ UNCHANGED ans
     \/ peer' = [peer EXCEPT ![c] = "reset"] /\ ans' = [ans EXCEPT ![c] = <<>>]
  /\ wire' = [wire EXCEPT ![c] = <<>>]
  /\ UNCHANGED <<connVars, cur, out, userVars, undefined>>

------------------------------------------------------------------------------
(* read_func *)

Reading(c) == ~undefined /\ c \in live /\ cur \in {None, c}

\* rns_hconn_free: nothing is done for a connection that is in the list.
Returned(c) == IF Contains(pool, c) THEN pool ELSE Append(pool, c)

\* Faulty variant of ReadAnswer: the state DONE runs the handler again.
ReadAnswerTwice(c) ==
  /\ Reading(c) /\ ans[c] # <<>>
  /\ LET a == Head(ans[c])  r == cb[c]
     IN  /\ cur' = c
         /\ got' = [got EXCEPT ![c] = a.conn]
         /\ ans' = [ans EXCEPT ![c] = IF got[c] = "no" THEN @ ELSE Tail(@)]
         /\ work' = IF r = None THEN work ELSE [work EXCEPT ![r] = @ + 1]
         /\ from' = IF r = None THEN from ELSE [from EXCEPT ![r] = @ \cup {a.req}]
         /\ pool' = IF r \in Freeing THEN Returned(c) ELSE pool
  /\ UNCHANGED <<live, cb, out, wire, peer, asked, lost, undefined>>

\* A complete answer is read: cb.work and cb.done are called.
ReadAnswer(c) ==
  /\ Reading(c) /\ ans[c] # <<>>
  /\ LET a == Head(ans[c])  r == cb[c]
     IN  /\ cur' = c
         /\ got' = [got EXCEPT ![c] = a.conn]
         /\ ans' = [ans EXCEPT ![c] = Tail(@)]
         /\ work' = IF r = None THEN work ELSE [work EXCEPT ![r] = @ + 1]
         /\ from' = IF r = None THEN from ELSE [from EXCEPT ![r] = @ \cup {a.req}]
         /\ pool' = IF r \in Freeing THEN Returned(c) ELSE pool
  /\ UNCHANGED <<live, cb, out, wire, peer, asked, lost, undefined>>

\* rns_hconn_destroy: the connection leaves the list and is freed.
Destroyed(c) ==
  /\ live' = live \ {c}
  /\ pool' = RemoveFirst(pool, c)
  /\ cb' = [cb EXCEPT ![c] = None]
  /\ got' = [got EXCEPT ![c] = "no"]
  /\ out' = [out EXCEPT ![c] = <<>>]
  /\ wire' = [wire EXCEPT ![c] = <<>>]
  /\ ans' = [ans EXCEPT ![c] = <<>>]

\* Faulty variant of ReadAgain: rns_hconn_free is forgotten.
ReadAgainKeeps(c) ==
  /\ Reading(c) /\ cur = c /\ ans[c] = <<>> /\ peer[c] = "open" /\ got[c] # "close"
  /\ cur' = None
  /\ got' = [got EXCEPT ![c] = "no"]
  /\ UNCHANGED <<pool, live, cb, netVars, userVars, undefined>>

\* recv gives EAGAIN: after an answer, rns_hconn_req_done puts the connection
\* back.  When the answer says close it destroys it, and read_func then sets
\* write and calls write_func in the freed memory.
ReadAgain(c) ==
  /\ Reading(c) /\ cur = c /\ ans[c] = <<>> /\ peer[c] = "open"
  /\ cur' = None
  /\ \/ /\ got[c] = "keep"
        /\ pool' = Returned(c)
        /\ got' = [got EXCEPT ![c] = "no"]
        /\ UNCHANGED <<live, cb, netVars, undefined>>
     \/ /\ got[c] = "close"
        /\ Destroyed(c)
        /\ undefined' = TRUE
        /\ UNCHANGED peer
     \/ /\ got[c] = "no"
        /\ UNCHANGED <<connVars, netVars, undefined>>
  /\ UNCHANGED userVars

\* Faulty variant of ReadEnd: read_func goes on (e is not set).
ReadEndGoesOn(c) ==
  /\ Reading(c) /\ ans[c] = <<>> /\ peer[c] # "open"
  /\ cur' = c
  /\ LET r == cb[c]
     IN  lost' = IF r \in Told THEN [lost EXCEPT ![r] = @ + 1] ELSE lost
  /\ Destroyed(c)
  /\ UNCHANGED <<peer, asked, work, from, undefined>>

\* recv gives 0 or an error: cb.close or cb.error, then rns_hconn_destroy.
ReadEnd(c) ==
  /\ Reading(c) /\ ans[c] = <<>> /\ peer[c] # "open"
  /\ cur' = None
  /\ LET r == cb[c]
     IN  lost' = IF r \in Told THEN [lost EXCEPT ![r] = @ + 1] ELSE lost
  /\ Destroyed(c)
  /\ UNCHANGED <<peer, asked, work, from, undefined>>

Get(r) == GetPooled(r) \/ GetCreated(r) \/ GetFails(r)
Server(c) == ServerAnswers(c) \/ ServerLeaves(c)
Read(c) == ReadAnswer(c) \/ ReadAgain(c) \/ ReadEnd(c)

Next ==
  \/ \E r \in Reqs : Get(r)
  \/ \E c \in Conns : Write(c) \/ Server(c) \/ Read(c)

Spec == Init /\ [][Next]_vars

\* The loop runs what epoll reports, and the server answers what it has.
FairSpec ==
  /\ Spec
  /\ \A c \in Conns : WF_vars(Write(c)) /\ WF_vars(ServerAnswers(c)) /\ WF_vars(Read(c))

------------------------------------------------------------------------------
(* Properties *)

\* An answer reaches the request it belongs to: a connection is not lent again
\* while an earlier request on it may still be answered, although rtl.c frees
\* it in the middle of read_func and requests are made there.
AnswerMatches == \A r \in Reqs : from[r] \subseteq {r}

\* The connections of the list are alive, in it once, and nothing is on its way
\* to or from them.
PoolSound ==
  /\ \A i, j \in DOMAIN pool : pool[i] = pool[j] => i = j
  /\ \A i \in DOMAIN pool :
       LET c == pool[i]
       IN  c \in live /\ out[c] = <<>> /\ wire[c] = <<>> /\ ans[c] = <<>>

\* No connection is forgotten: outside read_func one that is not in the list
\* has a request under way or an end to be noticed.
NoneForgotten == cur = None =>
  \A c \in live : Contains(pool, c) \/ peer[c] # "open"
                    \/ out[c] # <<>> \/ wire[c] # <<>> \/ ans[c] # <<>>

Request(r) == INSTANCE Request WITH work <- work[r], lost <- lost[r]

\* Every request lives as Request promises: cb.work at most once, and not after
\* cb.close or cb.error, which the next lender of the connection may get.
LivesAsPromised ==
  /\ \A r \in Reqs : Request(r)!Init
  /\ [][\A r \in Reqs : [Request(r)!Next]_<<work[r], lost[r]>>]_vars

\* A request is answered, or its connection ends: cb does not refer to an
\* unanswered request for ever.
Settled == \A r \in Reqs :
  r \in asked ~> (work[r] > 0 \/ undefined \/ \A c \in live : cb[c] # r)

\* The connections of the pool and those in use are apart, and each answer
\* reaches its request.
PoolSafe == TypeOK /\ AnswerMatches /\ PoolSound /\ NoneForgotten
===============================================================================
