------------------------------- MODULE EventLoop -------------------------------
(****************************************************************************)
(* rns_epoll_wait of rns_epoll.c with its tree of timers, under the users     *)
(* that the programs give it: server connections of rns_http.c with their     *)
(* expiry, the held poll and the keep-alive of the TRS, client connections    *)
(* and the listening socket.  A callback may answer, and so free, another     *)
(* connection than the one whose event it handles.                          *)
(*                                                                          *)
(* Timers are kept in the order of the tree ep->t: by time, and equal times   *)
(* in the order of insertion.  Times are counted down to 0, so that lateness  *)
(* has no bound.  epoll_wait may return 0 once the first timer is due.        *)
(****************************************************************************)
EXTENDS Integers, Sequences, FiniteSets, SequencesExt

CONSTANTS
  Conns,    \* rns_hconn_t objects of the server
  Links,    \* rns_hconn_t objects of the client pool to the FOSS
  Ids,      \* addresses of rns_cbs_t objects, the ids of timers
  Fds,      \* descriptors the process may open for Conns and Links
  Expire,   \* http->expire
  Hold,     \* 20 s of stb_screen
  Interval, \* trs->interval
  MaxBacklog, \* bound on clients that wait to be accepted
  None

Listen == "listen"
Objects == Conns \cup Links \cup {Listen}

ASSUME NamesAssumption ==
  /\ IsFiniteSet(Conns) /\ IsFiniteSet(Links) /\ Conns \cap Links = {}
  /\ None \notin Conns \cup Ids /\ {Listen, "hold", "keep"} \cap (Conns \cup Links) = {}
ASSUME TimesAssumption ==
  /\ Hold \in Nat \ {0} /\ Expire \in Nat /\ Expire > Hold /\ Interval \in Nat \ {0}
  /\ MaxBacklog \in Nat
ASSUME IdsAssumption == Cardinality(Ids) >= Cardinality(Conns) + 2
ASSUME FdsAssumption == Fds \in Nat /\ Cardinality(Links) >= Fds /\ Cardinality(Conns) >= Fds

VARIABLES
  pc,      \* "wait" in epoll_wait, "timers" or "batch"
  batch,   \* events left of the batch: [of, on]
  ready,   \* edges the kernel will report
  timers,  \* ep->t from first to last: [id, of, left, due]
  conn,    \* hconn fields, by connection
  link,    \* client connections: "none", "idle" in the pool or "busy"
  held,    \* the hconn in stb->screenctx, or None
  holdId,  \* stb->timer
  keepId,  \* trs->timer
  backlog, \* clients in the queue of the listening socket
  run,     \* what the callback that runs has still to do
  cut,     \* a callback freed a connection with an event behind in the batch
  stray,   \* a timer id was used for somebody else's timer
  undefined \* an event was delivered to freed memory

loopVars == <<pc, batch, timers, run>>
vars == <<pc, batch, ready, timers, conn, link, held, holdId, keepId, backlog,
          run, cut, stray, undefined>>

Free == [open |-> FALSE, phase |-> 0, destroy |-> 0, write |-> 0, task |-> FALSE,
         sent |-> None, left |-> FALSE, timer |-> None]
Used == {timers[i].id : i \in DOMAIN timers}
Open == {c \in Conns : conn[c].open}
FdsUsed == Cardinality(Open) + Cardinality({l \in Links : link[l] # "none"})
Timer(id, of, delay) == [id |-> id, of |-> of, left |-> delay, due |-> FALSE]

------------------------------------------------------------------------------
(* Timers *)

\* rns_timer_add: behind the timers that end no later
Added(q, tm) ==
  InsertAt(q, Cardinality({i \in DOMAIN q : q[i].left <= tm.left}) + 1, tm)

\* rns_timer_delete: an id that is not in the tree is ignored.
Deleted(q, id) ==
  IF \E i \in DOMAIN q : q[i].id = id
    THEN RemoveAt(q, CHOOSE i \in DOMAIN q : q[i].id = id)
    ELSE q

\* rns_timer_delay
Delayed(q, id, delay) ==
  IF \E i \in DOMAIN q : q[i].id = id
    THEN LET tm == q[CHOOSE i \in DOMAIN q : q[i].id = id]
         IN Added(Deleted(q, id), Timer(id, tm.of, delay))
    ELSE q

\* Whether a holder that takes id for its own would hit another's timer
Foreign(id, of) == \E i \in DOMAIN timers : timers[i].id = id /\ timers[i].of # of

Init ==
  /\ pc = "wait" /\ batch = <<>> /\ run = <<>>
  /\ ready = [o \in Objects |-> {}]
  /\ conn = [c \in Conns |-> Free]
  /\ link = [l \in Links |-> "none"]
  /\ held = None /\ holdId = None
  /\ \E id \in Ids : keepId = id /\ timers = <<Timer(id, "keep", Interval)>>
  /\ backlog = 0
  /\ cut = FALSE /\ stray = FALSE /\ undefined = FALSE

------------------------------------------------------------------------------
(* Connections *)

\* Faulty variant of Freed: rns_hconn_close forgets the timer.
FreedKeepsTimer(c) ==
  /\ conn' = [conn EXCEPT ![c] = Free]
  /\ ready' = [ready EXCEPT ![c] = {}]
  /\ cut' = (cut \/ \E i \in DOMAIN batch : batch[i].of = c)
  /\ UNCHANGED <<timers, stray>>

\* rns_hconn_destroy with phase 0: the socket leaves the epoll set, and the
\* timer goes; events of this batch that were already reported stay.
Freed(c) ==
  /\ conn' = [conn EXCEPT ![c] = Free]
  /\ timers' = Deleted(timers, conn[c].timer)
  /\ stray' = (stray \/ Foreign(conn[c].timer, c))
  /\ ready' = [ready EXCEPT ![c] = {}]
  /\ cut' = (cut \/ \E i \in DOMAIN batch : batch[i].of = c)

\* rns_hconn_destroy: put off while a request is outstanding
Destroyed(c) ==
  IF conn[c].phase = 1
    THEN /\ conn' = [conn EXCEPT ![c].destroy = 1]
         /\ UNCHANGED <<timers, stray, ready, cut>>
    ELSE Freed(c)

\* write_func with an answer: rns_hconn_resp_done, rns_hconn_resp_close
Finished(c) ==
  \/ Freed(c)                     \* "Connection: close", or no such header
  \/ /\ conn[c].destroy = 0
     /\ conn' = [conn EXCEPT ![c].phase = 0, ![c].write = 0, ![c].task = FALSE]
     /\ UNCHANGED <<timers, stray, ready, cut>>

------------------------------------------------------------------------------
(* The loop: rns_epoll_wait *)

\* epoll_wait reports edges, in any order.
WaitEvents ==
  /\ pc = "wait" /\ ~undefined
  /\ LET S == {o \in Objects : ready[o] # {}}
     IN /\ S # {}
        /\ \E order \in SetToSeqs(S) :
             batch' = [i \in DOMAIN order |-> [of |-> order[i], on |-> ready[order[i]]]]
  /\ ready' = [o \in Objects |-> {}]
  /\ pc' = "batch"
  /\ UNCHANGED <<timers, conn, link, held, holdId, keepId, backlog, run, cut, stray, undefined>>

\* epoll_wait reports nothing: the timers that are due now will run.
WaitNothing ==
  /\ pc = "wait" /\ ~undefined
  /\ \A o \in Objects : ready[o] = {}
  /\ timers # <<>> /\ timers[1].left = 0
  /\ timers' = [i \in DOMAIN timers |->
                 [timers[i] EXCEPT !.due = (timers[i].left = 0)]]
  /\ pc' = "timers"
  /\ UNCHANGED <<batch, ready, conn, link, held, holdId, keepId, backlog, run, cut, stray, undefined>>

\* Both inner loops are through.
Again ==
  /\ ~undefined /\ run = <<>>
  /\ \/ pc = "timers" /\ (timers = <<>> \/ ~timers[1].due)
     \/ pc = "batch" /\ batch = <<>>
  /\ pc' = "wait"
  /\ UNCHANGED <<batch, ready, timers, conn, link, held, holdId, keepId, backlog, run, cut, stray, undefined>>

Turn(of) ==
  /\ pc = "timers" /\ run = <<>> /\ ~undefined
  /\ timers # <<>> /\ timers[1].due /\ timers[1].of = of

\* rns_hconn_secure: the connection expires whatever it waits for.
Secure(c) ==
  /\ Turn(c)
  /\ IF conn[c].open
       THEN Freed(c) /\ UNCHANGED undefined
       ELSE undefined' = TRUE /\ UNCHANGED <<timers, conn, stray, ready, cut>>
  /\ UNCHANGED <<pc, batch, link, held, holdId, keepId, backlog, run>>

\* Faulty variant of HoldTimeout: it returns before rns_timer_delete.
HoldTimeoutReturns ==
  /\ Turn("hold")
  /\ UNCHANGED vars

\* Faulty variant of HoldTimeout: stb->timer and stb->screenctx stay.
HoldTimeoutKeepsId ==
  /\ Turn("hold")
  /\ timers' = Deleted(timers, holdId)
  /\ run' = <<[do |-> "answer", to |-> held]>>
  /\ UNCHANGED <<pc, batch, ready, conn, link, held, holdId, keepId, backlog, cut, stray, undefined>>

\* stb_screen_resp
HoldTimeout ==
  /\ Turn("hold")
  /\ timers' = Deleted(timers, holdId)
  /\ stray' = (stray \/ Foreign(holdId, "hold"))
  /\ holdId' = None /\ held' = None
  /\ run' = <<[do |-> "answer", to |-> held]>>
  /\ UNCHANGED <<pc, batch, ready, conn, link, keepId, backlog, cut, undefined>>

\* foss_keepavlie: rns_hconn_get takes a connection of the pool or makes one.
KeepAlive ==
  /\ Turn("keep")
  /\ \E l \in Links :
       /\ \/ link[l] = "idle"
          \/ /\ \A k \in Links : link[k] # "idle"
             /\ link[l] = "none" /\ FdsUsed < Fds
       /\ link' = [link EXCEPT ![l] = "busy"]
  /\ timers' = Delayed(timers, keepId, Interval)
  /\ stray' = (stray \/ Foreign(keepId, "keep"))
  /\ UNCHANGED <<pc, batch, ready, conn, held, holdId, keepId, backlog, run, cut, undefined>>

\* foss_keepavlie gets no connection: the timer stays first, and due.
KeepAliveFails ==
  /\ Turn("keep")
  /\ \A l \in Links : link[l] # "idle"
  /\ UNCHANGED vars

------------------------------------------------------------------------------
(* Events *)

Event(o) == pc = "batch" /\ run = <<>> /\ ~undefined /\ batch # <<>> /\ Head(batch).of = o
On == Head(batch).on

\* ecb->read or ecb->write of memory that a callback before has freed
Stale(c) ==
  /\ Event(c) /\ ~conn[c].open
  /\ undefined' = TRUE
  /\ UNCHANGED <<pc, batch, ready, timers, conn, link, held, holdId, keepId, backlog, run, cut, stray>>

\* read_func: a request is executed; the expiry is delayed.  What follows is
\* left to run: an answer to a held poll, the own answer, then recv again.
Exec(c) ==
  /\ Event(c) /\ conn[c].open /\ "in" \in On
  /\ conn[c].sent # None /\ conn[c].phase = 0
  /\ batch' = Tail(batch)
  /\ conn' = [conn EXCEPT ![c].phase = 1, ![c].sent = None]
  /\ LET q == Delayed(timers, conn[c].timer, Expire)
         again == <<[do |-> "recv", to |-> c]>>
         own == <<[do |-> "answer", to |-> c]>>
     IN \/ /\ conn[c].sent = "poll" /\ holdId = None        \* stb_screen
           /\ \E id \in Ids \ Used :
                /\ holdId' = id /\ held' = c
                /\ timers' = Added(q, Timer(id, "hold", Hold))
           /\ run' = again
        \/ /\ conn[c].sent = "poll" /\ holdId # None
           /\ timers' = q /\ run' = again
           /\ UNCHANGED <<held, holdId>>
        \/ /\ conn[c].sent = "command"
           /\ IF holdId = None
                THEN /\ timers' = q /\ run' = own \o again
                     /\ UNCHANGED <<held, holdId>>
                ELSE /\ timers' = Deleted(q, holdId)
                     /\ run' = <<[do |-> "answer", to |-> held]>> \o own \o again
                     /\ held' = None /\ holdId' = None
  /\ stray' = (stray \/ Foreign(conn[c].timer, c) \/ Foreign(holdId, "hold"))
  /\ UNCHANGED <<pc, ready, link, keepId, backlog, cut, undefined>>

\* read_func with nothing, or an end, to read
ReadEnd(c) ==
  /\ Event(c) /\ conn[c].open /\ "in" \in On
  /\ conn[c].sent = None \/ conn[c].phase = 1
  /\ batch' = Tail(batch)
  /\ IF conn[c].left
       THEN /\ conn' = [conn EXCEPT ![c].destroy = 1]
            /\ run' = <<[do |-> "close", to |-> c]>>
       ELSE UNCHANGED <<conn, run>>
  /\ UNCHANGED <<pc, ready, timers, link, held, holdId, keepId, backlog, cut, stray, undefined>>

\* write_func: an answer that was not written is.
Writable(c) ==
  /\ Event(c) /\ conn[c].open /\ "in" \notin On
  /\ batch' = Tail(batch)
  /\ run' = IF conn[c].task THEN <<[do |-> "write", to |-> c]>> ELSE <<>>
  /\ UNCHANGED <<pc, ready, timers, conn, link, held, holdId, keepId, backlog, cut, stray, undefined>>

Doing(what) == run # <<>> /\ ~undefined /\ Head(run).do = what

\* rns_hconn_resp2: written at once if writing is enabled
AppAnswers ==
  /\ Doing("answer")
  /\ LET c == Head(run).to
     IN IF ~conn[c].open
          THEN /\ undefined' = TRUE /\ run' = <<>>
               /\ UNCHANGED conn
          ELSE /\ conn' = [conn EXCEPT ![c].task = TRUE]
               /\ run' = IF conn[c].write = 1
                           THEN <<[do |-> "write", to |-> c]>> \o Tail(run)
                           ELSE Tail(run)
               /\ UNCHANGED undefined
  /\ UNCHANGED <<pc, batch, ready, timers, link, held, holdId, keepId, backlog, cut, stray>>

\* recv meets the end, or EAGAIN, which enables writing.
RecvAgain ==
  /\ Doing("recv")
  /\ LET c == Head(run).to
     IN IF conn[c].left
          THEN /\ run' = <<[do |-> "close", to |-> c]>> \o Tail(run)
               /\ UNCHANGED conn
          ELSE /\ conn' = [conn EXCEPT ![c].write = 1]
               /\ run' = IF conn[c].task
                           THEN <<[do |-> "write", to |-> c]>> \o Tail(run)
                           ELSE Tail(run)
  /\ UNCHANGED <<pc, batch, ready, timers, link, held, holdId, keepId, backlog, cut, stray, undefined>>

Close ==
  /\ Doing("close")
  /\ Destroyed(Head(run).to)
  /\ run' = Tail(run)
  /\ UNCHANGED <<pc, batch, link, held, holdId, keepId, backlog, undefined>>

Write ==
  /\ Doing("write")
  /\ Finished(Head(run).to)
  /\ run' = Tail(run)
  /\ UNCHANGED <<pc, batch, link, held, holdId, keepId, backlog, undefined>>

\* Faulty variant of Accept: it does not see that nobody waits any more.
AcceptAlways ==
  /\ Event(Listen)
  /\ \/ /\ FdsUsed < Fds
        /\ \E c \in Conns \ Open, id \in Ids \ Used :
             /\ conn' = [conn EXCEPT ![c] = [Free EXCEPT !.open = TRUE, !.timer = id]]
             /\ timers' = Added(timers, Timer(id, c, Expire))
        /\ backlog' = backlog - 1
        /\ UNCHANGED batch
     \/ /\ batch' = Tail(batch)
        /\ UNCHANGED <<conn, timers, backlog>>
  /\ UNCHANGED <<pc, ready, link, held, holdId, keepId, run, cut, stray, undefined>>

\* accept_func takes all that wait, or stops when descriptors run out.
Accept ==
  /\ Event(Listen)
  /\ IF backlog > 0 /\ FdsUsed < Fds
       THEN /\ \E c \in Conns \ Open, id \in Ids \ Used :
                 /\ conn' = [conn EXCEPT ![c] = [Free EXCEPT !.open = TRUE, !.timer = id]]
                 /\ timers' = Added(timers, Timer(id, c, Expire))
            /\ backlog' = backlog - 1
            /\ UNCHANGED batch
       ELSE /\ batch' = Tail(batch)
            /\ UNCHANGED <<conn, timers, backlog>>
  /\ UNCHANGED <<pc, ready, link, held, holdId, keepId, run, cut, stray, undefined>>

\* read_func of a client connection: the answer, or the end
LinkRead(l) ==
  /\ Event(l)
  /\ batch' = Tail(batch)
  /\ \/ link[l] = "busy" /\ link' = [link EXCEPT ![l] = "idle"]
     \/ link[l] # "none" /\ link' = [link EXCEPT ![l] = "none"]
  /\ UNCHANGED <<pc, ready, timers, conn, held, holdId, keepId, backlog, run, cut, stray, undefined>>

------------------------------------------------------------------------------
(* The world.  What comes while a callback runs is seen when the loop is back *)
(* in epoll_wait, or by the recv that read_func goes on with.               *)

Now == pc = "wait" /\ ~undefined

Tick ==
  /\ Now /\ \E i \in DOMAIN timers : timers[i].left > 0
  /\ timers' = [i \in DOMAIN timers |->
                 [timers[i] EXCEPT !.left = IF @ = 0 THEN 0 ELSE @ - 1]]
  /\ UNCHANGED <<pc, batch, ready, conn, link, held, holdId, keepId, backlog, run, cut, stray, undefined>>

PeerConnects ==
  /\ Now /\ backlog < MaxBacklog
  /\ backlog' = backlog + 1
  /\ ready' = [ready EXCEPT ![Listen] = {"in"}]
  /\ UNCHANGED <<pc, batch, timers, conn, link, held, holdId, keepId, run, cut, stray, undefined>>

PeerActs(c) ==
  /\ Now \/ (Doing("recv") /\ Head(run).to = c)
  /\ conn[c].open /\ ~conn[c].left
  /\ \/ /\ conn[c].phase = 0 /\ conn[c].sent = None
        /\ \E what \in {"poll", "command"} : conn' = [conn EXCEPT ![c].sent = what]
        /\ ready' = [ready EXCEPT ![c] = @ \cup {"in"}]
     \/ /\ conn' = [conn EXCEPT ![c].left = TRUE]
        /\ ready' = [ready EXCEPT ![c] = @ \cup {"in"}]
     \/ /\ conn[c].task           \* the send buffer has drained
        /\ ready' = [ready EXCEPT ![c] = @ \cup {"out"}]
        /\ UNCHANGED conn
  /\ UNCHANGED <<pc, batch, timers, link, held, holdId, keepId, backlog, run, cut, stray, undefined>>

LinkActs(l) ==
  /\ Now /\ link[l] # "none"
  /\ ready' = [ready EXCEPT ![l] = {"in"}]
  /\ UNCHANGED <<pc, batch, timers, conn, link, held, holdId, keepId, backlog, run, cut, stray, undefined>>

ConnStep(c) == Secure(c) \/ Stale(c) \/ Exec(c) \/ ReadEnd(c) \/ Writable(c)
Callback == AppAnswers \/ RecvAgain \/ Close \/ Write
Loop ==
  \/ WaitEvents \/ WaitNothing \/ Again
  \/ HoldTimeout \/ KeepAlive \/ KeepAliveFails
  \/ Callback \/ Accept
  \/ \E c \in Conns : ConnStep(c)
  \/ \E l \in Links : LinkRead(l)
World ==
  \/ Tick \/ PeerConnects
  \/ \E c \in Conns : PeerActs(c)
  \/ \E l \in Links : LinkActs(l)
Next == Loop \/ World

Spec == Init /\ [][Next]_vars

\* The loop runs and time passes; rns_hconn_get does not fail for ever while
\* descriptors are left.  Nothing is assumed of the peers.
FairSpec == Spec /\ WF_vars(Loop) /\ WF_vars(KeepAlive) /\ WF_vars(Tick)

------------------------------------------------------------------------------
(* Properties *)

TypeOK ==
  /\ pc \in {"wait", "timers", "batch"}
  /\ batch \in Seq([of : Objects, on : SUBSET {"in", "out"}])
  /\ ready \in [Objects -> SUBSET {"in", "out"}]
  /\ timers \in Seq([id : Ids, of : Conns \cup {"hold", "keep"},
                     left : Nat, due : BOOLEAN])
  /\ conn \in [Conns -> [open : BOOLEAN, phase : 0 .. 1, destroy : 0 .. 1, write : 0 .. 1,
                         task : BOOLEAN, sent : {None, "poll", "command"},
                         left : BOOLEAN, timer : Ids \cup {None}]]
  /\ link \in [Links -> {"none", "idle", "busy"}]
  /\ held \in Conns \cup {None} /\ holdId \in Ids \cup {None} /\ keepId \in Ids
  /\ backlog \in 0 .. MaxBacklog
  /\ run \in Seq([do : {"answer", "recv", "write", "close"}, to : Conns])
  /\ cut \in BOOLEAN /\ stray \in BOOLEAN /\ undefined \in BOOLEAN

\* Every timer of the tree belongs to one live holder that knows its id, and
\* every open connection has one: a connection cannot be freed and leave a
\* timer that would call rns_hconn_secure on it.
OwnTimers ==
  /\ \A i, j \in DOMAIN timers : timers[i].id = timers[j].id => i = j
  /\ \A i \in DOMAIN timers :
       \/ timers[i].of = "keep" /\ keepId = timers[i].id
       \/ timers[i].of = "hold" /\ holdId = timers[i].id /\ held # None
       \/ timers[i].of \in Open /\ conn[timers[i].of].timer = timers[i].id
  /\ \A c \in Open : conn[c].timer \in Used
  /\ keepId \in Used /\ (holdId # None => holdId \in Used)

\* The ids are addresses that malloc gives again: no holder deletes or delays
\* a timer that has become somebody else's.
NoStrayId == ~stray

\* Callbacks go through freed memory in one way only: a callback freed a
\* connection whose event was behind in the same batch of epoll_wait.
StaleOnlyInBatch == undefined => cut

\* foss_keepavlie runs again and again for want of a descriptor, which nobody
\* can give back meanwhile.
Spins ==
  /\ pc = "timers" /\ timers # <<>> /\ timers[1].of = "keep"
  /\ FdsUsed >= Fds /\ \A l \in Links : link[l] # "idle"

\* The loop comes back to epoll_wait for ever, unless foss_keepavlie spins or
\* freed memory was used.
LoopTurns == []<>(pc = "wait") \/ <>[]Spins \/ <>undefined

\* A timer that is due runs, unless edges keep coming: the loop looks at the
\* timers only when epoll_wait reports nothing.
DueRuns ==
  \/ \A id \in Ids : []<>(\A i \in DOMAIN timers : timers[i].id = id => timers[i].left > 0)
  \/ []<>(\E o \in Objects : ready[o] # {})
  \/ <>[]Spins
  \/ <>undefined

\* Timers and events belong to what they were made for, but for events left in
\* a batch.
TimersOwned == TypeOK /\ OwnTimers /\ NoStrayId /\ StaleOnlyInBatch
==============================================================================
