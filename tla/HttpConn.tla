------------------------------- MODULE HttpConn -------------------------------
(****************************************************************************)
(* One server connection of rns_http.c, from accept to close, at the grain   *)
(* of its system calls: read_func and write_func are run piecewise (pc), so  *)
(* that the peer and the kernel act between two recv or send calls.  A       *)
(* request is two segments of bytes; an answer is a header task, perhaps a   *)
(* body task, and the task rns_hconn_resp queues behind them.                *)
(*                                                                          *)
(* A partly written buffer is put back at the head of the list like one that *)
(* met EAGAIN; here the buffer that meets EAGAIN is written in one piece     *)
(* when the socket has room again.                                          *)
(****************************************************************************)
EXTENDS Integers, Sequences, SequencesExt

CONSTANTS Window   \* requests the client has under way; 1: it waits for each answer

ASSUME WindowAssumption == Window \in Nat \ {0}

VARIABLES
  alive,    \* the rns_hconn_t is allocated and in the epoll set
  phase,    \* hconn->phase
  destroy,  \* hconn->destroy
  gate,     \* hconn->write
  got,      \* read_info of tune[0]: 0 INIT, 1 part of a request, 2 DONE
  buf,      \* segments in hconn->buf not parsed yet
  tasks,    \* hconn->tasks
  due,      \* 1 when hconn->timer is due
  owes,     \* handler calls the application has not answered
  pc,       \* where the loop is: "loop", or in read_func or write_func
  back,     \* where a nested write_func returns to
  size,     \* write_func's size: the result of the last send
  peer,     \* the peer's side: "open", "fin" or "reset"
  pend,     \* requests the peer began and has no answer to
  half,     \* the peer has sent one segment of two
  inbox,    \* segments in the socket's receive buffer
  full,     \* the send buffer is full
  evIn, evOut  \* edges epoll has to report

connVars == <<alive, phase, destroy, gate, due>>
readVars == <<got, buf>>
pcVars   == <<pc, back, size>>
peerVars == <<peer, pend, half, inbox>>
vars == <<connVars, readVars, tasks, owes, pcVars, peerVars, full, evIn, evOut>>

Answers == {<<"header", "resp">>, <<"header", "body", "resp">>}

TypeOK ==
  /\ alive \in BOOLEAN /\ half \in BOOLEAN
  /\ full \in BOOLEAN /\ evIn \in BOOLEAN /\ evOut \in BOOLEAN
  /\ phase \in {0, 1} /\ destroy \in {0, 1} /\ gate \in {0, 1} /\ due \in {0, 1}
  /\ got \in 0..2 /\ buf \in Nat /\ inbox \in Nat /\ owes \in Nat
  /\ pend \in 0..Window
  /\ tasks \in Seq({"header", "body", "resp"})
  /\ pc \in {"loop", "read", "parse", "exec", "rest", "write"}
  /\ back \in {"loop", "rest"}
  /\ size \in {"ok", "fail"}
  /\ peer \in {"open", "fin", "reset"}

Init ==
  /\ alive = FALSE /\ phase = 0 /\ destroy = 0 /\ gate = 0 /\ due = 0
  /\ got = 0 /\ buf = 0 /\ tasks = <<>> /\ owes = 0
  /\ pc = "loop" /\ back = "loop" /\ size = "ok"
  /\ peer = "open" /\ pend = 0 /\ half = FALSE /\ inbox = 0
  /\ full = FALSE /\ evIn = FALSE /\ evOut = FALSE

------------------------------------------------------------------------------
(* The connection is made and unmade *)

\* accept_func: calloc leaves every field 0; the socket is new.
Accept ==
  /\ pc = "loop" /\ ~alive
  /\ alive' = TRUE /\ phase' = 0 /\ destroy' = 0 /\ gate' = 0 /\ due' = 0
  /\ got' = 0 /\ buf' = 0 /\ tasks' = <<>> /\ owes' = 0
  /\ peer' = "open" /\ pend' = 0 /\ half' = FALSE /\ inbox' = 0
  /\ full' = FALSE /\ evIn' = FALSE /\ evOut' = TRUE
  /\ UNCHANGED pcVars

\* rns_hconn_destroy when phase is 0: the tasks, the timer, the descriptor and
\* the memory are freed.
Free ==
  /\ alive' = FALSE /\ phase' = 0 /\ destroy' = 0 /\ gate' = 0 /\ due' = 0
  /\ tasks' = <<>> /\ owes' = 0
  /\ got' = 0 /\ buf' = 0 /\ evIn' = FALSE /\ evOut' = FALSE

\* Faulty variant of Destroy: the phase is not looked at.
DestroyAtOnce == Free

\* rns_hconn_destroy: put off while a request is outstanding.
Destroy ==
  IF phase = 1
    THEN /\ destroy' = 1
         /\ UNCHANGED <<alive, phase, gate, due, tasks, owes, readVars, evIn, evOut>>
    ELSE Free

\* rns_hconn_secure, run by the timer
Secure ==
  /\ pc = "loop" /\ alive /\ due = 1
  /\ Free
  /\ UNCHANGED <<pcVars, peerVars, full>>

\* Time passes while epoll_wait sleeps.
TimePasses ==
  /\ pc = "loop" /\ alive /\ due = 0
  /\ due' = 1
  /\ UNCHANGED <<alive, phase, destroy, gate, readVars, tasks, owes, pcVars, peerVars,
                 full, evIn, evOut>>

------------------------------------------------------------------------------
(* The peer and the kernel *)

\* The client sends a segment: half of a request.
PeerSends ==
  /\ alive /\ peer = "open"
  /\ half \/ pend < Window
  /\ half' = ~half
  /\ pend' = IF half THEN pend ELSE pend + 1
  /\ inbox' = inbox + 1
  /\ evIn' = TRUE
  /\ UNCHANGED <<connVars, readVars, tasks, owes, pcVars, peer, full, evOut>>

\* The client closes its side, or the connection is reset.
PeerLeaves ==
  /\ alive /\ peer # "reset"
  /\ peer' \in {"fin", "reset"} \ {peer}
  /\ evIn' = TRUE
  /\ inbox' = IF peer' = "reset" THEN 0 ELSE inbox
  /\ UNCHANGED <<connVars, readVars, tasks, owes, pcVars, pend, half, full, evOut>>

\* The peer has taken bytes: the send buffer has room again.
Drain ==
  /\ alive /\ full
  /\ full' = FALSE
  /\ evOut' = TRUE
  /\ UNCHANGED <<connVars, readVars, tasks, owes, pcVars, peerVars, evIn>>

\* rns_epoll_wait reports the connection: EPOLLIN goes to read_func, and
\* EPOLLOUT to write_func only when there is no EPOLLIN with it.
Wakeup ==
  /\ pc = "loop" /\ alive
  /\ evIn \/ evOut
  /\ IF evIn THEN pc' = "read" /\ UNCHANGED <<back, size>>
             ELSE pc' = "write" /\ back' = "loop" /\ size' = "ok"
  /\ evIn' = FALSE /\ evOut' = FALSE
  /\ UNCHANGED <<connVars, readVars, tasks, owes, peerVars, full>>

------------------------------------------------------------------------------
(* read_func *)

\* write_func is called, and returns to r.
CallWrite(r) == pc' = "write" /\ back' = r /\ size' = "ok"

\* recv gives bytes.
ReadBytes ==
  /\ pc = "read" /\ inbox > 0
  /\ buf' = buf + inbox
  /\ inbox' = 0
  /\ pc' = "parse"
  /\ UNCHANGED <<connVars, got, tasks, owes, back, size, peer, pend, half, full, evIn, evOut>>

\* Faulty variant of ReadAgain: gate is opened, but nobody writes.
ReadAgainWaits ==
  /\ pc = "read" /\ inbox = 0 /\ peer = "open"
  /\ gate' = IF got = 2 THEN 1 ELSE gate
  /\ buf' = IF got = 2 THEN 0 ELSE buf
  /\ pc' = "loop"
  /\ UNCHANGED <<alive, phase, destroy, due, got, tasks, owes, back, size, peerVars,
                 full, evIn, evOut>>

\* recv gives EAGAIN: after a complete request writing is enabled and tried.
ReadAgain ==
  /\ pc = "read" /\ inbox = 0 /\ peer = "open"
  /\ IF got = 2
       THEN /\ buf' = 0
            /\ gate' = 1
            /\ CallWrite("loop")
       ELSE /\ pc' = "loop"
            /\ UNCHANGED <<buf, gate, back, size>>
  /\ UNCHANGED <<alive, phase, destroy, due, got, tasks, owes, peerVars, full, evIn, evOut>>

\* recv gives 0 or an error.
ReadEnd ==
  /\ pc = "read" /\ inbox = 0 /\ peer # "open"
  /\ pc' = "loop"
  /\ Destroy
  /\ UNCHANGED <<back, size, peerVars, full>>

\* rns_http_info_read: a state DONE consumes nothing.
Parse ==
  /\ pc = "parse"
  /\ LET n == IF buf < 2 - got THEN buf ELSE 2 - got
     IN  /\ got' = got + n
         /\ buf' = buf - n
  /\ pc' = IF got' = 2 THEN "exec" ELSE "read"
  /\ UNCHANGED <<connVars, tasks, owes, back, size, peerVars, full, evIn, evOut>>

\* rns_hconn_resp2: the answer is queued; it is written at once if gate is open.
Queued(a) == tasks' = tasks \o a

\* The timer is delayed and the handler called.  It answers, or keeps the
\* connection for a later callback.
Exec ==
  /\ pc = "exec"
  /\ due' = 0
  /\ phase' = 1
  /\ \/ /\ owes' = owes + 1
        /\ pc' = "rest"
        /\ UNCHANGED <<tasks, back, size>>
     \/ /\ \E a \in Answers : Queued(a)
        /\ IF gate = 1 THEN CallWrite("rest") ELSE pc' = "rest" /\ UNCHANGED <<back, size>>
        /\ UNCHANGED owes
  /\ UNCHANGED <<alive, destroy, gate, readVars, peerVars, full, evIn, evOut>>

\* After the handler: what is left in the buffer is parsed as a new request.
Rest ==
  /\ pc = "rest"
  /\ IF buf = 0
       THEN pc' = "read" /\ UNCHANGED got
       ELSE pc' = "parse" /\ got' = 0
  /\ UNCHANGED <<connVars, buf, tasks, owes, back, size, peerVars, full, evIn, evOut>>

------------------------------------------------------------------------------
(* The application answers from a later callback (a timer, another socket) *)

AppAnswers ==
  /\ pc = "loop" /\ alive /\ owes > 0
  /\ owes' = owes - 1
  /\ \E a \in Answers : Queued(a)
  /\ IF gate = 1 THEN CallWrite("loop") ELSE UNCHANGED pcVars
  /\ UNCHANGED <<connVars, readVars, peerVars, full, evIn, evOut>>

------------------------------------------------------------------------------
(* write_func: one task of the list *)

Sending == pc = "write" /\ tasks # <<>> /\ Head(tasks) # "resp"

WriteNone ==
  /\ pc = "write" /\ tasks = <<>>
  /\ pc' = back
  /\ UNCHANGED <<connVars, readVars, tasks, owes, back, size, peerVars, full, evIn, evOut>>

\* The task's bytes are sent; the send buffer may be full after that.
WriteSent ==
  /\ Sending /\ ~full /\ peer # "reset"
  /\ tasks' = Tail(tasks)
  /\ size' = "ok"
  /\ full' \in BOOLEAN
  /\ UNCHANGED <<connVars, readVars, owes, pc, back, peerVars, evIn, evOut>>

\* send gives EAGAIN: the task is put back, to be tried at the next EPOLLOUT.
WriteAgain ==
  /\ Sending /\ full /\ peer # "reset"
  /\ pc' = back
  /\ UNCHANGED <<connVars, readVars, tasks, owes, back, size, peerVars, full, evIn, evOut>>

\* send fails: the task is dropped.
WriteFails ==
  /\ Sending /\ peer = "reset"
  /\ tasks' = Tail(tasks)
  /\ size' = "fail"
  /\ UNCHANGED <<connVars, readVars, owes, pc, back, peerVars, full, evIn, evOut>>

\* The task of rns_hconn_resp has no work, so that size is still the result of
\* the task before it.  After a failure it is dropped ...
RespDropped ==
  /\ pc = "write" /\ tasks # <<>> /\ Head(tasks) = "resp" /\ size = "fail"
  /\ tasks' = Tail(tasks)
  /\ UNCHANGED <<connVars, readVars, owes, pcVars, peerVars, full, evIn, evOut>>

\* Faulty variants of RespDone: the task stays in the list, gate stays open, or
\* read_info is not made ready for the next request.
RespDoneKeepsTask ==
  /\ pc = "write" /\ tasks # <<>> /\ Head(tasks) = "resp" /\ size = "ok"
  /\ pc' = back /\ pend' = pend - 1
  /\ phase' = 0 /\ gate' = 0 /\ got' = 0
  /\ UNCHANGED <<alive, destroy, due, buf, tasks, owes, back, size, peer, half, inbox,
                 full, evIn, evOut>>

RespDoneKeepsGate ==
  /\ pc = "write" /\ tasks # <<>> /\ Head(tasks) = "resp" /\ size = "ok"
  /\ pc' = back /\ pend' = pend - 1
  /\ \/ Free
     \/ /\ phase' = 0 /\ got' = 0 /\ tasks' = Tail(tasks)
        /\ UNCHANGED <<alive, destroy, gate, due, buf, owes, evIn, evOut>>
  /\ UNCHANGED <<back, size, peer, half, inbox, full>>

RespDoneKeepsInfo ==
  /\ pc = "write" /\ tasks # <<>> /\ Head(tasks) = "resp" /\ size = "ok"
  /\ pc' = back /\ pend' = pend - 1
  /\ phase' = 0 /\ gate' = 0 /\ tasks' = Tail(tasks)
  /\ UNCHANGED <<alive, destroy, due, got, buf, owes, back, size, peer, half, inbox,
                 full, evIn, evOut>>

\* ... and otherwise rns_hconn_resp_done ends the phase and rns_hconn_resp_close
\* destroys the connection or makes it ready for the next request.
RespDone ==
  /\ pc = "write" /\ tasks # <<>> /\ Head(tasks) = "resp" /\ size = "ok"
  /\ pc' = back
  /\ pend' = pend - 1
  /\ \/ Free
     \/ /\ destroy = 0
        /\ phase' = 0 /\ gate' = 0 /\ got' = 0
        /\ tasks' = Tail(tasks)
        /\ UNCHANGED <<alive, destroy, due, buf, owes, evIn, evOut>>
  /\ UNCHANGED <<back, size, peer, half, inbox, full>>

Next ==
  \/ Accept \/ Secure \/ TimePasses
  \/ PeerSends \/ PeerLeaves \/ Drain \/ Wakeup
  \/ ReadBytes \/ ReadAgain \/ ReadEnd \/ Parse \/ Exec \/ Rest
  \/ AppAnswers
  \/ WriteNone \/ WriteSent \/ WriteAgain \/ WriteFails \/ RespDropped \/ RespDone

Spec == Init /\ [][Next]_vars

\* The loop runs: it goes on with what it is at, and takes what epoll reports.
\* The peer reads what it is sent.
Running == Wakeup \/ ReadBytes \/ ReadAgain \/ ReadEnd \/ Parse \/ Exec \/ Rest
             \/ WriteNone \/ WriteSent \/ WriteAgain \/ WriteFails \/ RespDropped \/ RespDone

FairSpec == Spec /\ WF_vars(Running) /\ WF_vars(Drain)

------------------------------------------------------------------------------
(* Properties *)

\* The connection as the code above rns_http.c may see it.
Life ==
  CASE ~alive -> "free"
    [] alive /\ phase = 0 -> "idle"
    [] alive /\ phase = 1 /\ Contains(tasks, "resp") -> "flush"
    [] alive /\ phase = 1 /\ ~Contains(tasks, "resp") /\ owes > 0 -> "busy"
    [] OTHER -> "stuck"

Abstract == INSTANCE ConnLife WITH life <- Life, gone <- destroy

\* rns_http.c keeps the promise of ConnLife for a client that waits for its
\* answers: whatever the peer, the kernel and the timer do, a connection with a
\* request outstanding is freed by its timer only, and one whose peer left is
\* never used for another request.
LivesAsPromised == Abstract!Spec

\* An idle connection is clean: nothing of the last request is left that would
\* be taken for a part of the next one (rns_hconn_resp_close, rns_htune_destroy).
CleanWhenIdle == pc = "loop" /\ alive /\ phase = 0 =>
  /\ tasks = <<>> /\ owes = 0
  /\ gate = 0 /\ got < 2 /\ buf = 0

\* read_func and write_func never go on with a connection that a callback under
\* them has freed.
NoUseAfterFree == pc # "loop" => alive

\* Each request reaches the handler once and gets one answer: the calls not yet
\* answered and the answers not yet written never exceed what the peer waits for.
OneAnswerEach == owes + Cardinality({i \in DOMAIN tasks : tasks[i] = "resp"}) <= pend

\* An answer that was queued is written while the peer stays, without the help
\* of the expiry timer, although an EPOLLOUT that comes with an EPOLLIN is
\* dropped and gate is closed until read_func has met EAGAIN.
AnswerWritten == Life = "flush" ~> (Life # "flush" \/ peer # "open")

\* Requests of one connection do not see each other, nor freed memory.
RequestsApart == TypeOK /\ CleanWhenIdle /\ NoUseAfterFree /\ OneAnswerEach
===============================================================================
