------------------------------ MODULE HttpWrite ------------------------------
(****************************************************************************)
(* The answers of a connection of rns_http.c on their way out: the tasks that *)
(* rns_hconn_resp2 and rns_http_download queue, and write_func, one action    *)
(* for each call of a task's work function.  A send or sendfile may take any   *)
(* part of what is left.  HttpConn has the reading side and the events.       *)
(****************************************************************************)
EXTENDS Integers, Sequences, SequencesExt

CONSTANTS
  Answers,   \* answers the program gives, in this order: 1, 2, ...
  Lengths    \* possible lengths of a header, a body or a file

\* Answers that there are, of any lengths
Bounds == Answers \in Nat /\ Lengths \subseteq Nat

Parts == {"header", "body", "file"}
Task(p, n, k) == [part |-> p, answer |-> n, left |-> k]
RespTask(n) == Task("resp", n, 0)

VARIABLES
  tasks,     \* hconn->tasks
  running,   \* write_func is in its loop
  size,      \* the result of the last work: "none", "ok" or "fail"
  promised,  \* the pieces attached so far, one entry for each unit of data
  wire,      \* the pieces the kernel has taken
  fp,        \* of each answer's file: "none", "open", "closed", or "leaked"
  ended,     \* answers whose resp task ran its done and close callbacks
  spoiled,   \* answers with a failed send or a file that ended early
  alive,     \* the connection has not been destroyed
  next       \* the next answer

vars == <<tasks, running, size, promised, wire, fp, ended, spoiled, alive, next>>

Init ==
  /\ tasks = <<>> /\ running = FALSE /\ size = "none"
  /\ promised = <<>> /\ wire = <<>>
  /\ fp = [n \in 1 .. Answers |-> "none"]
  /\ ended = {} /\ spoiled = {} /\ alive = TRUE /\ next = 1

Units(p, n, k) == [i \in 1 .. k |-> <<p, n>>]

------------------------------------------------------------------------------
(* The program *)

\* What an answer consists of: rns_hconn_resp_header, perhaps with
\* rns_http_attach_buffer or rns_http_download behind it
Header(n, k) == Task("header", n, k)
Body(n, k) == Task("body", n, k)
File(n, k) == Task("file", n, k)

\* An answer is given in one callback, and ends with rns_hconn_resp.
Respond ==
  /\ alive /\ ~running /\ next <= Answers
  /\ \E h \in Lengths :
       \/ /\ tasks' = tasks \o <<Header(next, h), RespTask(next)>>
          /\ promised' = promised \o Units("header", next, h)
          /\ UNCHANGED fp
       \/ \E k \in Lengths : \E t \in {Body(next, k), File(next, k)} :
          /\ tasks' = tasks \o <<Header(next, h), t, RespTask(next)>>
          /\ promised' = promised \o Units("header", next, h) \o Units(t.part, next, k)
          /\ fp' = IF t.part = "file" THEN [fp EXCEPT ![next] = "open"] ELSE fp
  /\ next' = next + 1
  /\ UNCHANGED <<running, size, wire, ended, spoiled, alive>>

\* rns_hconn_destroy, from the expiry timer or the end of the peer: the tasks
\* have no clean callback, so that an open file stays open.
Destroy ==
  /\ alive /\ ~running
  /\ alive' = FALSE
  /\ tasks' = <<>>
  /\ fp' = [n \in 1 .. Answers |-> IF fp[n] = "open" THEN "leaked" ELSE fp[n]]
  /\ UNCHANGED <<running, size, promised, wire, ended, spoiled, next>>

------------------------------------------------------------------------------
(* write_func *)

\* EPOLLOUT, or a call from read_func or rns_hconn_resp
Start ==
  /\ alive /\ ~running /\ tasks # <<>>
  /\ running' = TRUE
  /\ size' = "none"
  /\ UNCHANGED <<tasks, promised, wire, fp, ended, spoiled, alive, next>>

\* rns_list_first, of a task that has data
Working(t) == running /\ tasks # <<>> /\ t = Head(tasks) /\ t.part # "resp"
PutBack(t) == tasks' = <<t>> \o Tail(tasks)

\* The done and error callbacks of a file close it.
Closed(t) == fp' = IF t.part = "file" THEN [fp EXCEPT ![t.answer] = "closed"] ELSE fp

\* Faulty variant of Sent: the task goes to the end of the list.
SentLast(t) ==
  /\ Working(t) /\ t.left > 0
  /\ \E k \in 1 .. t.left :
       /\ wire' = wire \o Units(t.part, t.answer, k)
       /\ tasks' = Append(Tail(tasks), [t EXCEPT !.left = @ - k])
  /\ size' = "ok"
  /\ UNCHANGED <<running, promised, fp, ended, spoiled, alive, next>>

\* rns_http_send_buffer_work, file_download_work: part of it is taken.
Sent(t) ==
  /\ Working(t) /\ t.left > 0
  /\ \E k \in 1 .. t.left :
       /\ wire' = wire \o Units(t.part, t.answer, k)
       /\ PutBack([t EXCEPT !.left = @ - k])
  /\ size' = "ok"
  /\ UNCHANGED <<running, promised, fp, ended, spoiled, alive, next>>

\* EAGAIN: the rest is kept for the next EPOLLOUT.
Again(t) ==
  /\ Working(t) /\ t.left > 0
  /\ running' = FALSE
  /\ UNCHANGED <<tasks, size, promised, wire, fp, ended, spoiled, alive, next>>

\* The send fails: the error callback frees the buffer or closes the file.
Fails(t) ==
  /\ Working(t) /\ t.left > 0
  /\ tasks' = Tail(tasks)
  /\ size' = "fail"
  /\ Closed(t)
  /\ spoiled' = spoiled \cup {t.answer}
  /\ UNCHANGED <<running, promised, wire, ended, alive, next>>

\* Faulty variant of Finished: the done callback does not close the file.
FinishedOpen(t) ==
  /\ Working(t) /\ t.left = 0
  /\ tasks' = Tail(tasks)
  /\ size' = "ok"
  /\ UNCHANGED <<running, promised, wire, fp, ended, spoiled, alive, next>>

\* Nothing is left: the done callback.
Finished(t) ==
  /\ Working(t) /\ t.left = 0
  /\ tasks' = Tail(tasks)
  /\ size' = "ok"
  /\ Closed(t)
  /\ UNCHANGED <<running, promised, wire, ended, spoiled, alive, next>>

\* sendfile gives 0 at the end of a file that has become shorter: done is called.
FileEnds(t) ==
  /\ Working(t) /\ t.part = "file" /\ t.left > 0
  /\ tasks' = Tail(tasks)
  /\ size' = "ok"
  /\ Closed(t)
  /\ spoiled' = spoiled \cup {t.answer}
  /\ UNCHANGED <<running, promised, wire, ended, alive, next>>

\* The task of rns_hconn_resp has no work, and size is what the one before left:
\* after a failure it is dropped, otherwise its callbacks are called, and the
\* loop is left for rns_hconn_resp_close may have freed the connection.
Resp ==
  /\ running /\ tasks # <<>> /\ Head(tasks).part = "resp"
  /\ IF size = "fail"
       THEN /\ tasks' = Tail(tasks)
            /\ UNCHANGED <<running, ended, fp, alive>>
       ELSE /\ ended' = ended \cup {Head(tasks).answer}
            /\ running' = FALSE
            /\ \/ tasks' = Tail(tasks) /\ UNCHANGED <<fp, alive>>
               \/ /\ alive' = FALSE /\ tasks' = <<>>
                  /\ fp' = [n \in 1 .. Answers |-> IF fp[n] = "open" THEN "leaked" ELSE fp[n]]
  /\ UNCHANGED <<size, promised, wire, spoiled, next>>

\* The list is empty.
Return ==
  /\ running /\ tasks = <<>>
  /\ running' = FALSE
  /\ UNCHANGED <<tasks, size, promised, wire, fp, ended, spoiled, alive, next>>

Work(t) == Sent(t) \/ Again(t) \/ Fails(t) \/ Finished(t) \/ FileEnds(t)

Next ==
  \/ Respond \/ Destroy \/ Start \/ Resp \/ Return
  \/ tasks # <<>> /\ Work(Head(tasks))

Spec == Init /\ [][Next]_vars

------------------------------------------------------------------------------
(* Properties *)

\* Until a send fails or a file turns out shorter than it was announced, the
\* bytes on the wire are those attached, in the order they were attached, none
\* twice: a part taken by the kernel is never sent again, and a later task never
\* overtakes one that met EAGAIN.
InOrder == spoiled = {} => IsPrefix(wire, promised)

\* An answer ends, which makes the connection ready for the next request, only
\* when all its bytes are on the wire, unless one of its parts was spoiled.
Count(s, u) == Cardinality({i \in DOMAIN s : s[i] = u})
EndsWritten == \A n \in ended \ spoiled, p \in Parts : Count(wire, <<p, n>>) = Count(promised, <<p, n>>)

\* A file is open exactly as long as a task has it, however its task ends;
\* only the files of a destroyed connection stay open for good.
FilesClosed == \A n \in 1 .. Answers :
  (fp[n] = "open") <=> \E i \in DOMAIN tasks : tasks[i].part = "file" /\ tasks[i].answer = n
===============================================================================
