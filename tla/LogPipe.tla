-------------------------------- MODULE LogPipe --------------------------------
(****************************************************************************)
(* rns_log.c over rns_pipe.c: rns_log writes a size and then a line into a    *)
(* non-blocking pipe of the process's own; do_log, which the event loop calls  *)
(* for the reading end, reads a size and then as many bytes, and appends them  *)
(* to the log file.  Both run in one thread: a callback that logs much fills   *)
(* the pipe before the loop can drain it.                                   *)
(*                                                                          *)
(* A cell is one size field, or one unit of a line.  What do_log takes for a   *)
(* size while it is out of step is arbitrary.  Lines longer than write_buf     *)
(* (10240 bytes), whose size rns_log gets wrong, are left out.               *)
(****************************************************************************)
EXTENDS Integers, Sequences, FiniteSets, SequencesExt

CONSTANTS
  Lengths,   \* lengths of the lines
  Cap,       \* cells the pipe holds
  PipeBuf,   \* writes up to this length are all or nothing
  MaxLines   \* bound on the lines that are logged

\* A line is not empty, and write_buf is smaller than a pipe.
Bounds == Cap \in Nat /\ PipeBuf \in Nat /\ MaxLines \in Nat /\ Lengths \subseteq 1 .. Cap

VARIABLES
  pipe,    \* cells on their way
  logged,  \* lines logged so far, which number them
  header,  \* the line whose size is written and whose text is not yet, or 0
  size,    \* size of do_log, read but its bytes not; 0 otherwise
  of,      \* the line that size belongs to, or 0 if do_log is out of step
  reading, \* do_log is running
  edge,    \* the loop will call do_log
  torn,    \* since the pipe was last empty a write failed behind its size
  failed,  \* the last run of do_log ended because the file took nothing
  file,    \* what do_log wrote: lines, or 0 for anything else
  bad      \* something else was written although no write had failed

vars == <<pipe, logged, header, size, of, reading, edge, torn, failed, file, bad>>

Sizes == {[kind |-> "size", line |-> i, n |-> n] : i \in 1 .. MaxLines, n \in Lengths}
Units == {[kind |-> "text", line |-> i, n |-> n] : i \in 1 .. MaxLines, n \in 1 .. Cap}

Init ==
  /\ pipe = <<>> /\ logged = 0 /\ header = 0 /\ size = 0 /\ of = 0
  /\ reading = FALSE /\ edge = FALSE /\ torn = FALSE /\ failed = FALSE
  /\ file = <<>> /\ bad = FALSE

Room == Cap - Len(pipe)
Text(i, n) == [k \in 1 .. n |-> [kind |-> "text", line |-> i, n |-> n - k + 1]]

\* rns_log: the size.  Without room the line is dropped as a whole.
LogSize ==
  /\ header = 0 /\ ~reading /\ logged < MaxLines
  /\ logged' = logged + 1
  /\ IF Room > 0
       THEN \E n \in Lengths :
              /\ pipe' = Append(pipe, [kind |-> "size", line |-> logged + 1, n |-> n])
              /\ header' = n
              /\ edge' = TRUE
       ELSE UNCHANGED <<pipe, header, edge>>
  /\ UNCHANGED <<size, of, reading, torn, failed, file, bad>>

\* Faulty variant of LogText: a failing write is taken to be no loss.
LogTextSilent ==
  /\ header > 0 /\ ~reading
  /\ header' = 0
  /\ pipe' = IF Room >= header THEN pipe \o Text(logged, header) ELSE pipe
  /\ UNCHANGED <<logged, size, of, reading, edge, torn, failed, file, bad>>

\* rns_log: the line.  A long one may be written in part, and nobody looks.
LogText ==
  /\ header > 0 /\ ~reading
  /\ header' = 0
  /\ \/ /\ Room >= header
        /\ pipe' = pipe \o Text(logged, header) /\ torn' = torn
     \/ /\ Room < header /\ header <= PipeBuf
        /\ torn' = TRUE /\ pipe' = pipe
     \/ /\ Room < header /\ header > PipeBuf
        /\ torn' = TRUE /\ pipe' = pipe \o SubSeq(Text(logged, header), 1, Room)
  /\ edge' = TRUE
  /\ UNCHANGED <<logged, size, of, reading, failed, file, bad>>

\* The loop calls do_log, between two callbacks and so between two lines.
Called ==
  /\ edge /\ ~reading /\ header = 0
  /\ edge' = FALSE /\ reading' = TRUE /\ failed' = FALSE
  /\ UNCHANGED <<pipe, logged, header, size, of, torn, file, bad>>

\* do_log reads a size, from whatever is next.
ReadSize ==
  /\ reading /\ size = 0 /\ pipe # <<>>
  /\ pipe' = Tail(pipe)
  /\ LET c == Head(pipe)
     IN \/ /\ c.kind = "size"
           /\ size' = c.n /\ of' = c.line /\ reading' = TRUE
        \/ /\ c.kind = "text"
           /\ \E n \in 0 .. Cap :          \* a size of 0 ends do_log
                size' = n /\ reading' = (n > 0)
           /\ of' = 0
  /\ UNCHANGED <<logged, header, edge, torn, failed, file, bad>>

\* What do_log gets when it reads the text of size bytes
Got == SubSeq(pipe, 1, IF size < Len(pipe) THEN size ELSE Len(pipe))

\* The line whose text q is, or 0
LineOf(q) ==
  IF of # 0 /\ Len(q) = size /\ \A k \in 1 .. Len(q) :
       q[k].kind = "text" /\ q[k].line = of /\ q[k].n = Len(q) - k + 1
    THEN of ELSE 0

\* Faulty variant of ReadText: do_log returns after one line.
ReadTextOnce ==
  /\ reading /\ size > 0 /\ pipe # <<>>
  /\ pipe' = SubSeq(pipe, Len(Got) + 1, Len(pipe))
  /\ file' = Append(file, LineOf(Got))
  /\ bad' = (bad \/ (LineOf(Got) = 0 /\ ~torn))
  /\ size' = 0 /\ of' = 0 /\ reading' = FALSE
  /\ UNCHANGED <<logged, header, edge, torn, failed>>

\* do_log reads up to size bytes and writes size bytes to the file, which takes them, or
\* a part of them, or none: then do_log returns, whatever is left in the pipe.
ReadText ==
  /\ reading /\ size > 0 /\ pipe # <<>>
  /\ pipe' = SubSeq(pipe, Len(Got) + 1, Len(pipe))
  /\ \/ /\ file' = Append(file, LineOf(Got))
        /\ bad' = (bad \/ (LineOf(Got) = 0 /\ ~torn))
        /\ UNCHANGED <<reading, failed>>
     \/ /\ file' = Append(file, 0)
        /\ UNCHANGED <<bad, reading, failed>>
     \/ /\ reading' = FALSE /\ failed' = TRUE
        /\ UNCHANGED <<file, bad>>
  /\ size' = 0 /\ of' = 0
  /\ UNCHANGED <<logged, header, edge, torn>>

\* The pipe is empty: do_log returns, and forgets a size it has read.
ReadNothing ==
  /\ reading /\ pipe = <<>>
  /\ reading' = FALSE /\ size' = 0 /\ of' = 0
  /\ torn' = FALSE
  /\ UNCHANGED <<pipe, logged, header, edge, failed, file, bad>>

DoLog == ReadSize \/ ReadText \/ ReadNothing
Next == LogSize \/ LogText \/ Called \/ DoLog

Spec == Init /\ [][Next]_vars

------------------------------------------------------------------------------
(* Properties *)

TypeOK ==
  /\ pipe \in Seq(Sizes \cup Units) /\ Len(pipe) <= Cap
  /\ logged \in 0 .. MaxLines /\ header \in {0} \cup Lengths
  /\ size \in 0 .. Cap /\ of \in 0 .. MaxLines
  /\ reading \in BOOLEAN /\ edge \in BOOLEAN /\ torn \in BOOLEAN
  /\ failed \in BOOLEAN /\ bad \in BOOLEAN
  /\ file \in Seq(0 .. MaxLines)

\* do_log writes whole lines only, in the order they were logged, from each
\* time it finds the pipe empty until a write behind a size fails: a full pipe
\* costs the lines behind it, and an empty one puts do_log in step again.  A line
\* that the file does not take, or takes a part of, costs no other line.
InStep ==
  /\ ~bad
  /\ \A i, j \in DOMAIN file : i < j /\ file[i] # 0 /\ file[j] # 0 => file[i] < file[j]

\* A line whose size and text are in the pipe does not wait for the next one:
\* the loop will call do_log as long as it is not out of step.  The exception is a
\* file that took nothing: the lines behind wait until another one is logged.
NoneForgotten == (pipe # <<>> /\ ~torn /\ ~failed /\ header = 0) => (edge \/ reading)

PipeSound == TypeOK /\ InStep /\ NoneForgotten
==============================================================================
