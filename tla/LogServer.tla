------------------------------- MODULE LogServer -------------------------------
(****************************************************************************)
(* logserver.c: bodies that clients post to a path are appended, as a line    *)
(* each, to the file of that path; a file that has reached the limit is        *)
(* renamed after the second of the clock and begun anew.  rns_http.c runs the  *)
(* handler for each part of a body that is larger than its buffer, so that a   *)
(* part is what is stored, and answered.                                     *)
(****************************************************************************)
EXTENDS Integers, Sequences, FiniteSets, SequencesExt

CONSTANTS
  Clients,  \* connections; one posts its parts 1, 2, ... to Path[client]
  Paths,
  Path,     \* the path of each client
  Parts,    \* bound on the parts of a client
  Limit,    \* ls->size, in lines
  MaxFiles, \* files that can be open at once: io_setup fails beyond
  MaxTime,  \* bound on the clock, in seconds
  MaxCrash  \* bound on the crashes of the server

VARIABLES
  fds,      \* ls->fds: paths of the open files
  disk,     \* lines of the current file of each path
  old,      \* lines of the renamed files, by path and second
  order,    \* the renamed files of each path in the order of their making
  now,      \* the clock, in seconds
  posted,   \* parts each client has posted
  answers,  \* status of each answer to a client
  clash,    \* paths of which a renamed file was overwritten
  crashes

vars == <<fds, disk, old, order, now, posted, answers, clash, crashes>>

Line(c, n, whole) == [of |-> c, part |-> n, whole |-> whole]
Lines == [of : Clients, part : 1 .. Parts, whole : BOOLEAN]

Init ==
  /\ fds = {} /\ disk = [p \in Paths |-> <<>>]
  /\ old = [p \in Paths |-> [s \in 0 .. MaxTime |-> <<>>]]
  /\ order = [p \in Paths |-> <<>>]
  /\ now = 0 /\ posted = [c \in Clients |-> 0] /\ answers = [c \in Clients |-> <<>>]
  /\ clash = {} /\ crashes = 0

\* logfile_close: rename() puts the file in place of one of the same second.
Renamed(p) ==
  /\ old' = [old EXCEPT ![p][now] = disk[p]]
  /\ order' = [order EXCEPT ![p] = Append(SelectSeq(@, LAMBDA s : s # now), now)]
  /\ clash' = IF old[p][now] # <<>> THEN clash \cup {p} ELSE clash

\* Faulty variant of Opened: the result of io_setup is ignored.
OpenedUnlimited(p, base) ==
  \/ /\ p \notin fds
     /\ fds' = fds \cup {p} /\ base = disk[p]
     /\ UNCHANGED <<old, order, clash>>
  \/ /\ p \in fds /\ base = disk[p]
     /\ UNCHANGED <<fds, old, order, clash>>

\* The lookup of logserver_req_dispatch.  base is what the file then holds.
Opened(p, base) ==
  \/ /\ p \notin fds /\ Cardinality(fds) < MaxFiles         \* logfile_open
     /\ fds' = fds \cup {p} /\ base = disk[p]
     /\ UNCHANGED <<old, order, clash>>
  \/ /\ p \in fds /\ Len(disk[p]) < Limit
     /\ base = disk[p]
     /\ UNCHANGED <<fds, old, order, clash>>
  \/ /\ p \in fds /\ Len(disk[p]) >= Limit
     /\ Renamed(p)
     /\ base = <<>>
     /\ UNCHANGED fds
  \/ /\ p \in fds /\ Len(disk[p]) >= Limit                 \* rename fails
     /\ base = disk[p]
     /\ UNCHANGED <<fds, old, order, clash>>

\* Faulty variant of Post: a failing write is answered like a complete one.
PostBlind(c) ==
  /\ posted[c] < Parts
  /\ posted' = [posted EXCEPT ![c] = @ + 1]
  /\ \E base \in {disk[Path[c]], <<>>}, whole \in BOOLEAN :
       /\ Opened(Path[c], base)
       /\ disk' = [disk EXCEPT ![Path[c]] = Append(base, Line(c, posted[c] + 1, whole))]
       /\ answers' = [answers EXCEPT ![c] = Append(@, 200)]
  /\ UNCHANGED <<now, crashes>>

\* logserver_req_dispatch: time, body and end of line are written one after
\* the other, and a write that is short leaves what there is.
Post(c) ==
  /\ posted[c] < Parts
  /\ posted' = [posted EXCEPT ![c] = @ + 1]
  /\ \E base \in {disk[Path[c]], <<>>}, whole \in BOOLEAN :
       /\ Opened(Path[c], base)
       /\ disk' = [disk EXCEPT ![Path[c]] = Append(base, Line(c, posted[c] + 1, whole))]
       /\ answers' = [answers EXCEPT ![c] = Append(@, IF whole THEN 200 ELSE 500)]
  /\ UNCHANGED <<now, crashes>>

\* logfile_open fails: a new path while as many files are open as can be
PostRefused(c) ==
  /\ posted[c] < Parts
  /\ Path[c] \notin fds /\ Cardinality(fds) >= MaxFiles
  /\ posted' = [posted EXCEPT ![c] = @ + 1]
  /\ answers' = [answers EXCEPT ![c] = Append(@, 500)]
  /\ UNCHANGED <<fds, disk, old, order, now, clash, crashes>>

\* The server ends, perhaps between the writes of a line, and starts again
\* with no file open.
Crash ==
  /\ crashes < MaxCrash /\ crashes' = crashes + 1
  /\ fds' = {}
  /\ \/ UNCHANGED <<disk, posted>>
     \/ \E c \in Clients :
          /\ posted[c] < Parts /\ Path[c] \in fds
          /\ posted' = [posted EXCEPT ![c] = @ + 1]
          /\ disk' = [disk EXCEPT ![Path[c]] = Append(@, Line(c, posted[c] + 1, FALSE))]
  /\ answers' = [c \in Clients |-> [i \in 1 .. posted'[c] |->
                   IF i <= Len(answers[c]) THEN answers[c][i] ELSE 0]]
  /\ UNCHANGED <<old, order, now, clash>>

Second ==
  /\ now < MaxTime /\ now' = now + 1
  /\ UNCHANGED <<fds, disk, old, order, posted, answers, clash, crashes>>

Next ==
  \/ \E c \in Clients : Post(c) \/ PostRefused(c)
  \/ Crash \/ Second

Spec == Init /\ [][Next]_vars

------------------------------------------------------------------------------
(* Properties *)

\* All lines of a path, the renamed files first
History(p) ==
  FlattenSeq([i \in DOMAIN order[p] |-> old[p][order[p][i]]]) \o disk[p]

TypeOK ==
  /\ fds \subseteq Paths /\ Cardinality(fds) <= MaxFiles
  /\ disk \in [Paths -> Seq(Lines)]
  /\ old \in [Paths -> [0 .. MaxTime -> Seq(Lines)]]
  /\ order \in [Paths -> Seq(0 .. MaxTime)]
  /\ posted \in [Clients -> 0 .. Parts]
  /\ answers \in [Clients -> Seq({0, 200, 500})]
  /\ \A c \in Clients : Len(answers[c]) = posted[c]

\* What was answered with 200 is stored once and whole, whatever the files went
\* through, unless a file of its path was renamed onto one of the same second;
\* and the parts of a client stay in order, also over a renaming.
Stored ==
  /\ \A c \in Clients, n \in 1 .. Parts :
       (n \in DOMAIN answers[c] /\ answers[c][n] = 200 /\ Path[c] \notin clash) =>
         Cardinality({i \in DOMAIN History(Path[c]) :
                        History(Path[c])[i] = Line(c, n, TRUE)}) = 1
  /\ \A p \in Paths : \A i, j \in DOMAIN History(p) :
       (i < j /\ History(p)[i].of = History(p)[j].of) => History(p)[i].part < History(p)[j].part
==============================================================================
