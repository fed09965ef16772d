-------------------------------- MODULE RtmpFlush --------------------------------
(****************************************************************************)
(* Who writes what rns_rtmp.c has queued.  A publisher's read_func queues        *)
(* messages for players (rtmp_msg_payload) and puts them into rtmp->rconns; when *)
(* recv meets EAGAIN it writes its own answers and theirs.  A player whose socket *)
(* takes no more stays in rtmp->rconns, and gets an EPOLLOUT edge when it does    *)
(* again; the loop looks at EPOLLOUT only if there is no EPOLLIN.                 *)
(****************************************************************************)
EXTENDS Naturals

CONSTANTS Conns, None

VARIABLES
  open,     \* connections
  busy,     \* the one whose read_func runs
  queued,   \* those with tasks
  waiting,  \* rtmp->rconns
  room,     \* those whose socket takes bytes
  edge,     \* the events epoll will report: [in, out]
  cut,      \* a publisher left in the read that brought its last messages
  freed     \* write_func ran for a connection that was destroyed

vars == <<open, busy, queued, waiting, room, edge, cut, freed>>

Quiet == [in |-> FALSE, out |-> FALSE]

Init ==
  /\ open = {} /\ busy = None /\ queued = {} /\ waiting = {} /\ room = Conns
  /\ edge = [c \in Conns |-> Quiet] /\ cut = FALSE /\ freed = FALSE

\* accept_func: a connection is reported writable once.
Accept(c) ==
  /\ busy = None /\ c \notin open
  /\ open' = open \cup {c} /\ room' = room \cup {c}
  /\ edge' = [edge EXCEPT ![c] = [in |-> FALSE, out |-> TRUE]]
  /\ UNCHANGED <<busy, queued, waiting, cut, freed>>

\* Tasks that write_func for the connections of S leaves: some are left when
\* the socket is full.
Written(S) ==
  \E full \in SUBSET (S \cap queued \cap room) :
    LET writes == (S \cap room) \ full IN
    queued' = queued \ writes /\ room' = room \ full

\* The loop: EPOLLIN first
Readable(c) ==
  /\ busy = None /\ c \in open /\ edge[c].in
  /\ busy' = c /\ edge' = [edge EXCEPT ![c] = Quiet]
  /\ UNCHANGED <<open, queued, waiting, room, cut, freed>>

Writable(c) ==
  /\ busy = None /\ c \in open /\ edge[c].out /\ ~edge[c].in
  /\ Written({c})
  /\ edge' = [edge EXCEPT ![c].out = FALSE]
  /\ UNCHANGED <<open, busy, waiting, cut, freed>>

\* A command has an answer.
Command ==
  /\ busy # None
  /\ queued' = queued \cup {busy}
  /\ UNCHANGED <<open, busy, waiting, room, edge, cut, freed>>

\* A message is queued for the players P.
Media(P) ==
  /\ busy # None
  /\ queued' = queued \cup P /\ waiting' = waiting \cup P
  /\ UNCHANGED <<open, busy, room, edge, cut, freed>>

\* Faulty variant of ReadAgain: only the own answers are written.
ReadAgainOwn ==
  /\ busy # None
  /\ Written({busy})
  /\ busy' = None /\ cut' = FALSE
  /\ UNCHANGED <<open, waiting, edge, freed>>

\* read_func: recv meets EAGAIN.
ReadAgain ==
  /\ busy # None
  /\ Written(waiting \cup {busy})
  /\ freed' = (freed \/ ~(waiting \subseteq open))
  /\ waiting' = waiting \cap queued'
  /\ busy' = None /\ cut' = FALSE
  /\ UNCHANGED <<open, edge>>

\* Faulty variant of ReadEnd: the connection stays in rtmp->rconns.
ReadEndWaits ==
  /\ busy # None
  /\ open' = open \ {busy} /\ queued' = queued \ {busy}
  /\ edge' = [edge EXCEPT ![busy] = Quiet]
  /\ cut' = (cut \/ waiting # {})
  /\ busy' = None
  /\ UNCHANGED <<room, waiting, freed>>

\* read_func: recv returns 0 or an error, and the connection is destroyed with
\* its tasks; the players are not written to.
ReadEnd ==
  /\ busy # None
  /\ open' = open \ {busy} /\ queued' = queued \ {busy} /\ waiting' = waiting \ {busy}
  /\ edge' = [edge EXCEPT ![busy] = Quiet]
  /\ cut' = (cut \/ waiting' # {})
  /\ busy' = None
  /\ UNCHANGED <<room, freed>>

\* The peers: bytes or an end come in, and a full socket is emptied.
PeerSends(c) ==
  /\ c \in open /\ edge' = [edge EXCEPT ![c].in = TRUE]
  /\ UNCHANGED <<open, busy, queued, waiting, room, cut, freed>>

PeerReads(c) ==
  /\ c \in open \ room
  /\ room' = room \cup {c} /\ edge' = [edge EXCEPT ![c].out = TRUE]
  /\ UNCHANGED <<open, busy, queued, waiting, cut, freed>>

Next ==
  \/ \E c \in Conns : Accept(c) \/ Readable(c) \/ Writable(c) \/ PeerSends(c) \/ PeerReads(c)
  \/ \E P \in SUBSET open : Media(P)
  \/ Command \/ ReadAgain \/ ReadEnd

Spec == Init /\ [][Next]_vars

------------------------------------------------------------------------------
(* Properties *)

\* When the loop rests, what is queued waits for its socket, or for an event of
\* its connection: only behind a publisher that left in the same read as its last
\* messages are they left lying, until somebody else is read from.
NoneStuck ==
  (busy = None /\ ~cut) => \A c \in queued : c \notin room \/ edge[c].in \/ edge[c].out

\* The list of connections to write to has none that was destroyed.
NoneFreed == ~freed /\ waiting \subseteq open
==============================================================================
