------------------------------- MODULE MCRtmpRelay -------------------------------
(* TLC instances of the relay of RTMP streams: three connections over two names  *)
(* and one kind of message (RtmpSession, part "session"), two connections and one *)
(* stream with sequence headers, key frames and others (RtmpSession, part "play"), *)
(* and who writes what was queued (RtmpFlush).  part names what a behaviour works. *)
EXTENDS RtmpSession, TLC

VARIABLES
  part, \* the module that a behaviour works
  fOpen, fBusy, fQueued, fWaiting, fRoom, fEdge, fCut, fFreed

Late == INSTANCE RtmpSession WITH Kinds <- {"sequence", "key", "inter"}, MaxMsgs <- 4

\* part "play" keeps to two connections and one stream.
Few ==
  /\ Cardinality({c \in Conns : conn'[c].open \/ got'[c] # <<>> \/ published'[c] # None}) <= 2
  /\ Cardinality({s \in Streams : stream'[s].name # None}) <= 1

Symmetry ==
  Permutations(Conns) \cup Permutations(Streams) \cup Permutations(Names)


Flush == INSTANCE RtmpFlush WITH
  open <- fOpen, busy <- fBusy, queued <- fQueued, waiting <- fWaiting, room <- fRoom,
  edge <- fEdge, cut <- fCut, freed <- fFreed

Parts == {"session", "play", "flush"}

flushVars == <<fOpen, fBusy, fQueued, fWaiting, fRoom, fEdge, fCut, fFreed>>

allVars == <<part, vars, flushVars>>

AllInit ==
  /\ part \in Parts
  /\ Init /\ Flush!Init

AllNext ==
  /\ UNCHANGED part
  /\ \/ part = "session" /\ Next
        /\ UNCHANGED flushVars
     \/ part = "play" /\ Late!Next /\ Few
        /\ UNCHANGED flushVars
     \/ part = "flush" /\ Flush!Next
        /\ UNCHANGED vars

AllSpec == AllInit /\ [][AllNext]_allVars

------------------------------------------------------------------------------
(* Properties *)

\* RtmpFlush: what was queued has somebody who will write it, and nothing is
\* written to a connection that was freed.
Flushed == Flush!NoneStuck /\ Flush!NoneFreed

==============================================================================
