------------------------------- MODULE MCPrograms -------------------------------
(* TLC instances of the loop of a server (EventLoop), of the pipe of the log, which   *)
(* the loop reads (LogPipe), of the start of a TRS (TrsStart), and of the formats of  *)
(* streams that yms reads and writes (Media).  They share no state; part names the    *)
(* one that a behaviour works.                                                    *)
EXTENDS EventLoop, TLC

CONSTANTS
  Phones, Boxes, Own, MaxReqs, MaxFails, \* of TrsStart
  Lengths, Cap, PipeBuf, MaxLines \* of LogPipe

VARIABLES
  part, \* the module that a behaviour works
  gPipe, gLogged, gHeader, gSize, gOf, gReading, gEdge, gTorn, gFailed, gFile, gBad,
  sPhase, sKnown, sObjs, sRows, sTable, sReqs, sStrays, sFails, mPrograms, mStreams,
  mPackets, mClocks, mText

Symmetry == Permutations(Ids)

Pipe == INSTANCE LogPipe WITH
  Lengths <- Lengths, Cap <- Cap, PipeBuf <- PipeBuf, MaxLines <- MaxLines,
  pipe <- gPipe, logged <- gLogged, header <- gHeader, size <- gSize, of <- gOf,
  reading <- gReading, edge <- gEdge, torn <- gTorn, failed <- gFailed, file <- gFile,
  bad <- gBad

Starts == INSTANCE TrsStart WITH
  Phones <- Phones, Boxes <- Boxes, Own <- Own, None <- None, MaxReqs <- MaxReqs,
  MaxFails <- MaxFails, phase <- sPhase, known <- sKnown, objs <- sObjs, rows <- sRows,
  table <- sTable, reqs <- sReqs, strays <- sStrays, fails <- sFails

Formats == INSTANCE Media WITH
  Word <- 4, Pids <- {300, 17}, PcrPid <- 257,
  Lines <- {<<"#EXTINF:", 5>>, <<"#EXTINF:", 6>>, <<"", 7>>, <<"", 8>>, <<"\n">>, <<"#EXT-X-MEDIA-SEQUENCE:", 3>>, <<"#EXT-X-ENDLIST", 0>>},
  Room <- 9, MaxPackets <- 4, MaxLines <- 5, MaxStep <- 1, None <- None,
  programs <- mPrograms, streams <- mStreams, packets <- mPackets, clocks <- mClocks,
  text <- mText

Parts == {"loop", "pipe", "start", "media"}

pipeVars == <<gPipe, gLogged, gHeader, gSize, gOf, gReading, gEdge, gTorn, gFailed,
              gFile, gBad>>
startVars == <<sPhase, sKnown, sObjs, sRows, sTable, sReqs, sStrays, sFails>>
mediaVars == <<mPrograms, mStreams, mPackets, mClocks, mText>>

allVars == <<part, vars, pipeVars, startVars, mediaVars>>

AllInit ==
  /\ part \in Parts
  /\ part # "media" => mPrograms = <<>> /\ mStreams = <<>>
  /\ part # "start" => sTable = [p \in Phones |-> None]
  /\ Init /\ Pipe!Init /\ Starts!Init /\ Formats!Init

AllNext ==
  /\ UNCHANGED part
  /\ \/ part = "loop" /\ Next
        /\ UNCHANGED <<pipeVars, startVars, mediaVars>>
     \/ part = "pipe" /\ Pipe!Next
        /\ UNCHANGED <<vars, startVars, mediaVars>>
     \/ part = "start" /\ Starts!Next
        /\ UNCHANGED <<vars, pipeVars, mediaVars>>
     \/ part = "media" /\ Formats!Next
        /\ UNCHANGED <<vars, pipeVars, startVars>>

\* The boxes of TrsStart
ASSUME StartBounds == Starts!Bounds

\* The pipe of LogPipe and its lines
ASSUME PipeBounds == Pipe!Bounds

AllSpec == AllInit /\ [][AllNext]_allVars

------------------------------------------------------------------------------
(* Properties *)

\* LogPipe: lengths and texts stay in step, and what is in the pipe has somebody who
\* will read it.
PipeSound == Pipe!PipeSound

\* TrsStart: what a TRS has in memory of its phones is what the table says, where
\* nothing came between.
StartSound == Starts!StartSound

\* Media: tables, times and lists are read as they were written.
StreamsKept == Formats!MediaSound

==============================================================================
