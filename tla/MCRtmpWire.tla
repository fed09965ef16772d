------------------------------- MODULE MCRtmpWire -------------------------------
(* TLC instances of what crosses the wire of an RTMP connection: the chunks that *)
(* are written (RtmpSend), the chunks that are read (RtmpChunk), the values in    *)
(* commands (Amf), and the commands and answers (RtmpDialog).  They share no       *)
(* state; part names the one that a behaviour works.                             *)
EXTENDS RtmpSend

CONSTANTS p1, p2, None

VARIABLES
  part, \* the module that a behaviour works
  rChunks, rOutsize, rComing, rSent, rHarm, rUn, rState, rCurchunk, rCurfmt, rCurlen,
  rIchunksize, rStream, rCbuf, rMsg, rGiven, aObj, aCbuf, dState, dCbuf, dSize, dWish,
  dSindex, dStream, dSaid, dRan, dHeard, dBack

MCSizes == [p \in {"first", "play"} |-> IF p = "first" THEN 2 ELSE 3]


Reader == INSTANCE RtmpChunk WITH
  Channels <- {3, 320}, Width <- [ch \in {3, 320} |-> IF ch = 3 THEN 1 ELSE 3],
  Kinds <- {"media", "command", "eof", "size"}, Lengths <- {3}, ChunkSize <- 2,
  Sizes <- {3}, Breaks <- {2}, Word <- 2, Block <- 2, Far <- 3, Stamps <- {1, 3},
  MaxChunks <- 3, chunks <- rChunks, outsize <- rOutsize, coming <- rComing,
  sent <- rSent, harm <- rHarm, un <- rUn, state <- rState, curchunk <- rCurchunk,
  curfmt <- rCurfmt, curlen <- rCurlen, ichunksize <- rIchunksize, stream <- rStream,
  cbuf <- rCbuf, msg <- rMsg, given <- rGiven

Values == INSTANCE Amf WITH
  MaxChunk <- 3, obj <- aObj, cbuf <- aCbuf

Dialog == INSTANCE RtmpDialog WITH
  Publishers <- {p1}, Players <- {p2}, None <- None,
  MaxSaid <- [c \in {p1, p2} |-> IF c = p1 THEN 3 ELSE 4], state <- dState,
  cbuf <- dCbuf, size <- dSize, wish <- dWish, sindex <- dSindex, stream <- dStream,
  said <- dSaid, ran <- dRan, heard <- dHeard, back <- dBack

Parts == {"send", "recv", "amf", "dialog"}

recvVars == <<rChunks, rOutsize, rComing, rSent, rHarm, rUn, rState, rCurchunk,
              rCurfmt, rCurlen, rIchunksize, rStream, rCbuf, rMsg, rGiven>>
amfVars == <<aObj, aCbuf>>
dialogVars == <<dState, dCbuf, dSize, dWish, dSindex, dStream, dSaid, dRan, dHeard,
                dBack>>

allVars == <<part, vars, recvVars, amfVars, dialogVars>>

AllInit ==
  /\ part \in Parts
  /\ part # "amf" => aObj = <<>>
  /\ Init /\ Reader!Init /\ Values!Init /\ Dialog!Init

AllNext ==
  /\ UNCHANGED part
  /\ \/ part = "send" /\ Next
        /\ UNCHANGED <<recvVars, amfVars, dialogVars>>
     \/ part = "recv" /\ Reader!Next
        /\ UNCHANGED <<vars, amfVars, dialogVars>>
     \/ part = "amf" /\ Values!Next
        /\ UNCHANGED <<vars, recvVars, dialogVars>>
     \/ part = "dialog" /\ Dialog!Next
        /\ UNCHANGED <<vars, recvVars, amfVars>>

AllSpec == AllInit /\ [][AllNext]_allVars

------------------------------------------------------------------------------
(* Properties *)

\* The properties say nothing of what comes behind something that the headers
\* cannot tell (send) or that the parser does not provide for (recv).
Unharmed == ~harm /\ (rHarm = {} \/ rUn # <<>>)

\* RtmpChunk: the parser stays in step with the peer, a header that a chunk leaves
\* out is the last one of its stream, and a message is delivered once, whole.
ChunksRead ==
  Reader!InStep /\ Reader!HeaderKept /\ Reader!Delivered /\ Reader!NothingKept

\* Amf: what was written is read, all of it when it came as a whole, and bytes that
\* are not understood wait.
ValuesRead == Values!RoundTrip /\ Values!WholeOnes /\ Values!Waits

\* RtmpDialog: one result to each command that wants one, in order; a player is told
\* its stream and the size of the chunks before it plays, and media come behind.
DialogSound == Dialog!DialogSound

==============================================================================
