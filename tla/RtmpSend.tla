-------------------------------- MODULE RtmpSend --------------------------------
(****************************************************************************)
(* What a player's connection of rns_rtmp.c sends: answers to its commands       *)
(* (rtmp_data_send), the change of the chunk size, and the messages of the       *)
(* stream (rtmp_msg_send), which refer to the blocks of the stream and leave out *)
(* of their headers what the header before them said.  All of it is a list of    *)
(* tasks that write_func empties as far as the socket takes it.  A reader that   *)
(* follows the protocol puts the messages together again.                        *)
(****************************************************************************)
EXTENDS Integers, Sequences, FiniteSets

CONSTANTS
  Lengths,   \* lengths of messages and answers
  Sizes,     \* chunk sizes: before play, and the one that play sets
  Block,     \* RTMP_BLOCK_SIZE
  Far,       \* 0xFFFFFF
  Steps,     \* time between two messages
  MaxMsgs,   \* messages that are queued in a run
  MaxTime    \* timestamps

ASSUME SizesAssumption ==
  Lengths \subseteq Nat \ {0} /\ Sizes \in [{"first", "play"} -> Nat \ {0}] /\ Block \in Nat \ {0}
ASSUME TimesAssumption == Far \in Nat \ {0} /\ Steps \subseteq 1 .. Far
ASSUME BoundAssumption == MaxMsgs \in Nat /\ MaxTime \in Nat

Media == {"video", "audio"}
Channels == {"control", "result", "status"} \cup Media  \* 2, 3, 5, 4 and 6

VARIABLES
  pstate,     \* what of the stream the player has got
  chunk,      \* chunkstreams of the media channels: [fmt, stamp], or Unused
  ochunksize,
  tasks,      \* from the first on
  offset,     \* where the next message begins in the blocks of the stream
  now,        \* timestamp of the last message of the stream
  meant,      \* messages that were queued: [ch, type, len, stamp]
  base,       \* timestamp of the message that began the channel anew
  audio,      \* length of the audio messages, 0 before the first
  harm,       \* a message that the headers cannot tell
  freed,      \* buffers of answers that were freed
  reader,     \* the protocol at the other end
  stale       \* a freed buffer was sent, or one was freed twice

vars == <<pstate, chunk, ochunksize, tasks, offset, now, meant, base, audio, harm, freed, reader, stale>>

Unused == [fmt |-> -1, stamp |-> 0]
Least(S) == CHOOSE x \in S : \A y \in S : x <= y

Header(ch, fmt, t, n, type) == [do |-> "header", ch |-> ch, fmt |-> fmt, stamp |-> t, len |-> n, type |-> type]
Goes(ch) == [do |-> "header", ch |-> ch, fmt |-> 3, stamp |-> 0, len |-> 0, type |-> "none"]
Piece(b, n) == [do |-> "piece", buf |-> b, left |-> n]
Clean(b) == [do |-> "clean", buf |-> b]

Init ==
  /\ pstate = "none" /\ chunk = [ch \in Media |-> Unused]
  /\ ochunksize = Sizes["first"] /\ tasks = <<>> /\ offset = 0 /\ now = 0
  /\ meant = <<>> /\ base = [ch \in Media |-> 0] /\ audio = 0 /\ harm = FALSE /\ freed = {}
  /\ reader = [size |-> Sizes["first"], ch |-> "none", in |-> 0,
               head |-> [ch \in Channels |-> [len |-> 0, type |-> "none", stamp |-> 0, got |-> 0]],
               said |-> <<>>, lost |-> FALSE]
  /\ stale = FALSE

------------------------------------------------------------------------------
(* Answers *)

RECURSIVE Cut(_, _, _, _)
\* Pieces of at most size bytes, with a header of fmt 3 between two of them
Cut(b, ch, n, size) ==
  IF n <= size THEN <<Piece(b, n)>>
  ELSE <<Piece(b, size), Goes(ch)>> \o Cut(b, ch, n - size, size)

\* Faulty variant: the buffer is freed in front of its pieces.
AnswerFreed(b, ch, n, size) ==
  <<Header(ch, 0, 0, n, "answer"), Clean(b)>> \o Cut(b, ch, n, size)

\* rtmp_data_send: the buffer is freed behind its last piece.
Answer(b, ch, n, size) ==
  <<Header(ch, 0, 0, n, "answer")>> \o Cut(b, ch, n, size) \o <<Clean(b)>>

Said(ch, n) == [ch |-> ch, type |-> "answer", len |-> n, stamp |-> 0]

\* rtmp_command_getStreamLength and other commands with a result
Command(n) ==
  LET b == Len(meant) + 1 IN
  /\ Len(meant) < MaxMsgs
  /\ tasks' = tasks \o Answer(b, "result", n, ochunksize)
  /\ meant' = Append(meant, Said("result", n))
  /\ UNCHANGED <<pstate, chunk, ochunksize, offset, now, base, audio, harm, freed, reader, stale>>

------------------------------------------------------------------------------
(* Messages of the stream *)

RECURSIVE Blocks(_, _, _, _, _)

\* Faulty variant: what the chunk has already is forgotten at the end of a block.
BlocksForget(ch, at, n, size, left) ==
  LET k == Least({n, Block - (at % Block), size}) IN
  <<Piece(0, k)>> \o
    (IF k = n THEN <<>>
     ELSE IF k = size THEN <<Goes(ch)>> \o Blocks(ch, at + k, n - k, size, size)
     ELSE Blocks(ch, at + k, n - k, size, size))

\* rtmp_msg_send: pieces that end with their block, with the chunk, or with the message
Blocks(ch, at, n, size, left) ==
  LET k == Least({n, Block - (at % Block), left}) IN
  <<Piece(0, k)>> \o
    (IF k = n THEN <<>>
     ELSE IF k = left THEN <<Goes(ch)>> \o Blocks(ch, at + k, n - k, size, size)
     ELSE Blocks(ch, at + k, n - k, size, left - k))

\* The header in the chunk stream as it is, and begun anew
Anew(type, st) == chunk[type].fmt = -1 \/ st = "keyframe" \/ (type = "audio" /\ chunk[type].fmt = 0)
Was(type, t, st) == IF Anew(type, st) THEN t ELSE chunk[type].stamp
Fmt(type, st) == IF Anew(type, st) THEN 0 ELSE chunk[type].fmt
\* Faulty variant of After: the timestamp of the chunk stream stays.
AfterKeeps(type, t, st) == [fmt |-> IF Fmt(type, st) > 0 THEN Fmt(type, st) ELSE IF type = "video" THEN 1 ELSE 2,
                            stamp |-> Was(type, t, st)]

After(type, t, st) == [fmt |-> IF Fmt(type, st) > 0 THEN Fmt(type, st) ELSE IF type = "video" THEN 1 ELSE 2,
                       stamp |-> t]

\* rtmp_msg_header and the pieces behind it
MsgTasks(type, n, t, st, size) ==
  <<Header(type, Fmt(type, st), t - Was(type, t, st), n, type)>> \o Blocks(type, offset, n, size, size)

\* A player that waits for a key frame is sent no other message.
Skipped(key, st) == st = "keyframe" /\ ~key

\* rtmp_msg_payload, which broadcasts a message: the stream goes on for the
\* players that skip it too.
Message(type, n, key, d) ==
  LET t == now + d
      first == Anew(type, pstate)
  IN
  /\ pstate # "none" /\ Len(meant) < MaxMsgs /\ t <= MaxTime
  /\ type = "audio" => ~key
  /\ now' = t /\ offset' = offset + n
  /\ IF Skipped(key, pstate)
       THEN UNCHANGED <<tasks, chunk, meant, base, audio, harm, pstate>>
       ELSE /\ tasks' = tasks \o MsgTasks(type, n, t, pstate, ochunksize)
            /\ chunk' = [chunk EXCEPT ![type] = After(type, t, pstate)]
            /\ base' = IF first THEN [base EXCEPT ![type] = t] ELSE base
            /\ meant' = Append(meant, [ch |-> type, type |-> type, len |-> n, stamp |-> t - base'[type]])
            /\ audio' = IF type = "audio" THEN n ELSE audio
            /\ harm' = (harm \/ (type = "audio" /\ ~first /\ (n # audio \/ t - chunk[type].stamp >= Far)))
            /\ pstate' = IF pstate = "keyframe" THEN "frame" ELSE pstate
  /\ UNCHANGED <<ochunksize, freed, reader, stale>>

\* rtmp_command_play: the chunk size, stream begin, the two states, the metadata
\* and, if the stream has it, its sequence header
Play(n, ready) ==
  LET b == Len(meant) + 1
      size == Sizes["play"]
      t == now
  IN
  /\ pstate = "none"
  /\ tasks' = tasks \o <<Header("control", 0, 0, 1, "size"), Piece(0, 1), Header("control", 0, 0, 1, "begin"), Piece(0, 1)>>
                \o Answer(b, "status", n, size) \o Answer(b + 1, "status", n, size) \o Answer(b + 2, "status", n, size)
                \o (IF ready THEN MsgTasks("video", n, t, "spspps", size) ELSE <<>>)
  /\ meant' = meant \o <<Said("status", n), Said("status", n), Said("status", n)>>
                \o (IF ready THEN <<[ch |-> "video", type |-> "video", len |-> n, stamp |-> 0]>> ELSE <<>>)
  /\ ochunksize' = size
  /\ chunk' = IF ready THEN [chunk EXCEPT !["video"] = After("video", t, "spspps")] ELSE chunk
  /\ base' = IF ready THEN [base EXCEPT !["video"] = t] ELSE base
  /\ pstate' = IF ready THEN "keyframe" ELSE "spspps"
  /\ UNCHANGED <<offset, now, audio, harm, freed, reader, stale>>

------------------------------------------------------------------------------
(* The reader at the other end *)

Lost(r) == [r EXCEPT !.lost = TRUE]

\* A header: only at the end of a chunk, and of fmt 3 only within a message.
ReadHeader(r, h) ==
  LET was == r.head[h.ch]
      ended == r.ch = "none" \/ r.in = r.size \/ r.head[r.ch].got = r.head[r.ch].len
      now3 == [len |-> IF h.fmt < 2 THEN h.len ELSE was.len,
               type |-> IF h.fmt < 2 THEN h.type ELSE was.type,
               stamp |-> IF h.fmt = 0 THEN h.stamp ELSE was.stamp + h.stamp,
               got |-> IF h.fmt = 3 THEN was.got ELSE 0]
  IN  IF ~ended \/ ((h.fmt = 3) # (was.got < was.len)) THEN Lost(r)
      ELSE [r EXCEPT !.ch = h.ch, !.in = 0, !.head = [@ EXCEPT ![h.ch] = now3]]

ReadBytes(r, n) ==
  LET m == r.head[r.ch]
      done == m.got + n = m.len
  IN  IF m.got + n > m.len \/ r.in + n > r.size THEN Lost(r)
      ELSE [r EXCEPT !.in = r.in + n,
                     !.head = [@ EXCEPT ![r.ch] = [m EXCEPT !.got = m.got + n]],
                     !.size = IF done /\ m.type = "size" THEN Sizes["play"] ELSE r.size,
                     !.said = IF done /\ r.ch # "control"
                                THEN Append(@, [ch |-> r.ch, type |-> m.type, len |-> m.len, stamp |-> m.stamp])
                                ELSE @]

------------------------------------------------------------------------------
(* write_func *)

Others == <<pstate, chunk, ochunksize, offset, now, meant, base, audio, harm>>

\* Faulty variant: what is left of a task goes behind the others.
WriteBehind(n) ==
  LET k == Head(tasks) IN
  /\ tasks # <<>>
  /\ \/ k.do = "header" /\ n = 1 /\ reader' = ReadHeader(reader, k) /\ tasks' = Tail(tasks) /\ UNCHANGED stale
     \/ /\ k.do = "piece" /\ n \in 1 .. k.left /\ reader' = ReadBytes(reader, n)
        /\ tasks' = IF n = k.left THEN Tail(tasks) ELSE Append(Tail(tasks), Piece(k.buf, k.left - n))
        /\ stale' = (stale \/ k.buf \in freed)
  /\ UNCHANGED <<freed, Others>>

\* send takes n bytes: the task stays in front until there is nothing left of it.
\* With EAGAIN it goes back to the front as it is.
Write(n) ==
  LET k == Head(tasks) IN
  /\ tasks # <<>>
  /\ \/ k.do = "header" /\ n = 1 /\ reader' = ReadHeader(reader, k) /\ tasks' = Tail(tasks) /\ UNCHANGED stale
     \/ /\ k.do = "piece" /\ n \in 1 .. k.left /\ reader' = ReadBytes(reader, n)
        /\ tasks' = IF n = k.left THEN Tail(tasks) ELSE <<Piece(k.buf, k.left - n)>> \o Tail(tasks)
        /\ stale' = (stale \/ k.buf \in freed)
  /\ UNCHANGED <<freed, Others>>

\* The work function has nothing to send: the buffer is freed.
Cleaned ==
  LET k == Head(tasks) IN
  /\ tasks # <<>> /\ k.do = "clean"
  /\ stale' = (stale \/ k.buf \in freed)
  /\ freed' = freed \cup {k.buf} /\ tasks' = Tail(tasks)
  /\ UNCHANGED <<reader, Others>>

Next ==
  \/ \E n \in Lengths : Command(n)
  \/ \E n \in Lengths, ready \in BOOLEAN : Play(n, ready)
  \/ \E type \in Media, n \in Lengths, key \in BOOLEAN, d \in Steps : Message(type, n, key, d)
  \/ \E n \in Lengths : Write(n)
  \/ Cleaned

Spec == Init /\ [][Next]_vars

------------------------------------------------------------------------------
(* Properties *)

\* A reader that follows the protocol gets the messages that were queued, in the
\* order of the queue, each with its type, its length and its time since the one
\* that began its channel anew: across messages that share a chunk stream, blocks
\* and chunks that end at different bytes, and a chunk size that changes between.
\* Audio messages of different lengths are not told: their headers leave the
\* length out.
Decodes ==
  ~harm => /\ ~reader.lost
           /\ Len(reader.said) <= Len(meant)
           /\ \A i \in DOMAIN reader.said : reader.said[i] = meant[i]

\* Nothing stays behind: with an empty queue everything has been read.
AllSaid == (tasks = <<>> /\ ~harm) => Len(reader.said) = Len(meant)

\* The buffer of an answer is freed once, and behind its last byte.
FreedBehind == ~stale

\* The player decodes what was said to it, and nothing is freed before it left.
ChunksDecode == Decodes /\ AllSaid /\ FreedBehind
==============================================================================
