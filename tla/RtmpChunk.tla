------------------------------- MODULE RtmpChunk -------------------------------
(****************************************************************************)
(* How rns_rtmp.c takes a stream of bytes apart: read_func, the cases of        *)
(* rtmp_parse and the message types of rtmp_msg_parse.  The peer cuts messages  *)
(* into chunks; recv cuts the bytes anywhere.  What rtmp_parse has not consumed *)
(* when it returns is dropped: read_func sets both positions to 0.              *)
(*                                                                          *)
(* A byte is <<chunk, field, index>>, so that the model sees when the parser    *)
(* takes a byte for something else; it stops there, in state "lost".            *)
(****************************************************************************)
EXTENDS Integers, Sequences, FiniteSets

CONSTANTS
  Channels,  \* chunk streams
  Width,     \* Channels -> 1 .. 3: bytes of the basic header
  Kinds,     \* kinds of messages, of the list in AllKinds
  Lengths,   \* lengths of media messages and commands
  ChunkSize, \* the size of chunks that both sides begin with (128)
  Sizes,     \* sizes of chunks that the peer sets
  Breaks,    \* numbers of bytes of a command behind which one of its values ends
  Word,      \* bytes of a number in a control message (4)
  Block,     \* bytes of C1 and of C2 (1536)
  Far,       \* the timestamp behind which 4 more bytes follow (0xFFFFFF)
  Stamps,    \* timestamps, and differences of timestamps, that the peer sends
  MaxChunks  \* chunks of a run

AllKinds == {"media", "command", "unknown", "window", "bandwidth", "begin", "eof", "size", "other"}

VARIABLES
  \* the peer
  chunks,  \* what it sent: [ch, fmt, stamp, ext, kind, len, off, size, sets]
  outsize, \* the size of its chunks
  coming,  \* bytes that recv has not returned
  sent,    \* per channel: [kind, len, off] of its message, [stamp] its timestamp
  harm,    \* what happened on the way that the parser does not provide for
  \* the connection
  un,      \* bytes between walker and end; none while recv waits
  state, curchunk, curfmt, curlen,
  ichunksize,
  stream,  \* chunkstreams: per channel [stamp, len, kind]
  cbuf,    \* bytes of commands that were not understood so far
  msg,     \* the last message of the stream: its bytes, and its size
  given    \* messages that were complete: <<bytes>>

peer == <<chunks, outsize, sent>>
header == <<curchunk, curfmt, curlen, stream, ichunksize>>
vars == <<chunks, outsize, coming, sent, harm, un, state, curchunk, curfmt, curlen, ichunksize,
          stream, cbuf, msg, given>>

Take(s, n) == SubSeq(s, 1, n)
Drop(s, n) == SubSeq(s, n + 1, Len(s))
Least(m, n) == IF m < n THEN m ELSE n
Field(c, f, n) == [i \in 1 .. n |-> <<c, f, i>>]

Idle == [kind |-> "none", len |-> 0, off |-> 0, stamp |-> 0, used |-> FALSE]

Init ==
  /\ chunks = <<>> /\ harm = {} /\ outsize = ChunkSize /\ ichunksize = ChunkSize
  /\ coming = Field(0, "C0", 1) \o Field(0, "C1", Block) \o Field(0, "C2", Block)
  /\ sent = [ch \in Channels |-> Idle]
  /\ un = <<>> /\ state = "C0" /\ curchunk = "none" /\ curfmt = 0 /\ curlen = 0
  /\ stream = [ch \in Channels |-> [stamp |-> 0, len |-> 0, kind |-> "none"]]
  /\ cbuf = <<>> /\ msg = [bytes |-> <<>>, size |-> 0] /\ given = <<>>

------------------------------------------------------------------------------
(* The peer *)

\* The bytes of chunk c
Bytes(c, k) ==
  Field(c, "basic", Width[k.ch])
    \o (IF k.fmt < 3 THEN Field(c, "stamp", 3) ELSE <<>>)
    \o (IF k.fmt < 2 THEN Field(c, "len", 3) \o Field(c, "type", 1) ELSE <<>>)
    \o (IF k.fmt = 0 THEN Field(c, "stream", 4) ELSE <<>>)
    \o (IF k.ext THEN Field(c, "ext", 4) ELSE <<>>)
    \o Field(c, "payload", k.size)

LenOf(kind, n) ==
  CASE kind \in {"window", "size"} -> Word
    [] kind = "bandwidth" -> Word + 1
    [] kind \in {"begin", "eof"} -> 2 + Word
    [] OTHER -> n

\* A message of some other channel is incomplete.
Mixed(ch) == \E d \in Channels \ {ch} : sent[d].off < sent[d].len

\* What comes while read_func parses is seen by its next recv only.
Emit(k) ==
  /\ un = <<>> /\ Len(chunks) < MaxChunks
  /\ chunks' = Append(chunks, k)
  /\ coming' = coming \o Bytes(Len(chunks) + 1, k)
  /\ sent' = [sent EXCEPT ![k.ch] =
                [kind |-> k.kind, len |-> k.len, off |-> k.off + k.size, stamp |-> k.stamp, used |-> TRUE]]
  /\ UNCHANGED <<un, state, header, cbuf, msg, given>>

\* Chunks of this size end in the middle of a number, or of a value of a command.
Splits(kind, len, size) ==
  CASE kind \in {"window", "bandwidth", "size"} -> size < len
    [] kind = "command" -> \E p \in 1 .. len - 1 : p % size = 0 /\ p \notin Breaks
    [] OTHER -> FALSE

\* A new message with its header in full (fmt 0), or as a difference to the
\* message before it (fmt 1, of another length; fmt 2).  Behind a message that
\* sets the size of chunks, the peer's chunks have that size.
PeerBegins(ch, kind, n, fmt, t, size) ==
  LET now == IF fmt = 0 THEN t ELSE sent[ch].stamp + t
      len == LenOf(kind, n)
  IN  /\ sent[ch].off = sent[ch].len
      /\ fmt > 0 => sent[ch].used
      /\ fmt = 2 => kind = sent[ch].kind /\ len = sent[ch].len
      /\ Emit([ch |-> ch, fmt |-> fmt, stamp |-> now, ext |-> t = Far, kind |-> kind, len |-> len,
               off |-> 0, size |-> Least(len, outsize), sets |-> size])
      /\ size \in (IF kind = "size" THEN Sizes ELSE {outsize})
      /\ outsize' = size
      /\ harm' = harm \cup (IF kind \in {"unknown", "bandwidth", "eof", "other"} THEN {"kind"} ELSE {})
                      \cup (IF Mixed(ch) THEN {"mixed"} ELSE {})
                      \cup (IF fmt > 0 /\ Far \in {now, t} THEN {"far"} ELSE {})
                      \cup (IF Splits(kind, len, outsize) THEN {"split"} ELSE {})

\* The message goes on (fmt 3): a timestamp behind Far is sent again.
PeerGoesOn(ch) ==
  LET s == sent[ch] IN
  /\ s.off < s.len
  /\ Emit([ch |-> ch, fmt |-> 3, stamp |-> s.stamp, ext |-> s.stamp >= Far, kind |-> s.kind, len |-> s.len,
           off |-> s.off, size |-> Least(s.len - s.off, outsize), sets |-> outsize])
  /\ UNCHANGED outsize
  /\ harm' = harm \cup (IF Mixed(ch) THEN {"mixed"} ELSE {})
                  \cup (IF s.stamp >= Far THEN {"far"} ELSE {})

\* The payload of chunk c may come in two parts, the first of n bytes: the chunk
\* ends its message, which is consumed by its length, or waits between two values.
Divisible(c, n) ==
  /\ chunks[c].off + chunks[c].size = chunks[c].len
  /\ \/ chunks[c].kind \in {"media", "begin"}
     \/ chunks[c].kind = "command" /\ chunks[c].off + n \in Breaks

\* Where a cut between two bytes does harm: in a field, or in a payload that is
\* not divisible there.
HarmfulCut(a, b) ==
  /\ a[1] = b[1] /\ a[2] = b[2]
  /\ ~(a[2] = "basic" /\ a[3] = 1)
  /\ a[2] = "payload" => ~Divisible(a[1], a[3])

------------------------------------------------------------------------------
(* The connection *)

\* read_func: recv returns n bytes.
Recv(n) ==
  /\ un = <<>> /\ state # "lost"
  /\ un' = Take(coming, n) /\ coming' = Drop(coming, n)
  /\ harm' = IF n < Len(coming) /\ HarmfulCut(coming[n], coming[n + 1]) THEN harm \cup {"cut"} ELSE harm
  /\ UNCHANGED <<peer, state, header, cbuf, msg, given>>

\* The parser takes n bytes for field f of the chunk it is in.
Are(bytes, f, n) ==
  /\ Len(bytes) >= n
  /\ \A i \in 1 .. n : bytes[i][1] = bytes[1][1] /\ bytes[i][2] = f /\ bytes[i][3] = bytes[1][3] + i - 1

\* Fewer bytes than the field has: goto EXIT, and read_func drops them.
Short(n) ==
  /\ Len(un) < n
  /\ un' = <<>>
  /\ UNCHANGED <<peer, coming, harm, state, header, cbuf, msg, given>>

\* The field is taken, or the parser is out of step.
Taken(f, n, next) ==
  /\ Len(un) >= n
  /\ un' = Drop(un, n)
  /\ state' = IF Are(un, f, n) /\ un[1][3] = 1 THEN next ELSE "lost"

HandshakeC0 ==
  /\ state = "C0" /\ un # <<>> /\ Taken("C0", 1, "C1")
  /\ UNCHANGED <<peer, coming, harm, header, cbuf, msg, given>>

\* The client answers with the S1 it got.
HandshakeBlock(f, next) ==
  /\ state = f /\ un # <<>>
  /\ Taken(f, Block, next)
  /\ UNCHANGED <<peer, coming, harm, header, cbuf, msg, given>>

HandshakeShort == state \in {"C1", "C2"} /\ un # <<>> /\ Short(Block)

Cur == un[1][1]

\* FMT, CHANNEL_1 and CHANNEL_2, which take one byte each
Basic ==
  /\ state = "FMT" /\ un # <<>>
  /\ IF Are(un, "basic", 1) /\ un[1][3] = 1
       THEN /\ curchunk' = chunks[Cur].ch /\ curfmt' = chunks[Cur].fmt
            /\ state' = CASE Width[chunks[Cur].ch] = 1 -> "CHANNEL"
                          [] Width[chunks[Cur].ch] = 2 -> "CHANNEL_2"
                          [] OTHER -> "CHANNEL_3"
       ELSE state' = "lost" /\ UNCHANGED <<curchunk, curfmt>>
  /\ un' = Drop(un, 1)
  /\ UNCHANGED <<peer, coming, harm, curlen, ichunksize, stream, cbuf, msg, given>>

Channel2 ==
  /\ state = "CHANNEL_2" /\ un # <<>>
  /\ state' = IF un[1][2] = "basic" /\ un[1][3] = 2 THEN "CHANNEL" ELSE "lost"
  /\ un' = Drop(un, 1)
  /\ UNCHANGED <<peer, coming, harm, header, cbuf, msg, given>>

\* CHANNEL_3 tests for one byte and takes two.
Channel3 ==
  /\ state = "CHANNEL_3" /\ un # <<>>
  /\ state' = IF Are(un, "basic", 2) /\ un[1][3] = 2 THEN "CHANNEL" ELSE "lost"
  /\ un' = Drop(un, Least(2, Len(un)))
  /\ UNCHANGED <<peer, coming, harm, header, cbuf, msg, given>>

Channel ==
  /\ state = "CHANNEL" /\ un # <<>>
  /\ state' = IF curfmt = 3 THEN "PAYLOAD" ELSE "TIMESTAMP"
  /\ UNCHANGED <<peer, coming, harm, un, header, cbuf, msg, given>>

\* Faulty variant of Timestamp: a difference replaces the timestamp.
TimestampReplaces ==
  /\ state = "TIMESTAMP" /\ un # <<>>
  /\ Taken("stamp", 3, IF curfmt = 2 THEN "EXTRA" ELSE "LEN")
  /\ state' # "lost" =>
       LET k == chunks[Cur]
           was == stream[curchunk].stamp
       IN  stream' = [stream EXCEPT ![curchunk].stamp =
                        IF k.fmt = 0 THEN (IF k.ext THEN Far ELSE k.stamp)
                        ELSE IF k.ext THEN Far ELSE k.stamp - was]
  /\ state' = "lost" => UNCHANGED stream
  /\ UNCHANGED <<peer, coming, harm, curchunk, curfmt, curlen, ichunksize, cbuf, msg, given>>

\* The value of the field: the peer's difference when the format says so
Timestamp ==
  /\ state = "TIMESTAMP" /\ un # <<>>
  /\ Taken("stamp", 3, IF curfmt = 2 THEN "EXTRA" ELSE "LEN")
  /\ state' # "lost" =>
       LET k == chunks[Cur]
           was == stream[curchunk].stamp
       IN  stream' = [stream EXCEPT ![curchunk].stamp =
                        IF k.fmt = 0 THEN (IF k.ext THEN Far ELSE k.stamp)
                        ELSE was + (IF k.ext THEN Far ELSE k.stamp - was)]
  /\ state' = "lost" => UNCHANGED stream
  /\ UNCHANGED <<peer, coming, harm, curchunk, curfmt, curlen, ichunksize, cbuf, msg, given>>

MsgLen ==
  /\ state = "LEN" /\ un # <<>>
  /\ Taken("len", 3, "TYPE")
  /\ stream' = IF state' = "lost" THEN stream ELSE [stream EXCEPT ![curchunk].len = chunks[Cur].len]
  /\ UNCHANGED <<peer, coming, harm, curchunk, curfmt, curlen, ichunksize, cbuf, msg, given>>

\* Faulty variant of MsgType: the stream id is not read.
MsgTypeNoStream ==
  /\ state = "TYPE" /\ un # <<>>
  /\ Taken("type", 1, "EXTRA")
  /\ stream' = IF state' = "lost" THEN stream ELSE [stream EXCEPT ![curchunk].kind = chunks[Cur].kind]
  /\ UNCHANGED <<peer, coming, harm, curchunk, curfmt, curlen, ichunksize, cbuf, msg, given>>

MsgType ==
  /\ state = "TYPE" /\ un # <<>>
  /\ Taken("type", 1, IF curfmt = 0 THEN "STREAMID" ELSE "EXTRA")
  /\ stream' = IF state' = "lost" THEN stream ELSE [stream EXCEPT ![curchunk].kind = chunks[Cur].kind]
  /\ UNCHANGED <<peer, coming, harm, curchunk, curfmt, curlen, ichunksize, cbuf, msg, given>>

StreamId ==
  /\ state = "STREAMID" /\ un # <<>>
  /\ Taken("stream", 4, "EXTRA")
  /\ UNCHANGED <<peer, coming, harm, header, cbuf, msg, given>>

\* Any timestamp that is 0xFFFFFF, also one that was added up, has four more bytes.
ExtraTimestamp ==
  /\ state = "EXTRA" /\ un # <<>>
  /\ IF stream[curchunk].stamp = Far
       THEN /\ Taken("ext", 4, "PAYLOAD")
            /\ stream' = IF state' = "lost" THEN stream
                         ELSE [stream EXCEPT ![curchunk].stamp = chunks[Cur].stamp]
       ELSE state' = "PAYLOAD" /\ UNCHANGED <<un, stream>>
  /\ UNCHANGED <<peer, coming, harm, curchunk, curfmt, curlen, ichunksize, cbuf, msg, given>>

HeaderShort ==
  /\ un # <<>>
  /\ \/ state \in {"TIMESTAMP", "LEN"} /\ Short(3)
     \/ state = "STREAMID" /\ Short(4)
     \/ state = "EXTRA" /\ stream[curchunk].stamp = Far /\ Short(4)

------------------------------------------------------------------------------
(* RNS_RTMP_CHUNK_PAYLOAD *)

Slice == Take(un, Least(Len(un), ichunksize))

\* rtmp_parse behind rtmp_msg_parse, which took s bytes of the slice: none means
\* the whole slice, and the chunk goes on if the slice was shorter than a chunk.
After(s) ==
  LET took == IF s = 0 THEN Len(Slice) ELSE s
      goesOn == s = 0 /\ Len(Slice) < ichunksize /\ curlen < ichunksize
      foreign == s < 0 \/ took > Len(un) \/ \E i \in 1 .. took : un[i][2] # "payload" \/ un[i][1] # Cur
  IN  /\ un' = IF foreign THEN <<>> ELSE Drop(un, took)
      /\ state' = IF foreign THEN "lost" ELSE IF goesOn THEN "PAYLOAD" ELSE "FMT"
      /\ curlen' = IF goesOn THEN curlen + s ELSE 0
      /\ UNCHANGED <<peer, coming, harm, curchunk, curfmt, stream>>

\* Faulty variant of Media: a message is complete with its last chunk but one.
MediaEarly ==
  /\ state = "PAYLOAD" /\ un # <<>> /\ stream[curchunk].kind = "media"
  /\ LET m == IF Len(msg.bytes) >= msg.size THEN [bytes |-> <<>>, size |-> stream[curchunk].len] ELSE msg
         n == Least(Len(Slice), m.size - Len(m.bytes))
         whole == m.bytes \o Take(Slice, n)
     IN  /\ msg' = [m EXCEPT !.bytes = whole]
         /\ given' = IF Len(whole) + ichunksize > m.size THEN Append(given, whole) ELSE given
         /\ After(IF Len(whole) = m.size THEN n ELSE 0)
  /\ UNCHANGED <<ichunksize, cbuf>>

\* rtmp_msg_payload: the bytes go to the last message of the stream, or to a new
\* one when that is complete.
Media ==
  /\ state = "PAYLOAD" /\ un # <<>> /\ stream[curchunk].kind = "media"
  /\ LET m == IF Len(msg.bytes) >= msg.size THEN [bytes |-> <<>>, size |-> stream[curchunk].len] ELSE msg
         n == Least(Len(Slice), m.size - Len(m.bytes))
         whole == m.bytes \o Take(Slice, n)
     IN  /\ msg' = [m EXCEPT !.bytes = whole]
         /\ given' = IF Len(whole) = m.size THEN Append(given, whole) ELSE given
         /\ After(IF Len(whole) = m.size THEN n ELSE 0)
  /\ UNCHANGED <<ichunksize, cbuf>>

\* cbuf begins with a message, and with all its m bytes.
Starts(bytes) == bytes[1][2] = "payload" /\ bytes[1][3] = 1 /\ chunks[bytes[1][1]].off = 0
Entire(bytes, m) == Len(bytes) >= m /\ \A i \in 1 .. m : bytes[i][2] = "payload"

\* What the parser of a message takes of cbuf.  A command without its name, or cut
\* in another value, is taken as far as it has come; one that ends between two
\* values waits.  Of a user control message of another type than begin only the
\* type is taken.  Bytes that begin no message can be anything.
Takes(bytes) ==
  LET k == chunks[bytes[1][1]] IN
  IF ~Starts(bytes) THEN {0, Len(bytes)}
  ELSE CASE k.kind = "unknown" -> {IF \E v \in Breaks : v <= Len(bytes) THEN 0 ELSE Len(bytes)}
         [] k.kind # "unknown" /\ Entire(bytes, k.len) -> {IF k.kind = "eof" THEN 2 ELSE k.len}
         [] k.kind = "command" /\ Len(bytes) < k.len /\ Len(bytes) \notin Breaks -> {Len(bytes)}
         [] OTHER -> {0}

Understood(bytes) ==
  Starts(bytes) /\ LET k == chunks[bytes[1][1]] IN k.kind # "unknown" /\ Entire(bytes, k.len)

\* Faulty variant of Command: what was understood stays in cbuf.
CommandKeeps ==
  /\ state = "PAYLOAD" /\ un # <<>> /\ stream[curchunk].kind \in {"command", "unknown", "begin", "eof"}
  /\ LET bytes == cbuf \o Slice IN
       /\ given' = IF Understood(bytes) THEN Append(given, Take(bytes, chunks[bytes[1][1]].len)) ELSE given
       /\ \E n \in Takes(bytes) :
            /\ cbuf' = bytes
            /\ After(IF n = 0 THEN 0 ELSE n - Len(cbuf))
  /\ UNCHANGED <<ichunksize, msg>>

\* Commands, data messages and user control messages go through cbuf, which is
\* one for all channels.  One that is not understood stays in front of all that
\* follow.
Command ==
  /\ state = "PAYLOAD" /\ un # <<>> /\ stream[curchunk].kind \in {"command", "unknown", "begin", "eof"}
  /\ LET bytes == cbuf \o Slice IN
       /\ given' = IF Understood(bytes) THEN Append(given, Take(bytes, chunks[bytes[1][1]].len)) ELSE given
       /\ \E n \in Takes(bytes) :
            /\ cbuf' = IF n = 0 THEN bytes ELSE <<>>
            /\ After(IF n = 0 THEN 0 ELSE n - Len(cbuf))
  /\ UNCHANGED <<ichunksize, msg>>

\* Faulty variant of Control: the connection keeps the size it reads chunks with.
ControlIgnores ==
  /\ state = "PAYLOAD" /\ un # <<>> /\ stream[curchunk].kind \in {"window", "bandwidth", "size", "other"}
  /\ IF stream[curchunk].kind # "other" /\ Len(Slice) >= Word
       THEN given' = Append(given, Take(Slice, Word)) /\ After(Word)
       ELSE After(0) /\ UNCHANGED given
  /\ UNCHANGED <<ichunksize, cbuf, msg>>

\* Window, bandwidth and the size of chunks: one number is taken, if it is there;
\* of the others nothing, so that the whole slice is skipped.
Control ==
  /\ state = "PAYLOAD" /\ un # <<>> /\ stream[curchunk].kind \in {"window", "bandwidth", "size", "other"}
  /\ IF stream[curchunk].kind # "other" /\ Len(Slice) >= Word
       THEN given' = Append(given, Take(Slice, Word)) /\ After(Word)
       ELSE After(0) /\ UNCHANGED given
  /\ ichunksize' = IF stream[curchunk].kind = "size" /\ Len(Slice) >= Word /\ Are(Slice, "payload", Word)
                    THEN chunks[Cur].sets ELSE ichunksize
  /\ UNCHANGED <<cbuf, msg>>

Parse ==
  \/ HandshakeC0 \/ HandshakeBlock("C1", "C2") \/ HandshakeBlock("C2", "FMT") \/ HandshakeShort
  \/ Basic \/ Channel2 \/ Channel3 \/ Channel \/ Timestamp \/ MsgLen \/ MsgType \/ StreamId
  \/ ExtraTimestamp \/ HeaderShort \/ Media \/ Command \/ Control

Next ==
  \/ \E ch \in Channels, kind \in Kinds, n \in Lengths, fmt \in 0 .. 2, t \in Stamps,
        size \in Sizes \cup {outsize} : PeerBegins(ch, kind, n, fmt, t, size)
  \/ \E ch \in Channels : PeerGoesOn(ch)
  \/ \E n \in 1 .. Len(coming) : Recv(n)
  \/ Parse

Spec == Init /\ [][Next]_vars

------------------------------------------------------------------------------
(* Properties *)

\* The parser is out of step with the bytes only after something it does not
\* provide for: a recv that ends in a field of a header, in the handshake, in a
\* number of a control message or a value of a command (its name, its transaction
\* id), or in a chunk that is not the last of its message; chunks so small that
\* they end there; a message of a type of which it does not consume the length; a
\* timestamp of 0xFFFFFF or more that is not the first of its channel; commands
\* of two channels at a time.  The peer may set another size of its chunks.
InStep == state = "lost" => harm # {}

\* At the payload, the timestamp, length and type kept for the channel are those
\* the peer meant, whichever of them its header left out, and whatever came on
\* the other channel in between.
HeaderKept ==
  (harm = {} /\ state = "PAYLOAD" /\ un # <<>>) =>
    LET k == chunks[Cur] IN
      /\ curchunk = k.ch
      /\ stream[curchunk] = [stamp |-> k.stamp, len |-> k.len, kind |-> k.kind]

\* What the bytes say was sent, message by message, as far as it is complete
Ends == SelectSeq([c \in DOMAIN chunks |-> c],
                  LAMBDA c : chunks[c].off + chunks[c].size = chunks[c].len)

\* Without harm, the messages are given on whole, in order, and each once: the
\* i-th ends with the last byte of the i-th message that was sent.
Delivered ==
  harm = {} =>
    /\ Len(given) <= Len(Ends)
    /\ \A i \in DOMAIN given :
         LET c == Ends[i] IN
           /\ given[i][Len(given[i])] = <<c, "payload", chunks[c].size>>
           /\ Len(given[i]) = chunks[c].len

\* Bytes that were read wait for the rest of their message only while it has
\* not come: when all that was sent has been read, every complete message has
\* been given on.
NothingKept ==
  (harm = {} /\ coming = <<>> /\ un = <<>>) => Len(given) = Len(Ends)
==============================================================================
