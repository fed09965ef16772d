------------------------------ MODULE RtmpDialog ------------------------------
(****************************************************************************)
(* What the server of rns_rtmp.c says to its clients: the handshake, the       *)
(* commands, how their arguments are read, and the answers in the order in     *)
(* which they are queued.  A message is whole here; RtmpChunk, Amf and RtmpSend *)
(* have the bytes, RtmpSession the lists behind publish, play and media.       *)
(*                                                                          *)
(* A value is a pair of its kind and what it says.  A command is its name and  *)
(* its arguments; what is not understood stays in cbuf, in front of the next   *)
(* one.                                                                      *)
(****************************************************************************)
EXTENDS Integers, Sequences, FiniteSets, SequencesExt

CONSTANTS
  Publishers, Players,  \* connections, by what their clients do
  None,
  MaxSaid    \* bound: commands of each client

Conns == Publishers \cup Players

VARIABLES
  state,   \* rconn->state: handshake, or "chunks"
  cbuf,    \* values that were not understood
  size,    \* ochunksize
  wish,    \* raudio, rvideo, pause and playseek, as they were asked for
  sindex,  \* the last stream id that was given
  stream,  \* the stream: [id, meta, players]; id 0 if nobody has published it
  said,    \* the commands of a client: [cmd, tid, args]
  ran,     \* those that were run, by their transactions
  heard,   \* what was queued for the client
  back     \* deleteStream has given an id back

vars == <<state, cbuf, size, wish, sindex, stream, said, ran, heard, back>>

Init ==
  /\ state = [c \in Conns |-> "C0"]
  /\ cbuf = [c \in Conns |-> <<>>]
  /\ size = [c \in Conns |-> 128]
  /\ wish = [c \in Conns |-> {}]
  /\ sindex = 0 /\ stream = [id |-> 0, meta |-> FALSE, players |-> {}]
  /\ said = [c \in Conns |-> <<>>] /\ ran = [c \in Conns |-> <<>>]
  /\ heard = [c \in Conns |-> <<>>]
  /\ back = FALSE

------------------------------------------------------------------------------
(* Handshake *)

\* rtmp_send_S0, rtmp_send_S1, rtmp_send_S2
HandshakeC0(c) ==
  /\ state[c] = "C0" /\ state' = [state EXCEPT ![c] = "C1"]
  /\ heard' = [heard EXCEPT ![c] = @ \o <<[say |-> "S0"], [say |-> "S1"]>>]
  /\ UNCHANGED <<cbuf, size, wish, sindex, stream, said, ran, back>>

HandshakeC1(c) ==
  /\ state[c] = "C1" /\ state' = [state EXCEPT ![c] = "C2"]
  /\ heard' = [heard EXCEPT ![c] = Append(@, [say |-> "S2"])]
  /\ UNCHANGED <<cbuf, size, wish, sindex, stream, said, ran, back>>

\* C2 repeats S1.
HandshakeC2(c) ==
  /\ state[c] = "C2" /\ state' = [state EXCEPT ![c] = "chunks"]
  /\ UNCHANGED <<cbuf, size, wish, sindex, stream, said, ran, heard, back>>

------------------------------------------------------------------------------
(* Reading *)

\* What a handler reads behind the name
ConnectArgs == <<"num", "obj">>
CallArgs == <<"num", "obj", "obj">>
NullArgs == <<"num", "null">>
NameArgs == <<"num", "null", "str">>
LengthArgs == <<"num", "null", "str">>
FlagArgs == <<"num", "null", "bool">>
DeleteArgs == <<"num", "null", "num">>
SeekArgs == <<"num", "null", "num">>
PauseArgs == <<"num", "null", "bool", "num">>
PublishArgs == <<"num", "null", "str", "str">>

Pattern(cmd) ==
  CASE cmd = "connect" -> ConnectArgs
    [] cmd = "call" -> CallArgs
    [] cmd \in {"createStream", "_checkbw", "closeStream"} -> NullArgs
    [] cmd \in {"releaseStream", "FCPublish", "play"} -> NameArgs
    [] cmd = "getStreamLength" -> LengthArgs
    [] cmd \in {"receiveAudio", "receiveVideo"} -> FlagArgs
    [] cmd = "deleteStream" -> DeleteArgs
    [] cmd = "seek" -> SeekArgs
    [] cmd = "pause" -> PauseArgs
    [] cmd = "publish" -> PublishArgs

\* close does nothing and play2 reads nothing; neither consumes its command.
Understood == {"connect", "call", "createStream", "_checkbw", "closeStream", "releaseStream",
               "FCPublish", "getStreamLength", "play", "receiveAudio", "receiveVideo",
               "deleteStream", "seek", "pause", "publish"}

Kinds(values) == [i \in DOMAIN values |-> values[i][1]]

\* Faulty variant of Outcome: what has no null is waited for.
OutcomeWaits(values) ==
  LET cmd == values[1][2]
      args == Kinds(Tail(values))
  IN  IF cmd \notin Understood THEN "wait"
      ELSE IF IsPrefix(Pattern(cmd), args) THEN "run"
      ELSE "wait"

\* What becomes of the values in cbuf: the command is run, it waits for a value that is
\* missing, or it is dropped because there is no null behind the transaction.  The type
\* of another value is not looked at; clients send the ones that are meant.
Outcome(values) ==
  LET cmd == values[1][2]
      args == Kinds(Tail(values))
  IN  IF cmd \notin Understood THEN "wait"
      ELSE IF IsPrefix(Pattern(cmd), args) THEN "run"
      ELSE IF Len(args) >= 2 /\ Pattern(cmd)[2] = "null" /\ args[2] # "null" THEN "drop"
      ELSE "wait"

------------------------------------------------------------------------------
(* Answering *)

Status(tid, code) == [say |-> "status", tid |-> tid, code |-> code]
Result(cmd, tid, value) == [say |-> cmd, tid |-> tid, value |-> value]

\* rtmp_chunkctrl_acksize, rtmp_chunkctrl_bw, rtmp_chunkctrl_chunksize and rtmp_uc_sb
Window == [say |-> "window"]
Bandwidth == [say |-> "bandwidth"]
ChunkSize == [say |-> "size", value |-> 1024]
Begin(sid) == [say |-> "begin", value |-> sid]

\* rtmp_resp_checkbw
BWDone == [say |-> "onBWDone", tid |-> 0]

\* rtmp_resp_connect: also the error says that the connection succeeded.
ConnectInfo(right) == [code |-> "NetConnection.Connect.Success", right |-> right]
ConnectResult(tid, app) ==
  Result(IF app = "ours" THEN "_result" ELSE "_error", tid, ConnectInfo(app = "ours"))

ConnectAnswer(tid, app) == <<Window, Bandwidth, ConnectResult(tid, app), BWDone>>

\* Each property of the object that is called app is answered.
ConnectSays(tid, obj) == FlattenSeq([i \in DOMAIN obj |-> ConnectAnswer(tid, obj[i])])

CreateSays(tid, sid) == <<Result("_result", tid, sid)>>
LengthSays(tid) == <<Result("_result", tid, 10)>>

\* rtmp_datamsg_send: the metadata of the stream
Greeting == IF stream.meta THEN <<[say |-> "meta"]>> ELSE <<>>

\* rtmp_resp_reset, rtmp_resp_play
Reset == Status(0, "NetStream.Play.Reset")
Start == <<Status(0, "NetStream.Play.Start")>> \o Greeting

\* Faulty variant of PlaySays: the start is told before the stream begins.
PlaySaysEarly(sid) ==
  IF stream.id = 0 THEN <<Reset>> ELSE <<ChunkSize>> \o Start \o <<Begin(sid), Reset>>

\* Of a stream that is not there the client hears a reset, and no more.
PlaySays(sid) ==
  IF stream.id = 0 THEN <<Reset>> ELSE <<ChunkSize, Begin(sid), Reset>> \o Start

PublishSays(tid) == <<ChunkSize, Status(tid, "NetStream.Publish.Start")>>

------------------------------------------------------------------------------
(* Running *)

\* Faulty variant of Numbered: the first id is given again.
NumberedAgain(cmd) ==
  CASE cmd = "createStream" -> IF sindex = 0 THEN 1 ELSE sindex
    [] cmd = "deleteStream" -> sindex - 1
    [] OTHER -> sindex

\* rtmp_command_createStream, rtmp_command_deleteStream
Numbered(cmd) ==
  CASE cmd = "createStream" -> sindex + 1
    [] cmd = "deleteStream" -> sindex - 1
    [] OTHER -> sindex

Say(c, messages) == heard' = [heard EXCEPT ![c] = @ \o messages]
Sized(c) == size' = [size EXCEPT ![c] = ChunkSize.value]

\* The handlers; m is the command: [cmd, tid, args, sid].
CommandConnect(c, m) ==
  /\ Say(c, ConnectSays(m.tid, m.args[2][2]))
  /\ UNCHANGED <<size, wish, stream>>

CommandCreateStream(c, m) ==
  /\ Say(c, CreateSays(m.tid, sindex'))
  /\ UNCHANGED <<size, wish, stream>>

CommandGetStreamLength(c, m) ==
  /\ Say(c, LengthSays(m.tid))
  /\ UNCHANGED <<size, wish, stream>>

CommandPlay(c, m) ==
  /\ Say(c, PlaySays(m.sid))
  /\ IF stream.id = 0 THEN UNCHANGED <<size, stream>>
     ELSE Sized(c) /\ stream' = [stream EXCEPT !.players = @ \cup {c}]
  /\ UNCHANGED wish

CommandPublish(c, m) ==
  /\ Say(c, PublishSays(m.tid))
  /\ Sized(c) /\ stream' = [stream EXCEPT !.id = m.sid]
  /\ UNCHANGED wish

CommandCloseStream(c) ==
  /\ stream' = [stream EXCEPT !.players = @ \ {c}]
  /\ UNCHANGED <<size, wish, heard>>

\* Whether media go to the client is up to play and closeStream alone: what it asks
\* for here is kept, and not looked at.
CommandWish(c, m) ==
  /\ wish' = [wish EXCEPT ![c] = @ \cup {m.cmd}]
  /\ UNCHANGED <<size, stream, heard>>

Run(c, m) ==
  /\ sindex' = Numbered(m.cmd)
  /\ back' = (back \/ m.cmd = "deleteStream")
  /\ ran' = [ran EXCEPT ![c] = Append(@, m.tid)]
  /\ CASE m.cmd = "connect" -> CommandConnect(c, m)
       [] m.cmd = "createStream" -> CommandCreateStream(c, m)
       [] m.cmd = "getStreamLength" -> CommandGetStreamLength(c, m)
       [] m.cmd = "play" -> CommandPlay(c, m)
       [] m.cmd = "publish" -> CommandPublish(c, m)
       [] m.cmd = "closeStream" -> CommandCloseStream(c)
       [] m.cmd \in {"receiveAudio", "receiveVideo", "seek", "pause"} -> CommandWish(c, m)
       [] OTHER -> UNCHANGED <<size, wish, stream, heard>>

\* rtmp_msg_parse and rtmp_command_parse: the message is put behind what waits, and the
\* command in front is looked at.  When it is run or dropped everything is gone.
Command(c, cmd, args, sid) ==
  LET values == cbuf[c] \o <<<<"str", cmd>>>> \o args
      o == Outcome(values)
      tid == Len(said[c]) + 1
  IN  /\ state[c] = "chunks" /\ Len(said[c]) < MaxSaid[c]
      /\ said' = [said EXCEPT ![c] = Append(@, [cmd |-> cmd, args |-> args])]
      /\ cbuf' = [cbuf EXCEPT ![c] = IF o = "wait" THEN values ELSE <<>>]
      /\ IF o = "run"
           THEN Run(c, [cmd |-> values[1][2], tid |-> values[2][2], args |-> Tail(values), sid |-> sid])
           ELSE UNCHANGED <<size, wish, sindex, stream, ran, heard, back>>
      /\ UNCHANGED state

------------------------------------------------------------------------------
(* Clients *)

Told(c) == SelectSeq(heard[c], LAMBDA h : h.say = "_result")
Connected(c) == Told(c) # <<>>

\* The streams that a client created, and the one that it uses
Created(c) ==
  LET own == SelectSeq(Told(c), LAMBDA h : said[c][h.tid].cmd = "createStream")
  IN  [i \in DOMAIN own |-> own[i].value]
Sid(c) == IF Created(c) = <<>> THEN 0 ELSE Last(Created(c))

Tid(c) == <<"num", Len(said[c]) + 1>>
Null == <<"null", None>>

\* connect: the object names our application, another one, or none.  The client waits
\* for the answer.
Connect(c) ==
  /\ said[c] = <<>>
  /\ \E obj \in {<<"ours">>, <<"other">>, <<>>} : Command(c, "connect", <<Tid(c), <<"obj", obj>>>>, 0)

\* A few commands are short of a value, or have another one for null.
Asks(c, cmds) ==
  /\ Connected(c)
  /\ \E cmd \in cmds :
       \/ Command(c, cmd, <<Tid(c), Null>> \o
            [i \in 1 .. (IF cmd \in Understood THEN Len(Pattern(cmd)) ELSE 3) - 2 |->
               <<(IF cmd \in Understood THEN Pattern(cmd)[i + 2] ELSE "str"), None>>], Sid(c))
       \/ cmd \in {"releaseStream", "getStreamLength"} /\ Command(c, cmd, <<Tid(c), Null>>, Sid(c))
       \/ cmd = "createStream" /\ Command(c, cmd, <<Tid(c), <<"obj", <<>>>>>>, Sid(c))

\* rtmp_resp_call says nothing.
Calls(c) ==
  /\ Connected(c)
  /\ Command(c, "call", <<Tid(c), <<"obj", <<>>>>, <<"obj", <<>>>>>>, Sid(c))

\* A name is published once, and an id is given back that nothing is published with:
\* see RtmpSession.
PublisherAsks(c) ==
  \/ Asks(c, {"createStream", "releaseStream", "FCPublish", "_checkbw", "FCUnpublish"})
  \/ Sid(c) > 0 /\ stream.id = 0 /\ cbuf[c] = <<>> /\ Asks(c, {"publish"})
  \/ Sid(c) > 0 /\ Sid(c) = sindex /\ stream.id # Sid(c) /\ cbuf[c] = <<>> /\ Asks(c, {"deleteStream"})
  \/ Calls(c)

\* A player waits for the metadata, and ends only what it began.
PlayerAsks(c) ==
  \/ Asks(c, {"createStream", "getStreamLength", "receiveAudio", "receiveVideo", "seek", "pause", "play2"})
  \/ /\ Sid(c) > 0 /\ ~(c \in stream.players) /\ (stream.id # 0 => stream.meta) /\ cbuf[c] = <<>>
     /\ Asks(c, {"play"})
  \/ c \in stream.players /\ cbuf[c] = <<>> /\ Asks(c, {"closeStream"})

\* rtmp_datamsg_parse
Meta(c) ==
  /\ Sid(c) > 0 /\ stream.id = Sid(c) /\ cbuf[c] = <<>>
  /\ stream' = [stream EXCEPT !.meta = TRUE]
  /\ UNCHANGED <<state, cbuf, size, wish, sindex, said, ran, heard, back>>

\* A message of the publisher goes to every player; one is enough for each.
Media(c) ==
  /\ Sid(c) > 0 /\ stream.id = Sid(c)
  /\ \E p \in stream.players : Last(heard[p]).say # "media"
  /\ heard' = [p \in Conns |-> IF p \in stream.players THEN Append(heard[p], [say |-> "media"])
                               ELSE heard[p]]
  /\ UNCHANGED <<state, cbuf, size, wish, sindex, stream, said, ran, back>>

Next ==
  \E c \in Conns :
    \/ HandshakeC0(c) \/ HandshakeC1(c) \/ HandshakeC2(c) \/ Connect(c)
    \/ c \in Publishers /\ (PublisherAsks(c) \/ Meta(c) \/ Media(c))
    \/ c \in Players /\ PlayerAsks(c)

Spec == Init /\ [][Next]_vars

------------------------------------------------------------------------------
(* Properties *)

Answering == {"connect", "createStream", "getStreamLength"}

\* Results come in the order of the commands, one to each; and a command that wants
\* one has it unless something before it was not understood, dropped or cut short.
Sane(c, i) == \A j \in 1 .. i : Outcome(<<<<"str", said[c][j].cmd>>>> \o said[c][j].args) = "run"
OneResult ==
  \A c \in Conns :
    LET r == SelectSeq(heard[c], LAMBDA h : h.say \in {"_result", "_error"}) IN
    /\ \A i, j \in DOMAIN r : i < j => r[i].tid < r[j].tid
    /\ \A i \in DOMAIN r : r[i].tid \in DOMAIN said[c] /\ said[c][r[i].tid].cmd \in Answering
    /\ \A i \in DOMAIN said[c] :
         (Sane(c, i) /\ said[c][i].cmd \in Answering /\ said[c][i].args[2] # <<"obj", <<>>>>)
           => \E k \in DOMAIN r : r[k].tid = i

\* What runs was said by the client, in order; everything it said is run if all of it
\* can be, and only what is not understood, or has no more behind it, waits.
RunInOrder ==
  \A c \in Conns :
    /\ \A i, j \in DOMAIN ran[c] : i < j => ran[c][i] < ran[c][j]
    /\ Sane(c, Len(said[c])) => cbuf[c] = <<>> /\ ran[c] = [i \in DOMAIN said[c] |-> i]
    /\ cbuf[c] # <<>> => ~(cbuf[c][1][2] \in Understood /\ Len(cbuf[c]) > Len(Pattern(cbuf[c][1][2])))

\* Streams of clients have ids of their own, as long as none was given back.
OwnIds ==
  ~back => \A c, d \in Conns : \A i \in DOMAIN Created(c), j \in DOMAIN Created(d) :
             Created(c)[i] = Created(d)[j] => c = d /\ i = j

\* A player hears of its stream, and of the size of the chunks, before it is told that it
\* plays; and only then metadata and media come.
Prepared ==
  \A c \in Players :
    LET h == heard[c]
        starts(i) == h[i].say = "status" /\ h[i].code = "NetStream.Play.Start"
    IN  \A i \in DOMAIN h :
          /\ starts(i) =>
               /\ i > 3 /\ h[i - 3].say = "size" /\ h[i - 2].say = "begin"
               /\ h[i - 2].value \in Range(Created(c))
          /\ h[i].say \in {"meta", "media"} => \E j \in 1 .. i - 1 : starts(j)

\* The client cuts and joins chunks by the size that the server goes by.
SizesAgree ==
  \A c \in Conns :
    LET told == SelectSeq(heard[c], LAMBDA h : h.say = "size")
    IN  size[c] = IF told = <<>> THEN 128 ELSE Last(told).value

DialogSound == OneResult /\ RunInOrder /\ OwnIds /\ Prepared /\ SizesAgree
==============================================================================
