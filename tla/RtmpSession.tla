------------------------------- MODULE RtmpSession -------------------------------
(****************************************************************************)
(* Publishers and players of rns_rtmp.c: the commands that link connections and  *)
(* streams, and the broadcast of a stream to its players.  A message is given on  *)
(* when the next one of its stream begins.  How bytes make messages, and messages *)
(* bytes, is in RtmpChunk and RtmpSend; who writes what was queued in RtmpFlush.  *)
(****************************************************************************)
EXTENDS Integers, Sequences, FiniteSets

CONSTANTS
  Conns,     \* connections
  Streams,   \* stream objects
  Names,     \* names of streams
  Kinds,     \* kinds of messages, of sequence, key, inter and audio
  MaxIndex,  \* stream ids that createStream gives
  MaxMsgs,   \* messages of a stream
  None

ASSUME SetsAssumption == None \notin Conns \cup Streams \cup Names
ASSUME KindsAssumption == Kinds \subseteq {"sequence", "key", "inter", "audio"}
ASSUME BoundsAssumption == MaxIndex \in Nat /\ MaxMsgs \in Nat

VARIABLES
  conn,      \* rconn: [open, net, on, pstate]
  stream,    \* mstreams and nstreams: [name, id, players, meta, head, last, kinds]
  sindex,
  got,       \* what was queued for a player since its play
  published, \* the stream that a connection published
  deleted,   \* a deleteStream took an id back
  undefined  \* a NULL or a foreign pointer was used

links == <<conn, stream, sindex, got, published, deleted>>
vars == <<links, undefined>>

Link(up) == [open |-> up, net |-> 0, on |-> None, pstate |-> "none"]
Node(name, id) == [name |-> name, id |-> id, players |-> {}, meta |-> FALSE, head |-> FALSE,
                   last |-> [kind |-> "none"], kinds |-> <<>>]
Used == {s \in Streams : stream[s].name # None}
Named(name) == {s \in Used : stream[s].name = name}

\* rbt_search_int in nstreams: with equal keys any of them
Found(id) == {s \in Used : stream[s].id = id}

Init ==
  /\ conn = [c \in Conns |-> Link(FALSE)] /\ stream = [s \in Streams |-> Node(None, 0)] /\ sindex = 0
  /\ got = [c \in Conns |-> <<>>] /\ published = [c \in Conns |-> None]
  /\ deleted = FALSE /\ undefined = FALSE

------------------------------------------------------------------------------
(* Connections *)

\* accept_func, rns_rconnserver_create
Accept(c) ==
  /\ ~conn[c].open
  /\ conn' = [conn EXCEPT ![c] = Link(TRUE)]
  /\ got' = [got EXCEPT ![c] = <<>>] /\ published' = [published EXCEPT ![c] = None]
  /\ UNCHANGED <<stream, sindex, deleted, undefined>>

\* Faulty variant of Destroyed: the connection stays among the players.
DestroyedLinked(c) ==
  /\ conn' = [conn EXCEPT ![c] = Link(FALSE)]
  /\ UNCHANGED <<stream, sindex, got, published, deleted, undefined>>

\* rns_rconn_destroy, when recv returns 0 or an error: the streams that the
\* connection published stay, with their names and ids.
Destroyed(c) ==
  /\ conn[c].open
  /\ conn' = [conn EXCEPT ![c] = Link(FALSE)]
  /\ stream' = IF conn[c].on = None THEN stream
               ELSE [stream EXCEPT ![conn[c].on].players = @ \ {c}]
  /\ UNCHANGED <<sindex, got, published, deleted, undefined>>

------------------------------------------------------------------------------
(* Commands *)

Crashes == undefined' = TRUE /\ UNCHANGED links

\* Faulty variant of CreateStream: the id is given again.
CreateStreamAgain(c) ==
  /\ sindex < MaxIndex
  /\ sindex' = IF sindex = 0 THEN 1 ELSE sindex
  /\ conn' = [conn EXCEPT ![c].net = sindex']
  /\ published' = [published EXCEPT ![c] = None]
  /\ UNCHANGED <<stream, got, deleted, undefined>>

\* rtmp_command_createStream
CreateStream(c) ==
  /\ sindex < MaxIndex
  /\ sindex' = sindex + 1
  /\ conn' = [conn EXCEPT ![c].net = sindex']
  /\ published' = [published EXCEPT ![c] = None]
  /\ UNCHANGED <<stream, got, deleted, undefined>>

\* Faulty variant of DeleteStream: the connection keeps the id.
DeleteStreamKeeps(c) ==
  /\ conn[c].net > 0
  /\ IF Found(conn[c].net) # {} THEN Crashes
     ELSE /\ sindex' = sindex - 1 /\ deleted' = TRUE
          /\ UNCHANGED <<conn, stream, got, published, undefined>>

\* rtmp_command_deleteStream: the id of a published stream has its name freed,
\* which is no pointer any more; any other one only counts down.
DeleteStream(c) ==
  /\ conn[c].net > 0
  /\ IF Found(conn[c].net) # {} THEN Crashes
     ELSE /\ sindex' = sindex - 1 /\ deleted' = TRUE
          /\ conn' = [conn EXCEPT ![c].net = 0]
          /\ UNCHANGED <<stream, got, published, undefined>>

\* rtmp_command_publish: a name that exists is looked up with the wrong node.
Publish(c, name) ==
  /\ conn[c].net > 0 /\ published[c] = None
  /\ IF Named(name) # {} THEN Crashes
     ELSE \E s \in Streams \ Used :
            /\ stream' = [stream EXCEPT ![s] = Node(name, conn[c].net)]
            /\ published' = [published EXCEPT ![c] = s]
            /\ UNCHANGED <<conn, sindex, got, deleted, undefined>>

\* rtmp_datamsg_parse
Meta(c) ==
  /\ published[c] # None
  /\ \E s \in Found(conn[c].net) : stream' = [stream EXCEPT ![s].meta = TRUE]
  /\ UNCHANGED <<conn, sindex, got, published, deleted, undefined>>

\* rtmp_datamsg_send: the metadata, and the sequence header if there is one
Greeting(s) ==
  IF stream[s].head
    THEN [pstate |-> "keyframe", sends |-> <<[kind |-> "meta"], [kind |-> "sequence"]>>]
    ELSE [pstate |-> "spspps", sends |-> <<[kind |-> "meta"]>>]

\* rtmp_command_play: the connection becomes a player.  The stream need not have
\* metadata yet, which are written all the same.
Play(c, name) ==
  /\ conn[c].net > 0
  /\ IF Named(name) = {} THEN UNCHANGED <<links, undefined>>
     ELSE LET s == CHOOSE x \in Named(name) : TRUE IN
       IF conn[c].on # None \/ ~stream[s].meta
         THEN undefined' = TRUE /\ UNCHANGED links
         ELSE /\ stream' = [stream EXCEPT ![s].players = @ \cup {c}]
              /\ conn' = [conn EXCEPT ![c].on = s, ![c].pstate = Greeting(s).pstate]
              /\ got' = [got EXCEPT ![c] = Greeting(s).sends]
              /\ UNCHANGED <<sindex, published, deleted, undefined>>

\* rtmp_command_closeStream: a connection that plays nothing has no links.
CloseStream(c) ==
  IF conn[c].on = None THEN Crashes
  ELSE /\ stream' = [stream EXCEPT ![conn[c].on].players = @ \ {c}]
       /\ conn' = [conn EXCEPT ![c].on = None]
       /\ got' = [got EXCEPT ![c] = <<>>]
       /\ UNCHANGED <<sindex, published, deleted, undefined>>

------------------------------------------------------------------------------
(* Messages *)

Shown(m, p) == conn[p].pstate # "keyframe" \/ m.kind = "key"

\* Faulty variant of Broadcast: what a player is sent does not depend on its state.
BroadcastAll(s, m) ==
  /\ got' = [p \in Conns |-> IF p \in stream[s].players THEN Append(got[p], m) ELSE got[p]]
  /\ conn' = [p \in Conns |-> IF p \in stream[s].players /\ conn[p].pstate = "keyframe" /\ m.kind = "key"
                                THEN [conn[p] EXCEPT !.pstate = "frame"] ELSE conn[p]]

\* rtmp_msg_send to every player
Broadcast(s, m) ==
  LET shown == {p \in stream[s].players : Shown(m, p)} IN
  /\ got' = [p \in Conns |-> IF p \in shown THEN Append(got[p], m) ELSE got[p]]
  /\ conn' = [p \in Conns |-> IF p \in shown /\ conn[p].pstate = "keyframe"
                                THEN [conn[p] EXCEPT !.pstate = "frame"] ELSE conn[p]]

\* rtmp_msg_payload with the first bytes of a message: the one before it is
\* complete, and is kept if it is a sequence header, or broadcast.
Media(c, kind) ==
  /\ published[c] # None
  /\ \E s \in Found(conn[c].net) :
       LET m == stream[s].last
           new == [kind |-> kind, n |-> Len(stream[s].kinds) + 1, of |-> published[c], in |-> s]
       IN  /\ Len(stream[s].kinds) < MaxMsgs
           /\ IF m.kind \in {"none", "sequence"} THEN UNCHANGED <<got, conn>>
              ELSE Broadcast(s, m)
           /\ stream' = [stream EXCEPT ![s].last = new,
                                       ![s].kinds = Append(@, kind),
                                       ![s].head = @ \/ m.kind = "sequence"]
  /\ UNCHANGED <<sindex, published, deleted, undefined>>

Command(c) ==
  \/ CreateStream(c) \/ DeleteStream(c) \/ Meta(c) \/ CloseStream(c)
  \/ \E name \in Names : Publish(c, name) \/ Play(c, name)
  \/ \E kind \in Kinds : Media(c, kind)

Next ==
  /\ ~undefined
  /\ \E c \in Conns : Accept(c) \/ Destroyed(c) \/ (conn[c].open /\ Command(c))

Spec == Init /\ [][Next]_vars

------------------------------------------------------------------------------
(* Properties *)

TypeOK ==
  /\ conn \in [Conns -> [open : BOOLEAN, net : 0 .. MaxIndex, on : Streams \cup {None},
                         pstate : {"none", "spspps", "keyframe", "frame"}]]
  /\ sindex \in 0 .. MaxIndex /\ published \in [Conns -> Streams \cup {None}]

\* The player's link and the list of the stream agree, whichever of play,
\* closeStream and the end of the connection came last: a broadcast reaches no
\* connection that was freed or that plays something else.
Linked ==
  \A c \in Conns, s \in Streams :
    (c \in stream[s].players) <=> (conn[c].open /\ conn[c].on = s)

\* What play sent: the metadata, and the sequence header if there was one.
Lead(f) == IF Len(f) > 1 /\ f[2].kind = "sequence" THEN 2 ELSE 1

\* f behind its lead is a key frame, if there was a header, and from it on every message
\* of kinds that is complete, in order and once, but sequence headers.
InOrder(f, kinds) ==
  LET Behind(i) == IF i < Len(f) THEN f[i + 1].n ELSE Len(kinds)
  IN  /\ Lead(f) = 2 /\ Len(f) > 2 => f[3].kind = "key"
      /\ \A i \in Lead(f) + 1 .. Len(f) :
           /\ f[i].n \in 1 .. Behind(i) - 1 /\ f[i].kind = kinds[f[i].n]
           /\ f[i].kind # "sequence"
           /\ \A k \in f[i].n + 1 .. Behind(i) - 1 : kinds[k] = "sequence"

\* Behind the sequence header that play sent, a player is shown a key frame
\* first, and from then on every message of the stream that was complete, in
\* order and once, but sequence headers.
Playable == \A c \in Conns :
  conn[c].on # None => InOrder(got[c], stream[conn[c].on].kinds)

\* What a player is shown was published for the stream it plays, unless a
\* deleteStream has given an id back that was not the last one.
OwnMedia == ~deleted =>
  \A c \in Conns : \A i \in DOMAIN got[c] :
    got[c][i].kind \notin {"meta", "sequence"} => got[c][i].of = got[c][i].in

\* The lists of nodes, streams and players agree in both directions, and lead to
\* the media of the name that was asked for.
ListsAgree == TypeOK /\ Linked /\ OwnMedia
==============================================================================
