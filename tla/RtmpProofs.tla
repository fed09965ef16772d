------------------------------ MODULE RtmpProofs ------------------------------
(* Proofs about the relay of RTMP streams, for any connections, streams, names *)
(* and bounds: RtmpSession, and RtmpFlush as MCRtmpRelay has it.               *)
EXTENDS MCRtmpRelay, FiniteSetTheorems, SequenceTheorems, WellFoundedInduction, TLAPS

USE SetsAssumption, KindsAssumption, BoundsAssumption

------------------------------------------------------------------------------
(* RtmpFlush *)

Waits(c) == c \notin fRoom \/ fEdge[c].in \/ fEdge[c].out

\* What is queued has the read_func that runs, rtmp->rconns, its socket or an event to
\* see to it; and when the loop rests, rtmp->rconns is only relied upon behind a publisher
\* that left.
FlushInv ==
  /\ fBusy \in fOpen \cup {None} /\ fOpen \subseteq Conns
  /\ fQueued \subseteq fOpen /\ fWaiting \subseteq fOpen /\ fRoom \subseteq Conns
  /\ fEdge \in [Conns -> [in : BOOLEAN, out : BOOLEAN]]
  /\ fCut \in BOOLEAN /\ fFreed = FALSE
  /\ \A c \in fQueued : c = fBusy \/ c \in fWaiting \/ Waits(c)
  /\ fBusy = None /\ ~ fCut => \A c \in fQueued : Waits(c)

LEMMA FlushInit == Flush!Init => FlushInv
<1> SUFFICES ASSUME Flush!Init PROVE FlushInv
  OBVIOUS
<1>1. [in |-> FALSE, out |-> FALSE] \in [in : BOOLEAN, out : BOOLEAN]
  OBVIOUS
<1>2. fEdge \in [Conns -> [in : BOOLEAN, out : BOOLEAN]]
  BY <1>1 DEF Flush!Init, Flush!Quiet
<1> QED BY <1>2 DEF Flush!Init, FlushInv

\* write_func for the connections of a set: those with tasks left have a full socket.
LEMMA WrittenFacts ==
  ASSUME NEW S, Flush!Written(S)
  PROVE  /\ fQueued' \subseteq fQueued /\ fRoom' \subseteq fRoom
         /\ \A c \in fQueued' \cap S : c \notin fRoom'
         /\ \A c \in fQueued \ S : c \in fQueued' /\ (c \in fRoom' <=> c \in fRoom)
BY DEF Flush!Written

LEMMA FlushNext == FlushInv /\ [Flush!Next]_flushVars => FlushInv'
<1> SUFFICES ASSUME FlushInv, [Flush!Next]_flushVars PROVE FlushInv'
  OBVIOUS
<1> USE DEF FlushInv, Waits
<1>1. ASSUME NEW c \in Conns, Flush!Accept(c) PROVE FlushInv'
  BY <1>1 DEF Flush!Accept
<1>2. ASSUME NEW c \in Conns, Flush!Readable(c) PROVE FlushInv'
  BY <1>2 DEF Flush!Readable, Flush!Quiet
<1>3. ASSUME NEW c \in Conns, Flush!Writable(c) PROVE FlushInv'
  <2>0. /\ fBusy = None /\ c \in fOpen /\ fEdge' = [fEdge EXCEPT ![c].out = FALSE]
        /\ Flush!Written({c}) /\ UNCHANGED <<fOpen, fBusy, fWaiting, fCut, fFreed>>
    BY <1>3 DEF Flush!Writable
  <2>1. /\ fEdge' \in [Conns -> [in : BOOLEAN, out : BOOLEAN]]
        /\ \A d \in Conns \ {c} : fEdge'[d] = fEdge[d]
    BY <2>0
  <2>2. /\ fQueued' \subseteq fQueued /\ fRoom' \subseteq fRoom
        /\ c \in fQueued' => c \notin fRoom'
        /\ \A d \in fQueued \ {c} : d \in fQueued' /\ (d \in fRoom' <=> d \in fRoom)
    BY <2>0, WrittenFacts
  <2>3. ASSUME NEW d \in fQueued' PROVE Waits(d)' \/ (d \in fWaiting /\ fCut)
    BY <2>0, <2>1, <2>2, <2>3
  <2> QED BY <2>0, <2>1, <2>2, <2>3
<1>4. ASSUME NEW c \in Conns, Flush!PeerSends(c) \/ Flush!PeerReads(c) PROVE FlushInv'
  <2>1. /\ fEdge' \in [Conns -> [in : BOOLEAN, out : BOOLEAN]]
        /\ \A d \in Conns \ {c} : fEdge'[d] = fEdge[d]
        /\ fEdge'[c].in \/ fEdge'[c].out
    <3>1. CASE Flush!PeerSends(c)
      BY <3>1 DEF Flush!PeerSends
    <3>2. CASE Flush!PeerReads(c)
      BY <3>2 DEF Flush!PeerReads
    <3> QED BY <1>4, <3>1, <3>2
  <2>2. /\ UNCHANGED <<fOpen, fBusy, fQueued, fWaiting, fCut, fFreed>>
        /\ fRoom' \in {fRoom, fRoom \cup {c}}
    BY <1>4 DEF Flush!PeerSends, Flush!PeerReads
  <2>3. ASSUME NEW d \in fQueued, Waits(d) PROVE Waits(d)'
    BY <2>1, <2>2, <2>3
  <2> QED BY <2>1, <2>2, <2>3
<1>5. ASSUME NEW P \in SUBSET fOpen, Flush!Media(P) PROVE FlushInv'
  BY <1>5 DEF Flush!Media
<1>6. CASE Flush!Command
  BY <1>6 DEF Flush!Command
<1>7. CASE Flush!ReadAgain
  <2>0. /\ fBusy # None /\ fBusy' = None /\ fCut' = FALSE
        /\ fFreed' = (fFreed \/ ~ (fWaiting \subseteq fOpen))
        /\ Flush!Written(fWaiting \cup {fBusy})
        /\ fWaiting' = fWaiting \cap fQueued' /\ UNCHANGED <<fOpen, fEdge>>
    BY <1>7 DEF Flush!ReadAgain
  <2>1. /\ fQueued' \subseteq fQueued /\ fRoom' \subseteq fRoom
        /\ \A c \in fQueued' \cap (fWaiting \cup {fBusy}) : c \notin fRoom'
        /\ \A c \in fQueued \ (fWaiting \cup {fBusy}) : c \in fQueued' /\ (c \in fRoom' <=> c \in fRoom)
    BY <2>0, WrittenFacts
  <2>2. ASSUME NEW c \in fQueued' PROVE Waits(c)'
    BY <2>0, <2>1, <2>2
  <2> QED BY <2>0, <2>1, <2>2
<1>8. CASE Flush!ReadEnd
  BY <1>8 DEF Flush!ReadEnd, Flush!Quiet
<1>9. CASE UNCHANGED flushVars
  BY <1>9 DEF flushVars
<1> QED BY <1>1, <1>2, <1>3, <1>4, <1>5, <1>6, <1>7, <1>8, <1>9 DEF Flush!Next

\* For any number of connections: what was queued has somebody who will write it, and
\* nothing is written to a connection that was freed.
THEOREM FlushSafe == Flush!Spec => []Flushed
<1>1. FlushInv => Flushed
  BY DEF FlushInv, Waits, Flushed, Flush!NoneStuck, Flush!NoneFreed
<1>2. FlushInv /\ [Flush!Next]_(Flush!vars) => FlushInv'
  BY FlushNext DEF Flush!vars, flushVars
<1> QED BY <1>1, <1>2, FlushInit, PTL DEF Flush!Spec

------------------------------------------------------------------------------
(* RtmpSession: the inductive invariant *)

ConnType == [open : BOOLEAN, net : 0 .. MaxIndex, on : Streams \cup {None},
             pstate : {"none", "spspps", "keyframe", "frame"}]
Messages == [kind : Kinds, n : Nat, of : Streams, in : Streams]
Sends == Messages \cup {[kind |-> "meta"], [kind |-> "sequence"]}
StreamType == [name : Names \cup {None}, id : 0 .. MaxIndex, players : SUBSET Conns,
               meta : BOOLEAN, head : BOOLEAN, last : Messages \cup {[kind |-> "none"]},
               kinds : Seq(Kinds)]

SessionTypes ==
  /\ conn \in [Conns -> ConnType] /\ stream \in [Streams -> StreamType]
  /\ sindex \in 0 .. MaxIndex /\ published \in [Conns -> Streams \cup {None}]
  /\ got \in [Conns -> Seq(Sends)] /\ deleted \in BOOLEAN

\* Until an id is given back, each id leads from one connection to the one stream that it
\* published, and a message belongs to the stream that keeps it.
Owned ==
  /\ \A c \in Conns : conn[c].net <= sindex
  /\ \A c, d \in Conns : conn[c].net > 0 /\ conn[c].net = conn[d].net => c = d
  /\ \A s \in Used : stream[s].id \in 1 .. sindex
  /\ \A s \in Used, c \in Conns : stream[s].id = conn[c].net => published[c] = s
  /\ \A s \in Streams : stream[s].last.kind # "none" => stream[s].last.of = stream[s].last.in
OwnInv == ~ deleted => Owned /\ OwnMedia

\* The message under way is the last of its stream.
LastInv == \A s \in Streams :
  LET n == Len(stream[s].kinds)
  IN  IF n = 0 THEN stream[s].last.kind = "none"
               ELSE stream[s].last.n = n /\ stream[s].last.kind = stream[s].kinds[n]

\* Each message that a player was sent is complete.
Within(f, kinds) == \A i \in Lead(f) + 1 .. Len(f) : f[i].n \in 1 .. Len(kinds) - 1

\* What a player was sent and the state it is in agree.
Agrees(f, kinds, pstate) ==
  /\ Len(f) >= 1
  /\ Lead(f) = 1 => pstate = "spspps"
  /\ Lead(f) = 2 => pstate = IF Len(f) = 2 THEN "keyframe" ELSE "frame"
  /\ InOrder(f, kinds) /\ Within(f, kinds)
PlayerInv(c) ==
  conn[c].on # None =>
    /\ conn[c].open /\ stream[conn[c].on].name # None
    /\ Agrees(got[c], stream[conn[c].on].kinds, conn[c].pstate)

\* sindex counts down no further than the connections that have an id.
WithId == {c \in Conns : conn[c].net > 0}
Counted == IsFiniteSet(WithId) /\ Cardinality(WithId) <= sindex

SessionInv ==
  /\ SessionTypes /\ Linked /\ OwnInv /\ LastInv /\ Counted
  /\ \A c \in Conns : PlayerInv(c)

LEMMA SessionInit == Init => SessionInv
<1> SUFFICES ASSUME Init PROVE SessionInv
  OBVIOUS
<1>0. /\ conn = [c \in Conns |-> Link(FALSE)] /\ stream = [s \in Streams |-> Node(None, 0)] /\ sindex = 0
      /\ got = [c \in Conns |-> <<>>] /\ published = [c \in Conns |-> None] /\ deleted = FALSE
  BY DEF Init
<1>1. Link(FALSE) \in ConnType /\ Link(FALSE).on = None /\ Link(FALSE).net = 0
  BY DEF Link, ConnType
<1>2. /\ Node(None, 0) \in StreamType /\ Node(None, 0).name = None /\ Node(None, 0).players = {}
      /\ Node(None, 0).last.kind = "none" /\ Node(None, 0).kinds = <<>>
  <2>1. <<>> \in Seq(Kinds)
    OBVIOUS
  <2> QED BY <2>1 DEF Node, StreamType
<1>3. SessionTypes
  <2>1. conn \in [Conns -> ConnType] /\ stream \in [Streams -> StreamType]
    BY <1>0, <1>1, <1>2
  <2>2. got \in [Conns -> Seq(Sends)]
    BY <1>0
  <2>3. sindex \in 0 .. MaxIndex /\ published \in [Conns -> Streams \cup {None}]
    BY <1>0
  <2>4. deleted \in BOOLEAN
    BY <1>0
  <2> QED BY <2>1, <2>2, <2>3, <2>4 DEF SessionTypes
<1>4. Linked /\ LastInv /\ \A c \in Conns : PlayerInv(c)
  BY <1>0, <1>1, <1>2 DEF Linked, LastInv, PlayerInv
<1>5. OwnInv
  <2>1. Used = {}
    BY <1>0, <1>2 DEF Used
  <2>2. Owned
    <3>1. \A c \in Conns : conn[c].net = 0
      BY <1>0, <1>1
    <3>2. \A s \in Streams : stream[s].last.kind = "none"
      BY <1>0, <1>2
    <3>3. sindex = 0
      BY <1>0
    <3> QED BY <2>1, <3>1, <3>2, <3>3 DEF Owned
  <2>3. OwnMedia
    BY <1>0 DEF OwnMedia
  <2> QED BY <2>2, <2>3 DEF OwnInv
<1>6. Counted
  <2>0. \A c \in Conns : conn[c].net = 0
    BY <1>0, <1>1
  <2>1. WithId = {}
    BY <2>0 DEF WithId
  <2> QED BY <1>0, <2>1, FS_EmptySet DEF Counted
<1> QED BY <1>3, <1>4, <1>5, <1>6 DEF SessionInv

------------------------------------------------------------------------------
(* What steps leave alone *)

LEMMA PlayerKept ==
  ASSUME NEW c \in Conns, PlayerInv(c), got'[c] = got[c],
         conn'[c].open = conn[c].open, conn'[c].on = conn[c].on,
         conn'[c].pstate = conn[c].pstate,
         conn[c].on # None => /\ stream'[conn[c].on].kinds = stream[conn[c].on].kinds
                              /\ stream'[conn[c].on].name = stream[conn[c].on].name
  PROVE  PlayerInv(c)'
BY DEF PlayerInv

LEMMA LinksKept ==
  ASSUME Linked, \A s \in Streams : stream'[s].players = stream[s].players,
         \A c \in Conns : conn'[c].open = conn[c].open /\ conn'[c].on = conn[c].on
  PROVE  Linked'
BY DEF Linked

LEMMA LastKept ==
  ASSUME LastInv,
         \A s \in Streams : stream'[s].last = stream[s].last /\ stream'[s].kinds = stream[s].kinds
  PROVE  LastInv'
BY DEF LastInv

\* The streams keep their names, ids and messages, and the players what they were sent; a
\* connection may lose its id.
LEMMA OwnKept ==
  ASSUME SessionTypes, OwnInv, deleted' = deleted, sindex' = sindex,
         \A c \in Conns : \/ conn'[c].net = conn[c].net /\ published'[c] = published[c]
                          \/ conn'[c].net = 0,
         \A c \in Conns : got'[c] = got[c] \/ got'[c] = <<>>,
         \A s \in Streams : /\ stream'[s].name = stream[s].name /\ stream'[s].id = stream[s].id
                            /\ stream'[s].last = stream[s].last
  PROVE  OwnInv'
<1>1. Used' = Used /\ Used \subseteq Streams
  BY DEF Used
<1>2. ~ deleted => OwnMedia'
  BY DEF OwnInv, OwnMedia
<1>3. ASSUME ~ deleted PROVE Owned'
  <2>1. /\ \A c \in Conns : conn[c].net <= sindex
        /\ \A c, d \in Conns : conn[c].net > 0 /\ conn[c].net = conn[d].net => c = d
        /\ \A s \in Used : stream[s].id \in 1 .. sindex
        /\ \A s \in Used, c \in Conns : stream[s].id = conn[c].net => published[c] = s
        /\ \A s \in Streams : stream[s].last.kind # "none" => stream[s].last.of = stream[s].last.in
    BY <1>3 DEF OwnInv, Owned
  <2>2. sindex \in Nat
    BY DEF SessionTypes
  <2>3. \A c \in Conns : conn'[c].net <= sindex
    BY <2>1, <2>2
  <2>4. ASSUME NEW c \in Conns, NEW d \in Conns, conn'[c].net > 0, conn'[c].net = conn'[d].net
        PROVE  c = d
    BY <2>1, <2>4
  <2>5. \A s \in Used : stream'[s].id \in 1 .. sindex
    BY <1>1, <2>1
  <2>6. ASSUME NEW s \in Used, NEW c \in Conns, stream'[s].id = conn'[c].net
        PROVE  published'[c] = s
    <3>1. conn'[c].net # 0
      BY <1>1, <2>1, <2>6
    <3> QED BY <1>1, <2>1, <2>6, <3>1
  <2>7. \A s \in Streams : stream'[s].last.kind # "none" => stream'[s].last.of = stream'[s].last.in
    BY <2>1
  <2> QED BY <1>1, <2>3, <2>4, <2>5, <2>6, <2>7 DEF Owned
<1> QED BY <1>2, <1>3 DEF OwnInv

LEMMA CountKept ==
  ASSUME Counted, sindex \in Nat, sindex' = sindex,
         \A c \in Conns : conn'[c].net = conn[c].net \/ conn'[c].net = 0
  PROVE  Counted'
<1>1. WithId' \subseteq WithId
  BY DEF WithId
<1>2. /\ IsFiniteSet(WithId') /\ Cardinality(WithId') <= Cardinality(WithId)
      /\ Cardinality(WithId) \in Nat /\ Cardinality(WithId') \in Nat
  BY <1>1, FS_Subset, FS_CardinalityType DEF Counted
<1> QED BY <1>2 DEF Counted

LEMMA CrashKept == ASSUME SessionInv, UNCHANGED links PROVE SessionInv'
<1>0. /\ conn' = conn /\ stream' = stream /\ sindex' = sindex /\ got' = got
      /\ published' = published /\ deleted' = deleted
  BY DEF links
<1>1. SessionTypes'
  BY <1>0 DEF SessionInv, SessionTypes
<1>2. Linked' /\ LastInv' /\ OwnInv'
  BY <1>0, LinksKept, LastKept, OwnKept DEF SessionInv
<1>3. \A c \in Conns : PlayerInv(c)'
  BY <1>0, PlayerKept DEF SessionInv
<1>4. Counted'
  BY <1>0, CountKept DEF SessionInv, SessionTypes
<1> QED BY <1>1, <1>2, <1>3, <1>4 DEF SessionInv

------------------------------------------------------------------------------
(* Connections *)

LEMMA AcceptInv == ASSUME SessionInv, NEW c \in Conns, Accept(c) PROVE SessionInv'
<1> USE DEF SessionInv
<1>0. /\ ~ conn[c].open /\ conn' = [conn EXCEPT ![c] = Link(TRUE)]
      /\ got' = [got EXCEPT ![c] = <<>>] /\ published' = [published EXCEPT ![c] = None]
      /\ stream' = stream /\ sindex' = sindex /\ deleted' = deleted
  BY DEF Accept
<1>1. Link(TRUE) \in ConnType /\ Link(TRUE).open /\ Link(TRUE).on = None /\ Link(TRUE).net = 0
  BY DEF Link, ConnType
<1>2. /\ conn \in [Conns -> ConnType] /\ got \in [Conns -> Seq(Sends)]
      /\ published \in [Conns -> Streams \cup {None}] 
  BY <1>0 DEF SessionTypes
<1>3. /\ conn'[c] = Link(TRUE) /\ got'[c] = <<>> /\ published'[c] = None
      /\ \A d \in Conns \ {c} : /\ conn'[d] = conn[d] /\ got'[d] = got[d]
                                /\ published'[d] = published[d]
  BY <1>0, <1>2
<1>4. SessionTypes'
  <2>1. <<>> \in Seq(Sends)
    OBVIOUS
  <2> QED BY <1>0, <1>1, <1>2, <2>1 DEF SessionTypes
<1>5. Linked'
  <2> SUFFICES ASSUME NEW d \in Conns, NEW s \in Streams
               PROVE  (d \in stream'[s].players) <=> (conn'[d].open /\ conn'[d].on = s)
    BY DEF Linked
  <2>1. (d \in stream[s].players) <=> (conn[d].open /\ conn[d].on = s)
    BY DEF Linked
  <2>2. CASE d = c
    BY <1>0, <1>1, <1>3, <2>1, <2>2
  <2>3. CASE d # c
    BY <1>0, <1>3, <2>1, <2>3
  <2> QED BY <2>2, <2>3
<1>6. LastInv'
  BY <1>0, LastKept
<1>7. OwnInv'
  BY <1>0, <1>1, <1>3, OwnKept
<1>8. ASSUME NEW d \in Conns PROVE PlayerInv(d)'
  <2>1. CASE d = c
    BY <1>1, <1>3, <2>1 DEF PlayerInv
  <2>2. CASE d # c
    BY <1>0, <1>3, <2>2, PlayerKept
  <2> QED BY <2>1, <2>2
<1>9. Counted'
  <2>1. Counted /\ sindex \in Nat
    BY DEF SessionTypes
  <2>2. \A d \in Conns : conn'[d].net = conn[d].net \/ conn'[d].net = 0
    BY <1>1, <1>3
  <2> QED BY <1>0, <2>1, <2>2, CountKept
<1> QED BY <1>4, <1>5, <1>6, <1>7, <1>8, <1>9

\* A player leaves the list of its stream, if it has one: rns_rconn_destroy and closeStream.
LEMMA LeftStreams ==
  ASSUME SessionTypes, NEW c \in Conns, NEW t \in Streams, conn[c].on = t,
         stream' = [stream EXCEPT ![t].players = @ \ {c}]
  PROVE  /\ stream' \in [Streams -> StreamType]
         /\ \A s \in Streams : /\ stream'[s].name = stream[s].name /\ stream'[s].id = stream[s].id
                               /\ stream'[s].last = stream[s].last /\ stream'[s].kinds = stream[s].kinds
                               /\ stream'[s].meta = stream[s].meta /\ stream'[s].head = stream[s].head
         /\ stream'[t].players = stream[t].players \ {c}
         /\ \A s \in Streams \ {t} : stream'[s].players = stream[s].players
<1>1. stream \in [Streams -> StreamType]
  BY DEF SessionTypes
<1>2. \A s \in Streams : stream'[s] = IF s = t THEN [stream[s] EXCEPT !.players = @ \ {c}] ELSE stream[s]
  BY <1>1
<1>3. stream[t] \in StreamType
  BY <1>1
<1>4. [stream[t] EXCEPT !.players = @ \ {c}] \in StreamType
  BY <1>3 DEF StreamType
<1>5. stream' \in [Streams -> StreamType]
  BY <1>1, <1>4
<1> QED BY <1>2, <1>3, <1>5 DEF StreamType

LEMMA DestroyedStep == ASSUME SessionInv, NEW c \in Conns, Destroyed(c) PROVE SessionInv'
<1> USE DEF SessionInv
<1>0. /\ conn[c].open /\ conn' = [conn EXCEPT ![c] = Link(FALSE)]
      /\ stream' = IF conn[c].on = None THEN stream
                   ELSE [stream EXCEPT ![conn[c].on].players = @ \ {c}]
      /\ sindex' = sindex /\ got' = got /\ published' = published /\ deleted' = deleted
  BY DEF Destroyed
<1>1. /\ Link(FALSE) \in ConnType /\ ~ Link(FALSE).open /\ Link(FALSE).on = None /\ Link(FALSE).net = 0
  BY DEF Link, ConnType
<1>2. conn \in [Conns -> ConnType] /\ conn[c].on \in Streams \cup {None}
  BY DEF SessionTypes, ConnType
<1>3. conn'[c] = Link(FALSE) /\ \A d \in Conns \ {c} : conn'[d] = conn[d]
  BY <1>0, <1>2
<1>4. /\ stream' \in [Streams -> StreamType]
      /\ \A s \in Streams : /\ stream'[s].name = stream[s].name /\ stream'[s].id = stream[s].id
                            /\ stream'[s].last = stream[s].last /\ stream'[s].kinds = stream[s].kinds
      /\ \A s \in Streams : stream'[s].players = IF s = conn[c].on THEN stream[s].players \ {c}
                                                 ELSE stream[s].players
  <2>1. CASE conn[c].on = None
    BY <1>0, <2>1 DEF SessionTypes
  <2>2. CASE conn[c].on # None
    <3>1. PICK t \in Streams : t = conn[c].on
      BY <1>2, <2>2
    <3>2. stream' = [stream EXCEPT ![t].players = @ \ {c}]
      BY <1>0, <2>2, <3>1
    <3>3. /\ stream' \in [Streams -> StreamType]
          /\ \A s \in Streams : /\ stream'[s].name = stream[s].name /\ stream'[s].id = stream[s].id
                                /\ stream'[s].last = stream[s].last /\ stream'[s].kinds = stream[s].kinds
          /\ \A s \in Streams : stream'[s].players = IF s = t THEN stream[s].players \ {c}
                                                     ELSE stream[s].players
      <4>1. SessionTypes /\ conn[c].on = t
        BY <3>1
      <4> HIDE DEF SessionInv
      <4>2. stream' \in [Streams -> StreamType]
        BY <3>2, <4>1, LeftStreams
      <4>3. ASSUME NEW s \in Streams
            PROVE  /\ stream'[s].name = stream[s].name /\ stream'[s].id = stream[s].id
                   /\ stream'[s].last = stream[s].last /\ stream'[s].kinds = stream[s].kinds
        BY <3>2, <4>1, LeftStreams
      <4>4. ASSUME NEW s \in Streams
            PROVE  stream'[s].players = IF s = t THEN stream[s].players \ {c} ELSE stream[s].players
        <5>1. stream'[t].players = stream[t].players \ {c}
          BY <3>2, <4>1, LeftStreams
        <5>2. s # t => stream'[s].players = stream[s].players
          BY <3>2, <4>1, LeftStreams
        <5> QED BY <5>1, <5>2
      <4> QED BY <4>2, <4>3, <4>4
    <3> QED BY <3>1, <3>3
  <2> QED BY <2>1, <2>2
<1>5. SessionTypes'
  <2>1. conn' \in [Conns -> ConnType]
    BY <1>0, <1>1, <1>2
  <2> QED BY <1>0, <1>4, <2>1 DEF SessionTypes
<1>6. Linked'
  <2> SUFFICES ASSUME NEW d \in Conns, NEW s \in Streams
               PROVE  (d \in stream'[s].players) <=> (conn'[d].open /\ conn'[d].on = s)
    BY DEF Linked
  <2>1. (d \in stream[s].players) <=> (conn[d].open /\ conn[d].on = s)
    BY DEF Linked
  <2>2. CASE d = c
    BY <1>1, <1>2, <1>3, <1>4, <2>1, <2>2
  <2>3. CASE d # c
    BY <1>3, <1>4, <2>1, <2>3
  <2> QED BY <2>2, <2>3
<1>7. LastInv'
  BY <1>4, LastKept
<1>8. OwnInv'
  BY <1>0, <1>1, <1>3, <1>4, OwnKept
<1>9. ASSUME NEW d \in Conns PROVE PlayerInv(d)'
  <2>1. CASE d = c
    BY <1>1, <1>3, <2>1 DEF PlayerInv
  <2>2. CASE d # c
    <3>1. conn[d].on \in Streams \cup {None}
      BY DEF SessionTypes, ConnType
    <3> QED BY <1>0, <1>3, <1>4, <2>2, <3>1, PlayerKept
  <2> QED BY <2>1, <2>2
<1>10. Counted'
  <2>1. Counted /\ sindex \in Nat
    BY DEF SessionTypes
  <2>2. \A d \in Conns : conn'[d].net = conn[d].net \/ conn'[d].net = 0
    BY <1>1, <1>3
  <2> QED BY <1>0, <2>1, <2>2, CountKept
<1> QED BY <1>5, <1>6, <1>7, <1>8, <1>9, <1>10

------------------------------------------------------------------------------
(* Commands *)

\* A connection gets an id, or loses it.
LEMMA NetSet ==
  ASSUME SessionTypes, NEW c \in Conns, NEW v \in 0 .. MaxIndex,
         conn' = [conn EXCEPT ![c].net = v]
  PROVE  /\ conn' \in [Conns -> ConnType] /\ conn'[c].net = v
         /\ \A d \in Conns : /\ conn'[d].open = conn[d].open /\ conn'[d].on = conn[d].on
                             /\ conn'[d].pstate = conn[d].pstate
         /\ \A d \in Conns \ {c} : conn'[d].net = conn[d].net
<1>1. conn \in [Conns -> ConnType]
  BY DEF SessionTypes
<1>2. \A d \in Conns : conn'[d] = IF d = c THEN [conn[c] EXCEPT !.net = v] ELSE conn[d]
  BY <1>1
<1>3. conn[c] \in ConnType
  BY <1>1
<1>4. [conn[c] EXCEPT !.net = v] \in ConnType
  BY <1>3 DEF ConnType
<1>5. conn' \in [Conns -> ConnType]
  BY <1>1, <1>4
<1> QED BY <1>2, <1>3, <1>5 DEF ConnType

LEMMA CreateStreamInv == ASSUME SessionInv, NEW c \in Conns, CreateStream(c) PROVE SessionInv'
<1>0. /\ sindex < MaxIndex /\ sindex' = sindex + 1 /\ conn' = [conn EXCEPT ![c].net = sindex + 1]
      /\ published' = [published EXCEPT ![c] = None]
      /\ stream' = stream /\ got' = got /\ deleted' = deleted
  BY DEF CreateStream
<1>1. SessionTypes /\ sindex \in 0 .. MaxIndex /\ sindex + 1 \in 0 .. MaxIndex
  BY <1>0 DEF SessionInv, SessionTypes
<1>2. /\ conn' \in [Conns -> ConnType] /\ conn'[c].net = sindex + 1
      /\ \A d \in Conns : /\ conn'[d].open = conn[d].open /\ conn'[d].on = conn[d].on
                          /\ conn'[d].pstate = conn[d].pstate
      /\ \A d \in Conns \ {c} : conn'[d].net = conn[d].net
  BY <1>0, <1>1, NetSet
<1>3. published' \in [Conns -> Streams \cup {None}] /\ \A d \in Conns \ {c} : published'[d] = published[d]
  BY <1>0, <1>1 DEF SessionTypes
<1>4. SessionTypes'
  BY <1>0, <1>1, <1>2, <1>3 DEF SessionTypes
<1>5. Linked' /\ LastInv'
  BY <1>0, <1>2, LinksKept, LastKept DEF SessionInv
<1>6. ASSUME ~ deleted PROVE Owned' /\ OwnMedia'
  <2>1. /\ \A d \in Conns : conn[d].net <= sindex /\ conn[d].net \in Nat
        /\ \A d, e \in Conns : conn[d].net > 0 /\ conn[d].net = conn[e].net => d = e
        /\ \A s \in Used : stream[s].id \in 1 .. sindex
        /\ \A s \in Used, d \in Conns : stream[s].id = conn[d].net => published[d] = s
        /\ \A s \in Streams : stream[s].last.kind # "none" => stream[s].last.of = stream[s].last.in
    BY <1>1, <1>6 DEF SessionInv, OwnInv, Owned, SessionTypes, ConnType
  <2>2. Used' = Used
    BY <1>0 DEF Used
  <2>3. \A d \in Conns : conn'[d].net <= sindex + 1
    BY <1>1, <1>2, <2>1
  <2>4. ASSUME NEW d \in Conns, NEW e \in Conns, conn'[d].net > 0, conn'[d].net = conn'[e].net
        PROVE  d = e
    BY <1>1, <1>2, <2>1, <2>4
  <2>5. \A s \in Used : stream[s].id \in 1 .. sindex + 1
    BY <1>1, <2>1
  <2>6. ASSUME NEW s \in Used, NEW d \in Conns, stream[s].id = conn'[d].net
        PROVE  published'[d] = s
    <3>1. d # c
      BY <1>1, <1>2, <2>1, <2>6
    <3> QED BY <1>2, <1>3, <2>1, <2>6, <3>1
  <2>7. Owned'
    BY <1>0, <2>1, <2>2, <2>3, <2>4, <2>5, <2>6 DEF Owned
  <2>8. OwnMedia'
    BY <1>0, <1>6 DEF SessionInv, OwnInv, OwnMedia
  <2> QED BY <2>7, <2>8
<1>7. OwnInv'
  BY <1>0, <1>6 DEF OwnInv
<1>8. \A d \in Conns : PlayerInv(d)'
  BY <1>0, <1>2, PlayerKept DEF SessionInv
<1>9. Counted'
  <2>1. WithId' \subseteq WithId \cup {c} /\ IsFiniteSet(WithId) /\ Cardinality(WithId) <= sindex
    BY <1>2 DEF WithId, SessionInv, Counted
  <2>2. /\ IsFiniteSet(WithId \cup {c}) /\ Cardinality(WithId) \in Nat
        /\ Cardinality(WithId \cup {c}) = IF c \in WithId THEN Cardinality(WithId) ELSE Cardinality(WithId) + 1
    BY <2>1, FS_AddElement, FS_CardinalityType
  <2>3. /\ IsFiniteSet(WithId') /\ Cardinality(WithId') <= Cardinality(WithId \cup {c})
        /\ Cardinality(WithId') \in Nat
    BY <2>1, <2>2, FS_Subset, FS_CardinalityType
  <2>4. Cardinality(WithId') <= sindex + 1
    BY <1>1, <2>1, <2>2, <2>3
  <2> QED BY <1>0, <2>3, <2>4 DEF Counted
<1> QED BY <1>4, <1>5, <1>7, <1>8, <1>9 DEF SessionInv

LEMMA DeleteStreamInv == ASSUME SessionInv, NEW c \in Conns, DeleteStream(c) PROVE SessionInv'
<1>1. CASE Crashes
  BY <1>1, CrashKept DEF Crashes
<1>2. CASE /\ conn[c].net > 0 /\ sindex' = sindex - 1 /\ deleted' = TRUE
           /\ conn' = [conn EXCEPT ![c].net = 0]
           /\ UNCHANGED <<stream, got, published, undefined>>
  <2>1. SessionTypes /\ 0 \in 0 .. MaxIndex
    BY DEF SessionInv
  <2>2. /\ conn' \in [Conns -> ConnType] /\ conn'[c].net = 0
        /\ \A d \in Conns : /\ conn'[d].open = conn[d].open /\ conn'[d].on = conn[d].on
                            /\ conn'[d].pstate = conn[d].pstate
        /\ \A d \in Conns \ {c} : conn'[d].net = conn[d].net
    BY <1>2, <2>1, NetSet
  <2>7. /\ IsFiniteSet(WithId') /\ Cardinality(WithId') = Cardinality(WithId) - 1
        /\ Cardinality(WithId') \in Nat /\ Cardinality(WithId) \in Nat
        /\ Cardinality(WithId) <= sindex
    <3>1. WithId' = WithId \ {c} /\ c \in WithId /\ IsFiniteSet(WithId) /\ Cardinality(WithId) <= sindex
      BY <1>2, <2>2 DEF WithId, SessionInv, Counted
    <3> QED BY <3>1, FS_RemoveElement, FS_CardinalityType
  <2>8. Counted'
    BY <1>2, <2>1, <2>7 DEF Counted, SessionTypes
  <2>3. SessionTypes'
    <3>1. sindex' \in 0 .. MaxIndex
      BY <1>2, <2>1, <2>7 DEF SessionTypes
    <3> QED BY <1>2, <2>1, <2>2, <3>1 DEF SessionTypes
  <2>4. Linked' /\ LastInv'
    BY <1>2, <2>2, LinksKept, LastKept DEF SessionInv
  <2>5. OwnInv'
    BY <1>2 DEF OwnInv
  <2>6. \A d \in Conns : PlayerInv(d)'
    BY <1>2, <2>2, PlayerKept DEF SessionInv
  <2> QED BY <2>3, <2>4, <2>5, <2>6, <2>8 DEF SessionInv
<1> QED BY <1>1, <1>2 DEF DeleteStream

\* A node that is not used is nobody's stream.
LEMMA Unlinked ==
  ASSUME SessionInv, NEW s \in Streams \ Used
  PROVE  stream[s].players = {} /\ \A c \in Conns : conn[c].on # s
<1>1. \A c \in Conns : conn[c].on # s
  BY SetsAssumption DEF SessionInv, PlayerInv, Used
<1>2. stream[s].players \subseteq Conns
  BY DEF SessionInv, SessionTypes, StreamType
<1> QED BY <1>1, <1>2 DEF SessionInv, Linked

LEMMA PublishInv ==
  ASSUME SessionInv, NEW c \in Conns, NEW name \in Names, Publish(c, name)
  PROVE  SessionInv'
<1>1. CASE Crashes
  BY <1>1, CrashKept DEF Crashes
<1>2. ASSUME NEW s \in Streams \ Used, conn[c].net > 0, published[c] = None,
             stream' = [stream EXCEPT ![s] = Node(name, conn[c].net)],
             published' = [published EXCEPT ![c] = s],
             UNCHANGED <<conn, sindex, got, deleted, undefined>>
      PROVE  SessionInv'
  <2>0. SessionTypes /\ Linked /\ OwnInv /\ LastInv /\ Counted
    BY DEF SessionInv
  <2>1. /\ stream \in [Streams -> StreamType] /\ published \in [Conns -> Streams \cup {None}]
        /\ conn[c].net \in 0 .. MaxIndex /\ sindex \in 0 .. MaxIndex
    BY <2>0 DEF SessionTypes, ConnType
  <2> DEFINE node == Node(name, conn[c].net)
  <2>2. /\ node \in StreamType /\ node.name = name /\ node.id = conn[c].net /\ node.players = {}
        /\ node.last.kind = "none" /\ node.kinds = <<>>
    <3>1. <<>> \in Seq(Kinds)
      OBVIOUS
    <3> QED BY <2>1, <3>1 DEF Node, StreamType
  <2>3. /\ stream' \in [Streams -> StreamType] /\ stream'[s] = node
        /\ \A t \in Streams \ {s} : stream'[t] = stream[t]
    BY <1>2, <2>1, <2>2
  <2>4. /\ published' \in [Conns -> Streams \cup {None}] /\ published'[c] = s
        /\ \A d \in Conns \ {c} : published'[d] = published[d]
    BY <1>2, <2>1
  <2> HIDE DEF node
  <2>5. SessionTypes'
    BY <1>2, <2>0, <2>3, <2>4 DEF SessionTypes
  <2>6. stream[s].players = {} /\ \A d \in Conns : conn[d].on # s
    BY Unlinked
  <2>7. Linked'
    <3>1. \A t \in Streams : stream'[t].players = stream[t].players
      BY <2>2, <2>3, <2>6
    <3> QED BY <1>2, <2>0, <3>1, LinksKept
  <2>8. LastInv'
    <3> SUFFICES ASSUME NEW t \in Streams
                 PROVE  LET n == Len(stream'[t].kinds)
                        IN  IF n = 0 THEN stream'[t].last.kind = "none"
                            ELSE stream'[t].last.n = n /\ stream'[t].last.kind = stream'[t].kinds[n]
      BY DEF LastInv
    <3>1. CASE t = s
      BY <2>2, <2>3, <3>1
    <3>2. CASE t # s
      BY <2>0, <2>3, <3>2 DEF LastInv
    <3> QED BY <3>1, <3>2
  <2>9. OwnInv'
    <3> SUFFICES ASSUME ~ deleted PROVE Owned' /\ OwnMedia'
      BY <1>2 DEF OwnInv
    <3>1. /\ \A d \in Conns : conn[d].net <= sindex
          /\ \A d, e \in Conns : conn[d].net > 0 /\ conn[d].net = conn[e].net => d = e
          /\ \A t \in Used : stream[t].id \in 1 .. sindex
          /\ \A t \in Used, d \in Conns : stream[t].id = conn[d].net => published[d] = t
          /\ \A t \in Streams : stream[t].last.kind # "none" => stream[t].last.of = stream[t].last.in
          /\ OwnMedia
      BY <2>0 DEF OwnInv, Owned
    <3>2. Used' = Used \cup {s} /\ Used \subseteq Streams
      BY <2>2, <2>3, SetsAssumption DEF Used
    <3>3. conn[c].net \in 1 .. sindex
      BY <1>2, <2>1, <3>1
    <3>4. \A t \in Used' : stream'[t].id \in 1 .. sindex
      BY <2>2, <2>3, <3>1, <3>2, <3>3
    <3>5. ASSUME NEW t \in Used', NEW d \in Conns, stream'[t].id = conn[d].net PROVE published'[d] = t
      <4>1. CASE t = s
        <5>1. d = c
          BY <1>2, <2>2, <2>3, <3>1, <3>5, <4>1
        <5> QED BY <2>4, <4>1, <5>1
      <4>2. CASE t # s
        <5>1. t \in Used /\ published[d] = t /\ t # None
          BY <2>3, <3>1, <3>2, <3>5, <4>2, SetsAssumption
        <5>2. d # c
          BY <1>2, <5>1
        <5> QED BY <2>4, <5>1, <5>2
      <4> QED BY <4>1, <4>2
    <3>6. \A t \in Streams : stream'[t].last.kind # "none" => stream'[t].last.of = stream'[t].last.in
      BY <2>2, <2>3, <3>1
    <3>7. Owned'
      BY <1>2, <3>1, <3>4, <3>5, <3>6 DEF Owned
    <3>8. OwnMedia'
      BY <1>2, <3>1 DEF OwnMedia
    <3> QED BY <3>7, <3>8
  <2>10. ASSUME NEW d \in Conns PROVE PlayerInv(d)'
    <3>1. conn[d].on # s /\ conn[d].on \in Streams \cup {None} /\ PlayerInv(d)
      BY <2>0, <2>6 DEF SessionTypes, ConnType, SessionInv
    <3> QED BY <1>2, <2>3, <3>1, PlayerKept
  <2>11. Counted'
    BY <1>2, <2>0, <2>1, CountKept
  <2> QED BY <2>5, <2>7, <2>8, <2>9, <2>10, <2>11 DEF SessionInv
<1> QED BY <1>1, <1>2 DEF Publish

LEMMA MetaInv == ASSUME SessionInv, NEW c \in Conns, Meta(c) PROVE SessionInv'
<1>0. PICK s \in Found(conn[c].net) : stream' = [stream EXCEPT ![s].meta = TRUE]
  BY DEF Meta
<1>1. UNCHANGED <<conn, sindex, got, published, deleted>> /\ s \in Streams
  BY DEF Meta, Found, Used
<1>2. SessionTypes /\ stream \in [Streams -> StreamType]
  BY DEF SessionInv, SessionTypes
<1>3. \A t \in Streams : stream'[t] = IF t = s THEN [stream[s] EXCEPT !.meta = TRUE] ELSE stream[t]
  BY <1>0, <1>1, <1>2
<1>4. stream' \in [Streams -> StreamType]
  <2>1. stream[s] \in StreamType
    BY <1>1, <1>2
  <2>2. [stream[s] EXCEPT !.meta = TRUE] \in StreamType
    BY <2>1 DEF StreamType
  <2> QED BY <1>0, <1>1, <1>2, <2>2
<1>5. ASSUME NEW t \in Streams
      PROVE  /\ stream'[t].name = stream[t].name /\ stream'[t].id = stream[t].id
             /\ stream'[t].last = stream[t].last /\ stream'[t].kinds = stream[t].kinds
             /\ stream'[t].players = stream[t].players
  BY <1>2, <1>3 DEF StreamType
<1>6. SessionTypes'
  BY <1>1, <1>2, <1>4 DEF SessionTypes
<1>7. Linked' /\ LastInv' /\ OwnInv'
  BY <1>1, <1>5, LinksKept, LastKept, OwnKept DEF SessionInv
<1>8. ASSUME NEW d \in Conns PROVE PlayerInv(d)'
  <2>1. conn[d].on \in Streams \cup {None} /\ PlayerInv(d)
    BY <1>2 DEF SessionTypes, ConnType, SessionInv
  <2> QED BY <1>1, <1>5, <2>1, PlayerKept
<1>9. Counted'
  BY <1>1, <1>2, CountKept DEF SessionInv, SessionTypes
<1> QED BY <1>6, <1>7, <1>8, <1>9 DEF SessionInv

LEMMA PlayInv ==
  ASSUME SessionInv, NEW c \in Conns, conn[c].open, NEW name \in Names, Play(c, name)
  PROVE  SessionInv'
<1>1. CASE UNCHANGED links
  BY <1>1, CrashKept
<1>2. CASE Named(name) # {} /\ ~ UNCHANGED links
  <2> DEFINE s == CHOOSE x \in Named(name) : TRUE
  <2>0. /\ SessionTypes /\ Linked /\ OwnInv /\ LastInv /\ Counted
        /\ s \in Streams /\ stream[s].name # None
    BY <1>2 DEF SessionInv, Named, Used
  <2>1. /\ conn[c].on = None
        /\ stream' = [stream EXCEPT ![s].players = @ \cup {c}]
        /\ conn' = [conn EXCEPT ![c].on = s, ![c].pstate = Greeting(s).pstate]
        /\ got' = [got EXCEPT ![c] = Greeting(s).sends]
        /\ UNCHANGED <<sindex, published, deleted>>
    BY <1>2 DEF Play, Greeting
  <2> HIDE DEF s
  <2>2. /\ stream \in [Streams -> StreamType] /\ conn \in [Conns -> ConnType]
        /\ got \in [Conns -> Seq(Sends)] /\ sindex \in Nat
    BY <2>0 DEF SessionTypes
  <2>3. \A t \in Streams : stream'[t] = IF t = s THEN [stream[s] EXCEPT !.players = @ \cup {c}] ELSE stream[t]
    BY <2>0, <2>1, <2>2
  <2>4. stream' \in [Streams -> StreamType]
    <3>1. stream[s] \in StreamType
      BY <2>0, <2>2
    <3>2. [stream[s] EXCEPT !.players = @ \cup {c}] \in StreamType
      BY <3>1 DEF StreamType
    <3> QED BY <2>0, <2>1, <2>2, <3>2
  <2>5. ASSUME NEW t \in Streams
        PROVE  /\ stream'[t].name = stream[t].name /\ stream'[t].id = stream[t].id
               /\ stream'[t].last = stream[t].last /\ stream'[t].kinds = stream[t].kinds
    BY <2>2, <2>3 DEF StreamType
  <2>6. /\ stream'[s].players = stream[s].players \cup {c}
        /\ \A t \in Streams \ {s} : stream'[t].players = stream[t].players
    BY <2>0, <2>2, <2>3 DEF StreamType
  <2>7. /\ Greeting(s).pstate \in {"spspps", "keyframe"} /\ Greeting(s).sends \in Seq(Sends)
        /\ Agrees(Greeting(s).sends, stream[s].kinds, Greeting(s).pstate)
        /\ \A i \in DOMAIN Greeting(s).sends : Greeting(s).sends[i].kind \in {"meta", "sequence"}
    <3>1. CASE stream[s].head
      <4>1. Greeting(s) = [pstate |-> "keyframe", sends |-> <<[kind |-> "meta"], [kind |-> "sequence"]>>]
        BY <3>1 DEF Greeting
      <4> DEFINE f == <<[kind |-> "meta"], [kind |-> "sequence"]>>
      <4>2. f \in Seq(Sends) /\ Len(f) = 2 /\ f[1].kind = "meta" /\ f[2].kind = "sequence"
        BY DEF Sends
      <4> HIDE DEF f
      <4>3. Lead(f) = 2
        BY <4>2 DEF Lead
      <4>4. InOrder(f, stream[s].kinds) /\ Within(f, stream[s].kinds)
        BY <4>2, <4>3 DEF InOrder, Within
      <4>5. Agrees(f, stream[s].kinds, "keyframe")
        BY <4>2, <4>3, <4>4 DEF Agrees
      <4> QED BY <4>1, <4>2, <4>5 DEF f
    <3>2. CASE ~ stream[s].head
      <4>1. Greeting(s) = [pstate |-> "spspps", sends |-> <<[kind |-> "meta"]>>]
        BY <3>2 DEF Greeting
      <4> DEFINE f == <<[kind |-> "meta"]>>
      <4>2. f \in Seq(Sends) /\ Len(f) = 1 /\ f[1].kind = "meta"
        BY DEF Sends
      <4> HIDE DEF f
      <4>3. Lead(f) = 1
        BY <4>2 DEF Lead
      <4>4. InOrder(f, stream[s].kinds) /\ Within(f, stream[s].kinds)
        BY <4>2, <4>3 DEF InOrder, Within
      <4>5. Agrees(f, stream[s].kinds, "spspps")
        BY <4>2, <4>3, <4>4 DEF Agrees
      <4> QED BY <4>1, <4>2, <4>5 DEF f
    <3> QED BY <3>1, <3>2
  <2>8. \A d \in Conns : conn'[d] = IF d = c THEN [conn[c] EXCEPT !.on = s, !.pstate = Greeting(s).pstate]
                                    ELSE conn[d]
    BY <2>1, <2>2
  <2>9. conn' \in [Conns -> ConnType]
    <3>1. conn[c] \in ConnType
      BY <2>2
    <3>2. [conn[c] EXCEPT !.on = s, !.pstate = Greeting(s).pstate] \in ConnType
      BY <2>0, <2>7, <3>1 DEF ConnType
    <3> QED BY <2>1, <2>2, <2>8, <3>2
  <2>10. /\ conn'[c].on = s /\ conn'[c].pstate = Greeting(s).pstate /\ conn'[c].open
         /\ \A d \in Conns : conn'[d].open = conn[d].open /\ conn'[d].net = conn[d].net
         /\ \A d \in Conns \ {c} : conn'[d] = conn[d]
    BY <2>2, <2>8 DEF ConnType
  <2>11. got' \in [Conns -> Seq(Sends)] /\ got'[c] = Greeting(s).sends
         /\ \A d \in Conns \ {c} : got'[d] = got[d]
    BY <2>1, <2>2, <2>7
  <2>12. SessionTypes'
    BY <2>0, <2>1, <2>4, <2>9, <2>11 DEF SessionTypes
  <2>13. Linked'
    <3> SUFFICES ASSUME NEW d \in Conns, NEW t \in Streams
                 PROVE  (d \in stream'[t].players) <=> (conn'[d].open /\ conn'[d].on = t)
      BY DEF Linked
    <3>1. (d \in stream[t].players) <=> (conn[d].open /\ conn[d].on = t)
      BY <2>0 DEF Linked
    <3>2. CASE d = c
      BY <2>0, <2>1, <2>6, <2>10, <3>1, <3>2, SetsAssumption
    <3>3. CASE d # c
      BY <2>6, <2>10, <3>1, <3>3
    <3> QED BY <3>2, <3>3
  <2>14. LastInv'
    BY <2>0, <2>5, LastKept
  <2>15. OwnInv'
    <3>1. ~ deleted => OwnMedia'
      BY <2>0, <2>7, <2>11, <2>1 DEF OwnInv, OwnMedia
    <3>2. ASSUME ~ deleted PROVE Owned'
      <4>1. Used' = Used /\ Used \subseteq Streams
        BY <2>5 DEF Used
      <4>2. /\ \A d \in Conns : conn[d].net <= sindex
            /\ \A d, e \in Conns : conn[d].net > 0 /\ conn[d].net = conn[e].net => d = e
            /\ \A t \in Used : stream[t].id \in 1 .. sindex
            /\ \A t \in Used, d \in Conns : stream[t].id = conn[d].net => published[d] = t
            /\ \A t \in Streams : stream[t].last.kind # "none" => stream[t].last.of = stream[t].last.in
        BY <2>0, <3>2 DEF OwnInv, Owned
      <4>3. \A t \in Used' : stream'[t].id \in 1 .. sindex'
        BY <2>1, <2>5, <4>1, <4>2
      <4>4. \A t \in Used', d \in Conns : stream'[t].id = conn'[d].net => published'[d] = t
        BY <2>1, <2>5, <2>10, <4>1, <4>2
      <4>5. \A d \in Conns : conn'[d].net <= sindex'
        BY <2>1, <2>10, <4>2
      <4>7. ASSUME NEW d \in Conns, NEW e \in Conns, conn'[d].net > 0, conn'[d].net = conn'[e].net
            PROVE  d = e
        <5>1. conn[d].net > 0 /\ conn[d].net = conn[e].net
          BY <2>10, <4>7
        <5> QED BY <4>2, <5>1
      <4>6. \A t \in Streams : stream'[t].last.kind # "none" => stream'[t].last.of = stream'[t].last.in
        BY <2>5, <4>2
      <4> QED BY <4>3, <4>4, <4>5, <4>6, <4>7 DEF Owned
    <3> QED BY <2>1, <3>1, <3>2 DEF OwnInv
  <2>16. ASSUME NEW d \in Conns PROVE PlayerInv(d)'
    <3>1. CASE d = c
      BY <2>0, <2>5, <2>7, <2>10, <2>11, <3>1 DEF PlayerInv
    <3>2. CASE d # c
      <4>1. conn[d].on \in Streams \cup {None} /\ PlayerInv(d)
        BY <2>2 DEF ConnType, SessionInv
      <4> QED BY <2>5, <2>10, <2>11, <3>2, <4>1, PlayerKept
    <3> QED BY <3>1, <3>2
  <2>17. Counted'
    BY <2>0, <2>1, <2>2, <2>10, CountKept
  <2> QED BY <2>12, <2>13, <2>14, <2>15, <2>16, <2>17 DEF SessionInv
<1> QED BY <1>1, <1>2 DEF Play

LEMMA CloseStreamInv == ASSUME SessionInv, NEW c \in Conns, CloseStream(c) PROVE SessionInv'
<1>1. CASE Crashes
  BY <1>1, CrashKept DEF Crashes
<1>2. CASE /\ conn[c].on # None
           /\ stream' = [stream EXCEPT ![conn[c].on].players = @ \ {c}]
           /\ conn' = [conn EXCEPT ![c].on = None]
           /\ got' = [got EXCEPT ![c] = <<>>]
           /\ UNCHANGED <<sindex, published, deleted, undefined>>
  <2>0. SessionTypes /\ Linked /\ OwnInv /\ LastInv /\ Counted
    BY DEF SessionInv
  <2>1. conn \in [Conns -> ConnType] /\ got \in [Conns -> Seq(Sends)] /\ sindex \in Nat
    BY <2>0 DEF SessionTypes
  <2>2. PICK t \in Streams : conn[c].on = t
    BY <1>2, <2>1 DEF ConnType
  <2>3. stream' = [stream EXCEPT ![t].players = @ \ {c}]
    BY <1>2, <2>2
  <2>4. stream' \in [Streams -> StreamType] /\ stream'[t].players = stream[t].players \ {c}
    BY <2>0, <2>2, <2>3, LeftStreams
  <2>5. ASSUME NEW s \in Streams
        PROVE  /\ stream'[s].name = stream[s].name /\ stream'[s].id = stream[s].id
               /\ stream'[s].last = stream[s].last /\ stream'[s].kinds = stream[s].kinds
    BY <2>0, <2>2, <2>3, LeftStreams
  <2>6. ASSUME NEW s \in Streams \ {t} PROVE stream'[s].players = stream[s].players
    BY <2>0, <2>2, <2>3, LeftStreams
  <2>7. \A d \in Conns : conn'[d] = IF d = c THEN [conn[c] EXCEPT !.on = None] ELSE conn[d]
    BY <1>2, <2>1
  <2>8. conn' \in [Conns -> ConnType]
    <3>1. [conn[c] EXCEPT !.on = None] \in ConnType
      BY <2>1 DEF ConnType
    <3> QED BY <1>2, <2>1, <3>1
  <2>9. /\ conn'[c].on = None /\ \A d \in Conns \ {c} : conn'[d] = conn[d]
        /\ \A d \in Conns : conn'[d].net = conn[d].net
    BY <2>1, <2>7 DEF ConnType
  <2>10. got' \in [Conns -> Seq(Sends)] /\ got'[c] = <<>> /\ \A d \in Conns \ {c} : got'[d] = got[d]
    <3>1. <<>> \in Seq(Sends)
      OBVIOUS
    <3> QED BY <1>2, <2>1, <3>1
  <2>11. SessionTypes'
    BY <1>2, <2>0, <2>4, <2>8, <2>10 DEF SessionTypes
  <2>12. Linked'
    <3> SUFFICES ASSUME NEW d \in Conns, NEW s \in Streams
                 PROVE  (d \in stream'[s].players) <=> (conn'[d].open /\ conn'[d].on = s)
      BY DEF Linked
    <3>1. (d \in stream[s].players) <=> (conn[d].open /\ conn[d].on = s)
      BY <2>0 DEF Linked
    <3>2. CASE d = c
      BY <2>2, <2>4, <2>6, <2>9, <3>1, <3>2, SetsAssumption
    <3>3. CASE d # c
      BY <2>4, <2>6, <2>9, <3>1, <3>3
    <3> QED BY <3>2, <3>3
  <2>13. LastInv'
    BY <2>0, <2>5, LastKept
  <2>14. OwnInv'
    BY <1>2, <2>0, <2>5, <2>9, <2>10, OwnKept
  <2>15. ASSUME NEW d \in Conns PROVE PlayerInv(d)'
    <3>1. CASE d = c
      BY <2>9, <3>1 DEF PlayerInv
    <3>2. CASE d # c
      <4>1. conn[d].on \in Streams \cup {None} /\ PlayerInv(d)
        BY <2>1 DEF ConnType, SessionInv
      <4> QED BY <2>5, <2>9, <2>10, <3>2, <4>1, PlayerKept
    <3> QED BY <3>1, <3>2
  <2>16. Counted'
    BY <1>2, <2>0, <2>1, <2>9, CountKept
  <2> QED BY <2>11, <2>12, <2>13, <2>14, <2>15, <2>16 DEF SessionInv
<1> QED BY <1>1, <1>2 DEF CloseStream

------------------------------------------------------------------------------
(* Messages *)

\* Nothing is broadcast: there was no message yet, or it was a sequence header, or the
\* player waits for a key frame behind its lead.
LEMMA OrderKept ==
  ASSUME NEW f \in Seq(Sends), NEW K \in Seq(Kinds), NEW kind \in Kinds,
         Len(f) >= 1, InOrder(f, K), Within(f, K),
         Len(K) = 0 \/ K[Len(K)] = "sequence" \/ Len(f) = Lead(f)
  PROVE  InOrder(f, Append(K, kind)) /\ Within(f, Append(K, kind))
<1> DEFINE L == Append(K, kind)
<1>1. /\ Len(L) = Len(K) + 1 /\ Len(K) \in Nat /\ Len(f) \in Nat
      /\ \A i \in 1 .. Len(K) : L[i] = K[i]
  BY AppendProperties
<1>2. Lead(f) \in {1, 2}
  BY DEF Lead
<1> HIDE DEF L
<1>3. Lead(f) = 2 /\ Len(f) > 2 => f[3].kind = "key"
  BY DEF InOrder
<1>4. \A i \in Lead(f) + 1 .. Len(f) : f[i].n \in 1 .. Len(K) - 1
  BY DEF Within
<1>5. ASSUME NEW i \in Lead(f) + 1 .. Len(f), i < Len(f)
      PROVE  /\ f[i].n \in 1 .. f[i + 1].n - 1
             /\ f[i].kind = L[f[i].n] /\ f[i].kind # "sequence"
             /\ \A k \in f[i].n + 1 .. f[i + 1].n - 1 : L[k] = "sequence"
  <2>1. /\ f[i].n \in 1 .. f[i + 1].n - 1
        /\ f[i].kind = K[f[i].n] /\ f[i].kind # "sequence"
        /\ \A k \in f[i].n + 1 .. f[i + 1].n - 1 : K[k] = "sequence"
    BY <1>5 DEF InOrder
  <2>2. i + 1 \in Lead(f) + 1 .. Len(f)
    BY <1>1, <1>2, <1>5
  <2>3. f[i].n \in 1 .. Len(K) - 1 /\ f[i + 1].n \in 1 .. Len(K) - 1
    BY <1>4, <2>2
  <2>4. f[i].n \in 1 .. Len(K) /\ \A k \in f[i].n + 1 .. f[i + 1].n - 1 : k \in 1 .. Len(K)
    BY <1>1, <2>3
  <2> QED BY <1>1, <2>1, <2>4
<1>6. ASSUME NEW i \in Lead(f) + 1 .. Len(f), ~ (i < Len(f))
      PROVE  /\ f[i].n \in 1 .. Len(L) - 1
             /\ f[i].kind = L[f[i].n] /\ f[i].kind # "sequence"
             /\ \A k \in f[i].n + 1 .. Len(L) - 1 : L[k] = "sequence"
  <2>1. /\ f[i].n \in 1 .. Len(K) - 1
        /\ f[i].kind = K[f[i].n] /\ f[i].kind # "sequence"
        /\ \A k \in f[i].n + 1 .. Len(K) - 1 : K[k] = "sequence"
    BY <1>4, <1>6 DEF InOrder
  <2>2. Len(K) # 0 /\ K[Len(K)] = "sequence"
    BY <1>1, <1>2, <1>6, <2>1
  <2>3. \A k \in f[i].n + 1 .. Len(L) - 1 : k \in 1 .. Len(K) /\ (k = Len(K) \/ k \in f[i].n + 1 .. Len(K) - 1)
    BY <1>1, <2>1
  <2>4. f[i].n \in 1 .. Len(K)
    BY <1>1, <2>1
  <2> QED BY <1>1, <2>1, <2>2, <2>3, <2>4
<1>7. InOrder(f, L)
  BY <1>3, <1>5, <1>6 DEF InOrder
<1>8. Within(f, L)
  BY <1>1, <1>4 DEF Within
<1> QED BY <1>7, <1>8 DEF L

LEMMA Apart == \A n \in Nat : (n >= 1 => n = 1 \/ n > 1) /\ (n > 1 => n = 2 \/ n > 2)
OBVIOUS

\* The message before is broadcast to the player.
LEMMA OrderGrown ==
  ASSUME NEW f \in Seq(Sends), NEW K \in Seq(Kinds), NEW kind \in Kinds, NEW m \in Messages,
         Len(K) > 0, m.n = Len(K), m.kind = K[Len(K)], m.kind # "sequence",
         Len(f) >= 1, InOrder(f, K), Within(f, K),
         Lead(f) = 2 /\ Len(f) = 2 => m.kind = "key"
  PROVE  /\ Lead(Append(f, m)) = Lead(f)
         /\ InOrder(Append(f, m), Append(K, kind)) /\ Within(Append(f, m), Append(K, kind))
<1> DEFINE L == Append(K, kind)
           g == Append(f, m)
<1>1. /\ Len(L) = Len(K) + 1 /\ Len(K) \in Nat /\ Len(f) \in Nat
      /\ \A i \in 1 .. Len(K) : L[i] = K[i]
  BY AppendProperties
<1>2. Len(g) = Len(f) + 1 /\ (\A i \in 1 .. Len(f) : g[i] = f[i]) /\ g[Len(f) + 1] = m
  <2>1. m \in Sends
    BY DEF Sends
  <2> QED BY <2>1, AppendProperties
<1> HIDE DEF L, g
<1>3. Lead(g) = Lead(f)
  <2>1. CASE Len(f) = 1
    BY <1>1, <1>2, <2>1 DEF Lead
  <2>2. CASE Len(f) > 1
    <3>1. Len(g) > 1 /\ g[2] = f[2]
      BY <1>1, <1>2, <2>2
    <3> QED BY <2>2, <3>1 DEF Lead
  <2>3. Len(f) = 1 \/ Len(f) > 1
    BY <1>1, Apart, Zenon
  <2> QED BY <2>1, <2>2, <2>3
<1>4. Lead(f) \in {1, 2} /\ (Lead(f) = 2 => Len(f) > 1)
  BY DEF Lead
<1>5. Lead(g) = 2 /\ Len(g) > 2 => g[3].kind = "key"
  <2>1. Lead(f) = 2 /\ Len(f) > 2 => f[3].kind = "key"
    BY DEF InOrder
  <2> SUFFICES ASSUME Lead(f) = 2, Len(g) > 2 PROVE g[3].kind = "key"
    BY <1>3
  <2>2. CASE Len(f) = 2
    BY <1>2, <2>2
  <2>3. CASE Len(f) > 2
    BY <1>1, <1>2, <2>1, <2>3
  <2>4. Len(f) = 2 \/ Len(f) > 2
    BY <1>1, <1>4, Apart, Zenon
  <2> QED BY <2>2, <2>3, <2>4
<1>6. \A i \in Lead(f) + 1 .. Len(f) : f[i].n \in 1 .. Len(K) - 1
  BY DEF Within
<1>7. \A i \in Lead(g) + 1 .. Len(g) : (i \in Lead(f) + 1 .. Len(f) /\ g[i] = f[i]) \/ (i = Len(g) /\ g[i] = m)
  BY <1>1, <1>2, <1>3, <1>4
<1>8. Within(g, L)
  <2>1. m.n \in 1 .. Len(L) - 1
    BY <1>1
  <2>2. \A i \in Lead(f) + 1 .. Len(f) : f[i].n \in 1 .. Len(L) - 1
    BY <1>1, <1>6
  <2> QED BY <1>7, <2>1, <2>2 DEF Within
<1>9. ASSUME NEW i \in Lead(g) + 1 .. Len(g), i < Len(g)
      PROVE  /\ g[i].n \in 1 .. g[i + 1].n - 1
             /\ g[i].kind = L[g[i].n] /\ g[i].kind # "sequence"
             /\ \A k \in g[i].n + 1 .. g[i + 1].n - 1 : L[k] = "sequence"
  <2>1. i \in Lead(f) + 1 .. Len(f) /\ g[i] = f[i]
    BY <1>7, <1>9
  <2>2. g[i + 1].n = IF i < Len(f) THEN f[i + 1].n ELSE Len(K)
    BY <1>1, <1>2, <1>4, <2>1
  <2>3. /\ f[i].n \in 1 .. g[i + 1].n - 1
        /\ f[i].kind = K[f[i].n] /\ f[i].kind # "sequence"
        /\ \A k \in f[i].n + 1 .. g[i + 1].n - 1 : K[k] = "sequence"
    BY <2>1, <2>2 DEF InOrder
  <2>4. g[i + 1].n \in 1 .. Len(K) /\ f[i].n \in 1 .. Len(K) - 1
    <3>1. i < Len(f) => i + 1 \in Lead(f) + 1 .. Len(f)
      BY <1>1, <1>4, <2>1
    <3> QED BY <1>1, <1>6, <2>1, <2>2, <3>1
  <2> DEFINE a == f[i].n
             b == g[i + 1].n
  <2>5. a \in 1 .. Len(K) /\ \A k \in a + 1 .. b - 1 : k \in 1 .. Len(K)
    <3>1. a \in 1 .. Len(K) - 1 /\ b \in 1 .. Len(K)
      BY <2>4
    <3> HIDE DEF a, b
    <3> QED BY <1>1, <3>1
  <2> QED BY <1>1, <2>1, <2>3, <2>5
<1>10. ASSUME NEW i \in Lead(g) + 1 .. Len(g), ~ (i < Len(g))
       PROVE  /\ g[i].n \in 1 .. Len(L) - 1
              /\ g[i].kind = L[g[i].n] /\ g[i].kind # "sequence"
              /\ \A k \in g[i].n + 1 .. Len(L) - 1 : L[k] = "sequence"
  <2>1. g[i] = m
    BY <1>1, <1>2, <1>7, <1>10
  <2> QED BY <1>1, <2>1
<1>11. InOrder(g, L)
  BY <1>5, <1>9, <1>10 DEF InOrder
<1> QED BY <1>3, <1>8, <1>11 DEF L, g

\* One player through a message of the stream it plays.
LEMMA AgreesKept ==
  ASSUME NEW f \in Seq(Sends), NEW K \in Seq(Kinds), NEW kind \in Kinds, NEW state,
         Agrees(f, K, state),
         Len(K) = 0 \/ K[Len(K)] = "sequence" \/ state = "keyframe"
  PROVE  Agrees(f, Append(K, kind), state)
<1>1. Len(f) >= 1 /\ InOrder(f, K) /\ Within(f, K)
  BY DEF Agrees
<1>2. state = "keyframe" => Len(f) = Lead(f)
  BY DEF Agrees, Lead
<1>3. InOrder(f, Append(K, kind)) /\ Within(f, Append(K, kind))
  BY <1>1, <1>2, OrderKept
<1> QED BY <1>3 DEF Agrees

LEMMA AgreesGrown ==
  ASSUME NEW f \in Seq(Sends), NEW K \in Seq(Kinds), NEW kind \in Kinds, NEW m \in Messages, NEW state,
         Agrees(f, K, state), Len(K) > 0, m.n = Len(K), m.kind = K[Len(K)], m.kind # "sequence",
         state # "keyframe" \/ m.kind = "key"
  PROVE  Agrees(Append(f, m), Append(K, kind), IF state = "keyframe" THEN "frame" ELSE state)
<1> DEFINE g == Append(f, m)
           next == IF state = "keyframe" THEN "frame" ELSE state
<1>1. /\ Len(f) >= 1 /\ InOrder(f, K) /\ Within(f, K)
      /\ Lead(f) = 1 => state = "spspps"
      /\ Lead(f) = 2 => state = IF Len(f) = 2 THEN "keyframe" ELSE "frame"
  BY DEF Agrees
<1>2. Lead(f) = 2 /\ Len(f) = 2 => m.kind = "key"
  BY <1>1
<1>3. Lead(g) = Lead(f) /\ InOrder(g, Append(K, kind)) /\ Within(g, Append(K, kind))
  BY <1>1, <1>2, OrderGrown
<1>4. Len(g) = Len(f) + 1 /\ Len(f) \in Nat
  <2>1. m \in Sends
    BY DEF Sends
  <2> QED BY <2>1, AppendProperties
<1> HIDE DEF g
<1>5. Len(g) >= 1
  BY <1>4
<1>6. Lead(f) = 1 => next = "spspps"
  BY <1>1
<1>7. Lead(f) = 2 => Len(g) # 2 /\ next = "frame"
  <2>1. Lead(f) = 2 => Len(f) > 1
    BY DEF Lead
  <2>2. Lead(f) = 2 => Len(g) # 2
    BY <1>4, <2>1
  <2> QED BY <1>1, <2>2
<1>8. Agrees(g, Append(K, kind), next)
  BY <1>3, <1>5, <1>6, <1>7 DEF Agrees
<1> QED BY <1>8 DEF g

\* What a broadcast does to one connection.
LEMMA BroadcastStep ==
  ASSUME SessionTypes, NEW s \in Streams, NEW m \in Messages, Broadcast(s, m)
  PROVE  /\ conn' \in [Conns -> ConnType] /\ got' \in [Conns -> Seq(Sends)]
         /\ \A p \in Conns : /\ conn'[p].open = conn[p].open /\ conn'[p].on = conn[p].on
                             /\ conn'[p].net = conn[p].net
         /\ \A p \in Conns : p \notin stream[s].players \/ ~ Shown(m, p)
                               => got'[p] = got[p] /\ conn'[p].pstate = conn[p].pstate
         /\ \A p \in stream[s].players : Shown(m, p) =>
              /\ got'[p] = Append(got[p], m)
              /\ conn'[p].pstate = IF conn[p].pstate = "keyframe" THEN "frame" ELSE conn[p].pstate
<1> DEFINE shown == {p \in stream[s].players : Shown(m, p)}
<1>0. conn \in [Conns -> ConnType] /\ got \in [Conns -> Seq(Sends)] /\ stream[s].players \subseteq Conns
  BY DEF SessionTypes, StreamType
<1>1. /\ got' = [p \in Conns |-> IF p \in shown THEN Append(got[p], m) ELSE got[p]]
      /\ conn' = [p \in Conns |-> IF p \in shown /\ conn[p].pstate = "keyframe"
                                    THEN [conn[p] EXCEPT !.pstate = "frame"] ELSE conn[p]]
  BY DEF Broadcast
<1>2. \A p \in Conns : p \in shown <=> p \in stream[s].players /\ Shown(m, p)
  OBVIOUS
<1> HIDE DEF shown
<1>3. got' \in [Conns -> Seq(Sends)]
  <2>1. m \in Sends
    BY DEF Sends
  <2>2. \A p \in Conns : got[p] \in Seq(Sends) /\ Append(got[p], m) \in Seq(Sends)
    BY <1>0, <2>1, AppendProperties
  <2> QED BY <1>1, <2>2
<1>4. ASSUME NEW p \in Conns
      PROVE  /\ conn'[p] \in ConnType
             /\ conn'[p].open = conn[p].open /\ conn'[p].on = conn[p].on /\ conn'[p].net = conn[p].net
             /\ p \notin shown => conn'[p].pstate = conn[p].pstate
             /\ p \in shown => conn'[p].pstate = IF conn[p].pstate = "keyframe" THEN "frame"
                                                 ELSE conn[p].pstate
  <2>1. conn[p] \in ConnType
    BY <1>0
  <2>2. CASE p \in shown /\ conn[p].pstate = "keyframe"
    <3>1. conn'[p] = [conn[p] EXCEPT !.pstate = "frame"]
      BY <1>1, <2>2
    <3> QED BY <2>1, <2>2, <3>1 DEF ConnType
  <2>3. CASE ~ (p \in shown /\ conn[p].pstate = "keyframe")
    <3>1. conn'[p] = conn[p]
      BY <1>1, <2>3
    <3> QED BY <2>1, <2>3, <3>1
  <2> QED BY <2>2, <2>3
<1>5. conn' \in [Conns -> ConnType]
  BY <1>1, <1>4
<1>6. \A p \in Conns : got'[p] = IF p \in shown THEN Append(got[p], m) ELSE got[p]
  BY <1>1
<1>7. \A p \in Conns : p \notin stream[s].players \/ ~ Shown(m, p)
                               => got'[p] = got[p] /\ conn'[p].pstate = conn[p].pstate
  BY <1>2, <1>4, <1>6
<1>8. ASSUME NEW p \in stream[s].players, Shown(m, p)
      PROVE  /\ got'[p] = Append(got[p], m)
             /\ conn'[p].pstate = IF conn[p].pstate = "keyframe" THEN "frame" ELSE conn[p].pstate
  <2>1. p \in Conns /\ p \in shown
    BY <1>0, <1>2, <1>8
  <2> QED BY <1>4, <1>6, <2>1
<1> QED BY <1>3, <1>4, <1>5, <1>7, <1>8

\* The first bytes of a message of stream s: it becomes the last one.
LEMMA MediaStream ==
  ASSUME SessionInv, NEW c \in Conns, NEW s \in Used, stream[s].id = conn[c].net,
         published[c] # None, NEW kind \in Kinds,
         NEW new, new = [kind |-> kind, n |-> Len(stream[s].kinds) + 1, of |-> published[c], in |-> s],
         stream' = [stream EXCEPT ![s].last = new, ![s].kinds = Append(@, kind),
                                  ![s].head = @ \/ stream[s].last.kind = "sequence"]
  PROVE  /\ stream' \in [Streams -> StreamType]
         /\ stream'[s].last = new /\ stream'[s].kinds = Append(stream[s].kinds, kind)
         /\ \A t \in Streams \ {s} : stream'[t] = stream[t]
         /\ \A t \in Streams : /\ stream'[t].name = stream[t].name /\ stream'[t].id = stream[t].id
                               /\ stream'[t].players = stream[t].players
         /\ LastInv'
         /\ ~ deleted => \A t \in Streams : stream'[t].last.kind # "none" => stream'[t].last.of = stream'[t].last.in
<1>0. /\ stream \in [Streams -> StreamType] /\ s \in Streams /\ published[c] \in Streams
  BY DEF SessionInv, SessionTypes, Used
<1>1. /\ stream[s] \in StreamType /\ stream[s].kinds \in Seq(Kinds) /\ Len(stream[s].kinds) \in Nat
  BY <1>0 DEF StreamType
<1>2. new \in Messages
  BY <1>0, <1>1 DEF Messages
<1> DEFINE K == Append(stream[s].kinds, kind)
           head == stream[s].head \/ stream[s].last.kind = "sequence"
<1>3. /\ K \in Seq(Kinds) /\ Len(K) = Len(stream[s].kinds) + 1 /\ K[Len(K)] = kind
  BY <1>1, AppendProperties
<1>4. \A t \in Streams : stream'[t] = IF t = s THEN [stream[s] EXCEPT !.last = new, !.kinds = K, !.head = head]
                                      ELSE stream[t]
  BY <1>0
<1>5. head \in BOOLEAN
  OBVIOUS
<1> HIDE DEF K, head
<1>6. [stream[s] EXCEPT !.last = new, !.kinds = K, !.head = head] \in StreamType
  BY <1>1, <1>2, <1>3, <1>5 DEF StreamType
<1>7. stream' \in [Streams -> StreamType]
  <2>1. \A t \in Streams : stream'[t] \in StreamType
    BY <1>0, <1>4, <1>6
  <2>2. stream' = [t \in Streams |-> stream'[t]]
    BY <1>0
  <2> QED BY <2>1, <2>2
<1>8. /\ stream'[s].last = new /\ stream'[s].kinds = K /\ stream'[s].name = stream[s].name
      /\ stream'[s].id = stream[s].id /\ stream'[s].players = stream[s].players
  BY <1>0, <1>1, <1>4 DEF StreamType
<1>9. \A t \in Streams \ {s} : stream'[t] = stream[t]
  BY <1>4
<1>10. \A t \in Streams : /\ stream'[t].name = stream[t].name /\ stream'[t].id = stream[t].id
                          /\ stream'[t].players = stream[t].players
  BY <1>8, <1>9
<1>11. LastInv'
  <2> SUFFICES ASSUME NEW t \in Streams
               PROVE  LET n == Len(stream'[t].kinds)
                      IN  IF n = 0 THEN stream'[t].last.kind = "none"
                          ELSE stream'[t].last.n = n /\ stream'[t].last.kind = stream'[t].kinds[n]
    BY DEF LastInv
  <2>1. CASE t = s
    <3>1. new.n = Len(K) /\ new.kind = K[Len(K)] /\ Len(K) # 0
      BY <1>1, <1>3
    <3> QED BY <1>8, <2>1, <3>1
  <2>2. CASE t # s
    BY <1>9, <2>2 DEF SessionInv, LastInv
  <2> QED BY <2>1, <2>2
<1>12. ASSUME ~ deleted, NEW t \in Streams, stream'[t].last.kind # "none"
       PROVE  stream'[t].last.of = stream'[t].last.in
  <2>1. CASE t = s
    <3>1. published[c] = s
      BY <1>12 DEF SessionInv, OwnInv, Owned
    <3> QED BY <1>8, <2>1, <3>1
  <2>2. CASE t # s
    BY <1>9, <1>12, <2>2 DEF SessionInv, OwnInv, Owned
  <2> QED BY <2>1, <2>2
<1> QED BY <1>7, <1>8, <1>9, <1>10, <1>11, <1>12 DEF K

LEMMA MediaInv == ASSUME SessionInv, NEW c \in Conns, NEW kind \in Kinds, Media(c, kind) PROVE SessionInv'
<1>0. PICK s \in Found(conn[c].net) :
        LET m == stream[s].last
            new == [kind |-> kind, n |-> Len(stream[s].kinds) + 1, of |-> published[c], in |-> s]
        IN  /\ Len(stream[s].kinds) < MaxMsgs
            /\ IF m.kind \in {"none", "sequence"} THEN UNCHANGED <<got, conn>>
               ELSE Broadcast(s, m)
            /\ stream' = [stream EXCEPT ![s].last = new,
                                        ![s].kinds = Append(@, kind),
                                        ![s].head = @ \/ m.kind = "sequence"]
  BY DEF Media
<1>1. /\ published[c] # None /\ UNCHANGED <<sindex, published, deleted>>
      /\ s \in Used /\ s \in Streams /\ stream[s].id = conn[c].net
  BY DEF Media, Found, Used
<1> DEFINE m == stream[s].last
           K == stream[s].kinds
           new == [kind |-> kind, n |-> Len(K) + 1, of |-> published[c], in |-> s]
<1>2. stream' = [stream EXCEPT ![s].last = new, ![s].kinds = Append(@, kind),
                               ![s].head = @ \/ m.kind = "sequence"]
  BY <1>0
<1>3. /\ stream' \in [Streams -> StreamType]
      /\ stream'[s].kinds = Append(K, kind)
      /\ \A t \in Streams \ {s} : stream'[t] = stream[t]
      /\ \A t \in Streams : /\ stream'[t].name = stream[t].name /\ stream'[t].id = stream[t].id
                            /\ stream'[t].players = stream[t].players
      /\ LastInv'
      /\ ~ deleted => \A t \in Streams : stream'[t].last.kind # "none" => stream'[t].last.of = stream'[t].last.in
  BY <1>1, <1>2, MediaStream
<1>4. /\ SessionTypes /\ Linked /\ OwnInv /\ LastInv /\ Counted /\ \A p \in Conns : PlayerInv(p)
      /\ conn \in [Conns -> ConnType] /\ got \in [Conns -> Seq(Sends)]
      /\ m \in Messages \cup {[kind |-> "none"]} /\ K \in Seq(Kinds) /\ Len(K) \in Nat
      /\ stream[s].players \subseteq Conns /\ sindex \in Nat
  <2>1. stream[s] \in StreamType
    BY <1>1 DEF SessionInv, SessionTypes
  <2>2. K \in Seq(Kinds) /\ stream[s].players \subseteq Conns /\ m \in Messages \cup {[kind |-> "none"]}
    BY <2>1 DEF StreamType
  <2> QED BY <2>2 DEF SessionInv, SessionTypes
<1>5. /\ Len(K) = 0 => m.kind = "none"
      /\ Len(K) # 0 => m.n = Len(K) /\ m.kind = K[Len(K)]
  BY <1>1, <1>4 DEF LastInv
<1>6. /\ m.kind = "none" => Len(K) = 0 /\ UNCHANGED <<got, conn>>
      /\ m.kind = "sequence" => UNCHANGED <<got, conn>>
      /\ m.kind \notin {"none", "sequence"} => m \in Messages /\ Len(K) > 0 /\ Broadcast(s, m)
  <2>1. Len(K) # 0 => K[Len(K)] \in Kinds
    BY <1>4
  <2>2. Len(K) # 0 => m.kind # "none"
    BY <1>5, <2>1, KindsAssumption
  <2>3. m.kind # "none" => m \in Messages
    BY <1>4
  <2> QED BY <1>0, <1>4, <1>5, <2>2, <2>3
<1> HIDE DEF new
<1>7. /\ conn' \in [Conns -> ConnType] /\ got' \in [Conns -> Seq(Sends)]
      /\ \A p \in Conns : /\ conn'[p].open = conn[p].open /\ conn'[p].on = conn[p].on
                          /\ conn'[p].net = conn[p].net
  <2>1. CASE m.kind \in {"none", "sequence"}
    BY <1>4, <1>6, <2>1
  <2>2. CASE m.kind \notin {"none", "sequence"}
    BY <1>1, <1>4, <1>6, <2>2, BroadcastStep
  <2> QED BY <2>1, <2>2
<1>8. SessionTypes'
  BY <1>1, <1>3, <1>4, <1>7 DEF SessionTypes
<1>9. Linked'
  BY <1>3, <1>4, <1>7, LinksKept
<1>10. Counted'
  BY <1>1, <1>4, <1>7, CountKept
<1>11. ASSUME ~ deleted PROVE Owned'
  <2>1. /\ \A d \in Conns : conn[d].net <= sindex
        /\ \A d, e \in Conns : conn[d].net > 0 /\ conn[d].net = conn[e].net => d = e
        /\ \A t \in Used : stream[t].id \in 1 .. sindex
        /\ \A t \in Used, d \in Conns : stream[t].id = conn[d].net => published[d] = t
    BY <1>4, <1>11 DEF OwnInv, Owned
  <2>2. Used' = Used /\ Used \subseteq Streams
    BY <1>3 DEF Used
  <2>3. \A d \in Conns : conn'[d].net <= sindex'
    BY <1>1, <1>7, <2>1
  <2>4. ASSUME NEW d \in Conns, NEW e \in Conns, conn'[d].net > 0, conn'[d].net = conn'[e].net
        PROVE  d = e
    <3>1. conn[d].net > 0 /\ conn[d].net = conn[e].net
      BY <1>7, <2>4
    <3> QED BY <2>1, <3>1
  <2>5. \A t \in Used' : stream'[t].id \in 1 .. sindex'
    BY <1>1, <1>3, <2>1, <2>2
  <2>6. \A t \in Used', d \in Conns : stream'[t].id = conn'[d].net => published'[d] = t
    BY <1>1, <1>3, <1>7, <2>1, <2>2
  <2> QED BY <1>3, <1>11, <2>3, <2>4, <2>5, <2>6 DEF Owned
<1>12. ASSUME ~ deleted PROVE OwnMedia'
  <2>1. \A d \in Conns : \A i \in DOMAIN got[d] :
          got[d][i].kind \notin {"meta", "sequence"} => got[d][i].of = got[d][i].in
    BY <1>4, <1>12 DEF OwnInv, OwnMedia
  <2> SUFFICES ASSUME NEW d \in Conns, NEW i \in DOMAIN got'[d],
                      got'[d][i].kind \notin {"meta", "sequence"}
               PROVE  got'[d][i].of = got'[d][i].in
    BY DEF OwnMedia
  <2>2. CASE got'[d] = got[d]
    BY <2>1, <2>2
  <2>3. CASE got'[d] # got[d]
    <3>1. m \in Messages /\ m.kind # "none" /\ Broadcast(s, m)
      BY <1>6, <2>3
    <3>2. d \in stream[s].players /\ Shown(m, d)
      BY <1>1, <1>4, <2>3, <3>1, BroadcastStep
    <3>3. got'[d] = Append(got[d], m)
      BY <1>1, <1>4, <3>1, <3>2, BroadcastStep
    <3>4. m.of = m.in
      BY <1>1, <1>4, <1>12, <3>1 DEF OwnInv, Owned
    <3>5. got[d] \in Seq(Sends) /\ m \in Sends
      BY <1>4, <3>1 DEF Sends
    <3>6. (i \in DOMAIN got[d] /\ got'[d][i] = got[d][i]) \/ got'[d][i] = m
      <4>1. /\ Len(got'[d]) = Len(got[d]) + 1 /\ got'[d][Len(got[d]) + 1] = m
            /\ \A j \in 1 .. Len(got[d]) : got'[d][j] = got[d][j]
            /\ got'[d] \in Seq(Sends)
        BY <3>3, <3>5, AppendProperties
      <4>2. /\ DOMAIN got'[d] = 1 .. Len(got[d]) + 1 /\ DOMAIN got[d] = 1 .. Len(got[d])
            /\ Len(got[d]) \in Nat
        BY <3>5, <4>1
      <4> QED BY <4>1, <4>2
    <3> QED BY <2>1, <3>4, <3>6
  <2> QED BY <2>2, <2>3
<1>13. OwnInv'
  BY <1>1, <1>11, <1>12 DEF OwnInv
<1>14. ASSUME NEW p \in Conns PROVE PlayerInv(p)'
  <2>1. CASE conn[p].on # s
    <3>1. got'[p] = got[p] /\ conn'[p].pstate = conn[p].pstate
      <4>1. p \notin stream[s].players
        BY <1>1, <1>4, <2>1 DEF Linked
      <4>2. CASE m.kind \in {"none", "sequence"}
        BY <1>6, <4>2
      <4>3. CASE m.kind \notin {"none", "sequence"}
        BY <1>1, <1>4, <1>6, <4>1, <4>3, BroadcastStep
      <4> QED BY <4>2, <4>3
    <3>2. conn[p].on \in Streams \cup {None} /\ PlayerInv(p)
      BY <1>4 DEF ConnType
    <3> QED BY <1>3, <1>7, <2>1, <3>1, <3>2, PlayerKept
  <2>2. CASE conn[p].on = s
    <3> DEFINE f == got[p]
               state == conn[p].pstate
    <3>1. Agrees(f, K, state) /\ f \in Seq(Sends) /\ stream[s].name # None /\ conn[p].open
      BY <1>1, <1>4, <2>2, SetsAssumption DEF PlayerInv
    <3>2. Agrees(got'[p], Append(K, kind), conn'[p].pstate)
      <4>1. CASE m.kind \in {"none", "sequence"}
        <5>1. got'[p] = f /\ conn'[p].pstate = state
          BY <1>6, <4>1
        <5>2. Len(K) = 0 \/ K[Len(K)] = "sequence"
          BY <1>5, <1>6, <4>1
        <5> HIDE DEF f, state, K, m
        <5>3. Agrees(f, Append(K, kind), state)
          BY <1>4, <3>1, <5>2, AgreesKept
        <5> QED BY <5>1, <5>3
      <4>2. CASE m.kind \notin {"none", "sequence"} /\ ~ Shown(m, p)
        <5>1. got'[p] = f /\ conn'[p].pstate = state /\ state = "keyframe"
          BY <1>1, <1>4, <1>6, <4>2, BroadcastStep DEF Shown
        <5> HIDE DEF f, state, K, m
        <5>2. Agrees(f, Append(K, kind), state)
          BY <1>4, <3>1, <5>1, AgreesKept
        <5> QED BY <5>1, <5>2
      <4>3. CASE m.kind \notin {"none", "sequence"} /\ Shown(m, p)
        <5>1. p \in stream[s].players
          <6>1. conn[p].open
            BY <3>1
          <6> QED BY <1>1, <1>4, <2>2, <6>1 DEF Linked
        <5>2. /\ got'[p] = Append(f, m)
              /\ conn'[p].pstate = IF state = "keyframe" THEN "frame" ELSE state
          BY <1>1, <1>4, <1>6, <4>3, <5>1, BroadcastStep
        <5>3. /\ m \in Messages /\ Len(K) > 0 /\ m.n = Len(K) /\ m.kind = K[Len(K)]
              /\ m.kind # "sequence" /\ (state # "keyframe" \/ m.kind = "key")
          BY <1>5, <1>6, <4>3 DEF Shown
        <5> HIDE DEF f, state, K, m
        <5>4. Agrees(Append(f, m), Append(K, kind), IF state = "keyframe" THEN "frame" ELSE state)
          BY <1>4, <3>1, <5>3, AgreesGrown
        <5> QED BY <5>2, <5>4
      <4> QED BY <4>1, <4>2, <4>3
    <3>3. conn'[p].on = s /\ conn'[p].open /\ stream'[s].name # None /\ stream'[s].kinds = Append(K, kind)
      BY <1>1, <1>3, <1>7, <2>2, <3>1
    <3> QED BY <3>2, <3>3 DEF PlayerInv
  <2> QED BY <2>1, <2>2
<1> QED BY <1>3, <1>8, <1>9, <1>10, <1>13, <1>14 DEF SessionInv

------------------------------------------------------------------------------
(* The theorems *)

LEMMA SessionNext == SessionInv /\ [Next]_(vars) => SessionInv'
<1> SUFFICES ASSUME SessionInv, [Next]_(vars) PROVE SessionInv'
  OBVIOUS
<1>1. CASE UNCHANGED vars
  BY <1>1, CrashKept DEF vars
<1>2. ASSUME NEW c \in Conns, Accept(c) PROVE SessionInv'
  BY <1>2, AcceptInv
<1>3. ASSUME NEW c \in Conns, Destroyed(c) PROVE SessionInv'
  BY <1>3, DestroyedStep
<1>4. ASSUME NEW c \in Conns, conn[c].open, Command(c) PROVE SessionInv'
  <2>1. CASE CreateStream(c)
    BY <2>1, CreateStreamInv
  <2>2. CASE DeleteStream(c)
    BY <2>2, DeleteStreamInv
  <2>3. CASE Meta(c)
    BY <2>3, MetaInv
  <2>4. CASE CloseStream(c)
    BY <2>4, CloseStreamInv
  <2>5. ASSUME NEW name \in Names, Publish(c, name) PROVE SessionInv'
    BY <2>5, PublishInv
  <2>6. ASSUME NEW name \in Names, Play(c, name) PROVE SessionInv'
    BY <1>4, <2>6, PlayInv
  <2>7. ASSUME NEW kind \in Kinds, Media(c, kind) PROVE SessionInv'
    BY <2>7, MediaInv
  <2> QED BY <1>4, <2>1, <2>2, <2>3, <2>4, <2>5, <2>6, <2>7 DEF Command
<1> QED BY <1>1, <1>2, <1>3, <1>4 DEF Next

\* For any connections, streams and names: links and players' lists agree in both
\* directions, and what a player gets was published for the stream it plays.
THEOREM SessionSafe == Spec => []ListsAgree
<1>1. SessionInv => ListsAgree
  <2>1. SessionTypes => TypeOK
    BY DEF SessionTypes, TypeOK, ConnType
  <2>2. OwnInv => OwnMedia
    BY DEF OwnInv, OwnMedia
  <2> QED BY <2>1, <2>2 DEF SessionInv, ListsAgree
<1> QED BY <1>1, SessionInit, SessionNext, PTL DEF Spec

\* For any number of messages: what a player is shown behind the sequence header begins
\* with a key frame and skips nothing that was complete.
THEOREM PlayersInOrder == Spec => []Playable
<1>1. SessionInv => Playable
  BY DEF SessionInv, PlayerInv, Agrees, Playable
<1> QED BY <1>1, SessionInit, SessionNext, PTL DEF Spec
===============================================================================
