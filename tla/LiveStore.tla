------------------------------ MODULE LiveStore ------------------------------
(****************************************************************************)
(* A live channel of the streaming server (src/src/main/yms_live.c).  It    *)
(* follows the list of a source, downloads its fragments, cuts them into    *)
(* groups of pictures (gops), keeps the stream in a limited number of       *)
(* blocks, records every full block in files, and lists and serves          *)
(* fragments of its own.  A channel is one that has the url of its source:  *)
(* the surl that yms_live.c reads is allocated and not filled, so that none *)
(* starts before the program gives it one.                                  *)
(*                                                                          *)
(* Bytes are units: a packet of the transport stream has Packet of them and *)
(* a block has Block; a packet may lie across two blocks.                   *)
(****************************************************************************)
EXTENDS Integers, Sequences, FiniteSets, SequencesExt

CONSTANTS
  Source,     \* the fragments of the source: sequences of "pat", "pmt", "key", "other"
  Window,     \* fragments in a list of the source
  Part,       \* packets in a part of a body that is not its last one
  GopSize,    \* channel->gopsize: gops in a fragment that is served
  TFragSize,  \* channel->tfragsize: fragments in a list that is served
  Strays,     \* kinds of packets that are found in wrong places of a body
  Packet, Block,
  BlockNum,   \* blocks that the pool gives out
  RecdSize,   \* channel->recdsize
  None,
  MaxFlights, \* bound: downloads at a time
  MaxFails,   \* bound: failing writes and downloads, parts that end within a packet
  MaxStarts   \* bound: starts of the process

VARIABLES
  sfrag,    \* sfrag_id: the last fragment seen in a list (0: none)
  sfrags,   \* fragments to download
  flights,  \* downloads under way: [frag, at, cut]
  ch,       \* the store of the channel, a record
  m3u8,     \* fragments in m3u8_buf
  late,     \* a download overlapped another one, or broke off
  ragged,   \* a part of a body ended within a packet
  fails, starts

vars == <<sfrag, sfrags, flights, ch, m3u8, late, ragged, fails, starts>>

Fresh == [pat |-> None, pmt |-> None,  \* the last packets of these kinds
          gops |-> <<>>,               \* [offset, len]; gop_id is the index less one
          blocks |-> <<>>,             \* aligned offset |-> [state, data]
          files |-> <<>>,              \* key |-> [data, old]
          stored |-> <<>>,             \* all units that were stored since the start
          lost |-> FALSE, stop |-> FALSE]

Init ==
  /\ sfrag = 0 /\ sfrags = <<>> /\ flights = {}
  /\ ch = Fresh
  /\ m3u8 = {}
  /\ late = FALSE /\ ragged = FALSE /\ fails = 0 /\ starts = 1

------------------------------------------------------------------------------
(* Recording *)

With(f, k, v) == [x \in DOMAIN f \cup {k} |-> IF x = k THEN v ELSE f[x]]

\* The file for a block: the one with the largest key up to its place, or a new one
\* if that is too long or would leave a gap.  A new one empties what has its name.
FileFor(c, at) ==
  LET below == {k \in DOMAIN c.files : k <= at}
      k == IF below = {} THEN at ELSE Max(below)
      size == Len(c.files[k].data)
  IN  IF below = {} \/ size > RecdSize \/ at > size + k
        THEN [key |-> at, data |-> <<>>, old |-> FALSE]
        ELSE [key |-> k, data |-> c.files[k].data, old |-> c.files[k].old]

\* Faulty variant of Recd: a block is saved also when the write failed.
RecdAlways(c, at, wrote) ==
  LET f == FileFor(c, at)
      data == f.data \o SubSeq(c.blocks[at].data, 1, wrote)
  IN  [c EXCEPT !.files = With(@, f.key, [data |-> data, old |-> f.old]),
                !.blocks = With(@, at, [c.blocks[at] EXCEPT !.state = "saved"])]

\* yms_channel_recd: the block is appended; it is saved if all of it was written.
Recd(c, at, wrote) ==
  LET f == FileFor(c, at)
      data == f.data \o SubSeq(c.blocks[at].data, 1, wrote)
      state == IF wrote = Block THEN "saved" ELSE "full"
  IN  [c EXCEPT !.files = With(@, f.key, [data |-> data, old |-> f.old]),
                !.blocks = With(@, at, [c.blocks[at] EXCEPT !.state = state])]

------------------------------------------------------------------------------
(* Writing *)

GopEnd(g) == g.offset + g.len
Place(offset) == offset - (offset % Block)
Blank == [i \in 1 .. Block |-> None]

Saved(c) == {a \in DOMAIN c.blocks : c.blocks[a].state = "saved"}
Renamed(c, a, at) ==
  [c EXCEPT !.blocks = With([x \in DOMAIN @ \ {a} |-> @[x]], at,
                            [state |-> "writing", data |-> c.blocks[a].data])]

\* Faulty variant of Recycled: the last block is taken.
RecycledLast(c, at) ==
  IF Saved(c) = {} THEN [c EXCEPT !.lost = TRUE, !.stop = TRUE]
    ELSE Renamed(c, Max(Saved(c)), at)

\* With the pool empty the first block that was saved is taken; there may be none.
Recycled(c, at) ==
  IF Saved(c) = {} THEN [c EXCEPT !.lost = TRUE, !.stop = TRUE]
    ELSE Renamed(c, Min(Saved(c)), at)

\* The block at a place: it is there, or the last one is recorded and one is had.
\* bad gives what is written of a block whose write fails.
Room(c, at, bad) ==
  IF at \in DOMAIN c.blocks THEN c
  ELSE LET last == Max(DOMAIN c.blocks)
           d == IF DOMAIN c.blocks = {} THEN c
                  ELSE Recd(c, last, IF last \in DOMAIN bad THEN bad[last] ELSE Block)
       IN  IF Cardinality(DOMAIN d.blocks) < BlockNum
             THEN [d EXCEPT !.blocks = With(@, at, [state |-> "writing", data |-> Blank])]
             ELSE Recycled(d, at)

\* One unit behind the last gop.
Put(c, unit, bad) ==
  LET end == GopEnd(Last(c.gops))
      at == Place(end)
      d == Room(c, at, bad)
  IN  IF d.stop THEN d
      ELSE [d EXCEPT !.blocks[at].data[(end % Block) + 1] = unit,
                     !.gops[Len(c.gops)].len = @ + 1,
                     !.stored = Append(@, unit)]

\* op for each element of s, on what the one before made of c.
Each(op(_, _), c, s) ==
  LET r[i \in 0 .. Len(s)] ==
        IF i = 0 THEN c ELSE CHOOSE y \in {op(x, s[i]) : x \in {r[i - 1]}} : TRUE
  IN  r[Len(s)]

\* gop_write: without a block the rest of the packet is given up.
GopWrite(c, packet, bad) ==
  LET put(d, i) == IF d.stop THEN d ELSE Put(d, <<packet, i>>, bad)
  IN  Each(put, [c EXCEPT !.stop = FALSE], [i \in 1 .. Packet |-> i])

\* A packet is <<fragment, index>>; what is read from a wrong place of a body is
\* <<0, kind>>.
KindOf(p) == IF p[1] = 0 THEN p[2] ELSE Source[p[1]][p[2]]

\* A packet of a body: a table is kept, and a key frame begins a gop, with the
\* tables in front.  What comes before the first gop is dropped.  The table of
\* the program is known by what the one of all programs says.
Take(c, p, bad) ==
  LET kind == KindOf(p)
      offset == IF c.gops = <<>> THEN 0 ELSE GopEnd(Last(c.gops))
      begun == [c EXCEPT !.gops = Append(@, [offset |-> offset, len |-> 0])]
      write(d, x) == GopWrite(d, x, bad)
  IN  CASE kind = "pat" -> [c EXCEPT !.pat = p]
        [] kind = "pmt" /\ c.pat # None -> [c EXCEPT !.pmt = p]
        [] kind = "key" -> Each(write, begun, <<c.pat, c.pmt, p>>)
        [] OTHER -> IF c.gops = <<>> THEN c ELSE GopWrite(c, p, bad)

------------------------------------------------------------------------------
(* Downloading *)

\* Faulty variant of NewOnes: the last fragment that was seen counts as new.
NewOnesAgain(list) ==
  {f \in list : f >= sfrag /\ (sfrag = 0 => f # Min(list))}

\* The fragments of a list behind the last one that was seen.  Of the first list the
\* first one is only remembered.
NewOnes(list) ==
  {f \in list : f > (IF sfrag = 0 THEN Min(list) ELSE sfrag)}

\* yms_channel_req_ts: the next download, if a connection can be had.
ReqTs(fl, queue) ==
  \/ /\ queue # <<>> /\ Cardinality(fl) < MaxFlights
     /\ flights' = fl \cup {[frag |-> Head(queue), at |-> 0, cut |-> FALSE]}
     /\ sfrags' = Tail(queue)
     /\ late' = (late \/ fl # {})
  \/ flights' = fl /\ sfrags' = queue /\ UNCHANGED late

\* yms_channel_recv_m3u8: the list of the source when frag was its last one.
RecvM3u8 ==
  \E frag \in Window .. Len(Source) :
    LET list == frag - Window + 1 .. frag
        new  == NewOnes(list)
    IN  /\ sfrag' = IF new # {} THEN Max(new) ELSE IF sfrag = 0 THEN Min(list) ELSE sfrag
        /\ ReqTs(flights, sfrags \o SetToSortSeq(new, <))
        /\ UNCHANGED <<ch, m3u8, ragged, fails, starts>>

\* channel_m3u8_gop_align and channel_m3u8_create: fragments that end with the last
\* gop that ends one, if there is a gop before them.  That gop may still be written.
Listed(gops) ==
  LET e == Len(gops) \div GopSize
  IN  IF Len(gops) > 0 /\ e * GopSize > GopSize * TFragSize
        THEN e - TFragSize .. e - 1 ELSE {}

\* The packets that yms_channel_recv_ts finds in a part of a body that goes up to
\* packet number `to`.  It walks a part from its first byte; when a part ends within
\* a packet (splits), the bytes behind the part are taken for the rest, and all that
\* follows of the body is read from wrong places, as any kind of packet.
Packets(fl, to, splits, kind) ==
  [i \in 1 .. to - fl.at |->
     IF fl.cut \/ (splits /\ fl.at + i = to) THEN <<0, kind>> ELSE <<fl.frag, fl.at + i>>]

\* yms_channel_recv_ts: a part of a body.  The next download is begun, also when
\* this one has not ended.  Bound: what a part has in wrong places is of one kind.
RecvTs(fl) ==
  /\ fl \in flights
  /\ \E to \in {Len(Source[fl.frag]), fl.at + Part}, splits \in BOOLEAN, kind \in Strays :
       /\ to <= Len(Source[fl.frag])
       /\ splits => to < Len(Source[fl.frag])
       /\ fl.cut \/ splits \/ kind = CHOOSE k \in Strays : TRUE
       /\ ragged' = (ragged \/ splits)
       /\ LET rest == IF to = Len(Source[fl.frag]) THEN {}
                        ELSE {[fl EXCEPT !.at = to, !.cut = @ \/ splits]}
              last == IF ch.blocks = <<>> THEN 0 ELSE Max(DOMAIN ch.blocks)
          IN  /\ \E bad \in {<<>>} \cup {[a \in {last} |-> k] : k \in 0 .. 1} :
                   LET take(c, p) == Take(c, p, bad)
                   IN  /\ fails' = fails + Cardinality(DOMAIN bad) + (IF splits THEN 1 ELSE 0)
                       /\ fails' <= MaxFails
                       /\ ch' = Each(take, ch, Packets(fl, to, splits, kind))
              /\ ReqTs((flights \ {fl}) \cup rest, sfrags)
  /\ m3u8' = IF Listed(ch'.gops) = {} THEN m3u8 ELSE Listed(ch'.gops)
  /\ UNCHANGED <<sfrag, starts>>

\* yms_channel_recv_ts_error: what is missing is not asked for again.
RecvTsError(fl) ==
  /\ fl \in flights
  /\ flights' = flights \ {fl}
  /\ late' = TRUE
  /\ fails < MaxFails /\ fails' = fails + 1
  /\ UNCHANGED <<sfrag, sfrags, ch, m3u8, ragged, starts>>

\* The process ends, and yms_channel_create and yms_channel_start begin the channel
\* anew: rns_fmgr_load knows the files, gop_load makes nothing of the gops.
Restart ==
  /\ starts < MaxStarts /\ starts' = starts + 1
  /\ sfrag' = 0 /\ sfrags' = <<>> /\ flights' = {}
  /\ ch' = [Fresh EXCEPT !.files = [k \in DOMAIN ch.files |-> [ch.files[k] EXCEPT !.old = TRUE]]]
  /\ m3u8' = {} /\ late' = FALSE /\ ragged' = FALSE
  /\ UNCHANGED fails

Next == RecvM3u8 \/ Restart \/ \E fl \in flights : RecvTs(fl) \/ RecvTsError(fl)

Spec == Init /\ [][Next]_vars

------------------------------------------------------------------------------
(* Serving *)

\* yms_attach_buffer: what an answer points to for a gop.  None stands for a block
\* that is not there, for which the loop waits for ever.
Attached(g) ==
  [i \in 1 .. g.len |->
     LET at == g.offset + i - 1 IN
     IF Place(at) \in DOMAIN ch.blocks THEN ch.blocks[Place(at)].data[(at % Block) + 1]
       ELSE None]

\* yms_live_req: the gops of a fragment, 404 without them.
Found(f) == f * GopSize + GopSize <= Len(ch.gops)
Served(f) == FlattenSeq([i \in 1 .. GopSize |-> Attached(ch.gops[f * GopSize + i])])

\* The list for a time in the past: the one of the gop that began before it.
Sought(i) == Listed(SubSeq(ch.gops, 1, i))

------------------------------------------------------------------------------
(* Properties *)

\* What is listed can be served, from the blocks: the fragment is there, none of its
\* blocks was taken for something newer, and they hold what was stored.  The blocks
\* must hold the list and what is written before the next one; see BlockNum.  Of a
\* list for the past nothing is said but that its fragments are known.
Servable ==
  /\ \A f \in m3u8 :
       /\ Found(f)
       /\ ~ch.lost => LET start == ch.gops[f * GopSize + 1].offset IN
                      Served(f) = SubSeq(ch.stored, start + 1, start + Len(Served(f)))
  /\ \A i \in DOMAIN ch.gops : \A f \in Sought(i) : Found(f)

\* A gop begins with the tables and its key frame, all of one fragment, and what
\* comes behind is the source's, in its order and once, unless downloads overlapped or
\* broke off, or a part of a body ended within a packet.
SourceOrder ==
  ~ch.lost /\ ~late /\ ~ragged =>
    /\ \A i \in DOMAIN ch.gops :
         LET o == ch.gops[i].offset IN
         ch.gops[i].len >= 3 * Packet =>
           LET kindAt(k) == ch.stored[o + k * Packet + 1][1]
           IN  /\ kindAt(0)[1] = kindAt(2)[1] /\ kindAt(1)[1] = kindAt(2)[1]
               /\ Source[kindAt(0)[1]][kindAt(0)[2]] = "pat" /\ Source[kindAt(1)[1]][kindAt(1)[2]] = "pmt"
               /\ Source[kindAt(2)[1]][kindAt(2)[2]] = "key"
    /\ LET frames == SelectSeq(ch.stored, LAMBDA u : Source[u[1][1]][u[1][2]] \in {"key", "other"})
           before(u, v) == \/ u[1][1] < v[1][1]
                           \/ u[1][1] = v[1][1] /\ u[1][2] < v[1][2]
                           \/ u[1] = v[1] /\ u[2] < v[2]
       IN  \A i \in 1 .. Len(frames) - 1 : before(frames[i], frames[i + 1])

\* A file holds the stream from its key on, and a block that may be taken is in one.
\* After a restart the offsets begin at 0 and blocks go behind what the files
\* have, so that nothing is said of files of an earlier start.
Recorded ==
  starts = 1 /\ ~ch.lost =>
    /\ \A k \in DOMAIN ch.files : LET d == ch.files[k].data IN
         k + Len(d) <= Len(ch.stored) /\ d = SubSeq(ch.stored, k + 1, k + Len(d))
    /\ \A a \in Saved(ch) : \E k \in DOMAIN ch.files :
         k <= a /\ a + Block <= k + Len(ch.files[k].data)

\* Nothing is given up for want of a block before the write of each one failed.
Kept == ch.lost => \A a \in DOMAIN ch.blocks : ch.blocks[a].state # "saved"

LiveSound == Servable /\ SourceOrder /\ Recorded /\ Kept
==============================================================================
