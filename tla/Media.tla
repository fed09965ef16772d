--------------------------------- MODULE Media ---------------------------------
(****************************************************************************)
(* ts.c and hls.c: what the streaming server reads of the packets of a          *)
(* transport stream (tables, clocks, key frames) and of the list of a channel,   *)
(* and the list that it writes.                                              *)
(*                                                                          *)
(* A packet has the fields that ts.c looks at; the section of a table is a      *)
(* sequence of bytes.  Clocks count modulo 2 * Word in the stream and modulo      *)
(* Word in the program: 33 and 32 bits.  A list is a sequence of lines.        *)
(****************************************************************************)
EXTENDS Integers, Sequences, FiniteSets, SequencesExt

CONSTANTS
  Word,       \* 2^32
  Pids,       \* pids of program maps and streams
  PcrPid,     \* the pid that has the clock
  Lines,      \* lines of a list
  Room,       \* lines that fit the buffer of a list
  None,
  MaxPackets, MaxLines, MaxStep \* bounds

VARIABLES
  programs, \* the programs in the PAT: [number, pid]
  streams,  \* the streams in the PMT: [type, pid, info], info descriptors long
  packets,  \* the stream
  clocks,   \* the clock of each packet, without an end
  text      \* a list

vars == <<programs, streams, packets, clocks, text>>

------------------------------------------------------------------------------
(* The encoder of the source, as ISO/IEC 13818-1 has it *)

Two(n) == <<n \div 256, n % 256>>
Section(id, len, rest) == <<id, 176 + len \div 256, len % 256>> \o rest \o <<9, 9, 9, 9>>
PatBytes ==
  Section(0, 9 + 4 * Len(programs),
          <<0, 1, 193, 0, 0>>
            \o FlattenSeq([i \in DOMAIN programs |->
                             Two(programs[i].number) \o Two(57344 + programs[i].pid)]))
PmtBytes ==
  LET each == [i \in DOMAIN streams |->
                 <<streams[i].type>> \o Two(57344 + streams[i].pid) \o <<240, streams[i].info>>
                   \o [k \in 1 .. streams[i].info |-> 7]]
      body == FlattenSeq(each)
  IN  Section(2, 13 + Len(body),
              <<0, 1, 193, 0, 0>> \o Two(57344 + PcrPid) \o <<240, 0>> \o body)

Packet(pid, start, adapt, flag, pcr, bytes) ==
  [sync |-> TRUE, pid |-> pid, start |-> start, adapt |-> adapt, flag |-> flag,
   pcr |-> pcr, bytes |-> bytes]

------------------------------------------------------------------------------
(* Packets *)

\* is_pat, is_pid, is_pcr.  The flag of the clock is looked for where it is when the
\* adaptation field is not empty.
IsPat(p) == p.sync /\ p.start /\ p.pid = 0
IsPid(p, pid) == p.sync /\ p.pid = pid
IsPcr(p, pid) == IsPid(p, pid) /\ p.adapt /\ p.flag

FirstFrom(from, Is(_)) ==
  LET hits == {k \in from .. Len(packets) : Is(packets[k])}
  IN  IF hits = {} THEN 0 ELSE CHOOSE k \in hits : \A j \in hits : k <= j
LastBefore(before, Is(_)) ==
  LET hits == {k \in 1 .. before - 1 : Is(packets[k])}
  IN  IF hits = {} THEN 0 ELSE CHOOSE k \in hits : \A j \in hits : k >= j

FindPid(from, pid) == FirstFrom(from, LAMBDA p : IsPid(p, pid))
FindPat(from) == FirstFrom(from, IsPat)
FindPatR(before) == LastBefore(before, IsPat)
FindPcr(from, pid) == FirstFrom(from, LAMBDA p : IsPcr(p, pid))
FindPcrR(before, pid) == LastBefore(before, LAMBDA p : IsPcr(p, pid))

\* get_pcr: the upper bit of the clock is shifted out.
GetPcr(p) == p.pcr % Word

\* Faulty variant of ParsePat: the length has the checksum in it.
ParsePatFull(b) ==
  LET n == (b[3] - 5) \div 4
  IN  [i \in 1 .. n |-> [number |-> b[5 + 4 * i] * 256 + b[6 + 4 * i],
                         pid |-> (b[7 + 4 * i] % 32) * 256 + b[8 + 4 * i]]]

\* parse_pat.  Of the length the lower eight bits are taken (ts.c:151).
ParsePat(b) ==
  LET n == (b[3] - 9) \div 4
  IN  [i \in 1 .. n |-> [number |-> b[5 + 4 * i] * 256 + b[6 + 4 * i],
                         pid |-> (b[7 + 4 * i] % 32) * 256 + b[8 + 4 * i]]]

\* Faulty variant of ParsePmt: the descriptors of a stream are not passed over.
ParsePmtFlat(b) ==
  LET end == 3 + (b[2] % 16) * 256 + b[3] - 4
      rest[w \in 12 .. end + 300] ==
        IF w >= end THEN <<>>
          ELSE <<[type |-> b[w + 1], pid |-> (b[w + 2] % 32) * 256 + b[w + 3], info |-> b[w + 5]]>>
                 \o rest[w + 5]
  IN  [pcrPid |-> (b[9] % 32) * 256 + b[10], streams |-> rest[12]]

\* parse_pmt.  Descriptors of the program itself are taken for streams (ts.c:202).
ParsePmt(b) ==
  LET end == 3 + (b[2] % 16) * 256 + b[3] - 4
      rest[w \in 12 .. end + 300] ==
        IF w >= end THEN <<>>
          ELSE <<[type |-> b[w + 1], pid |-> (b[w + 2] % 32) * 256 + b[w + 3], info |-> b[w + 5]]>>
                 \o rest[w + 5 + b[w + 5]]
  IN  [pcrPid |-> (b[9] % 32) * 256 + b[10], streams |-> rest[12]]

\* The map of program 1, as yms_channel_recv_ts has it too: the last one counts.
ProgramPid(b) ==
  LET ones == SelectSeq(ParsePat(b), LAMBDA p : p.number = 1)
  IN  IF ones = <<>> THEN 0 ELSE Last(ones).pid

\* find_first_pmt looks from the second packet on.
FindFirstPmt ==
  IF FindPat(1) = 0 THEN 0 ELSE FindPid(2, ProgramPid(packets[FindPat(1)].bytes))

FindPcrPid == IF FindFirstPmt = 0 THEN 0 ELSE ParsePmt(packets[FindFirstPmt].bytes).pcrPid

\* find_duration_by_offset: a clock that is not found is read through NULL.
FindDuration(start, end) ==
  LET s == FindPcr(start, FindPcrPid)
      e == FindPcrR(end, FindPcrPid)
  IN  IF s = 0 \/ e = 0 THEN None ELSE (GetPcr(packets[e]) - GetPcr(packets[s])) % Word

------------------------------------------------------------------------------
(* Lists *)

Inf(d) == <<"#EXTINF:", d>>
Uri(u) == <<"", u>>
Empty == [time_len |-> 0, uri |-> 0]

\* Faulty variant of Turns: the line behind an address is lost.
TurnsFar(l) ==
  LET go[i \in 1 .. Len(l) + 3] ==
        IF i > Len(l) THEN <<>>
        ELSE <<i>> \o go[IF l[i][1] = "#EXTINF:" THEN i + 3 ELSE i + 1]
  IN  go[1]

\* The lines that the loop of m3u8_read looks at: it takes the one behind a length for an
\* address, whatever it is.
Turns(l) ==
  LET go[i \in 1 .. Len(l) + 2] ==
        IF i > Len(l) THEN <<>>
        ELSE <<i>> \o go[IF l[i][1] = "#EXTINF:" THEN i + 2 ELSE i + 1]
  IN  go[1]

\* m3u8_read: when there is no address behind a length the next line is read through NULL.
M3u8Read(lines) ==
  LET l == SelectSeq(lines, LAMBDA x : x # <<"\n">>)
      infs == Cardinality({i \in DOMAIN l : l[i][1] = "#EXTINF:"})
      at == Turns(l)
      heads == SelectSeq(at, LAMBDA i : l[i][1] = "#EXTINF:")
      said(tag) == SelectSeq(at, LAMBDA i : l[i][1] = tag)
  IN  IF heads # <<>> /\ Last(heads) = Len(l) THEN None
      ELSE [seg |-> [k \in 1 .. infs |->
                       IF k <= Len(heads)
                         THEN [time_len |-> l[heads[k]][2], uri |-> l[heads[k] + 1][2]]
                         ELSE Empty],
            end |-> said("#EXT-X-ENDLIST") # <<>>,
            media_sequence |-> IF said("#EXT-X-MEDIA-SEQUENCE:") = <<>> THEN 0
                                 ELSE l[Last(said("#EXT-X-MEDIA-SEQUENCE:"))][2]]

\* m3u8_write: what does not fit is left out.
M3u8Write(m) ==
  LET all == <<<<"#EXTM3U", 0>>, <<"#EXT-X-VERSION:", 3>>,
               <<"#EXT-X-MEDIA-SEQUENCE:", m.media_sequence>>, <<"#EXT-X-TARGETDURATION:", 0>>>>
             \o FlattenSeq([k \in DOMAIN m.seg |-> <<Inf(m.seg[k].time_len), Uri(m.seg[k].uri)>>])
             \o (IF m.end THEN <<<<"#EXT-X-ENDLIST", 0>>>> ELSE <<>>)
  IN  SubSeq(all, 1, IF Len(all) < Room THEN Len(all) ELSE Room)

------------------------------------------------------------------------------
Init ==
  /\ programs \in UNION {[1 .. n -> [number : {1, 2}, pid : Pids]] : n \in 0 .. 2}
  /\ streams \in UNION {[1 .. n -> {[type |-> 27, pid |-> p, info |-> k] : p \in Pids, k \in {0, 3}}]
                          : n \in 0 .. 2}
  /\ packets = <<>> /\ clocks = <<>> /\ text = <<>>

\* The source sends a packet; its tables it sends as they are.  To keep the instance small
\* the map of such a source has no streams.
Send ==
  /\ Len(packets) < MaxPackets /\ text = <<>> /\ streams = <<>>
  /\ \E step \in 0 .. MaxStep :
       LET now == step + IF clocks = <<>> THEN 2 * Word - 2 ELSE Last(clocks)
           map == ProgramPid(PatBytes)
       IN  /\ clocks' = Append(clocks, now)
           /\ packets' \in {Append(packets, p) :
                p \in {Packet(0, TRUE, FALSE, FALSE, 0, PatBytes),
                       Packet(PcrPid, FALSE, TRUE, TRUE, now % (2 * Word), <<>>),
                       Packet(PcrPid, FALSE, FALSE, TRUE, 0, <<>>)}
                    \cup IF map = 0 THEN {}
                           ELSE {Packet(map, TRUE, FALSE, FALSE, 0, PmtBytes)}}
  /\ UNCHANGED <<programs, streams, text>>

Write ==
  /\ Len(text) < MaxLines /\ packets = <<>> /\ programs = <<>> /\ streams = <<>>
  /\ \E line \in Lines : text' = Append(text, line)
  /\ UNCHANGED <<programs, streams, packets, clocks>>

Next == Send \/ Write

Spec == Init /\ [][Next]_vars

------------------------------------------------------------------------------
(* Properties *)

\* The tables are read as the source wrote them.
TablesRead ==
  /\ ParsePat(PatBytes) = programs
  /\ ParsePmt(PmtBytes) = [pcrPid |-> PcrPid, streams |-> streams]

\* The clock's pid is found through both tables, if the map of the program is not before
\* the second packet only; and between two packets that time has passed which did, over the
\* end of the clock's count too.
TimesRight ==
  LET map == ProgramPid(PatBytes)
      has(k) == IsPcr(packets[k], PcrPid)
  IN  /\ FindPat(1) # 0 /\ map # 0 /\ (\E k \in 2 .. Len(packets) : packets[k].pid = map)
           => FindPcrPid = PcrPid
      /\ FindPcrPid = PcrPid =>
           \A i, j \in DOMAIN packets :
             i <= j /\ has(i) /\ has(j) /\ clocks[j] - clocks[i] < Word =>
               FindDuration(i, j + 1) = clocks[j] - clocks[i]
  /\ \A k \in DOMAIN packets :
       FindPatR(k) # 0 => FindPatR(k) < k /\ FindPat(FindPatR(k)) = FindPatR(k)

\* A list in which an address stands behind each length is read as it is, without the
\* lines that mean nothing here, and what was read and written again is read the same.
Plain(l) ==
  \A i \in DOMAIN l : l[i][1] = "#EXTINF:" => i < Len(l) /\ l[i + 1][1] = ""
ListsRead ==
  LET l == SelectSeq(text, LAMBDA x : x # <<"\n">>)
      heads == SelectSeq([i \in DOMAIN l |-> i], LAMBDA i : l[i][1] = "#EXTINF:")
  IN  Plain(l) =>
        /\ M3u8Read(text) # None
        /\ M3u8Read(text).seg =
             [k \in DOMAIN heads |-> [time_len |-> l[heads[k]][2], uri |-> l[heads[k] + 1][2]]]
        /\ Len(M3u8Read(text).seg) * 2 + 5 <= Room =>
             M3u8Read(M3u8Write(M3u8Read(text))) = M3u8Read(text)

MediaSound == TablesRead /\ TimesRight /\ ListsRead
================================================================================
