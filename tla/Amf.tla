---------------------------------- MODULE Amf ----------------------------------
(****************************************************************************)
(* The script data of rns_rtmp.c: strings, numbers, objects and arrays, the    *)
(* bytes sd_value_write makes of them and what sd_value_read makes of bytes.   *)
(* rtmp_msg_parse collects the chunks of a message in cbuf and reads from its   *)
(* beginning at every chunk, so each prefix of a message is read.              *)
(*                                                                          *)
(* A buffer is a sequence of bytes.  malloc does not fail.                     *)
(****************************************************************************)
EXTENDS Integers, Sequences

CONSTANT MaxChunk \* most bytes of a chunk

VARIABLES
  obj,   \* the object the peer writes
  cbuf   \* what has come of it

vars == <<obj, cbuf>>

SD_DOUBLE == 0
SD_UI8 == 1
SD_STRING == 2
SD_OBJECT == 3
SD_ECMA == 8
SD_TYPE_END == 9

Null == <<>>
From(buf, n) == SubSeq(buf, n + 1, Len(buf))

------------------------------------------------------------------------------
(* The objects that are written: sequences of properties [name, value], whose  *)
(* values are a number, zero, a flag, strings, null, and objects of these.     *)

Zero == <<0, 0, 0, 0, 0, 0, 0, 0>>
One == <<63, 240, 0, 0, 0, 0, 0, 0>>
Flat ==
  {[type |-> SD_DOUBLE, v |-> n] : n \in {Zero, One}}
    \cup {[type |-> SD_UI8, v |-> <<1>>], [type |-> 5, v |-> Null]}
    \cup {[type |-> SD_STRING, v |-> s] : s \in {<<>>, <<97>>, <<0, 0, 9>>}}
Props(vals) == {[name |-> n, value |-> v] : n \in {<<>>, <<97>>}, v \in vals}
Deep ==
  Flat \cup {[type |-> t, v |-> o] :
             t \in {SD_OBJECT, SD_ECMA}, o \in {<<>>} \cup {<<p>> : p \in Props(Flat)}}
\* An empty name in front of a type 9 would be an end; there is no such type.
Objects ==
  {<<>>} \cup {<<p>> : p \in Props(Deep)} \cup {<<p, q>> : p \in Props(Flat), q \in Props(Deep)}

------------------------------------------------------------------------------
\* What a reader returns: something, or NULL, and how much it took.
Got(v, len) == [ok |-> TRUE, v |-> v, len |-> len]
Nothing(len) == [ok |-> FALSE, v |-> Null, len |-> len]

------------------------------------------------------------------------------
(* Writing *)

sd_str_write(s) == <<Len(s) \div 256, Len(s) % 256>> \o s

RECURSIVE sd_value_write(_), sd_obj_write(_)

sd_value_write(value) ==
  <<value.type>> \o
    CASE value.type \in {SD_DOUBLE, SD_UI8} -> value.v
      [] value.type = SD_STRING -> sd_str_write(value.v)
      [] value.type = SD_OBJECT -> sd_obj_write(value.v)
      [] value.type = SD_ECMA -> <<0, 0, 0, 0>> \o sd_obj_write(value.v)
      [] OTHER -> <<>>

sd_obj_write(props) ==
  IF props = <<>>
    THEN <<0, 0, 9>>
    ELSE sd_str_write(Head(props).name) \o sd_value_write(Head(props).value)
           \o sd_obj_write(Tail(props))

------------------------------------------------------------------------------
(* Reading *)

\* sd_ui8_read, sd_dbl_read
Fixed(buf, size) == IF Len(buf) < size THEN Nothing(0) ELSE Got(SubSeq(buf, 1, size), size)

\* Faulty variant of sd_str_read: a string that has not come is an error.
StrReadFails(buf) ==
  IF Len(buf) < 2 \/ Len(buf) - 2 < buf[1] * 256 + buf[2]
    THEN Nothing(Len(buf))
    ELSE LET n == buf[1] * 256 + buf[2]
         IN  Got(SubSeq(buf, 3, n + 2), n + 2)

sd_str_read(buf) ==
  IF Len(buf) < 2 \/ Len(buf) - 2 < buf[1] * 256 + buf[2]
    THEN Nothing(0)
    ELSE LET n == buf[1] * 256 + buf[2]
         IN  Got(SubSeq(buf, 3, n + 2), n + 2)

\* The test for the end of an object, which reads behind the end of the buffer:
\* there are zeros in cbuf.
AtEnd(buf) == Len(buf) >= 3 /\ buf[1] = 0 /\ buf[2] = 0 /\ buf[3] = 9

RECURSIVE sd_value_read(_), sd_obj_loop(_, _, _)

\* sd_obj_read: also the end of the buffer ends the object, and three bytes are
\* taken for its end in any case.
sd_obj_loop(buf, props, len) ==
  IF buf = <<>> \/ AtEnd(buf)
    THEN Got(props, len + 3)
    ELSE LET name == sd_str_read(buf)
             value == sd_value_read(From(buf, name.len))
         IN  IF ~name.ok THEN Nothing(IF name.len > 0 THEN len + Len(buf) ELSE 0)
             ELSE IF ~value.ok THEN Nothing(IF value.len > 0 THEN len + Len(buf) ELSE 0)
             ELSE sd_obj_loop(From(buf, name.len + value.len),
                              Append(props, [name |-> name.v, value |-> value.v]),
                              len + name.len + value.len)

sd_obj_read(buf) == sd_obj_loop(buf, <<>>, 0)

sd_ecma_read(buf) ==
  IF Len(buf) < 4
    THEN Nothing(0)
    ELSE LET r == sd_obj_read(From(buf, 4))
         IN  IF r.ok THEN Got(r.v, r.len + 4) ELSE Nothing(IF r.len > 0 THEN Len(buf) ELSE 0)

\* Faulty variant of sd_value_read: the type is not counted.
UncountedRead(buf) ==
  IF buf = <<>> THEN Nothing(0)
  ELSE IF Head(buf) >= SD_TYPE_END THEN Nothing(Len(buf))
  ELSE LET rest == Tail(buf)
           r == CASE Head(buf) = SD_DOUBLE -> Fixed(rest, 8)
                  [] Head(buf) = SD_UI8 -> Fixed(rest, 1)
                  [] Head(buf) = SD_STRING -> sd_str_read(rest)
                  [] Head(buf) = SD_OBJECT -> sd_obj_read(rest)
                  [] Head(buf) = SD_ECMA -> sd_ecma_read(rest)
                  [] OTHER -> Nothing(0)
       IN  Got([type |-> Head(buf), v |-> r.v], IF r.len = 0 THEN 1 ELSE r.len)

\* A value whose content could not be read is a value without content.
sd_value_read(buf) ==
  IF buf = <<>> THEN Nothing(0)
  ELSE IF Head(buf) >= SD_TYPE_END THEN Nothing(Len(buf))
  ELSE LET rest == Tail(buf)
           r == CASE Head(buf) = SD_DOUBLE -> Fixed(rest, 8)
                  [] Head(buf) = SD_UI8 -> Fixed(rest, 1)
                  [] Head(buf) = SD_STRING -> sd_str_read(rest)
                  [] Head(buf) = SD_OBJECT -> sd_obj_read(rest)
                  [] Head(buf) = SD_ECMA -> sd_ecma_read(rest)
                  [] OTHER -> Nothing(0)
       IN  Got([type |-> Head(buf), v |-> r.v], 1 + r.len)

------------------------------------------------------------------------------
Init == obj \in Objects /\ cbuf = <<>>

\* rtmp_msg_parse puts the next chunk behind what cbuf holds.
Chunk(n) ==
  /\ Len(cbuf) + n <= Len(sd_obj_write(obj))
  /\ cbuf' = cbuf \o SubSeq(sd_obj_write(obj), Len(cbuf) + 1, Len(cbuf) + n)
  /\ UNCHANGED obj

\* The next message
Another ==
  /\ cbuf = sd_obj_write(obj)
  /\ obj' \in Objects /\ cbuf' = <<>>

Next == (\E n \in 1 .. MaxChunk : Chunk(n)) \/ Another

Spec == Init /\ [][Next]_vars

------------------------------------------------------------------------------
(* Properties *)

Result == sd_obj_read(cbuf)

\* How many properties have come as a whole
RECURSIVE Whole(_, _)
Whole(props, n) ==
  IF props = <<>> THEN 0
  ELSE LET size == Len(sd_str_write(Head(props).name)) + Len(sd_value_write(Head(props).value))
       IN  IF size > n THEN 0 ELSE 1 + Whole(Tail(props), n - size)

\* A message that has come is read as it was written, to its last byte, with
\* objects in objects, empty names and numbers whose bytes are those of an end.
RoundTrip == cbuf = sd_obj_write(obj) => Result = Got(obj, Len(cbuf))

\* Whatever the cut, a reader that returns something gives the properties that
\* came as a whole as they were written, and no later ones but the one cut.
WholeOnes ==
  Result.ok =>
    LET n == Whole(obj, Len(cbuf)) IN
      /\ Len(Result.v) >= n
      /\ \A i \in 1 .. n : Result.v[i] = obj[i]

\* A message of which a part is missing is not taken for a malformed one, which
\* would have cbuf thrown away: bytes that are not understood wait.
Waits == (~Result.ok /\ cbuf # sd_obj_write(obj)) => Result.len = 0
==============================================================================
