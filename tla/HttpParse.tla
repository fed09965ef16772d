------------------------------ MODULE HttpParse ------------------------------
(****************************************************************************)
(* How rns_http.c cuts a stream of bytes into messages: read_func with its    *)
(* buffer, and rns_http_info_read, one action for each case of its switch.    *)
(* The peer's bytes arrive in pieces of any length.  A message is a sequence  *)
(* of atoms: the text of a line, a CR, an LF, the digits of a chunk size, a    *)
(* byte of the body.  After each message the peer waits for its answer.       *)
(****************************************************************************)
EXTENDS Integers, Sequences, SequencesExt

CONSTANTS
  Bodies,    \* numbers of body bytes of the messages with a Content-Length
  Chunkings, \* lengths of the chunks of the messages that are sent in chunks
  Size,      \* hconn->buf->size
  MaxMsgs    \* messages of a run

Line(text) == <<text, "CR", "LF">>
Alphabet == <<"a", "b", "c", "d", "e", "f", "g", "h", "i", "j", "k", "l", "m",
              "n", "o", "p", "q", "r", "s", "t", "u", "v", "w", "x", "y", "z">>
Bytes(i, n) == SubSeq(Alphabet, i + 1, i + n)   \* bytes of a body, all different
Digits == <<"0", "1", "2", "3">>          \* the text of a chunk size
Value(d) == (CHOOSE i \in DOMAIN Digits : Digits[i] = d) - 1

Plain(n) ==
  [head |-> Line("start") \o (IF n > 0 THEN Line("length") ELSE Line("other")) \o <<"CR", "LF">>,
   body |-> Bytes(0, n), tail |-> <<>>, chunked |-> FALSE]

SumOf(k) == FoldLeft(+, 0, k)

Chunks(k) ==
  FlattenSeq([i \in DOMAIN k |->
    Line(Digits[k[i] + 1]) \o Bytes(SumOf(SubSeq(k, 1, i - 1)), k[i]) \o <<"CR", "LF">>])
  \o Line("0")

Chunked(k) ==
  [head |-> Line("start") \o Line("encoding") \o <<"CR", "LF">> \o Chunks(k),
   body |-> Bytes(0, SumOf(k)), tail |-> <<"CR", "LF">>, chunked |-> TRUE]

Messages == {Plain(n) : n \in Bodies} \cup {Chunked(k) : k \in Chunkings}
Atoms(m) == IF m.chunked THEN m.head \o m.tail ELSE m.head \o m.body

VARIABLES
  msg,    \* the message the peer is sending
  coming, \* what of it the kernel or the peer still holds
  wpos,   \* buf->write_pos
  un,     \* the bytes between read_pos and write_pos
  state,  \* read_info.state
  chunk, chunksize, total, curr,   \* fields of read_info
  body,   \* the body_size bytes at read_info.body
  pc,     \* where read_func is: "rest" (epoll_wait), "recv", "parse",
          \* "judge", "exec", or "closed"
  given,  \* what cb.work was given of this message
  works, done,   \* calls of cb.work and cb.done for it
  cut,    \* a read ended in or before the empty line behind the headers
  count   \* messages so far

infoVars == <<state, chunk, chunksize, total, curr, body>>
appVars  == <<given, works, done>>
vars == <<msg, coming, wpos, un, infoVars, pc, appVars, cut, count>>

\* rns_http_info_init
InfoInit ==
  /\ state' = "INIT" /\ chunk' = 0 /\ chunksize' = 0 /\ total' = 0 /\ curr' = 0 /\ body' = <<>>

Init ==
  /\ msg \in Messages /\ coming = Atoms(msg)
  /\ wpos = 0 /\ un = <<>> /\ pc = "rest"
  /\ state = "INIT" /\ chunk = 0 /\ chunksize = 0 /\ total = 0 /\ curr = 0 /\ body = <<>>
  /\ given = <<>> /\ works = 0 /\ done = 0 /\ cut = FALSE /\ count = 1

------------------------------------------------------------------------------
(* rns_http_info_read: one case of the switch *)

\* rns_strstr(walker, "\r\n"): the lines that end in s; and what follows
Ends(s) == {i \in 1 .. Len(s) - 1 : s[i] = "CR" /\ s[i + 1] = "LF"}
HasLine(s) == Ends(s) # {}
LineEnd(s) == CHOOSE i \in Ends(s) : \A j \in Ends(s) : i <= j
AfterLine(s) == SubSeq(s, LineEnd(s) + 2, Len(s))

At(s) == pc = "parse" /\ un # <<>> /\ state = s
Return == pc' = "judge"
Rest == UNCHANGED <<msg, coming, wpos, appVars, cut, count>>

\* INIT, CODE, METHOD, URI and ARGS all work on the first line, which is
\* complete; a line without a space is an error.
ParseStart ==
  /\ At("INIT") /\ Rest
  /\ IF ~HasLine(un) THEN Return /\ UNCHANGED <<un, infoVars>>
     ELSE /\ UNCHANGED <<pc, chunk, chunksize, total, curr, body>>
          /\ IF Head(un) = "start" THEN state' = "HEADER" /\ un' = AfterLine(un)
                                   ELSE state' = "ERROR" /\ UNCHANGED un

\* One header line; the empty line behind it is looked for at once.
ParseHeader ==
  /\ At("HEADER") /\ Rest
  /\ IF ~HasLine(un) THEN Return /\ UNCHANGED <<un, infoVars>>
     ELSE LET next == AfterLine(un)
              last == IsPrefix(<<"CR", "LF">>, next)
          IN  /\ total' = IF Head(un) = "length" THEN Len(msg.body) ELSE total
              /\ chunk' = IF Head(un) = "encoding" THEN 1 ELSE chunk
              /\ un' = IF last THEN SubSeq(next, 3, Len(next)) ELSE next
              /\ state' = CASE ~last -> "HEADER" [] last /\ chunk' = 1 -> "CHUNK"
                            [] OTHER -> "BODY"
              /\ UNCHANGED <<pc, chunksize, curr, body>>

\* Faulty variant of ParseChunk: the CR LF behind a chunk's bytes is kept.
ParseChunkKeepsEnd ==
  /\ At("CHUNK") /\ Rest
  /\ IF ~HasLine(un) THEN Return /\ UNCHANGED <<un, infoVars>>
     ELSE /\ chunksize' = IF Head(un) \in ToSet(Digits) THEN Value(Head(un)) ELSE 0
          /\ un' = AfterLine(un)
          /\ total' = total + chunksize'
          /\ state' = IF chunksize' = 0 THEN "DONE" ELSE "BODY"
          /\ UNCHANGED <<pc, chunk, curr, body>>

\* The size of a chunk, behind the CR LF that ends the chunk before.
ParseChunk ==
  /\ At("CHUNK") /\ Rest
  /\ LET skip == IsPrefix(<<"CR", "LF">>, un)
         line == IF skip THEN SubSeq(un, 3, Len(un)) ELSE un
     IN  IF ~HasLine(un) THEN Return /\ UNCHANGED <<un, infoVars>>
         ELSE IF ~HasLine(line) THEN Return /\ un' = line /\ UNCHANGED infoVars
         ELSE /\ chunksize' = Value(Head(line))
              /\ un' = AfterLine(line)
              /\ total' = total + chunksize'
              /\ state' = IF chunksize' = 0 THEN "DONE" ELSE "BODY"
              /\ UNCHANGED <<pc, chunk, curr, body>>

\* Faulty variant of ParseBody: what came in earlier reads is not counted.
ParseBodyAfresh ==
  /\ At("BODY") /\ Rest /\ Return
  /\ LET n == IF Len(un) < total - curr THEN Len(un) ELSE total - curr
     IN  /\ state' = IF chunk = 0 /\ Len(un) >= total THEN "DONE" ELSE state
         /\ body' = body \o SubSeq(un, 1, n)
         /\ curr' = curr + n
         /\ un' = SubSeq(un, n + 1, Len(un))
  /\ UNCHANGED <<chunk, chunksize, total>>

\* What there is of the body, up to its length or the chunk's.
ParseBody ==
  /\ At("BODY") /\ Rest /\ Return
  /\ LET n == IF Len(un) < total - curr THEN Len(un) ELSE total - curr
     IN  /\ state' = IF chunk = 0 /\ Len(un) >= total - curr THEN "DONE" ELSE state
         /\ body' = body \o SubSeq(un, 1, n)
         /\ curr' = curr + n
         /\ un' = SubSeq(un, n + 1, Len(un))
  /\ UNCHANGED <<chunk, chunksize, total>>

\* DONE takes nothing, ERROR everything.
ParseRest ==
  /\ At("DONE") \/ At("ERROR")
  /\ Rest /\ Return
  /\ un' = IF state = "ERROR" THEN <<>> ELSE un
  /\ UNCHANGED infoVars

\* Faulty variant of ParsedAll: the length is not looked at.
ParsedAllDone ==
  /\ pc = "parse" /\ un = <<>> /\ Rest /\ Return
  /\ state' = IF state = "BODY" THEN "DONE" ELSE state
  /\ UNCHANGED <<un, chunk, chunksize, total, curr, body>>

\* The loop has come to the end of the bytes: a message without body is done.
ParsedAll ==
  /\ pc = "parse" /\ un = <<>> /\ Rest /\ Return
  /\ state' = IF state = "BODY" /\ total = 0 THEN "DONE" ELSE state
  /\ UNCHANGED <<un, chunk, chunksize, total, curr, body>>

------------------------------------------------------------------------------
(* read_func *)

Wakeup ==
  /\ pc = "rest" /\ coming # <<>>
  /\ pc' = "recv"
  /\ UNCHANGED <<msg, coming, wpos, un, infoVars, appVars, cut, count>>

\* The empty line behind the headers is not whole in what has been read.
CutAt(n) ==
  LET read == Len(Atoms(msg)) - Len(coming) + n
      blank == CHOOSE i \in Ends(Atoms(msg)) : i - 2 \in Ends(Atoms(msg))
                 /\ \A j \in Ends(Atoms(msg)) : j - 2 \in Ends(Atoms(msg)) => i <= j
  IN  read \in {blank - 1, blank}

Recv ==
  /\ pc = "recv" /\ coming # <<>> /\ wpos < Size
  /\ \E n \in 1 .. Len(coming) :
       /\ n <= Size - wpos
       /\ un' = un \o SubSeq(coming, 1, n)
       /\ coming' = SubSeq(coming, n + 1, Len(coming))
       /\ wpos' = wpos + n
       /\ cut' = (cut \/ CutAt(n))
  /\ pc' = "parse"
  /\ UNCHANGED <<msg, infoVars, appVars, count>>

\* EAGAIN: behind a complete message the buffer is emptied, and writing enabled.
RecvAgain ==
  /\ pc = "recv" /\ wpos < Size
  /\ pc' = "rest"
  /\ IF state = "DONE" THEN wpos' = 0 /\ un' = <<>> ELSE UNCHANGED <<wpos, un>>
  /\ UNCHANGED <<msg, coming, infoVars, appVars, cut, count>>

\* recv into a full buffer gives 0, like a peer that closes.
RecvNothing ==
  /\ pc = "recv" /\ wpos = Size
  /\ pc' = "closed"
  /\ UNCHANGED <<msg, coming, wpos, un, infoVars, appVars, cut, count>>

\* What read_func makes of the state the parser returned in
Judge ==
  /\ pc = "judge"
  /\ \/ /\ state = "BODY" /\ wpos = Size
        /\ wpos' = 0 /\ un' = <<>> /\ pc' = "exec"
        /\ UNCHANGED infoVars
     \/ /\ state = "BODY" /\ wpos # Size /\ chunk = 1 /\ total <= curr
        /\ state' = "CHUNK" /\ pc' = "exec"
        /\ UNCHANGED <<wpos, un, chunk, chunksize, total, curr, body>>
     \/ /\ state = "DONE"
        /\ pc' = "exec"
        /\ UNCHANGED <<wpos, un, infoVars>>
     \/ /\ state = "ERROR"
        /\ InfoInit /\ pc' = "recv"
        /\ UNCHANGED <<wpos, un>>
     \/ /\ state \notin {"DONE", "ERROR"}
        /\ state = "BODY" => wpos # Size /\ ~(chunk = 1 /\ total <= curr)
        /\ pc' = "recv"
        /\ UNCHANGED <<wpos, un, infoVars>>
  /\ UNCHANGED <<msg, coming, appVars, cut, count>>

\* The callbacks, and what is left in the buffer behind the message
Exec ==
  /\ pc = "exec"
  /\ IF chunk = 0 \/ state = "CHUNK"
       THEN given' = given \o body /\ works' = works + 1
       ELSE UNCHANGED <<given, works>>
  /\ done' = IF state = "DONE" THEN done + 1 ELSE done
  /\ IF un = <<>> THEN pc' = "recv" ELSE pc' = "parse"
  /\ IF un # <<>> /\ state = "DONE"
       THEN InfoInit
       ELSE body' = <<>> /\ UNCHANGED <<state, chunk, chunksize, total, curr>>
  /\ UNCHANGED <<msg, coming, wpos, un, cut, count>>

\* The answer is written and the next message comes; after a chunked one, whose
\* last CR LF may have been taken for a message, the next is not looked at.
NextMessage ==
  /\ pc = "rest" /\ coming = <<>> /\ state = "DONE" /\ count < MaxMsgs
  /\ msg' \in Messages /\ coming' = Atoms(msg')
  /\ InfoInit
  /\ given' = <<>> /\ works' = 0 /\ done' = 0 /\ cut' = FALSE
  /\ count' = count + 1
  /\ UNCHANGED <<wpos, un, pc>>

Next ==
  \/ ParseStart \/ ParseHeader \/ ParseChunk \/ ParseBody \/ ParseRest \/ ParsedAll
  \/ Wakeup \/ Recv \/ RecvAgain \/ RecvNothing \/ Judge \/ Exec \/ NextMessage

Spec == Init /\ [][Next]_vars

------------------------------------------------------------------------------
(* Properties *)

AllRead == pc = "rest" /\ coming = <<>>
Fits == Len(Atoms(msg)) < Size

\* However the network cuts it, a message whose empty line came in one piece
\* with the header before it reaches the handler whole and in order, and
\* read_func is ready to write the answer.  Bodies with a Content-Length may be
\* longer than the buffer (cb.work then gets them in parts); a chunked message
\* has to fit, and ends in another state when its last CR LF is read together
\* with what is before it.
Delivered == AllRead /\ ~cut /\ (msg.chunked => Fits) =>
  /\ given = msg.body /\ done > 0
  /\ ~msg.chunked => state = "DONE"
  /\ ~msg.chunked /\ Fits => works = 1

\* done is not called before the last byte of the body was given to cb.work, nor
\* twice (but for a chunked message whose last CR LF is read apart), and the
\* bytes given are a prefix of the body at any time.
InOrder == ~cut /\ (msg.chunked => Fits) =>
  /\ IsPrefix(given, msg.body)
  /\ done > 0 => given = msg.body
  /\ ~msg.chunked => done <= 1
===============================================================================
