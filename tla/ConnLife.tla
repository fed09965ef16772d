------------------------------- MODULE ConnLife -------------------------------
(****************************************************************************)
(* What rns_http.c promises of one server connection to the code above it:  *)
(* the abstract life of an rns_hconn_t.  HttpConn shows that the reading,    *)
(* parsing, writing and freeing of rns_http.c implement it, and TrsScreen    *)
(* that every connection it uses lives by it.                               *)
(****************************************************************************)
EXTENDS Naturals

VARIABLES
  life,   \* "free", "idle", "busy" (a request is outstanding), "flush" (it is
          \* answered, the answer is being written) or "stuck" (write failed)
  gone,   \* 1 when the peer left while a request was outstanding
  due     \* 1 when the expiry timer is due

vars == <<life, gone, due>>

Init == life = "free" /\ gone = 0 /\ due = 0

\* accept_func: the connection is new.
Accept == life = "free" /\ life' = "idle" /\ gone' = 0 /\ due' = 0

\* A complete request re-arms the timer and reaches the handler, which may
\* answer it at once.
Arrive ==
  /\ life = "idle"
  /\ life' \in {"busy", "flush"}
  /\ due' = 0
  /\ UNCHANGED gone

\* rns_hconn_resp2 from a later callback
Answer == life = "busy" /\ life' = "flush" /\ UNCHANGED <<gone, due>>

Freed == life' = "free" /\ gone' = 0 /\ due' = 0

\* The answer is written: a connection whose peer left is not used again.
Finish ==
  /\ life = "flush"
  /\ \/ Freed
     \/ gone = 0 /\ life' = "idle" /\ UNCHANGED <<gone, due>>

\* The answer cannot be written.
Fail == life = "flush" /\ life' = "stuck" /\ UNCHANGED <<gone, due>>

\* The peer leaves: the connection goes now if it is idle, later otherwise.
Leave ==
  \/ life = "idle" /\ Freed
  \/ life \in {"busy", "flush", "stuck"} /\ gone' = 1 /\ UNCHANGED <<life, due>>

\* The timer comes due, and frees the connection in any state.
TimePasses == life # "free" /\ due' = 1 /\ UNCHANGED <<life, gone>>
TimesOut == life # "free" /\ due = 1 /\ Freed

Next == \/ Accept \/ Arrive \/ Answer \/ Finish \/ Fail \/ Leave \/ TimePasses \/ TimesOut

Spec == Init /\ [][Next]_vars
===============================================================================
