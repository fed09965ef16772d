-------------------------------- MODULE Request --------------------------------
(****************************************************************************)
(* What the client side of rns_http.c promises to whoever sent a request     *)
(* with rns_hconn_get and rns_hconn_req: cb.work is called at most once, and  *)
(* never after the connection was reported lost.  HttpClient implements it    *)
(* for every request.                                                        *)
(****************************************************************************)
EXTENDS Naturals

VARIABLES
  work,   \* calls of cb.work for the request
  lost    \* calls of cb.close or cb.error for the request

vars == <<work, lost>>

Init == work = 0 /\ lost = 0

Answer == work = 0 /\ lost = 0 /\ work' = 1 /\ UNCHANGED lost

\* The connection ends before the answer, or after it: the callbacks stay set
\* while the connection waits in the pool.
Lose == lost = 0 /\ lost' = 1 /\ UNCHANGED work

Next == Answer \/ Lose

Spec == Init /\ [][Next]_vars
===============================================================================
