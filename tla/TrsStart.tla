------------------------------- MODULE TrsStart -------------------------------
(****************************************************************************)
(* A TRS starts (src/src/trs/trs.c): main prepares what it needs, the pool  *)
(* of the database calls dbpool_done, the boxes of this TRS are loaded, then*)
(* all phones, and it listens while the phones are still coming.  What it   *)
(* then has in memory of phone and box is a copy of the table of phones,    *)
(* which the FOSS writes: for a bind or unbind of this TRS before it        *)
(* answers, or for another TRS.                                             *)
(*                                                                          *)
(* A phone is found by its id in a tree that takes equal keys, so that a    *)
(* phone may have two objects, and a search may find either.                *)
(****************************************************************************)
EXTENDS Naturals, Sequences, FiniteSets

CONSTANTS
  Phones,
  Boxes,
  Own,      \* the boxes whose row names this TRS
  None,     \* no box; no row
  MaxReqs,  \* bound: binds and unbinds under way
  MaxFails  \* bound: failures of the database, of the FOSS, of connections

\* The boxes of this TRS are boxes, and NULL is none, nor what a load brings.
Bounds ==
  /\ Own \subseteq Boxes /\ None \notin Boxes /\ MaxFails \in Nat
  /\ \A P \in SUBSET Phones : None \notin [P -> Boxes]

VARIABLES
  phase,  \* "off", the steps of main, "boxes", "serving", or "stuck": it never listens
  known,  \* trs->stbroot
  objs,   \* trs->phoneroot: phone->stb of each object of a phone
  rows,   \* rows of the phones that the load still has to bring, or None
  table,  \* table phone of the database
  reqs,   \* binds and unbinds that the FOSS was asked for
  strays, \* phones for which memory and table may differ until the next start
  fails   \* failures so far

vars == <<phase, known, objs, rows, table, reqs, strays, fails>>

Req == [phone : Phones, obj : {1, 2}, box : Boxes \cup {None},
        state : {"sent", "done"}]

TypeOK ==
  /\ phase \in {"off", "clients", "db", "pool", "boxes", "serving", "stuck"}
  /\ known \subseteq Boxes
  /\ objs \in [Phones -> Seq(Boxes \cup {None})] /\ \A p \in Phones : Len(objs[p]) <= 2
  /\ rows = None \/ \E P \in SUBSET Phones : rows \in [P -> Boxes]
  /\ table \in [Phones -> Boxes \cup {None}]
  /\ reqs \subseteq Req
  /\ strays \subseteq Phones
  /\ fails \in 0 .. MaxFails

Init ==
  /\ phase = "off"
  /\ known = {} /\ objs = [p \in Phones |-> <<>>]
  /\ rows = None
  /\ table \in [Phones -> Boxes \cup {None}]
  /\ reqs = {} /\ strays = {} /\ fails = 0

Fail == fails < MaxFails /\ fails' = fails + 1

------------------------------------------------------------------------------
(* The start *)

Exits == phase' = "off" /\ Fail

\* main: the configuration, the log and the http server, which does not listen yet.
\* What is missing or fails ends the process, here and below.
Configure ==
  /\ phase = "off"
  /\ phase' = "clients"
  /\ UNCHANGED <<known, objs, rows, table, reqs, strays, fails>>

\* ... the clients of FOSS and CMS, and the parameters of the database,
CreateClients ==
  /\ phase = "clients"
  /\ \/ phase' = "db" /\ UNCHANGED fails
     \/ Exits
  /\ UNCHANGED <<known, objs, rows, table, reqs, strays>>

\* ... the pipe, and the pool, whose connections the loop then makes.
CreatePool ==
  /\ phase = "db"
  /\ \/ phase' = "pool" /\ UNCHANGED fails
     \/ Exits
  /\ UNCHANGED <<known, objs, rows, table, reqs, strays>>

\* dbpool_done: the boxes are asked for; without that the TRS never listens.
DbpoolDone ==
  /\ phase = "pool"
  /\ \/ phase' = "boxes" /\ UNCHANGED fails
     \/ phase' = "stuck" /\ Fail
  /\ UNCHANGED <<known, objs, rows, table, reqs, strays>>

\* stb_fetch: a row becomes a box.
StbFetch(b) ==
  /\ phase = "boxes"
  /\ b \in Own \ known
  /\ known' = known \cup {b}
  /\ UNCHANGED <<phase, objs, rows, table, reqs, strays, fails>>

\* stb_fetch_done: the phones are asked for, and without waiting for them the timer
\* of the login is added and the TRS listens.  When they cannot be asked for, or the
\* load of the boxes fails (stb_fetch_error), it never listens.  A load that breaks
\* off between two rows looks complete.
StbFetchDone ==
  /\ phase = "boxes"
  /\ \/ /\ phase' = "serving"
        /\ rows' = [p \in {q \in Phones : table[q] # None} |-> table[p]]
        /\ IF known = Own THEN UNCHANGED fails ELSE Fail
     \/ phase' = "stuck" /\ rows' = None /\ Fail
  /\ UNCHANGED <<known, objs, table, reqs, strays>>

\* Faulty variant of PhoneFetch: the phone is not linked to its box.
PhoneFetchAlone(p) ==
  /\ phase = "serving" /\ rows # None /\ p \in DOMAIN rows
  /\ objs' = [objs EXCEPT ![p] = Append(@, None)]
  /\ rows' = [q \in DOMAIN rows \ {p} |-> rows[q]]
  /\ strays' = IF objs[p] # <<>> \/ rows[p] \in Own \ known THEN strays \cup {p} ELSE strays
  /\ UNCHANGED <<phase, known, table, reqs, fails>>

\* phone_fetch: a row becomes a phone, also where there is one already, linked to
\* its box if that is known.
PhoneFetch(p) ==
  /\ phase = "serving" /\ rows # None /\ p \in DOMAIN rows
  /\ objs' = [objs EXCEPT ![p] = Append(@, IF rows[p] \in known THEN rows[p] ELSE None)]
  /\ rows' = [q \in DOMAIN rows \ {p} |-> rows[q]]
  /\ strays' = IF objs[p] # <<>> \/ rows[p] \in Own \ known THEN strays \cup {p} ELSE strays
  /\ UNCHANGED <<phase, known, table, reqs, fails>>

\* phone_fetch_done, or phone_fetch_error (and an end before all rows are there):
\* what did not come is not asked for again.
PhoneFetchEnd ==
  /\ phase = "serving" /\ rows # None
  /\ rows' = None
  /\ strays' = strays \cup DOMAIN rows
  /\ IF DOMAIN rows = {} THEN UNCHANGED fails ELSE Fail
  /\ UNCHANGED <<phase, known, objs, table, reqs>>

\* The process ends.  What the FOSS was asked for it may still do (assumed: before
\* the next start asks for the phones).
Stop ==
  /\ phase # "off"
  /\ phase' = "off"
  /\ known' = {} /\ objs' = [p \in Phones |-> <<>>]
  /\ rows' = None
  /\ reqs' = {} /\ strays' = {}
  /\ table' \in {t \in [Phones -> Boxes \cup {None}] : \A p \in Phones :
       t[p] # table[p] =>
         \E r \in reqs : r.phone = p /\ r.state = "sent" /\ r.box = t[p]}
  /\ UNCHANGED fails

------------------------------------------------------------------------------
(* Binds and unbinds *)

\* A second request for a phone may be answered in another order than it was done.
Requests(p, k, b) ==
  /\ Cardinality(reqs) < MaxReqs
  /\ LET r == [phone |-> p, obj |-> k, box |-> b, state |-> "sent"]
     IN  r \notin reqs /\ reqs' = reqs \cup {r}
  /\ strays' = IF \E r \in reqs : r.phone = p THEN strays \cup {p} ELSE strays

\* /phone/bindStb: a phone or a box that is not known is made.
BindStb(p, b) ==
  /\ phase = "serving"
  /\ known' = known \cup {b}
  /\ IF objs[p] = <<>>
       THEN objs' = [objs EXCEPT ![p] = <<None>>] /\ Requests(p, 1, b)
       ELSE UNCHANGED objs /\ \E k \in DOMAIN objs[p] : Requests(p, k, b)
  /\ UNCHANGED <<phase, rows, table, fails>>

\* /phone/unbindStb: refused for a phone that is not known or not bound.
UnbindStb(p) ==
  /\ phase = "serving"
  /\ \E k \in DOMAIN objs[p] : objs[p][k] # None /\ Requests(p, k, None)
  /\ UNCHANGED <<phase, known, objs, rows, table, fails>>

\* The FOSS writes the table and answers 200, or 400: before it wrote, or after it.
FossDoes(r) ==
  /\ r \in reqs /\ r.state = "sent"
  /\ \/ /\ table' = [table EXCEPT ![r.phone] = r.box]
        /\ reqs' = (reqs \ {r}) \cup {[r EXCEPT !.state = "done"]}
        /\ UNCHANGED <<strays, fails>>
     \/ reqs' = reqs \ {r} /\ Fail /\ UNCHANGED <<table, strays>>
     \/ /\ table' = [table EXCEPT ![r.phone] = r.box]
        /\ reqs' = reqs \ {r}
        /\ strays' = strays \cup {r.phone}
        /\ Fail
  /\ UNCHANGED <<phase, known, objs, rows>>

\* Faulty variant of FossResp: the link to the old box stays.
FossRespKeeps(r) ==
  /\ r \in reqs /\ r.state = "done"
  /\ reqs' = reqs \ {r}
  /\ objs' = IF r.box = None \/ objs[r.phone][r.obj] = None
               THEN [objs EXCEPT ![r.phone][r.obj] = r.box] ELSE objs
  /\ UNCHANGED <<phase, known, rows, table, strays, fails>>

\* foss_bind_resp and foss_unbind_resp
FossResp(r) ==
  /\ r \in reqs /\ r.state = "done"
  /\ reqs' = reqs \ {r}
  /\ objs' = [objs EXCEPT ![r.phone][r.obj] = r.box]
  /\ UNCHANGED <<phase, known, rows, table, strays, fails>>

\* The connection to the FOSS breaks: nobody is told, and nothing is asked again.
RespLost(r) ==
  /\ r \in reqs
  /\ reqs' = reqs \ {r}
  /\ strays' = strays \cup {r.phone}
  /\ \/ UNCHANGED table
     \/ r.state = "sent" /\ table' = [table EXCEPT ![r.phone] = r.box]
  /\ Fail
  /\ UNCHANGED <<phase, known, objs, rows>>

\* The phone is bound or unbound at another TRS.
BoundElsewhere(p) ==
  /\ \E b \in (Boxes \cup {None}) \ {table[p]} : table' = [table EXCEPT ![p] = b]
  /\ strays' = IF phase = "serving" THEN strays \cup {p} ELSE strays
  /\ UNCHANGED <<phase, known, objs, rows, reqs>> /\ Fail

------------------------------------------------------------------------------
Next ==
  \/ Configure \/ CreateClients \/ CreatePool
  \/ DbpoolDone \/ StbFetchDone \/ PhoneFetchEnd \/ Stop
  \/ \E b \in Boxes : StbFetch(b)
  \/ \E p \in Phones :
       \/ PhoneFetch(p) \/ UnbindStb(p) \/ BoundElsewhere(p)
       \/ \E b \in Boxes : BindStb(p, b)
  \/ \E r \in reqs : FossDoes(r) \/ FossResp(r) \/ RespLost(r)

Spec == Init /\ [][Next]_vars

------------------------------------------------------------------------------
(* Properties *)

\* /stb/bindphonelist and /phone/screen go by phone->stb: when the load is over and
\* no request of a phone is under way, that is what the table says, with one object
\* for the phone.  A box of another TRS may be unknown here.  The exceptions are the
\* phones that were asked for before their row came, whose requests overlapped, were
\* answered with an error after they were done or lost their answer, or that were
\* bound at another TRS: for them nothing corrects the memory before the next start.
MemoryAgrees ==
  \A p \in Phones :
    \/ phase # "serving" \/ rows # None \/ p \in strays
    \/ \E r \in reqs : r.phone = p
    \/ \E b \in Boxes \cup {None} :
         /\ objs[p] = <<b>> \/ (objs[p] = <<>> /\ b = None)
         /\ b = table[p] \/ (b = None /\ table[p] \notin Own)

StartSound == TypeOK /\ MemoryAgrees
==============================================================================
