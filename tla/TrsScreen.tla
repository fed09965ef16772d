------------------------------ MODULE TrsScreen ------------------------------
(****************************************************************************)
(* The screen service of the TRS (src/src/trs): phones push screen commands *)
(* to the set-top box they are bound to, and a box fetches them with a long *)
(* poll that the server holds on its HTTP connection until a command comes  *)
(* or a timer answers it.  Phones are bound and unbound through a request   *)
(* to the FOSS whose answer arrives in a later callback.                    *)
(*                                                                          *)
(* Everything runs on one epoll loop, so an action is one callback: a       *)
(* handler, a timer, a socket event.  Time is relative: left[c] and wake[s] *)
(* are the milliseconds to go (in ticks; negative when overdue) of the two  *)
(* kinds of timers in the loop's tree.                                      *)
(****************************************************************************)
EXTENDS Integers, FiniteSets

CONSTANTS
  Stbs,       \* set-top boxes (stbdev_t in trs->stbroot)
  Phones,     \* phones (phonedev_t in trs->phoneroot)
  Conns,      \* addresses a client connection (rns_hconn_t) can have
  Infos,      \* screen commands (screen_info_t)
  None,       \* NULL
  Hold,       \* the 20000 ms a poll is held
  Expire,     \* hconn->expire, 60000 ms by default
  MaxLate,    \* bound: how late the loop runs a timer
  MaxFlight,  \* bound: FOSS requests in flight
  LateFoss    \* may the FOSS answer after the client's connection expired?

ASSUME NoneAssumption ==
  /\ None \notin Int
  /\ None \notin Stbs \cup Phones \cup Conns \cup Infos
ASSUME TimeAssumption ==
  /\ Hold \in Nat \ {0} /\ Expire \in Nat \ {0} /\ MaxLate \in Nat
  /\ Hold < Expire
ASSUME BoundAssumption == MaxFlight \in Nat /\ LateFoss \in BOOLEAN

VARIABLES
  conn,     \* what becomes of the connection at an address
  gone,     \* connections with hconn->destroy = 1: the peer left during phase 1
  left,     \* hconn->timer: time to go before rns_hconn_secure
  stbOf,    \* phone->stb
  phones,   \* stb->phones
  sinfo,    \* stb->sinfo: the command waiting for the box
  reg,      \* trs->stbs and trs->hconns: the connection registered for a box
  ctx,      \* stb->screenctx: the connection the hold timer will answer
  wake,     \* stb->timer: time to go before stb_screen_resp
  bind,     \* contexts of FOSS requests in flight
  stray     \* connections answered while they had no request outstanding

connVars == <<conn, gone, left>>
bindVars == <<stbOf, phones, bind>>
holdVars == <<sinfo, reg, ctx, wake>>
vars == <<connVars, bindVars, holdVars, stray>>

(****************************************************************************)
(* Life of a connection, as rns_http.c runs it for a client that waits for  *)
(* each answer: "busy" and "flush" have phase = 1 (before and after         *)
(* rns_hconn_resp2), "stuck" is a connection whose answer could not be      *)
(* written, left with phase = 1 and no task.                                *)
(****************************************************************************)
ConnState == {"free", "idle", "busy", "flush", "stuck"}

FossCtx == [op : {"bind", "unbind"}, phone : Phones, stb : Stbs \cup {None},
            conn : Conns \cup {None}, client : {"waiting", "expired"}]

TypeOK ==
  /\ conn \in [Conns -> ConnState]
  /\ gone \in SUBSET Conns
  /\ left \in [Conns -> -MaxLate .. Expire]
  /\ stbOf \in [Phones -> Stbs \cup {None}]
  /\ phones \in [Stbs -> SUBSET Phones]
  /\ sinfo \in [Stbs -> Infos \cup {None}]
  /\ reg \in [Stbs -> Conns \cup {None}]
  /\ ctx \in [Stbs -> Conns \cup {None}]
  /\ wake \in [Stbs -> (-MaxLate .. Hold) \cup {None}]
  /\ bind \in SUBSET FossCtx
  /\ stray \in SUBSET Conns

Init ==
  /\ conn = [c \in Conns |-> "free"]
  /\ gone = {}
  /\ left = [c \in Conns |-> 0]
  /\ stbOf \in [Phones -> Stbs \cup {None}]
  /\ phones = [s \in Stbs |-> {p \in Phones : stbOf[p] = s}]
  /\ sinfo = [s \in Stbs |-> None]
  /\ reg = [s \in Stbs |-> None]
  /\ ctx = [s \in Stbs |-> None]
  /\ wake = [s \in Stbs |-> None]
  /\ bind = {}
  /\ stray = {}

------------------------------------------------------------------------------
(* Helpers *)

\* A connection after rns_hconn_resp2: an outstanding request is answered.
Answered(cs, c) == [cs EXCEPT ![c] = IF @ = "busy" THEN "flush" ELSE @]

\* The connections an answer to c reaches without an outstanding request.
Missed(cs, c) == IF cs[c] = "busy" THEN {} ELSE {c}

\* Faulty variants of Arrive: the timer is extended instead of restarted, or
\* not restarted at all.
ArriveExtends(c) ==
  /\ conn[c] = "idle"
  /\ left' = [left EXCEPT ![c] = @ + Expire]
  /\ gone' = gone

ArriveKeepsTimer(c) ==
  /\ conn[c] = "idle"
  /\ UNCHANGED <<left, gone>>

\* The request a client sends on an idle connection re-arms its timer.
Arrive(c) ==
  /\ conn[c] = "idle"
  /\ left' = [left EXCEPT ![c] = Expire]
  /\ gone' = gone

\* Deleting the stb_conn_t found under c in trs->hconns, if there is one.
Unregistered(r, c) ==
  LET found == {s \in Stbs : r[s] = c}
  IN  IF found = {} THEN {r} ELSE {[r EXCEPT ![s] = None] : s \in found}

\* stb_screen with a command waiting for s: it is sent on c and the poll ends.
Deliver(s, c, r) ==
  /\ reg' \in Unregistered(r, c)
  /\ sinfo' = [sinfo EXCEPT ![s] = None]
  /\ ctx' = [ctx EXCEPT ![s] = None]
  /\ wake' = [wake EXCEPT ![s] = None]

\* rns_list_del_safe(&phone->list)
Unlinked(l, p) == [s \in Stbs |-> l[s] \ {p}]

\* The timer about to run is the first of the loop's tree, and it is due.
First(t) ==
  /\ t <= 0
  /\ \A c \in Conns : conn[c] # "free" => t <= left[c]
  /\ \A s \in Stbs : wake[s] # None => t <= wake[s]

------------------------------------------------------------------------------
(* The connections (rns_http.c) *)

Accept(c) ==
  /\ conn[c] = "free"
  /\ conn' = [conn EXCEPT ![c] = "idle"]
  /\ gone' = gone \ {c}
  /\ left' = [left EXCEPT ![c] = Expire]
  /\ UNCHANGED <<bindVars, holdVars, stray>>

\* rns_hconn_destroy with phase 0: descriptor, timer and memory are gone.
Freed(c) ==
  /\ conn' = [conn EXCEPT ![c] = "free"]
  /\ gone' = gone \ {c}
  /\ left' = [left EXCEPT ![c] = 0]

\* Faulty variant of Flush: rns_hconn_resp_close does not look at destroy.
FlushReuses(c) ==
  /\ conn[c] = "flush"
  /\ conn' = [conn EXCEPT ![c] = "idle"]
  /\ UNCHANGED <<gone, left, bindVars, holdVars, stray>>

\* The last byte of the answer is written: the connection serves the next
\* request, or is destroyed (Connection: close, or the peer left meanwhile).
Flush(c) ==
  /\ conn[c] = "flush"
  /\ \/ Freed(c)
     \/ c \notin gone /\ conn' = [conn EXCEPT ![c] = "idle"] /\ UNCHANGED <<gone, left>>
  /\ UNCHANGED <<bindVars, holdVars, stray>>

\* send() fails: the task that would end the request is dropped with it.
FlushFails(c) ==
  /\ conn[c] = "flush"
  /\ conn' = [conn EXCEPT ![c] = "stuck"]
  /\ UNCHANGED <<gone, left, bindVars, holdVars, stray>>

\* recv() returns 0 or fails: destroyed at once, or marked while phase is 1.
PeerLeaves(c) ==
  /\ conn[c] # "free"
  /\ \/ conn[c] = "idle" /\ Freed(c)
     \/ /\ conn[c] # "idle"
        /\ gone' = gone \cup {c}
        /\ UNCHANGED <<conn, left>>
  /\ UNCHANGED <<bindVars, holdVars, stray>>

\* Faulty variant of Secure: it respects the phase as rns_hconn_destroy does.
SecureIdleOnly(c) ==
  /\ conn[c] = "idle"
  /\ First(left[c])
  /\ Freed(c)
  /\ UNCHANGED <<bindVars, holdVars, stray>>

\* rns_hconn_secure: the connection's timer destroys it whatever its phase.
\* A FOSS request still out for it now holds a dangling pointer.
Secure(c) ==
  /\ conn[c] # "free"
  /\ First(left[c])
  /\ Freed(c)
  /\ bind' = {[r EXCEPT !.client = IF r.conn = c THEN "expired" ELSE @] : r \in bind}
  /\ UNCHANGED <<stbOf, phones, holdVars, stray>>

------------------------------------------------------------------------------
(* Requests of the clients (dispatch_cb) *)

\* A request answered in its handler that leaves this module's state alone:
\* an unknown uri or box, a malformed body, /stb/saveInfo, /stb/bindphonelist.
Refuse(c) ==
  /\ Arrive(c)
  /\ conn' = [conn EXCEPT ![c] = "flush"]
  /\ UNCHANGED <<bindVars, holdVars, stray>>

Registered(c, s) == IF reg[s] = None THEN [reg EXCEPT ![s] = c] ELSE reg

\* /stb/screen with no command waiting: the poll is held behind a timer.
PollHeld(c, s) ==
  /\ Arrive(c)
  /\ sinfo[s] = None /\ wake[s] = None
  /\ conn' = [conn EXCEPT ![c] = "busy"]
  /\ reg' = Registered(c, s)
  /\ ctx' = [ctx EXCEPT ![s] = c]
  /\ wake' = [wake EXCEPT ![s] = Hold]
  /\ UNCHANGED <<bindVars, sinfo, stray>>

\* /stb/screen while the box already has a poll held: stb_screen returns.
PollIgnored(c, s) ==
  /\ Arrive(c)
  /\ sinfo[s] = None /\ wake[s] # None
  /\ conn' = [conn EXCEPT ![c] = "busy"]
  /\ reg' = Registered(c, s)
  /\ UNCHANGED <<bindVars, sinfo, ctx, wake, stray>>

\* /stb/screen with a command waiting: answered with it.
PollDelivered(c, s) ==
  /\ Arrive(c)
  /\ sinfo[s] # None
  /\ conn' = [conn EXCEPT ![c] = "flush"]
  /\ Deliver(s, c, Registered(c, s))
  /\ UNCHANGED <<bindVars, stray>>

\* /phone/screen and /phone/control of an unbound phone: 404.
ScreenUnbound(c, p) ==
  /\ Arrive(c)
  /\ stbOf[p] = None
  /\ conn' = [conn EXCEPT ![c] = "flush"]
  /\ UNCHANGED <<bindVars, holdVars, stray>>

\* /phone/screen of a bound phone whose box has no poll registered: the
\* command replaces the one waiting.
ScreenStored(c, p, i) ==
  /\ Arrive(c)
  /\ stbOf[p] # None /\ reg[stbOf[p]] = None
  /\ conn' = [conn EXCEPT ![c] = "flush"]
  /\ sinfo' = [sinfo EXCEPT ![stbOf[p]] = i]
  /\ UNCHANGED <<bindVars, reg, ctx, wake, stray>>

\* /phone/screen of a bound phone whose box has a poll registered: the phone
\* is answered, then stb_screen hands the command to that connection.
ScreenPushed(c, p, i) ==
  /\ Arrive(c)
  /\ stbOf[p] # None /\ reg[stbOf[p]] # None
  /\ LET s == stbOf[p]
          d == reg[s]
          mid == [conn EXCEPT ![c] = "flush"]
      IN  /\ conn' = Answered(mid, d)
          /\ stray' = stray \cup Missed(mid, d)
          /\ Deliver(s, d, reg)
  /\ UNCHANGED bindVars

\* Faulty variants of HoldTimeout: the stb_conn_t stays registered, or the
\* timer is delayed again as a periodic one.
HoldTimeoutStaysRegistered(s) ==
  /\ wake[s] # None /\ First(wake[s])
  /\ ctx[s] # None
  /\ wake' = [wake EXCEPT ![s] = None]
  /\ conn' = Answered(conn, ctx[s])
  /\ stray' = stray \cup Missed(conn, ctx[s])
  /\ ctx' = [ctx EXCEPT ![s] = None]
  /\ UNCHANGED <<gone, left, bindVars, sinfo, reg>>

HoldTimeoutPeriodic(s) ==
  /\ wake[s] # None /\ First(wake[s])
  /\ wake' = [wake EXCEPT ![s] = Hold]
  /\ UNCHANGED <<connVars, bindVars, sinfo, reg, ctx, stray>>

\* stb_screen_resp: the hold timer answers the poll with nothing.
HoldTimeout(s) ==
  /\ wake[s] # None /\ First(wake[s])
  /\ ctx[s] # None
  /\ wake' = [wake EXCEPT ![s] = None]
  /\ reg' \in Unregistered(reg, ctx[s])
  /\ conn' = Answered(conn, ctx[s])
  /\ stray' = stray \cup Missed(conn, ctx[s])
  /\ ctx' = [ctx EXCEPT ![s] = None]
  /\ UNCHANGED <<gone, left, bindVars, sinfo>>

------------------------------------------------------------------------------
(* Binding phones to boxes through the FOSS *)

\* /phone/bindStb of a client, or pushed by the FOSS (c = None).
Asked(o, p, s, c) ==
  /\ Cardinality(bind) < MaxFlight
  /\ bind' = bind \cup {[op |-> o, phone |-> p, stb |-> s, conn |-> c, client |-> "waiting"]}

\* Faulty variant of BindReq: the client is answered before the FOSS is.
BindReqAnswersAtOnce(c, p, s) ==
  /\ Arrive(c)
  /\ conn' = [conn EXCEPT ![c] = "flush"]
  /\ Asked("bind", p, s, c)
  /\ UNCHANGED <<stbOf, phones, holdVars, stray>>

BindReq(c, p, s) ==
  /\ Arrive(c)
  /\ conn' = [conn EXCEPT ![c] = "busy"]
  /\ Asked("bind", p, s, c)
  /\ UNCHANGED <<stbOf, phones, holdVars, stray>>

\* /phone/unbindStb: refused at once when the phone has no box.
UnbindReq(c, p) ==
  /\ Arrive(c)
  /\ \/ /\ stbOf[p] = None
        /\ conn' = [conn EXCEPT ![c] = "flush"]
        /\ bind' = bind
     \/ /\ stbOf[p] # None
        /\ conn' = [conn EXCEPT ![c] = "busy"]
        /\ Asked("unbind", p, None, c)
  /\ UNCHANGED <<stbOf, phones, holdVars, stray>>

\* foss_dispatch_cb: the FOSS pushes a bind or an unbind on its own connection.
FossPush(p) ==
  /\ \/ \E s \in Stbs : Asked("bind", p, s, None)
     \/ stbOf[p] # None /\ Asked("unbind", p, None, None)
  /\ UNCHANGED <<connVars, stbOf, phones, holdVars, stray>>

\* Faulty variant of Relinked: a bind forgets the list of the former box.
RelinkedKeepsOldLink(r) ==
  /\ r.op = "bind"
  /\ phones' = [phones EXCEPT ![r.stb] = @ \cup {r.phone}]
  /\ stbOf' = [stbOf EXCEPT ![r.phone] = r.stb]

\* foss_bind_resp and foss_unbind_resp of a request that succeeded.
Relinked(r) ==
  IF r.op = "bind"
    THEN /\ phones' = LET l == IF stbOf[r.phone] # None
                               THEN Unlinked(phones, r.phone) ELSE phones
                      IN  [l EXCEPT ![r.stb] = @ \cup {r.phone}]
         /\ stbOf' = [stbOf EXCEPT ![r.phone] = r.stb]
    ELSE IF stbOf[r.phone] # None
           THEN /\ phones' = Unlinked(phones, r.phone)
                /\ stbOf' = [stbOf EXCEPT ![r.phone] = None]
           ELSE UNCHANGED <<phones, stbOf>>

\* Faulty variant of FossReply: the context outlives its callback.
FossReplyKeepsContext(r, code) ==
  /\ UNCHANGED bind
  /\ IF code = 200 THEN Relinked(r) ELSE UNCHANGED <<phones, stbOf>>
  /\ IF r.conn = None
        THEN UNCHANGED <<conn, stray>>
        ELSE /\ conn' = Answered(conn, r.conn)
             /\ stray' = stray \cup Missed(conn, r.conn)
  /\ UNCHANGED <<gone, left, holdVars>>

\* The answer of the FOSS: code 200 relinks the phone, any other code changes
\* nothing; a client's request (flag = 1) is then answered with 200 or 400.  With
\* no client waiting the 400 goes to the connection of the FOSS, which is none of
\* Conns: that it may break it is FossLost.
FossReply(r, code) ==
  /\ r.client = "expired" => LateFoss
  /\ bind' = bind \ {r}
  /\ IF code = 200 THEN Relinked(r) ELSE UNCHANGED <<phones, stbOf>>
  /\ IF r.conn = None
        THEN UNCHANGED <<conn, stray>>
        ELSE /\ conn' = Answered(conn, r.conn)
             /\ stray' = stray \cup Missed(conn, r.conn)
  /\ UNCHANGED <<gone, left, holdVars>>

\* The FOSS connection breaks: fcb.close and fcb.error are NULL.
FossLost(r) ==
  /\ bind' = bind \ {r}
  /\ UNCHANGED <<connVars, stbOf, phones, holdVars, stray>>

------------------------------------------------------------------------------
\* Time passes.  The loop may be late, by at most MaxLate ticks.
Tick ==
  /\ \A c \in Conns : conn[c] # "free" => left[c] > -MaxLate
  /\ \A s \in Stbs : wake[s] # None => wake[s] > -MaxLate
  /\ \/ \E c \in Conns : conn[c] # "free"
     \/ \E s \in Stbs : wake[s] # None
  /\ left' = [c \in Conns |-> IF conn[c] # "free" THEN left[c] - 1 ELSE left[c]]
  /\ wake' = [s \in Stbs |-> IF wake[s] # None THEN wake[s] - 1 ELSE None]
  /\ UNCHANGED <<conn, gone, bindVars, sinfo, reg, ctx, stray>>

Next ==
  \/ \E c \in Conns : Accept(c) \/ Flush(c) \/ FlushFails(c) \/ PeerLeaves(c)
                        \/ Secure(c) \/ Refuse(c)
  \/ \E c \in Conns, s \in Stbs : PollHeld(c, s) \/ PollIgnored(c, s) \/ PollDelivered(c, s)
  \/ \E c \in Conns, p \in Phones : ScreenUnbound(c, p) \/ UnbindReq(c, p)
  \/ \E c \in Conns, p \in Phones, i \in Infos : ScreenStored(c, p, i) \/ ScreenPushed(c, p, i)
  \/ \E c \in Conns, p \in Phones, s \in Stbs : BindReq(c, p, s)
  \/ \E p \in Phones : FossPush(p)
  \/ \E r \in bind : FossLost(r) \/ \E code \in {200, 400} : FossReply(r, code)
  \/ \E s \in Stbs : HoldTimeout(s)
  \/ Tick

Spec == Init /\ [][Next]_vars

\* Time passes and the loop runs the timers that are due.  Nothing is promised
\* of the clients, of the FOSS, or of the socket an answer is written to.
Fairness ==
  /\ WF_vars(Tick)
  /\ \A s \in Stbs : WF_vars(HoldTimeout(s))
  /\ \A c \in Conns : WF_vars(Secure(c))

FairSpec == Spec /\ Fairness

------------------------------------------------------------------------------
(* Properties *)

\* The three tables that describe a held poll agree: a connection is
\* registered for a box exactly while the hold timer of the box runs, the timer
\* will answer that same connection, and no command is left waiting meanwhile.
\* (dispatch_cb registers, stb_screen arms the timer and makes the context,
\* and four code paths take them down.)
HeldTables == \A s \in Stbs :
  /\ (reg[s] = None) <=> (wake[s] = None)
  /\ ctx[s] = reg[s]
  /\ reg[s] # None => sinfo[s] = None

\* The connection of a held poll is alive, has its request outstanding, serves
\* no other box, and its own expiry lies after the end of the hold: the server
\* never answers a poll on a connection that was freed under it, even when the
\* box hung up meanwhile.
HeldPinned == \A s \in Stbs : reg[s] # None =>
  /\ conn[reg[s]] = "busy"
  /\ wake[s] # None /\ wake[s] < left[reg[s]]
  /\ \A t \in Stbs \ {s} : reg[t] # reg[s]

\* A client that waits for the FOSS keeps its connection busy, is in no hold
\* table, and waits for one request: the context of the request is the only
\* owner of the connection (phone_bindStb, phone_unbindStb).
FossPinned == \A r \in bind : r.conn # None /\ r.client = "waiting" =>
  /\ conn[r.conn] = "busy"
  /\ \A s \in Stbs : reg[s] # r.conn
  /\ \A q \in bind : q.conn = r.conn /\ q.client = "waiting" => q = r

\* Every connection lives as rns_http.c promises: the screen service frees none
\* by itself, answers a connection once per request, and never brings back one
\* whose peer left.  HttpConn shows that rns_http.c keeps the same promise.
ConnAt(c) == INSTANCE ConnLife WITH
  life <- conn[c],
  gone <- IF c \in gone THEN 1 ELSE 0,
  due  <- IF conn[c] # "free" /\ left[c] <= 0 THEN 1 ELSE 0

LivesAsPromised ==
  /\ \A c \in Conns : ConnAt(c)!Init
  /\ [][\A c \in Conns : [ConnAt(c)!Next]_(ConnAt(c)!vars)]_vars

\* No answer goes to a connection without an outstanding request: none is
\* answered twice, none after it was freed or reused (rns_hconn_resp2 calls of
\* the handlers, of stb_screen_resp and of the foss_*_resp callbacks).
OneAnswer == stray = {}

\* phone->stb and the lists stb->phones describe the same binding, whatever
\* order the FOSS answers overlapping bind and unbind requests in.
BoundOnce == \A p \in Phones, s \in Stbs : p \in phones[s] <=> stbOf[p] = s

\* The hold of a poll ends: by a command or by its timer.
HoldEnds == \A s \in Stbs : reg[s] # None ~> reg[s] = None

\* A connection whose peer left while its request was outstanding is freed
\* in the end, although rns_hconn_destroy put that off.
GoneFreed == \A c \in Conns : c \in gone ~> conn[c] = "free"

\* Held polls are safe: their tables agree, and their connections live and
\* belong to them alone.
HeldSafe == TypeOK /\ HeldTables /\ HeldPinned

\* Answers are safe: who waits for the FOSS owns its connection, and no answer
\* goes where none is outstanding.
AnswerSafe == FossPinned /\ OneAnswer

\* What a box or a peer began ends: holds, and connections that were left.
Ends == HoldEnds /\ GoneFreed
==============================================================================
