--------------------------- MODULE TrsScreenProofs ---------------------------
(* Proofs about TrsScreen, for every set of boxes, phones and connections.  *)
EXTENDS TrsScreen, TLAPS

USE DEF connVars, bindVars, holdVars, vars, ConnState

\* A record of FossCtx stays one when its client may expire.
LEMMA LateCtx ==
  ASSUME NEW r \in FossCtx, NEW c
  PROVE  [r EXCEPT !.client = IF r.conn = c THEN "expired" ELSE @] \in FossCtx
BY DEF FossCtx

\* Whichever stb_conn_t is found, the registration table keeps its type.
LEMMA UnregisteredType ==
  ASSUME NEW r \in [Stbs -> Conns \cup {None}], NEW c,
         NEW q \in Unregistered(r, c)
  PROVE  q \in [Stbs -> Conns \cup {None}]
BY DEF Unregistered

\* Linking a phone into a list keeps the type of the lists.
LEMMA LinkedType ==
  ASSUME NEW l \in [Stbs -> SUBSET Phones], NEW p \in Phones, NEW s
  PROVE  [l EXCEPT ![s] = @ \cup {p}] \in [Stbs -> SUBSET Phones]
<1>1. \A x \in Stbs : l[x] \cup {p} \in SUBSET Phones
  OBVIOUS
<1> QED BY <1>1

\* Type correctness: the state of the service keeps its shape, whatever the
\* clients, the FOSS and the timers do.
THEOREM TypeCorrect == Spec => []TypeOK
<1>1. Init => TypeOK
  BY TimeAssumption DEF Init, TypeOK
<1>2. TypeOK /\ [Next]_vars => TypeOK'
  <2> SUFFICES ASSUME TypeOK, [Next]_vars PROVE TypeOK'
    OBVIOUS
  <2> USE TimeAssumption DEF TypeOK
  <2>1. ASSUME NEW c \in Conns, Accept(c) PROVE TypeOK'
    BY <2>1 DEF Accept
  <2>2. ASSUME NEW c \in Conns, Flush(c) PROVE TypeOK'
    BY <2>2 DEF Flush, Freed
  <2>3. ASSUME NEW c \in Conns, FlushFails(c) PROVE TypeOK'
    BY <2>3 DEF FlushFails
  <2>4. ASSUME NEW c \in Conns, PeerLeaves(c) PROVE TypeOK'
    BY <2>4 DEF PeerLeaves, Freed
  <2>5. ASSUME NEW c \in Conns, Secure(c) PROVE TypeOK'
    <3>1. bind' \in SUBSET FossCtx
      <4>1. \A r \in bind : [r EXCEPT !.client = IF r.conn = c THEN "expired" ELSE @]
                               \in FossCtx
        BY LateCtx
      <4> QED BY <2>5, <4>1 DEF Secure
    <3> QED BY <2>5, <3>1 DEF Secure, Freed
  <2>6. ASSUME NEW c \in Conns, Refuse(c) PROVE TypeOK'
    BY <2>6 DEF Refuse, Arrive
  <2>7. ASSUME NEW c \in Conns, NEW s \in Stbs, PollHeld(c, s) PROVE TypeOK'
    BY <2>7 DEF PollHeld, Arrive, Registered
  <2>8. ASSUME NEW c \in Conns, NEW s \in Stbs, PollIgnored(c, s) PROVE TypeOK'
    BY <2>8 DEF PollIgnored, Arrive, Registered
  <2>9. ASSUME NEW c \in Conns, NEW s \in Stbs, PollDelivered(c, s) PROVE TypeOK'
    <3>1. Registered(c, s) \in [Stbs -> Conns \cup {None}]
      BY DEF Registered
    <3>2. reg' \in [Stbs -> Conns \cup {None}]
      BY <2>9, <3>1, UnregisteredType DEF PollDelivered, Deliver
    <3>3. /\ sinfo' \in [Stbs -> Infos \cup {None}]
          /\ ctx' \in [Stbs -> Conns \cup {None}]
          /\ wake' \in [Stbs -> (-MaxLate .. Hold) \cup {None}]
      BY <2>9 DEF PollDelivered, Deliver
    <3>4. conn' \in [Conns -> ConnState] /\ left' \in [Conns -> -MaxLate .. Expire] /\ gone' = gone
      BY <2>9 DEF PollDelivered, Arrive
    <3> QED BY <2>9, <3>2, <3>3, <3>4 DEF PollDelivered
  <2>10. ASSUME NEW c \in Conns, NEW p \in Phones, ScreenUnbound(c, p) PROVE TypeOK'
    BY <2>10 DEF ScreenUnbound, Arrive
  <2>11. ASSUME NEW c \in Conns, NEW p \in Phones, UnbindReq(c, p) PROVE TypeOK'
    BY <2>11 DEF UnbindReq, Arrive, Asked, FossCtx
  <2>12. ASSUME NEW c \in Conns, NEW p \in Phones, NEW i \in Infos, ScreenStored(c, p, i)
         PROVE TypeOK'
    BY <2>12 DEF ScreenStored, Arrive
  <2>13. ASSUME NEW c \in Conns, NEW p \in Phones, NEW i \in Infos, ScreenPushed(c, p, i)
         PROVE TypeOK'
    <3>1. reg' \in [Stbs -> Conns \cup {None}]
      BY <2>13, UnregisteredType DEF ScreenPushed, Deliver
    <3>2. stbOf[p] \in Stbs /\ reg[stbOf[p]] \in Conns
      BY <2>13 DEF ScreenPushed
    <3>3. conn' \in [Conns -> ConnState] /\ stray' \in SUBSET Conns
      BY <2>13, <3>2 DEF ScreenPushed, Answered, Missed
    <3>4. /\ sinfo' \in [Stbs -> Infos \cup {None}]
          /\ ctx' \in [Stbs -> Conns \cup {None}]
          /\ wake' \in [Stbs -> (-MaxLate .. Hold) \cup {None}]
      BY <2>13 DEF ScreenPushed, Deliver
    <3>5. left' \in [Conns -> -MaxLate .. Expire] /\ gone' = gone
      BY <2>13 DEF ScreenPushed, Arrive
    <3> QED BY <2>13, <3>1, <3>3, <3>4, <3>5 DEF ScreenPushed
  <2>14. ASSUME NEW c \in Conns, NEW p \in Phones, NEW s \in Stbs, BindReq(c, p, s)
         PROVE TypeOK'
    BY <2>14 DEF BindReq, Arrive, Asked, FossCtx
  <2>15. ASSUME NEW p \in Phones, FossPush(p) PROVE TypeOK'
    BY <2>15 DEF FossPush, Asked, FossCtx
  <2>16. ASSUME NEW r \in bind, FossLost(r) PROVE TypeOK'
    BY <2>16 DEF FossLost
  <2>17. ASSUME NEW r \in bind, NEW code \in {200, 400}, FossReply(r, code) PROVE TypeOK'
    <3>1. r.phone \in Phones /\ r.stb \in Stbs \cup {None} /\ r.conn \in Conns \cup {None}
      BY DEF FossCtx
    <3>2. phones' \in [Stbs -> SUBSET Phones]
      <4>1. Unlinked(phones, r.phone) \in [Stbs -> SUBSET Phones]
        BY DEF Unlinked
      <4> QED BY <2>17, <3>1, <4>1, LinkedType DEF FossReply, Relinked
    <3>3. stbOf' \in [Phones -> Stbs \cup {None}]
      BY <2>17, <3>1 DEF FossReply, Relinked
    <3>4. conn' \in [Conns -> ConnState] /\ stray' \in SUBSET Conns
      BY <2>17, <3>1 DEF FossReply, Answered, Missed
    <3> QED BY <2>17, <3>2, <3>3, <3>4 DEF FossReply
  <2>18. ASSUME NEW s \in Stbs, HoldTimeout(s) PROVE TypeOK'
    <3>1. reg' \in [Stbs -> Conns \cup {None}]
      BY <2>18, UnregisteredType DEF HoldTimeout
    <3> QED BY <2>18, <3>1 DEF HoldTimeout, Answered, Missed
  <2>19. CASE Tick
    BY <2>19 DEF Tick
  <2>20. CASE UNCHANGED vars
    BY <2>20
  <2> QED
    BY <2>1, <2>2, <2>3, <2>4, <2>5, <2>6, <2>7, <2>8, <2>9, <2>10, <2>11, <2>12,
       <2>13, <2>14, <2>15, <2>16, <2>17, <2>18, <2>19, <2>20 DEF Next
<1> QED
  BY <1>1, <1>2, PTL DEF Spec

------------------------------------------------------------------------------
(* The hold of a poll. *)

\* The inductive invariant of the hold: neither of its parts is inductive
\* alone, since the tables say which connection a timer answers, the pinning
\* that it is still there, and FossPinned that no FOSS answer ends the poll.
HoldIInv == HeldTables /\ HeldPinned /\ FossPinned /\ OneAnswer

\* A connection registered once is found and unregistered.
LEMMA UnregisteredOne ==
  ASSUME NEW r \in [Stbs -> Conns \cup {None}], NEW s \in Stbs, NEW c,
         r[s] = c, \A t \in Stbs \ {s} : r[t] # c,
         NEW q \in Unregistered(r, c)
  PROVE  q = [r EXCEPT ![s] = None]
<1>1. {t \in Stbs : r[t] = c} = {s}
  OBVIOUS
<1> QED BY <1>1 DEF Unregistered

\* A connection that is not busy is in no table.
LEMMA IdleFree ==
  ASSUME TypeOK, HoldIInv, NEW c \in Conns, conn[c] # "busy"
  PROVE  /\ \A s \in Stbs : reg[s] # c
         /\ \A r \in bind : r.conn = c => r.client # "waiting"
BY NoneAssumption DEF HoldIInv, HeldPinned, FossPinned, TypeOK

\* Steps that only move connections that are not busy, and keep the timers.
LEMMA ConnStep ==
  ASSUME TypeOK, HoldIInv, NEW c \in Conns, conn[c] # "busy",
         conn' \in [Conns -> ConnState], left' \in [Conns -> Int],
         \A d \in Conns \ {c} : conn'[d] = conn[d] /\ left'[d] = left[d],
         UNCHANGED <<bind, holdVars, stray>>
  PROVE  HoldIInv'
<1>1. HeldTables' /\ OneAnswer'
  BY DEF HoldIInv, HeldTables, OneAnswer
<1>2. HeldPinned'
  BY IdleFree, NoneAssumption DEF HoldIInv, HeldPinned, TypeOK
<1>3. FossPinned'
  <2>1. \A r \in bind : r.conn \in Conns \cup {None}
    BY DEF TypeOK, FossCtx
  <2> QED BY <2>1, IdleFree, NoneAssumption DEF HoldIInv, FossPinned, TypeOK
<1> QED BY <1>1, <1>2, <1>3 DEF HoldIInv

\* The timer of the connection of a held poll is never the first of the tree.
LEMMA SecureSkipsHeld ==
  ASSUME TypeOK, HoldIInv, NEW c \in Conns, Secure(c)
  PROVE  \A s \in Stbs : reg[s] # c
<1> SUFFICES ASSUME NEW s \in Stbs, reg[s] = c PROVE FALSE
  OBVIOUS
<1>1. wake[s] # None /\ wake[s] < left[c] /\ left[c] <= wake[s]
  BY NoneAssumption DEF HoldIInv, HeldPinned, Secure, First, TypeOK
<1> QED BY <1>1, NoneAssumption DEF TypeOK

\* Every step keeps the invariant, as long as the FOSS answers in time.
LEMMA HoldStep ==
  ASSUME ~LateFoss, TypeOK, TypeOK', HoldIInv, [Next]_vars
  PROVE  HoldIInv'
<1> USE NoneAssumption, TimeAssumption
<1>0. \A r \in bind : r.conn \in Conns \cup {None} /\ r.client \in {"waiting", "expired"}
  BY DEF TypeOK, FossCtx
<1>1. ASSUME NEW c \in Conns, Accept(c) PROVE HoldIInv'
  BY <1>1, ConnStep DEF Accept, TypeOK
<1>2. ASSUME NEW c \in Conns, Flush(c) PROVE HoldIInv'
  BY <1>2, ConnStep DEF Flush, Freed, TypeOK
<1>3. ASSUME NEW c \in Conns, FlushFails(c) PROVE HoldIInv'
  BY <1>3, ConnStep DEF FlushFails, TypeOK
<1>4. ASSUME NEW c \in Conns, PeerLeaves(c) PROVE HoldIInv'
  <2>1. CASE conn[c] = "idle"
    BY <1>4, <2>1, ConnStep DEF PeerLeaves, Freed, TypeOK
  <2>2. CASE conn[c] # "idle"
    <3>1. UNCHANGED <<conn, left, bindVars, holdVars, stray>>
      BY <1>4, <2>2 DEF PeerLeaves
    <3> QED
      BY <3>1 DEF HoldIInv, HeldTables, HeldPinned, FossPinned, OneAnswer
  <2> QED BY <2>1, <2>2
<1>5. ASSUME NEW c \in Conns, Secure(c) PROVE HoldIInv'
  <2>1. \A s \in Stbs : reg[s] # c
    BY <1>5, SecureSkipsHeld
  <2>2. HeldTables' /\ OneAnswer'
    BY <1>5 DEF Secure, HoldIInv, HeldTables, OneAnswer
  <2>3. HeldPinned'
    BY <1>5, <2>1 DEF Secure, Freed, HoldIInv, HeldPinned, TypeOK
  <2>4. FossPinned'
    <3> DEFINE Aged(r) == [r EXCEPT !.client = IF r.conn = c THEN "expired" ELSE @]
    <3>1. bind' = {Aged(r) : r \in bind}
      BY <1>5 DEF Secure
    <3>2. ASSUME NEW r \in bind, Aged(r).conn # None, Aged(r).client = "waiting"
          PROVE  r.conn # c /\ Aged(r) = r
      BY <3>2, <1>0 DEF FossCtx, TypeOK
    <3>3. \A r \in bind' : r.conn # None /\ r.client = "waiting" => r \in bind /\ r.conn # c
      BY <3>1, <3>2
    <3>4. \A d \in Conns \ {c} : conn'[d] = conn[d]
      BY <1>5 DEF Secure, Freed, TypeOK
    <3>5. reg' = reg
      BY <1>5 DEF Secure
    <3> QED BY <3>3, <3>4, <3>5, <1>0 DEF HoldIInv, FossPinned
  <2> QED BY <2>2, <2>3, <2>4 DEF HoldIInv
<1>6. ASSUME NEW c \in Conns, Refuse(c) PROVE HoldIInv'
  BY <1>6, ConnStep DEF Refuse, Arrive, TypeOK
<1>7. ASSUME NEW c \in Conns, NEW s \in Stbs, PollHeld(c, s) PROVE HoldIInv'
  <2>1. /\ \A t \in Stbs : reg[t] # c
        /\ \A r \in bind : r.conn = c => r.client # "waiting"
    BY <1>7, IdleFree DEF PollHeld, Arrive
  <2>2. /\ reg[s] = None /\ sinfo[s] = None
        /\ reg' = [reg EXCEPT ![s] = c] /\ ctx' = [ctx EXCEPT ![s] = c]
        /\ wake' = [wake EXCEPT ![s] = Hold] /\ left' = [left EXCEPT ![c] = Expire]
        /\ conn' = [conn EXCEPT ![c] = "busy"]
        /\ UNCHANGED <<bind, sinfo, stray>>
    BY <1>7 DEF PollHeld, Arrive, Registered, HoldIInv, HeldTables
  <2>3. HeldTables' /\ OneAnswer'
    BY <2>2 DEF HoldIInv, HeldTables, OneAnswer, TypeOK
  <2>4. HeldPinned'
    BY <2>1, <2>2 DEF HoldIInv, HeldPinned, TypeOK
  <2>5. FossPinned'
    BY <2>1, <2>2, <1>0 DEF HoldIInv, FossPinned, TypeOK
  <2> QED BY <2>3, <2>4, <2>5 DEF HoldIInv
<1>8. ASSUME NEW c \in Conns, NEW s \in Stbs, PollIgnored(c, s) PROVE HoldIInv'
  <2>1. reg' = reg /\ UNCHANGED holdVars
    BY <1>8 DEF PollIgnored, Registered, HoldIInv, HeldTables
  <2> QED BY <1>8, <2>1, ConnStep DEF PollIgnored, Arrive, TypeOK
<1>9. ASSUME NEW c \in Conns, NEW s \in Stbs, PollDelivered(c, s) PROVE HoldIInv'
  <2>1. \A t \in Stbs : reg[t] # c
    BY <1>9, IdleFree DEF PollDelivered, Arrive
  <2>2. reg[s] = None /\ wake[s] = None /\ ctx[s] = None
    BY <1>9 DEF PollDelivered, HoldIInv, HeldTables, TypeOK
  <2>3. Registered(c, s) = [reg EXCEPT ![s] = c]
    BY <2>2 DEF Registered
  <2>4. reg' = reg
    <3> DEFINE m == [reg EXCEPT ![s] = c]
    <3>1. m \in [Stbs -> Conns \cup {None}] /\ m[s] = c /\ \A t \in Stbs \ {s} : m[t] # c
      BY <2>1 DEF TypeOK
    <3>2. reg' \in Unregistered(m, c)
      BY <1>9, <2>3 DEF PollDelivered, Deliver
    <3>3. [m EXCEPT ![s] = None] = reg
      BY <2>2 DEF TypeOK
    <3> HIDE DEF m
    <3> QED BY <3>1, <3>2, <3>3, UnregisteredOne
  <2>5. ctx' = ctx /\ wake' = wake
    BY <1>9, <2>2 DEF PollDelivered, Deliver, TypeOK
  <2>6. /\ sinfo' = [sinfo EXCEPT ![s] = None]
        /\ conn' = [conn EXCEPT ![c] = "flush"] /\ left' = [left EXCEPT ![c] = Expire]
        /\ UNCHANGED <<bind, stray>>
    BY <1>9 DEF PollDelivered, Deliver, Arrive
  <2>7. HeldTables' /\ OneAnswer'
    BY <2>2, <2>4, <2>5, <2>6 DEF HoldIInv, HeldTables, OneAnswer, TypeOK
  <2>8. HeldPinned'
    BY <2>1, <2>4, <2>5, <2>6 DEF HoldIInv, HeldPinned, TypeOK
  <2>9. FossPinned'
    BY <1>9, <2>4, <2>6, <1>0 DEF PollDelivered, Arrive, HoldIInv, FossPinned, TypeOK
  <2> QED BY <2>7, <2>8, <2>9 DEF HoldIInv
<1>10. ASSUME NEW c \in Conns, NEW p \in Phones, ScreenUnbound(c, p) PROVE HoldIInv'
  BY <1>10, ConnStep DEF ScreenUnbound, Arrive, TypeOK
<1>11. ASSUME NEW c \in Conns, NEW p \in Phones, NEW o, NEW x, conn[c] = "idle", Arrive(c),
              conn' = [conn EXCEPT ![c] = "busy"], Asked(o, p, x, c),
              UNCHANGED <<holdVars, stray>>
       PROVE  HoldIInv'
  <2> DEFINE new == [op |-> o, phone |-> p, stb |-> x, conn |-> c, client |-> "waiting"]
  <2>1. /\ \A t \in Stbs : reg[t] # c
        /\ \A r \in bind : r.conn = c => r.client # "waiting"
    BY <1>11, IdleFree
  <2>2. bind' = bind \cup {new}
    BY <1>11 DEF Asked
  <2>3. HeldTables' /\ OneAnswer'
    BY <1>11 DEF HoldIInv, HeldTables, OneAnswer
  <2>4. HeldPinned'
    BY <1>11, <2>1 DEF Arrive, HoldIInv, HeldPinned, TypeOK
  <2>5. FossPinned'
    <3>1. \A d \in Conns : conn[d] = "busy" => conn'[d] = "busy"
      BY <1>11 DEF TypeOK
    <3>2. conn'[c] = "busy" /\ reg' = reg
      BY <1>11 DEF TypeOK
    <3>3. new.conn = c /\ new.client = "waiting"
      OBVIOUS
    <3> HIDE DEF new
    <3> QED BY <2>1, <2>2, <3>1, <3>2, <3>3, <1>0 DEF HoldIInv, FossPinned
  <2> QED BY <2>3, <2>4, <2>5 DEF HoldIInv
<1>12. ASSUME NEW c \in Conns, NEW p \in Phones, UnbindReq(c, p) PROVE HoldIInv'
  <2>1. CASE stbOf[p] = None
    BY <1>12, <2>1, ConnStep DEF UnbindReq, Arrive, TypeOK
  <2>2. CASE stbOf[p] # None
    BY <1>12, <2>2, <1>11 DEF UnbindReq, Arrive
  <2> QED BY <2>1, <2>2
<1>13. ASSUME NEW c \in Conns, NEW p \in Phones, NEW i \in Infos, ScreenStored(c, p, i)
       PROVE  HoldIInv'
  <2>1. /\ \A t \in Stbs : reg[t] # c
        /\ \A r \in bind : r.conn = c => r.client # "waiting"
    BY <1>13, IdleFree DEF ScreenStored, Arrive
  <2>2. HeldTables' /\ OneAnswer'
    BY <1>13 DEF ScreenStored, HoldIInv, HeldTables, OneAnswer, TypeOK
  <2>3. HeldPinned'
    BY <1>13, <2>1 DEF ScreenStored, Arrive, HoldIInv, HeldPinned, TypeOK
  <2>4. FossPinned'
    BY <1>13, <2>1, <1>0 DEF ScreenStored, Arrive, HoldIInv, FossPinned, TypeOK
  <2> QED BY <2>2, <2>3, <2>4 DEF HoldIInv
<1>14. ASSUME NEW c \in Conns, NEW p \in Phones, NEW i \in Infos, ScreenPushed(c, p, i)
       PROVE  HoldIInv'
  <2> DEFINE s == stbOf[p]
             d == reg[s]
  <2>1. /\ \A t \in Stbs : reg[t] # c
        /\ \A r \in bind : r.conn = c => r.client # "waiting"
    BY <1>14, IdleFree DEF ScreenPushed, Arrive
  <2>2. s \in Stbs /\ d \in Conns /\ d # c /\ conn[d] = "busy" /\ \A t \in Stbs \ {s} : reg[t] # d
    BY <1>14, <2>1 DEF ScreenPushed, HoldIInv, HeldPinned, TypeOK
  <2>3. reg' = [reg EXCEPT ![s] = None]
    BY <1>14, <2>2, UnregisteredOne DEF ScreenPushed, Deliver, TypeOK
  <2>4. /\ sinfo' = [sinfo EXCEPT ![s] = None] /\ ctx' = [ctx EXCEPT ![s] = None]
        /\ wake' = [wake EXCEPT ![s] = None] /\ left' = [left EXCEPT ![c] = Expire]
        /\ bind' = bind
    BY <1>14 DEF ScreenPushed, Deliver, Arrive
  <2>5. conn' = [[conn EXCEPT ![c] = "flush"] EXCEPT ![d] = "flush"] /\ stray' = stray
    BY <1>14, <2>2 DEF ScreenPushed, Answered, Missed, TypeOK
  <2>6. HeldTables' /\ OneAnswer'
    BY <2>2, <2>3, <2>4, <2>5 DEF HoldIInv, HeldTables, OneAnswer, TypeOK
  <2>7. HeldPinned'
    BY <2>1, <2>2, <2>3, <2>4, <2>5 DEF HoldIInv, HeldPinned, TypeOK
  <2>8. FossPinned'
    BY <2>1, <2>2, <2>3, <2>4, <2>5, <1>0 DEF HoldIInv, FossPinned, TypeOK
  <2> QED BY <2>6, <2>7, <2>8 DEF HoldIInv
<1>15. ASSUME NEW c \in Conns, NEW p \in Phones, NEW s \in Stbs, BindReq(c, p, s)
       PROVE  HoldIInv'
  BY <1>15, <1>11 DEF BindReq, Arrive
<1>16. ASSUME NEW p \in Phones, FossPush(p) PROVE HoldIInv'
  <2>1. UNCHANGED <<connVars, holdVars, stray>>
    BY <1>16 DEF FossPush
  <2>2. \A r \in bind' : r.conn # None => r \in bind
    BY <1>16 DEF FossPush, Asked
  <2>3. HeldTables' /\ HeldPinned' /\ OneAnswer'
    BY <2>1 DEF HoldIInv, HeldTables, HeldPinned, OneAnswer
  <2>4. FossPinned'
    BY <2>1, <2>2, <1>0 DEF HoldIInv, FossPinned
  <2> QED BY <2>3, <2>4 DEF HoldIInv
<1>17. ASSUME NEW r \in bind, FossLost(r) PROVE HoldIInv'
  BY <1>17 DEF FossLost, HoldIInv, HeldTables, HeldPinned, FossPinned, OneAnswer
<1>18. ASSUME NEW r \in bind, NEW code \in {200, 400}, FossReply(r, code) PROVE HoldIInv'
  <2>1. bind' \subseteq bind /\ r \notin bind' /\ UNCHANGED <<gone, left, holdVars>>
    BY <1>18 DEF FossReply
  <2>2. CASE r.conn = None
    <3>1. UNCHANGED <<conn, stray>>
      BY <1>18, <2>2 DEF FossReply
    <3> QED BY <2>1, <3>1 DEF HoldIInv, HeldTables, HeldPinned, FossPinned, OneAnswer
  <2>3. CASE r.conn # None
    <3>1. r.client = "waiting"
      BY <1>18, <1>0 DEF FossReply
    <3>2. /\ conn[r.conn] = "busy" /\ r.conn \in Conns
          /\ \A s \in Stbs : reg[s] # r.conn
          /\ \A q \in bind' : q.conn = r.conn => q.client # "waiting"
      BY <2>1, <2>3, <3>1, <1>0 DEF HoldIInv, FossPinned
    <3>3. conn' = [conn EXCEPT ![r.conn] = "flush"] /\ stray' = stray
      BY <1>18, <2>3, <3>2 DEF FossReply, Answered, Missed, TypeOK
    <3>4. HeldTables' /\ OneAnswer'
      BY <2>1, <3>3 DEF HoldIInv, HeldTables, OneAnswer
    <3>5. HeldPinned'
      BY <2>1, <3>2, <3>3 DEF HoldIInv, HeldPinned, TypeOK
    <3>6. FossPinned'
      <4>1. \A q \in bind' : q.conn # None /\ q.client = "waiting" =>
               q \in bind /\ q.conn \in Conns /\ q.conn # r.conn
        BY <2>1, <3>2, <1>0
      <4>2. \A x \in Conns : x # r.conn => conn'[x] = conn[x]
        BY <3>3 DEF TypeOK
      <4>3. reg' = reg
        BY <2>1
      <4> QED BY <2>1, <4>1, <4>2, <4>3 DEF HoldIInv, FossPinned
    <3> QED BY <3>4, <3>5, <3>6 DEF HoldIInv
  <2> QED BY <2>2, <2>3
<1>19. ASSUME NEW s \in Stbs, HoldTimeout(s) PROVE HoldIInv'
  <2> DEFINE c == ctx[s]
  <2>1. c = reg[s] /\ c \in Conns /\ conn[c] = "busy" /\ \A t \in Stbs \ {s} : reg[t] # c
    BY <1>19 DEF HoldTimeout, HoldIInv, HeldTables, HeldPinned, TypeOK
  <2>2. reg' = [reg EXCEPT ![s] = None]
    BY <1>19, <2>1, UnregisteredOne DEF HoldTimeout, TypeOK
  <2>3. /\ wake' = [wake EXCEPT ![s] = None] /\ ctx' = [ctx EXCEPT ![s] = None]
        /\ UNCHANGED <<left, bind, sinfo>>
    BY <1>19 DEF HoldTimeout
  <2>4. conn' = [conn EXCEPT ![c] = "flush"] /\ stray' = stray
    BY <1>19, <2>1 DEF HoldTimeout, Answered, Missed, TypeOK
  <2>5. \A r \in bind : r.conn = c => r.client # "waiting"
    BY <2>1, <1>0 DEF HoldIInv, FossPinned
  <2>6. HeldTables' /\ OneAnswer'
    BY <2>2, <2>3, <2>4 DEF HoldIInv, HeldTables, OneAnswer, TypeOK
  <2>7. HeldPinned'
    BY <2>1, <2>2, <2>3, <2>4 DEF HoldIInv, HeldPinned, TypeOK
  <2>8. FossPinned'
    BY <2>1, <2>2, <2>3, <2>4, <2>5, <1>0 DEF HoldIInv, FossPinned, TypeOK
  <2> QED BY <2>6, <2>7, <2>8 DEF HoldIInv
<1>20. CASE Tick
  <2>1. UNCHANGED <<conn, bind, sinfo, reg, ctx, stray>>
    BY <1>20 DEF Tick
  <2>2. ASSUME NEW s \in Stbs
        PROVE  /\ wake[s] = None => wake'[s] = None
               /\ wake[s] # None => wake'[s] # None /\ wake'[s] = wake[s] - 1
    <3>1. wake[s] # None => wake[s] \in Int /\ wake[s] - 1 \in Int
      BY DEF TypeOK
    <3>2. wake'[s] = IF wake[s] # None THEN wake[s] - 1 ELSE None
      BY <1>20 DEF Tick
    <3> QED BY <3>1, <3>2
  <2>3. \A c \in Conns : conn[c] = "busy" => left'[c] = left[c] - 1
    BY <1>20 DEF Tick, TypeOK
  <2>4. HeldTables'
    <3> SUFFICES ASSUME NEW s \in Stbs
                 PROVE  /\ (reg[s] = None) <=> (wake'[s] = None)
                        /\ ctx[s] = reg[s]
                        /\ reg[s] # None => sinfo[s] = None
      BY <2>1 DEF HeldTables
    <3>1. (reg[s] = None) <=> (wake[s] = None)
      BY DEF HoldIInv, HeldTables
    <3>2. ctx[s] = reg[s] /\ (reg[s] # None => sinfo[s] = None)
      BY DEF HoldIInv, HeldTables
    <3> QED BY <2>2, <3>1, <3>2
  <2>5. HeldPinned'
    <3> SUFFICES ASSUME NEW s \in Stbs, reg[s] # None
                 PROVE  /\ conn[reg[s]] = "busy"
                        /\ wake'[s] # None /\ wake'[s] < left'[reg[s]]
                        /\ \A t \in Stbs \ {s} : reg[t] # reg[s]
      BY <2>1 DEF HeldPinned
    <3>1. reg[s] \in Conns /\ conn[reg[s]] = "busy" /\ wake[s] # None
          /\ wake[s] < left[reg[s]] /\ wake[s] \in Int /\ left[reg[s]] \in Int
      BY DEF HoldIInv, HeldPinned, TypeOK
    <3> QED BY <3>1, <2>2, <2>3 DEF HoldIInv, HeldPinned
  <2>6. FossPinned' /\ OneAnswer'
    BY <2>1 DEF HoldIInv, FossPinned, OneAnswer
  <2> QED BY <2>4, <2>5, <2>6 DEF HoldIInv
<1>21. CASE UNCHANGED vars
  BY <1>21 DEF HoldIInv, HeldTables, HeldPinned, FossPinned, OneAnswer
<1> QED
  BY <1>1, <1>2, <1>3, <1>4, <1>5, <1>6, <1>7, <1>8, <1>9, <1>10, <1>12, <1>13,
     <1>14, <1>15, <1>16, <1>17, <1>18, <1>19, <1>20, <1>21 DEF Next

\* A held poll is safe: when every FOSS answer arrives before the connection of
\* its client expires, the hold tables agree, the connection of a held poll is
\* alive and outlives its hold, and no connection is answered twice or after it
\* was freed - for any number of boxes, phones and connections and any
\* lateness of the timers.
THEOREM HoldSafe ==
  ASSUME ~LateFoss
  PROVE  Spec => [](HeldTables /\ HeldPinned /\ FossPinned /\ OneAnswer)
<1>1. Init => HoldIInv
  BY NoneAssumption DEF Init, HoldIInv, HeldTables, HeldPinned, FossPinned, OneAnswer
<1>2. TypeOK /\ TypeOK' /\ HoldIInv /\ [Next]_vars => HoldIInv'
  BY HoldStep
<1>3. HoldIInv => HeldTables /\ HeldPinned /\ FossPinned /\ OneAnswer
  BY DEF HoldIInv
<1> QED
  BY <1>1, <1>2, <1>3, TypeCorrect, PTL DEF Spec

\* With a FOSS that answers in time the tables of held polls agree, and the
\* connection of a held poll lives and is that poll's alone.
THEOREM HeldTheorem ==
  ASSUME ~LateFoss
  PROVE  Spec => []HeldSafe
<1>1. TypeOK /\ HeldTables /\ HeldPinned => HeldSafe
  BY DEF HeldSafe
<1>2. Spec => [](HeldTables /\ HeldPinned /\ FossPinned /\ OneAnswer)
  BY HoldSafe
<1> QED BY <1>1, <1>2, TypeCorrect, PTL

\* ... and every answer goes to an outstanding request.
THEOREM AnswerTheorem ==
  ASSUME ~LateFoss
  PROVE  Spec => []AnswerSafe
<1>1. FossPinned /\ OneAnswer => AnswerSafe
  BY DEF AnswerSafe
<1>2. Spec => [](HeldTables /\ HeldPinned /\ FossPinned /\ OneAnswer)
  BY HoldSafe
<1> QED BY <1>1, <1>2, PTL

------------------------------------------------------------------------------
(* The binding. *)

\* A successful FOSS answer leaves the phone in the list of its box only.
LEMMA RelinkedOnce ==
  ASSUME TypeOK, BoundOnce, NEW r \in bind, Relinked(r)
  PROVE  BoundOnce'
<1> DEFINE p == r.phone
<1>0. p \in Phones /\ r.stb \in Stbs \cup {None}
  BY DEF TypeOK, FossCtx
<1>1. \A s \in Stbs : Unlinked(phones, p)[s] = phones[s] \ {p}
  BY DEF Unlinked
<1>2. Unlinked(phones, p) \in [Stbs -> SUBSET Phones]
  BY DEF Unlinked, TypeOK
<1>3. stbOf[p] = None => \A s \in Stbs : p \notin phones[s]
  BY <1>0, NoneAssumption DEF BoundOnce
<1>4. CASE r.op = "bind"
  <2> DEFINE l == IF stbOf[p] # None THEN Unlinked(phones, p) ELSE phones
  <2>1. /\ l \in [Stbs -> SUBSET Phones]
        /\ \A s \in Stbs : l[s] = phones[s] \ {p}
    BY <1>1, <1>2, <1>3 DEF TypeOK
  <2>2. /\ phones' = [l EXCEPT ![r.stb] = @ \cup {p}]
        /\ stbOf' = [stbOf EXCEPT ![p] = r.stb]
    BY <1>4 DEF Relinked
  <2> HIDE DEF l, p
  <2>3. ASSUME NEW q \in Phones, NEW s \in Stbs
        PROVE  q \in phones'[s] <=> stbOf'[q] = s
    <3>1. q \in phones[s] <=> stbOf[q] = s
      BY DEF BoundOnce
    <3>2. phones'[s] = IF s = r.stb THEN (phones[s] \ {p}) \cup {p} ELSE phones[s] \ {p}
      BY <2>1, <2>2
    <3>3. stbOf'[q] = IF q = p THEN r.stb ELSE stbOf[q]
      BY <2>2, <1>0 DEF TypeOK
    <3> QED BY <3>1, <3>2, <3>3
  <2> QED BY <2>3 DEF BoundOnce
<1>5. CASE r.op # "bind" /\ stbOf[p] # None
  <2>1. phones' = Unlinked(phones, p) /\ stbOf' = [stbOf EXCEPT ![p] = None]
    BY <1>5 DEF Relinked
  <2> QED BY <1>0, <1>1, <2>1, NoneAssumption DEF BoundOnce, TypeOK
<1>6. CASE r.op # "bind" /\ stbOf[p] = None
  BY <1>6 DEF Relinked, BoundOnce
<1> QED BY <1>4, <1>5, <1>6

\* The lists of the boxes and the pointers of the phones agree in every
\* execution, with any number of overlapping FOSS requests and late answers.
THEOREM BoundSafe == Spec => []BoundOnce
<1>1. Init => BoundOnce
  BY DEF Init, BoundOnce
<1>2. TypeOK /\ BoundOnce /\ [Next]_vars => BoundOnce'
  <2> SUFFICES ASSUME TypeOK, BoundOnce, [Next]_vars PROVE BoundOnce'
    OBVIOUS
  <2>1. ASSUME NEW r \in bind, NEW code \in {200, 400}, FossReply(r, code) PROVE BoundOnce'
    <3>1. CASE code = 200
      BY <2>1, <3>1, RelinkedOnce DEF FossReply
    <3>2. CASE code # 200
      BY <2>1, <3>2 DEF FossReply, BoundOnce
    <3> QED BY <3>1, <3>2
  <2>2. CASE UNCHANGED <<stbOf, phones>>
    BY <2>2 DEF BoundOnce
  <2>3. (\E r \in bind, code \in {200, 400} : FossReply(r, code)) \/ UNCHANGED <<stbOf, phones>>
    BY DEF Next, Accept, Flush, FlushFails, PeerLeaves, Secure, Refuse, PollHeld, PollIgnored,
           PollDelivered, ScreenUnbound, UnbindReq, ScreenStored, ScreenPushed, BindReq,
           FossPush, FossLost, HoldTimeout, Tick
  <2> QED BY <2>1, <2>2, <2>3
<1> QED
  BY <1>1, <1>2, TypeCorrect, PTL DEF Spec

------------------------------------------------------------------------------
(* The connections live as ConnLife promises. *)

\* What a step may do to one connection, in the variables of this module.
Unmarked(c) == (c \in gone' => c \in gone) /\ (c \in gone => c \in gone')
LifeSame(c) == conn'[c] = conn[c] /\ Unmarked(c) /\ (conn[c] = "free" \/ left'[c] = left[c])
LifeAccept(c) == conn[c] = "free" /\ conn'[c] = "idle" /\ c \notin gone' /\ left'[c] > 0
LifeArrive(c) ==
  conn[c] = "idle" /\ conn'[c] \in {"busy", "flush"} /\ Unmarked(c) /\ left'[c] > 0
LifeMove(c) ==
  /\ \/ conn[c] = "busy" /\ conn'[c] = "flush"
     \/ conn[c] = "flush" /\ conn'[c] = "stuck"
     \/ conn[c] = "flush" /\ conn'[c] = "idle" /\ c \notin gone
  /\ Unmarked(c) /\ left'[c] = left[c]
LifeFree(c) ==
  /\ conn[c] \in {"idle", "flush"} \/ (conn[c] # "free" /\ left[c] <= 0)
  /\ conn'[c] = "free" /\ c \notin gone'
LifeLeave(c) ==
  /\ conn[c] \notin {"free", "idle"} /\ conn'[c] = conn[c]
  /\ c \in gone' /\ left'[c] = left[c]
LifeTick(c) == conn[c] # "free" /\ conn'[c] = conn[c] /\ Unmarked(c) /\ left'[c] < left[c]

LifeStep(c) ==
  \/ LifeSame(c) \/ LifeAccept(c) \/ LifeArrive(c) \/ LifeMove(c)
  \/ LifeFree(c) \/ LifeLeave(c) \/ LifeTick(c)

\* Such a step is a step of the abstract connection, or leaves it alone.
LEMMA LifeStepMaps ==
  ASSUME NEW c \in Conns, TypeOK, TypeOK', LifeStep(c)
  PROVE  [ConnAt(c)!Next]_(ConnAt(c)!vars)
<1>1. /\ conn[c] \in ConnState /\ conn'[c] \in ConnState
      /\ left[c] \in Int /\ left'[c] \in Int
  BY TimeAssumption DEF TypeOK
<1>2. CASE LifeSame(c)
  BY <1>1, <1>2 DEF LifeSame, Unmarked, ConnAt!vars
<1>3. CASE LifeAccept(c)
  BY <1>1, <1>3 DEF LifeAccept, ConnAt!Next, ConnAt!Accept
<1>4. CASE LifeArrive(c)
  BY <1>1, <1>4 DEF LifeArrive, Unmarked, ConnAt!Next, ConnAt!Arrive
<1>5. CASE LifeMove(c)
  BY <1>1, <1>5 DEF LifeMove, Unmarked, ConnAt!Next, ConnAt!Answer, ConnAt!Fail, ConnAt!Finish
<1>6. CASE LifeFree(c)
  BY <1>1, <1>6 DEF LifeFree, ConnAt!Next, ConnAt!Leave, ConnAt!Finish, ConnAt!TimesOut, ConnAt!Freed
<1>7. CASE LifeLeave(c)
  BY <1>1, <1>7 DEF LifeLeave, ConnAt!Next, ConnAt!Leave
<1>8. CASE LifeTick(c)
  BY <1>1, <1>8 DEF LifeTick, Unmarked, ConnAt!Next, ConnAt!TimePasses, ConnAt!vars
<1> QED BY <1>2, <1>3, <1>4, <1>5, <1>6, <1>7, <1>8 DEF LifeStep

\* An answer moves the connection it is meant for, and no other.
LEMMA AnsweredStep ==
  ASSUME NEW d \in Conns, NEW e \in Conns, TypeOK, conn' = Answered(conn, d),
         UNCHANGED <<gone, left>>
  PROVE  LifeStep(e)
BY DEF TypeOK, Answered, LifeStep, LifeSame, LifeMove, Unmarked

\* A request moves its connection from idle; the others stay.
LEMMA ArriveStep ==
  ASSUME NEW c \in Conns, NEW e \in Conns, TypeOK, Arrive(c),
         conn' = [conn EXCEPT ![c] = "busy"] \/ conn' = [conn EXCEPT ![c] = "flush"]
  PROVE  LifeStep(e)
BY TimeAssumption DEF TypeOK, Arrive, LifeStep, LifeSame, LifeArrive, Unmarked

\* Every step of the service is, for every connection, a step that rns_http.c
\* promises: it never frees or revives a connection on its own.
THEOREM LifeKept == Spec => LivesAsPromised
<1>1. Init => \A c \in Conns : ConnAt(c)!Init
  BY DEF Init, ConnAt!Init
<1>2. TypeOK /\ TypeOK' /\ [Next]_vars
        => [\A c \in Conns : [ConnAt(c)!Next]_(ConnAt(c)!vars)]_vars
  <2> SUFFICES ASSUME TypeOK, TypeOK', [Next]_vars, NEW e \in Conns
               PROVE  [ConnAt(e)!Next]_(ConnAt(e)!vars)
    OBVIOUS
  <2> SUFFICES LifeStep(e)
    BY LifeStepMaps
  <2> USE DEF LifeStep, LifeSame, Unmarked
  <2>1. ASSUME NEW c \in Conns, Accept(c) PROVE LifeStep(e)
    BY <2>1, TimeAssumption DEF Accept, LifeAccept, TypeOK
  <2>2. ASSUME NEW c \in Conns, Flush(c) PROVE LifeStep(e)
    BY <2>2 DEF Flush, Freed, LifeFree, LifeMove, TypeOK
  <2>3. ASSUME NEW c \in Conns, FlushFails(c) PROVE LifeStep(e)
    BY <2>3 DEF FlushFails, LifeMove, TypeOK
  <2>4. ASSUME NEW c \in Conns, PeerLeaves(c) PROVE LifeStep(e)
    BY <2>4 DEF PeerLeaves, Freed, LifeFree, LifeLeave, TypeOK
  <2>5. ASSUME NEW c \in Conns, Secure(c) PROVE LifeStep(e)
    BY <2>5 DEF Secure, First, Freed, LifeFree, TypeOK
  <2>6. ASSUME NEW c \in Conns, Arrive(c),
               conn' = [conn EXCEPT ![c] = "busy"] \/ conn' = [conn EXCEPT ![c] = "flush"]
        PROVE  LifeStep(e)
    BY <2>6, ArriveStep
  <2>7. ASSUME NEW c \in Conns, NEW p \in Phones, NEW i \in Infos, ScreenPushed(c, p, i)
        PROVE  LifeStep(e)
    <3> DEFINE d == reg[stbOf[p]]
               mid == [conn EXCEPT ![c] = "flush"]
    <3>1. d \in Conns
      BY <2>7 DEF ScreenPushed, TypeOK
    <3>2. /\ conn[c] = "idle" /\ left' = [left EXCEPT ![c] = Expire] /\ gone' = gone
          /\ conn' = Answered(mid, d)
      BY <2>7 DEF ScreenPushed, Arrive
    <3> HIDE DEF d
    <3>3. CASE e = c
      <4>1. conn'[e] = "flush"
        BY <3>1, <3>2, <3>3 DEF Answered, TypeOK
      <4> QED BY <3>2, <3>3, <4>1, TimeAssumption DEF LifeArrive, TypeOK
    <3>4. CASE e # c /\ e = d /\ conn[e] = "busy"
      <4>1. conn'[e] = "flush"
        BY <3>1, <3>2, <3>4 DEF Answered, TypeOK
      <4> QED BY <3>2, <3>4, <4>1 DEF LifeMove, TypeOK
    <3>5. CASE e # c /\ ~(e = d /\ conn[e] = "busy")
      <4>1. conn'[e] = conn[e]
        BY <3>1, <3>2, <3>5 DEF Answered, TypeOK
      <4> QED BY <3>2, <3>5, <4>1 DEF TypeOK
    <3> QED BY <3>3, <3>4, <3>5
  <2>8. ASSUME NEW d \in Conns, conn' = Answered(conn, d), UNCHANGED <<gone, left>>
        PROVE  LifeStep(e)
    BY <2>8, AnsweredStep
  <2>9. ASSUME NEW r \in bind, NEW code \in {200, 400}, FossReply(r, code) PROVE LifeStep(e)
    <3>1. r.conn \in Conns \cup {None}
      BY DEF TypeOK, FossCtx
    <3>2. CASE r.conn = None
      BY <2>9, <3>2 DEF FossReply
    <3>3. CASE r.conn # None
      BY <2>8, <2>9, <3>1, <3>3 DEF FossReply
    <3> QED BY <3>2, <3>3
  <2>10. ASSUME NEW s \in Stbs, HoldTimeout(s) PROVE LifeStep(e)
    BY <2>8, <2>10 DEF HoldTimeout, TypeOK
  <2>11. CASE Tick
    BY <2>11, TimeAssumption DEF Tick, LifeTick, TypeOK
  <2>12. CASE UNCHANGED connVars
    BY <2>12
  <2>13. \/ UNCHANGED connVars
         \/ \E c \in Conns : Arrive(c) /\ \/ conn' = [conn EXCEPT ![c] = "busy"]
                                          \/ conn' = [conn EXCEPT ![c] = "flush"]
         \/ \E c \in Conns : Accept(c) \/ Flush(c) \/ FlushFails(c) \/ PeerLeaves(c) \/ Secure(c)
         \/ \E c \in Conns, p \in Phones, i \in Infos : ScreenPushed(c, p, i)
         \/ \E r \in bind : \E code \in {200, 400} : FossReply(r, code)
         \/ \E s \in Stbs : HoldTimeout(s)
         \/ Tick
    BY DEF Next, Refuse, PollHeld, PollIgnored, PollDelivered, ScreenUnbound, UnbindReq,
           ScreenStored, BindReq, FossPush, FossLost
  <2> QED
    BY <2>1, <2>2, <2>3, <2>4, <2>5, <2>6, <2>7, <2>9, <2>10, <2>11, <2>12, <2>13
<1> QED
  BY <1>1, <1>2, TypeCorrect, PTL DEF Spec, LivesAsPromised
==============================================================================
