---------------------------- MODULE TransportProofs ----------------------------
(* Proofs about the parts of MCTransport: Login, for any servers and every timing *)
(* that satisfies Timing, MySql, for any finite pool, HttpConn, for a client that    *)
(* waits for each answer, and HttpWrite, for any answers.                         *)
EXTENDS MCTransport, FiniteSetTheorems, SequenceTheorems, TLAPS

------------------------------------------------------------------------------
(* Login *)

\* What goes by while all logins that may still be lost are lost
Spare(n) == (Losses - n) * (Interval + MaxLate)

\* A server that was heard of sends its login while its timer is not due, and the entry
\* outlives what is left until one arrives: the timer and its lateness, the login's way,
\* and the logins that may be lost.
KnownInv(t) ==
  /\ gNext[t] # None
  /\ gAge[t] # None => gNext[t] = Interval - gAge[t]
  /\ gLost[t] <= Losses =>
       /\ gLeft[t] # None
       /\ IF gAge[t] = None
            THEN gNext[t] + MaxLate + MaxDelay + Spare(gLost[t]) < gLeft[t]
            ELSE MaxDelay - gAge[t] + Spare(gLost[t]) < gLeft[t]

\* The timer of a server is never set to more than its two delays.
NextBound == \A t \in Trss : gNext[t] # None => gNext[t] <= Interval \/ gNext[t] <= First

LoginInv == Logins!TypeOK /\ NextBound /\ \A t \in gHeard : KnownInv(t)

LEMMA SpareFacts ==
  ASSUME Logins!Timing, NEW n \in 0 .. Losses
  PROVE  /\ Spare(n) \in Nat
         /\ n < Losses => Spare(n) = Spare(n + 1) + Interval + MaxLate
         /\ Interval + MaxLate + MaxDelay + Spare(0) < Timeout
         /\ First + MaxLate + MaxDelay + Spare(0) < Timeout
<1> USE DEF Logins!Timing, Spare
<1>1. Spare(n) \in Nat
  <2>1. \A a, b \in Nat : a * b \in Nat
    OBVIOUS
  <2>2. Losses - n \in Nat /\ Interval + MaxLate \in Nat
    OBVIOUS
  <2> QED BY <2>1, <2>2
<1>2. n < Losses => Spare(n) = Spare(n + 1) + Interval + MaxLate
  <2>1. \A a, b \in Int : a * b = (a - 1) * b + b
    OBVIOUS
  <2>2. Losses - (n + 1) = (Losses - n) - 1
    OBVIOUS
  <2> QED BY <2>1, <2>2
<1>3. (Losses + 1) * (Interval + MaxLate) = Losses * (Interval + MaxLate) + Interval + MaxLate
  OBVIOUS
<1>4. Losses - 0 = Losses
  OBVIOUS
<1> QED BY <1>1, <1>2, <1>3, <1>4

LEMMA LoginInit == Logins!Timing /\ Logins!Init => LoginInv
BY DEF Logins!Timing, Logins!Init, LoginInv, Logins!TypeOK, NextBound

\* What a step on another server leaves alone
LEMMA OtherServer ==
  ASSUME NEW t \in Trss, KnownInv(t), gNext'[t] = gNext[t], gAge'[t] = gAge[t],
         gLeft'[t] = gLeft[t], gLost'[t] = gLost[t]
  PROVE  KnownInv(t)'
BY DEF KnownInv, Spare

LEMMA TrsStep ==
  ASSUME Logins!Timing, LoginInv, NEW t \in Trss, Logins!Start(t) \/ Logins!Stop(t) \/ Logins!SendLogin(t)
  PROVE  LoginInv'
<1> USE DEF LoginInv
<1>1. CASE Logins!Start(t)
  <2>0. /\ gNext[t] = None /\ gNext' = [gNext EXCEPT ![t] = First]
        /\ UNCHANGED <<gAge, gLeft, gHeard, gLost, gReport>> /\ Logins!TypeOK
    BY <1>1 DEF Logins!Start
  <2>1. Logins!TypeOK' /\ NextBound'
    BY <2>0 DEF Logins!TypeOK, NextBound, Logins!Timing
  <2>2. ASSUME NEW u \in gHeard' PROVE KnownInv(u)'
    <3>1. u \in gHeard /\ u \in Trss /\ KnownInv(u) /\ u # t
      BY <2>0, <2>2 DEF Logins!TypeOK, KnownInv
    <3>2. gNext'[u] = gNext[u]
      BY <2>0, <3>1 DEF Logins!TypeOK
    <3> QED BY <2>0, <3>1, <3>2, OtherServer
  <2> QED BY <2>1, <2>2
<1>2. CASE Logins!Stop(t)
  <2>0. /\ gNext' = [gNext EXCEPT ![t] = None] /\ gHeard' = gHeard \ {t}
        /\ gLost' = [gLost EXCEPT ![t] = 0] /\ UNCHANGED <<gAge, gLeft, gReport>> /\ Logins!TypeOK
    BY <1>2 DEF Logins!Stop
  <2>1. Logins!TypeOK' /\ NextBound'
    BY <2>0 DEF Logins!TypeOK, NextBound, Logins!Timing
  <2>2. ASSUME NEW u \in gHeard' PROVE KnownInv(u)'
    <3>1. u \in gHeard /\ u \in Trss /\ KnownInv(u) /\ u # t
      BY <2>0, <2>2 DEF Logins!TypeOK
    <3>2. gNext'[u] = gNext[u] /\ gLost'[u] = gLost[u]
      BY <2>0, <3>1 DEF Logins!TypeOK
    <3> QED BY <2>0, <3>1, <3>2, OtherServer
  <2> QED BY <2>1, <2>2
<1>3. CASE Logins!SendLogin(t)
  <2>0. /\ gNext[t] # None /\ gNext[t] <= 0 /\ gAge[t] = None
        /\ gAge' = [gAge EXCEPT ![t] = 0] /\ gNext' = [gNext EXCEPT ![t] = Interval]
        /\ UNCHANGED <<gLeft, gHeard, gLost, gReport>> /\ Logins!TypeOK
    BY <1>3 DEF Logins!SendLogin
  <2>1. Logins!TypeOK' /\ NextBound'
    BY <2>0 DEF Logins!TypeOK, NextBound, Logins!Timing
  <2>2. ASSUME NEW u \in gHeard', u # t PROVE KnownInv(u)'
    <3>1. u \in gHeard /\ u \in Trss /\ KnownInv(u)
      BY <2>0, <2>2 DEF Logins!TypeOK
    <3>2. gNext'[u] = gNext[u] /\ gAge'[u] = gAge[u]
      BY <2>0, <2>2, <3>1 DEF Logins!TypeOK
    <3> QED BY <2>0, <3>1, <3>2, OtherServer
  <2>3. ASSUME t \in gHeard' PROVE KnownInv(t)'
    <3>1. KnownInv(t) /\ gNext'[t] = Interval /\ gAge'[t] = 0 /\ gLost'[t] = gLost[t] /\ gLeft'[t] = gLeft[t]
      BY <2>0, <2>3 DEF Logins!TypeOK
    <3>2. gNext[t] >= -MaxLate /\ 0 # None /\ Interval # None /\ MaxDelay \in Nat /\ MaxLate \in Nat
      BY <2>0 DEF Logins!TypeOK, Logins!Timing
    <3>3. ASSUME gLost[t] <= Losses
          PROVE  gLeft[t] # None /\ MaxDelay - 0 + Spare(gLost[t]) < gLeft[t]
      <4>1. /\ gLeft[t] # None
            /\ gNext[t] + MaxLate + MaxDelay + Spare(gLost[t]) < gLeft[t]
        BY <2>0, <3>1, <3>3 DEF KnownInv
      <4>2. gLeft[t] \in Int /\ gNext[t] \in Int /\ gLost[t] \in 0 .. Losses
        BY <2>0, <3>3, <4>1 DEF Logins!TypeOK, Logins!Timing
      <4>3. Spare(gLost[t]) \in Nat
        BY <4>2, SpareFacts
      <4> QED BY <3>2, <4>1, <4>2, <4>3
    <3>4. Spare(gLost[t])' = Spare(gLost[t])
      BY <3>1 DEF Spare
    <3>5. Interval = Interval - 0
      BY DEF Logins!Timing
    <3> QED BY <3>1, <3>2, <3>3, <3>4, <3>5 DEF KnownInv
  <2> QED BY <2>1, <2>2, <2>3
<1> QED BY <1>1, <1>2, <1>3

LEMMA FossStep ==
  ASSUME Logins!Timing, LoginInv, NEW t \in Trss, Logins!GotLogin(t) \/ Logins!LoginLost(t) \/ Logins!Forget(t)
  PROVE  LoginInv'
<1> USE DEF LoginInv
<1>1. CASE Logins!GotLogin(t)
  <2>0. /\ gAge[t] # None /\ gAge' = [gAge EXCEPT ![t] = None]
        /\ gLeft' = [gLeft EXCEPT ![t] = Timeout]
        /\ IF gNext[t] = None THEN UNCHANGED <<gHeard, gLost>>
             ELSE gHeard' = gHeard \cup {t} /\ gLost' = [gLost EXCEPT ![t] = 0]
        /\ UNCHANGED <<gNext, gReport>> /\ Logins!TypeOK
    BY <1>1 DEF Logins!GotLogin
  <2>1. Logins!TypeOK' /\ NextBound'
    <3>1. gAge' \in [Trss -> (0 .. MaxDelay) \cup {None}] /\ gLeft' \in [Trss -> Int \cup {None}]
      BY <2>0 DEF Logins!TypeOK, Logins!Timing
    <3>2. gHeard' \in SUBSET Trss /\ gLost' \in [Trss -> 0 .. Losses + 1]
      BY <2>0 DEF Logins!TypeOK, Logins!Timing
    <3> QED BY <2>0, <3>1, <3>2 DEF Logins!TypeOK, NextBound
  <2>2. ASSUME NEW u \in gHeard', u # t PROVE KnownInv(u)'
    <3>1. u \in gHeard /\ u \in Trss /\ KnownInv(u)
      BY <2>0, <2>2 DEF Logins!TypeOK
    <3>2. gLeft'[u] = gLeft[u] /\ gAge'[u] = gAge[u] /\ gLost'[u] = gLost[u]
      BY <2>0, <2>2, <3>1 DEF Logins!TypeOK
    <3> QED BY <2>0, <3>1, <3>2, OtherServer
  <2>3. ASSUME t \in gHeard' PROVE KnownInv(t)'
    <3>1. gNext[t] # None
      BY <2>0, <2>3 DEF KnownInv
    <3>2. /\ gNext'[t] = gNext[t] /\ gAge'[t] = None /\ gLeft'[t] = Timeout /\ gLost'[t] = 0
      BY <2>0, <3>1 DEF Logins!TypeOK
    <3>3. Timeout # None /\ gNext[t] \in Int /\ (gNext[t] <= Interval \/ gNext[t] <= First)
      BY <2>0, <3>1 DEF Logins!TypeOK, Logins!Timing, NextBound
    <3>4. gNext[t] + MaxLate + MaxDelay + Spare(0) < Timeout
      <4>1. 0 \in 0 .. Losses
        BY DEF Logins!Timing
      <4>2. /\ Interval + MaxLate + MaxDelay + Spare(0) < Timeout /\ Spare(0) \in Nat
            /\ First + MaxLate + MaxDelay + Spare(0) < Timeout
        BY <4>1, SpareFacts
      <4> QED BY <3>3, <4>2 DEF Logins!Timing
    <3>5. Spare(gLost[t])' = Spare(0)
      BY <3>2 DEF Spare
    <3> QED BY <3>1, <3>2, <3>3, <3>4, <3>5 DEF KnownInv
  <2> QED BY <2>1, <2>2, <2>3
<1>2. CASE Logins!LoginLost(t)
  <2>0. /\ gAge[t] # None /\ gAge' = [gAge EXCEPT ![t] = None]
        /\ gLost' = [gLost EXCEPT ![t] = IF gNext[t] # None /\ @ <= Losses THEN @ + 1 ELSE @]
        /\ UNCHANGED <<gNext, gLeft, gHeard, gReport>> /\ Logins!TypeOK
    BY <1>2 DEF Logins!LoginLost
  <2>1. Logins!TypeOK' /\ NextBound'
    <3>1. gAge' \in [Trss -> (0 .. MaxDelay) \cup {None}]
      BY <2>0 DEF Logins!TypeOK, Logins!Timing
    <3>2. gLost' \in [Trss -> 0 .. Losses + 1]
      BY <2>0 DEF Logins!TypeOK, Logins!Timing
    <3> QED BY <2>0, <3>1, <3>2 DEF Logins!TypeOK, NextBound
  <2>2. ASSUME NEW u \in gHeard', u # t PROVE KnownInv(u)'
    <3>1. u \in gHeard /\ u \in Trss /\ KnownInv(u)
      BY <2>0, <2>2 DEF Logins!TypeOK
    <3>2. gLost'[u] = gLost[u] /\ gAge'[u] = gAge[u]
      BY <2>0, <2>2, <3>1 DEF Logins!TypeOK
    <3> QED BY <2>0, <3>1, <3>2, OtherServer
  <2>3. ASSUME t \in gHeard' PROVE KnownInv(t)'
    <3>1. KnownInv(t) /\ gNext[t] # None /\ gNext[t] = Interval - gAge[t]
      BY <2>0, <2>3 DEF KnownInv
    <3>2. /\ gNext'[t] = gNext[t] /\ gAge'[t] = None /\ gLeft'[t] = gLeft[t]
          /\ gLost'[t] = IF gLost[t] <= Losses THEN gLost[t] + 1 ELSE gLost[t]
      BY <2>0, <3>1 DEF Logins!TypeOK
    <3>3. ASSUME gLost'[t] <= Losses
          PROVE  gLeft[t] # None /\ gNext[t] + MaxLate + MaxDelay + Spare(gLost'[t]) < gLeft[t]
      <4>0. gLost[t] \in 0 .. Losses /\ gLost[t] < Losses /\ gLost'[t] = gLost[t] + 1
        BY <2>0, <3>2, <3>3 DEF Logins!TypeOK, Logins!Timing
      <4>1. gLeft[t] # None /\ MaxDelay - gAge[t] + Spare(gLost[t]) < gLeft[t]
        BY <2>0, <3>1, <4>0 DEF KnownInv, Logins!Timing
      <4>2. /\ Spare(gLost[t]) = Spare(gLost[t] + 1) + Interval + MaxLate
            /\ Spare(gLost[t] + 1) \in Nat
        <5>1. gLost[t] + 1 \in 0 .. Losses
          BY <4>0 DEF Logins!Timing
        <5> QED BY <4>0, <5>1, SpareFacts
      <4>3. gAge[t] \in Int /\ gLeft[t] \in Int /\ MaxDelay \in Int /\ MaxLate \in Int /\ Interval \in Int
        BY <2>0, <4>1 DEF Logins!TypeOK, Logins!Timing
      <4> QED BY <3>1, <4>0, <4>1, <4>2, <4>3
    <3>4. Spare(gLost[t])' = Spare(gLost'[t])
      BY DEF Spare
    <3> QED BY <3>1, <3>2, <3>3, <3>4 DEF KnownInv
  <2> QED BY <2>1, <2>2, <2>3
<1>3. CASE Logins!Forget(t)
  <2>0. /\ gLeft[t] # None /\ gLeft[t] <= 0 /\ gLeft' = [gLeft EXCEPT ![t] = None]
        /\ UNCHANGED <<gNext, gAge, gHeard, gLost, gReport>> /\ Logins!TypeOK
    BY <1>3 DEF Logins!Forget
  <2>1. Logins!TypeOK' /\ NextBound'
    BY <2>0 DEF Logins!TypeOK, NextBound
  <2>2. ASSUME NEW u \in gHeard', u # t PROVE KnownInv(u)'
    <3>1. u \in gHeard /\ u \in Trss /\ KnownInv(u)
      BY <2>0, <2>2 DEF Logins!TypeOK
    <3>2. gLeft'[u] = gLeft[u]
      BY <2>0, <2>2, <3>1 DEF Logins!TypeOK
    <3> QED BY <2>0, <3>1, <3>2, OtherServer
  <2>3. ASSUME t \in gHeard' PROVE KnownInv(t)'
    <3>1. KnownInv(t)
      BY <2>0, <2>3
    <3>2. ~ (gLost[t] <= Losses)
      <4> SUFFICES ASSUME gLost[t] <= Losses PROVE FALSE
        OBVIOUS
      <4>1. gLeft[t] \in Int /\ gLost[t] \in 0 .. Losses /\ Spare(gLost[t]) \in Nat
        BY <2>0, SpareFacts DEF Logins!TypeOK, Logins!Timing
      <4>2. CASE gAge[t] = None
        <5>1. gNext[t] + MaxLate + MaxDelay + Spare(gLost[t]) < gLeft[t] /\ gNext[t] # None
          BY <3>1, <4>2 DEF KnownInv
        <5>2. gNext[t] \in Int /\ gNext[t] + MaxLate >= 0 /\ MaxDelay \in Nat /\ MaxLate \in Nat
          BY <2>0, <5>1 DEF Logins!TypeOK, Logins!Timing
        <5> QED BY <2>0, <4>1, <5>1, <5>2
      <4>3. CASE gAge[t] # None
        <5>1. MaxDelay - gAge[t] + Spare(gLost[t]) < gLeft[t]
          BY <3>1, <4>3 DEF KnownInv
        <5>2. gAge[t] \in 0 .. MaxDelay /\ MaxDelay \in Nat
          BY <2>0, <4>3 DEF Logins!TypeOK, Logins!Timing
        <5> QED BY <2>0, <4>1, <5>1, <5>2
      <4> QED BY <4>2, <4>3
    <3> QED BY <2>0, <3>1, <3>2 DEF KnownInv
  <2> QED BY <2>1, <2>2, <2>3
<1> QED BY <1>1, <1>2, <1>3

LEMMA TickStep == ASSUME Logins!Timing, LoginInv, Logins!Tick PROVE LoginInv'
<1> USE DEF LoginInv
<1>0. /\ \A t \in Trss : gNext[t] # None => gNext[t] > -MaxLate
      /\ \A t \in Trss : gAge[t] # None => gAge[t] < MaxDelay
      /\ gReport > -MaxLate
      /\ gNext' = [t \in Trss |-> IF gNext[t] = None THEN None ELSE gNext[t] - 1]
      /\ gAge' = [t \in Trss |-> IF gAge[t] = None THEN None ELSE gAge[t] + 1]
      /\ gLeft' = [t \in Trss |-> IF gLeft[t] = None THEN None ELSE gLeft[t] - 1]
      /\ gReport' = gReport - 1
      /\ UNCHANGED <<gHeard, gLost>> /\ Logins!TypeOK
  BY DEF Logins!Tick, Logins!Less
<1>1. Logins!TypeOK'
  <2>1. gNext' \in [Trss -> (-MaxLate .. (Interval + First)) \cup {None}]
    BY <1>0 DEF Logins!TypeOK, Logins!Timing
  <2>2. gAge' \in [Trss -> (0 .. MaxDelay) \cup {None}]
    BY <1>0 DEF Logins!TypeOK, Logins!Timing
  <2>3. gLeft' \in [Trss -> Int \cup {None}]
    BY <1>0 DEF Logins!TypeOK
  <2>4. gReport' \in -MaxLate .. (Report + First)
    BY <1>0 DEF Logins!TypeOK, Logins!Timing
  <2> QED BY <1>0, <2>1, <2>2, <2>3, <2>4 DEF Logins!TypeOK
<1>2. NextBound'
  BY <1>0 DEF Logins!TypeOK, NextBound, Logins!Timing
<1>3. ASSUME NEW t \in gHeard' PROVE KnownInv(t)'
  <2>1. t \in gHeard /\ t \in Trss /\ KnownInv(t) /\ gLost'[t] = gLost[t]
    BY <1>0, <1>3 DEF Logins!TypeOK
  <2>2. gNext[t] \in Int /\ gNext'[t] = gNext[t] - 1 /\ gNext'[t] # None
    BY <1>0, <2>1 DEF KnownInv, Logins!TypeOK, Logins!Timing
  <2>3. Spare(gLost[t])' = Spare(gLost[t])
    BY <2>1 DEF Spare
  <2>4. gLost[t] <= Losses => gLost[t] \in 0 .. Losses /\ Spare(gLost[t]) \in Nat
    BY <1>0, <2>1, SpareFacts DEF Logins!TypeOK, Logins!Timing
  <2>5. gLeft[t] # None => gLeft[t] \in Int /\ gLeft'[t] = gLeft[t] - 1 /\ gLeft'[t] # None
    BY <1>0, <2>1 DEF Logins!TypeOK, Logins!Timing
  <2>6. CASE gAge[t] = None
    <3>1. gAge'[t] = None
      BY <1>0, <2>1, <2>6
    <3>2. ASSUME gLost[t] <= Losses
          PROVE  gLeft'[t] # None /\ gNext'[t] + MaxLate + MaxDelay + Spare(gLost[t]) < gLeft'[t]
      <4>1. gLeft[t] # None /\ gNext[t] + MaxLate + MaxDelay + Spare(gLost[t]) < gLeft[t]
        BY <2>1, <2>6, <3>2 DEF KnownInv
      <4> QED BY <2>2, <2>4, <2>5, <3>2, <4>1 DEF Logins!Timing
    <3> QED BY <2>1, <2>2, <2>3, <3>1, <3>2 DEF KnownInv
  <2>7. CASE gAge[t] # None
    <3>1. gAge[t] \in Int /\ gAge'[t] = gAge[t] + 1 /\ gAge'[t] # None
      BY <1>0, <2>1, <2>7 DEF Logins!TypeOK, Logins!Timing
    <3>2. ASSUME gLost[t] <= Losses
          PROVE  gLeft'[t] # None /\ MaxDelay - gAge'[t] + Spare(gLost[t]) < gLeft'[t]
      <4>1. gLeft[t] # None /\ MaxDelay - gAge[t] + Spare(gLost[t]) < gLeft[t]
        BY <2>1, <2>7, <3>2 DEF KnownInv
      <4> QED BY <2>4, <2>5, <3>1, <3>2, <4>1 DEF Logins!Timing
    <3>3. gNext'[t] = Interval - gAge'[t]
      BY <2>1, <2>2, <2>7, <3>1 DEF KnownInv, Logins!Timing
    <3> QED BY <2>1, <2>2, <2>3, <3>1, <3>2, <3>3 DEF KnownInv
  <2> QED BY <2>6, <2>7
<1> QED BY <1>1, <1>2, <1>3

LEMMA LoginNext == Logins!Timing /\ LoginInv /\ [Logins!Next]_loginVars => LoginInv'
<1> SUFFICES ASSUME Logins!Timing, LoginInv, [Logins!Next]_loginVars PROVE LoginInv'
  OBVIOUS
<1>1. ASSUME NEW t \in Trss, Logins!Start(t) \/ Logins!Stop(t) \/ Logins!SendLogin(t) PROVE LoginInv'
  BY <1>1, TrsStep
<1>2. ASSUME NEW t \in Trss, Logins!GotLogin(t) \/ Logins!LoginLost(t) \/ Logins!Forget(t) PROVE LoginInv'
  BY <1>2, FossStep
<1>3. CASE Logins!SendReport
  <2>1. Logins!TypeOK' /\ NextBound'
    BY <1>3 DEF LoginInv, Logins!SendReport, Logins!TypeOK, NextBound, Logins!Timing
  <2>2. \A t \in gHeard' : KnownInv(t)'
    BY <1>3, OtherServer DEF LoginInv, Logins!SendReport, Logins!TypeOK
  <2> QED BY <2>1, <2>2 DEF LoginInv
<1>4. CASE Logins!FossStart
  BY <1>4 DEF LoginInv, Logins!FossStart, Logins!TypeOK, NextBound, Logins!Timing
<1>5. CASE Logins!Tick
  BY <1>5, TickStep
<1>6. CASE UNCHANGED loginVars
  <2>1. \A t \in gHeard' : KnownInv(t)'
    BY <1>6, OtherServer DEF LoginInv, loginVars, Logins!TypeOK
  <2> QED BY <1>6, <2>1 DEF LoginInv, loginVars, Logins!TypeOK, NextBound
<1> QED BY <1>1, <1>2, <1>3, <1>4, <1>5, <1>6 DEF Logins!Next

\* With any number of servers, intervals and delays that satisfy Timing: a server that
\* runs and was heard of stays known, whichever Losses logins in a row are lost.
THEOREM ServersStayKnown == Logins!Spec => []StaysKnown
<1>1. LoginInv => StaysKnown
  BY DEF LoginInv, KnownInv, StaysKnown, Logins!StaysKnown
<1>2. Logins!Init => LoginInv
  BY LoginTiming, LoginInit
<1>3. LoginInv /\ [Logins!Next]_(Logins!vars) => LoginInv'
  BY LoginTiming, LoginNext DEF Logins!vars, loginVars
<1> QED BY <1>1, <1>2, <1>3, PTL DEF Logins!Spec

------------------------------------------------------------------------------
(* MySql *)

\* The operators of FiniteSets, as MySql sees them and as the library's theorems do
LEMMA SetsCounted ==
  \A S : /\ Queries!Cardinality(S) = Cardinality(S)
         /\ Queries!IsFiniteSet(S) <=> IsFiniteSet(S)
BY DEF Queries!Cardinality, Cardinality, Queries!IsFiniteSet, IsFiniteSet

Packets == {"greet", "ok", "cols", "row", "eof", "err", "close"}

\* The shapes; what is on the wire follows from Talks.
Types ==
  /\ dState \in [Mysqls -> {"none", "init", "connect", "query", "fetch"}]
  /\ dWait \in [Mysqls -> {"none", "in", "out"}]
  /\ dQuery \in [Mysqls -> {"none", "asked", "ended"}]
  /\ dGiven \in [Mysqls -> 0 .. MaxRows]
  /\ dPool \subseteq Mysqls /\ dReady \in BOOLEAN
  /\ dWire \in [Mysqls -> Seq(Packets)]
  /\ dEdge \subseteq Mysqls
  /\ dServer \in [Mysqls -> {"none", "greet", "auth", "idle", "run", "send", "closed"}]
  /\ dRows \in [Mysqls -> 0 .. MaxRows]
  /\ dFailed \subseteq Mysqls /\ dAgain \subseteq Mysqls
  /\ dFails \in 0 .. MaxFails

\* Rows of a result at the front of w, and what is left of the result behind them
Result(w, k, g, r, s) ==
  /\ \A i \in 1 .. k : w[i] = "row"
  /\ g + k <= r
  /\ \/ s = "send" /\ Len(w) = k
     \/ s = "idle" /\ Len(w) = k + 1 /\ w[k + 1] = "eof" /\ g + k = r
     \/ s = "closed" /\ Len(w) = k + 1 /\ w[k + 1] = "close"
     \/ s = "closed" /\ Len(w) = k + 2 /\ w[k + 1] = "eof" /\ w[k + 2] = "close"

Holds(m, w) == \E k \in 0 .. Len(w) : Result(w, k, dGiven[m], dRows[m], dServer[m])

\* Nothing is to be read, or that the server closed.
Quiet(m) ==
  \/ dServer[m] = "idle" /\ dWire[m] = <<>>
  \/ dServer[m] = "closed" /\ dWire[m] \in {<<>>, <<"close">>}

Unmade(m) ==
  /\ dState[m] = "none" /\ dWait[m] = "none" /\ dQuery[m] = "none" /\ m \notin dPool
  /\ dServer[m] = "none" /\ dWire[m] = <<>>

Making(m) ==
  /\ dState[m] = "connect" /\ dQuery[m] = "none" /\ m \notin dPool
  /\ \/ /\ dWait[m] = "out"
        /\ \/ dServer[m] = "greet" /\ dWire[m] \in {<<>>, <<"greet">>}
           \/ dServer[m] = "closed" /\ dWire[m] \in {<<"close">>, <<"greet", "close">>}
     \/ /\ dWait[m] = "in"
        /\ \/ dServer[m] = "auth" /\ dWire[m] = <<>>
           \/ dServer[m] = "idle" /\ dWire[m] = <<"ok">>
           \/ dServer[m] = "closed" /\ dWire[m] \in {<<"close">>, <<"ok", "close">>}
     \/ dWait[m] = "none" /\ dServer[m] = "closed" /\ dWire[m] = <<>>

Resting(m) ==
  /\ dState[m] = "init" /\ dWait[m] = "none" /\ dQuery[m] \in {"none", "ended"} /\ m \in dPool
  /\ Quiet(m)

Asked(m) ==
  /\ dState[m] = "query" /\ dQuery[m] = "asked" /\ m \notin dPool /\ dGiven[m] = 0
  /\ \/ /\ dWait[m] = "out"
        /\ \/ dServer[m] = "idle" /\ dWire[m] = <<>>
           \/ dServer[m] = "closed" /\ dWire[m] = <<"close">>
     \/ /\ dWait[m] = "in"
        /\ \/ dServer[m] = "run" /\ dWire[m] = <<>>
           \/ dServer[m] = "idle" /\ dWire[m] = <<"err">>
           \/ dServer[m] = "idle" /\ dWire[m] = <<"ok">> /\ dRows[m] = 0
           \/ dServer[m] = "closed"
                /\ dWire[m] \in {<<"close">>, <<"err", "close">>, <<"ok", "close">>}
           \/ dWire[m] # <<>> /\ dWire[m][1] = "cols" /\ Holds(m, Tail(dWire[m]))

Reading(m) ==
  /\ dState[m] = "fetch" /\ dQuery[m] = "asked" /\ m \notin dPool /\ dWait[m] = "in"
  /\ Holds(m, dWire[m])

Erred(m) ==
  /\ dState[m] = "query" /\ dQuery[m] = "ended" /\ m \in dPool /\ m \in dFailed
  /\ dWait[m] = "none" /\ Quiet(m)

\* Where a connection is with its server
Talks(m) == Unmade(m) \/ Making(m) \/ Resting(m) \/ Asked(m) \/ Reading(m) \/ Erred(m)

Told(m) ==
  /\ m \in dFailed => dQuery[m] = "ended"
  /\ m \in dAgain => m \in dFailed /\ dServer[m] = "closed"
  /\ m \in dPool /\ dQuery[m] = "ended" /\ dServer[m] = "idle" /\ m \notin dFailed
       => dGiven[m] = dRows[m]

\* The program goes on when no connection is missing.
Full == dReady => \A m \in Mysqls : dState[m] \notin {"none", "connect"}

QueryInv == Types /\ Full /\ \A m \in Mysqls : Talks(m) /\ Told(m)

------------------------------------------------------------------------------
(* What is on the wire *)

LEMMA Short ==
  ASSUME NEW a \in Packets, NEW b \in Packets
  PROVE  /\ Head(<<a>>) = a /\ <<a>>[1] = a /\ Tail(<<a>>) = <<>> /\ <<a>> # <<>>
         /\ Head(<<a, b>>) = a /\ <<a, b>>[1] = a /\ Tail(<<a, b>>) = <<b>> /\ <<a, b>> # <<>>
         /\ Append(<<>>, a) = <<a>> /\ Append(<<a>>, b) = <<a, b>>
         /\ <<a>> \in Seq(Packets) /\ <<a, b>> \in Seq(Packets)
<1>1. Append(<<a>>, b) = <<a, b>>
  <2>1. <<a>> \in Seq(Packets) /\ Len(<<a>>) = 1 /\ <<a>>[1] = a
    OBVIOUS
  <2>2. /\ Append(<<a>>, b) \in Seq(Packets) /\ Len(Append(<<a>>, b)) = 2
        /\ Append(<<a>>, b)[1] = a /\ Append(<<a>>, b)[2] = b
    BY <2>1, AppendProperties
  <2>3. <<a, b>> \in Seq(Packets) /\ Len(<<a, b>>) = 2 /\ <<a, b>>[1] = a /\ <<a, b>>[2] = b
    OBVIOUS
  <2>4. \A i \in 1 .. Len(<<a, b>>) : Append(<<a>>, b)[i] = <<a, b>>[i]
    <3>1. \A i \in 1 .. 2 : i = 1 \/ i = 2
      OBVIOUS
    <3> QED BY <2>2, <2>3, <3>1
  <2> QED BY <2>2, <2>3, <2>4, SeqEqual
<1>2. Append(<<>>, a) = <<a>> /\ <<a>> \in Seq(Packets) /\ <<a, b>> \in Seq(Packets)
  OBVIOUS
<1>3. Head(<<a>>) = a /\ <<a>>[1] = a /\ Tail(<<a>>) = <<>> /\ <<a>> # <<>>
  OBVIOUS
<1>4. Head(<<a, b>>) = a /\ <<a, b>>[1] = a /\ <<a, b>> # <<>>
  OBVIOUS
<1>5. Tail(<<a, b>>) = <<b>>
  OBVIOUS
<1> QED BY <1>1, <1>2, <1>3, <1>4, <1>5

LEMMA Shorter ==
  ASSUME NEW w \in Seq(Packets), w # <<>>
  PROVE  /\ Tail(w) \in Seq(Packets) /\ Len(Tail(w)) = Len(w) - 1 /\ Len(w) \in Nat \ {0}
         /\ \A i \in 1 .. Len(w) - 1 : Tail(w)[i] = w[i + 1]
         /\ Head(w) = w[1] /\ w[1] \in Packets
OBVIOUS

LEMMA Longer ==
  ASSUME NEW w \in Seq(Packets), NEW p \in Packets
  PROVE  /\ Append(w, p) \in Seq(Packets) /\ Len(Append(w, p)) = Len(w) + 1 /\ Len(w) \in Nat
         /\ \A i \in 1 .. Len(w) : Append(w, p)[i] = w[i]
         /\ Append(w, p)[Len(w) + 1] = p /\ Append(w, p) # <<>>
         /\ w # <<>> => Append(w, p)[1] = w[1] /\ Tail(Append(w, p)) = Append(Tail(w), p)
<1>1. /\ Append(w, p) \in Seq(Packets) /\ Len(Append(w, p)) = Len(w) + 1 /\ Len(w) \in Nat
      /\ \A i \in 1 .. Len(w) : Append(w, p)[i] = w[i]
      /\ Append(w, p)[Len(w) + 1] = p /\ Append(w, p) # <<>>
  BY AppendProperties
<1>2. ASSUME w # <<>> PROVE 1 \in 1 .. Len(w) /\ Tail(Append(w, p)) = Append(Tail(w), p)
  BY <1>2, HeadTailAppend
<1> QED BY <1>1, <1>2

LEMMA RowsOfIs ==
  ASSUME NEW w \in Seq(Packets), NEW k \in 0 .. Len(w), \A i \in 1 .. k : w[i] = "row",
         k < Len(w) => w[k + 1] # "row"
  PROVE  Queries!RowsOf(w) = k
<1> DEFINE P(j) == /\ \A i \in 1 .. j : w[i] = "row"
                   /\ j < Len(w) => w[j + 1] # "row"
<1>1. Len(w) \in Nat
  OBVIOUS
<1>2. ASSUME NEW j \in 0 .. Len(w), P(j) PROVE j = k
  <2>1. CASE j < k
    <3>1. j + 1 \in 1 .. k /\ j < Len(w)
      BY <1>1, <2>1
    <3> QED BY <1>2, <3>1
  <2>2. CASE k < j
    <3>1. k + 1 \in 1 .. j /\ k < Len(w)
      BY <1>1, <2>2
    <3> QED BY <1>2, <3>1
  <2> QED BY <1>1, <2>1, <2>2
<1>3. P(k)
  OBVIOUS
<1>4. Queries!RowsOf(w) = CHOOSE j \in 0 .. Len(w) : P(j)
  BY DEF Queries!RowsOf
<1> HIDE DEF P
<1> QED BY <1>2, <1>3, <1>4

\* What the server counts as sent: the rows in front, if no more than rows came.
LEMMA RowsCounted ==
  ASSUME NEW w \in Seq(Packets), NEW k \in Nat, NEW d \in {0, 1}, Len(w) = k + d,
         d = 1 => w[1] # "row", \A i \in 1 .. Len(w) : i > d => w[i] = "row"
  PROVE  Cardinality({i \in DOMAIN w : w[i] = "row"}) = k
<1>1. {i \in DOMAIN w : w[i] = "row"} = (1 + d) .. (k + d)
  <2>1. DOMAIN w = 1 .. (k + d)
    OBVIOUS
  <2>2. \A i \in 1 .. (k + d) : w[i] = "row" <=> i > d
    OBVIOUS
  <2> QED BY <2>1, <2>2
<1>2. \A a, b \in Int : Cardinality(a .. b) = IF a > b THEN 0 ELSE b - a + 1
  BY FS_Interval
<1>3. CASE k = 0
  <2>1. (1 + d) .. (k + d) = {}
    BY <1>3
  <2> QED BY <1>1, <1>3, <2>1, FS_EmptySet
<1>4. CASE k # 0
  <2>1. PICK a \in Int, b \in Int : a = 1 + d /\ b = k + d
    OBVIOUS
  <2>2. Cardinality(a .. b) = b - a + 1
    BY <1>2, <1>4, <2>1
  <2>3. {i \in DOMAIN w : w[i] = "row"} = a .. b
    BY <1>1, <2>1
  <2>4. b - a + 1 = k
    BY <2>1
  <2> QED BY <2>2, <2>3, <2>4
<1> QED BY <1>3, <1>4

------------------------------------------------------------------------------
(* A result on the wire *)

LEMMA ResultBegins ==
  ASSUME NEW r \in Nat
  PROVE  Result(<<>>, 0, 0, r, "send")
BY DEF Result

LEMMA RowFollows ==
  ASSUME NEW w \in Seq(Packets), NEW k \in 0 .. Len(w), NEW g \in Nat, NEW r \in Nat,
         Result(w, k, g, r, "send"), g + k < r
  PROVE  Result(Append(w, "row"), k + 1, g, r, "send") /\ k + 1 \in 0 .. Len(Append(w, "row"))
<1>1. Len(w) = k /\ k \in Nat
  BY DEF Result
<1>2. /\ Len(Append(w, "row")) = k + 1
      /\ \A i \in 1 .. k : Append(w, "row")[i] = w[i]
      /\ Append(w, "row")[k + 1] = "row"
  BY <1>1, Longer DEF Packets
<1>3. \A i \in 1 .. k + 1 : i \in 1 .. k \/ i = k + 1
  BY <1>1
<1>4. \A i \in 1 .. k : w[i] = "row"
  BY DEF Result
<1>5. \A i \in 1 .. k + 1 : Append(w, "row")[i] = "row"
  BY <1>2, <1>3, <1>4
<1>6. g + (k + 1) <= r
  BY <1>1
<1> QED BY <1>1, <1>2, <1>5, <1>6 DEF Result

LEMMA EndFollows ==
  ASSUME NEW w \in Seq(Packets), NEW k \in 0 .. Len(w), NEW g \in Nat, NEW r \in Nat,
         Result(w, k, g, r, "send"), g + k = r
  PROVE  Result(Append(w, "eof"), k, g, r, "idle") /\ k \in 0 .. Len(Append(w, "eof"))
<1>1. Len(w) = k /\ k \in Nat /\ \A i \in 1 .. k : w[i] = "row"
  BY DEF Result
<1>2. /\ Len(Append(w, "eof")) = k + 1
      /\ \A i \in 1 .. k : Append(w, "eof")[i] = w[i]
      /\ Append(w, "eof")[k + 1] = "eof"
  BY <1>1, Longer DEF Packets
<1> QED BY <1>1, <1>2 DEF Result

LEMMA CloseFollows ==
  ASSUME NEW w \in Seq(Packets), NEW k \in 0 .. Len(w), NEW g \in Nat, NEW r \in Nat,
         NEW s, Result(w, k, g, r, s), s # "closed"
  PROVE  /\ Result(Append(w, "close"), k, g, r, "closed")
         /\ k \in 0 .. Len(Append(w, "close"))
<1>1. /\ Len(w) \in Nat /\ k \in Nat /\ \A i \in 1 .. k : w[i] = "row"
      /\ g + k <= r
      /\ Len(w) = k \/ (Len(w) = k + 1 /\ w[k + 1] = "eof")
  BY DEF Result
<1>2. /\ Len(Append(w, "close")) = Len(w) + 1
      /\ \A i \in 1 .. Len(w) : Append(w, "close")[i] = w[i]
      /\ Append(w, "close")[Len(w) + 1] = "close"
  BY Longer DEF Packets
<1>3. \A i \in 1 .. k : Append(w, "close")[i] = "row"
  BY <1>1, <1>2
<1>4. CASE Len(w) = k
  BY <1>1, <1>2, <1>3, <1>4 DEF Result
<1>5. CASE Len(w) = k + 1 /\ w[k + 1] = "eof"
  <2>1. Append(w, "close")[k + 1] = "eof" /\ Append(w, "close")[k + 2] = "close"
    BY <1>1, <1>2, <1>5
  <2> QED BY <1>1, <1>2, <1>3, <1>5, <2>1 DEF Result
<1> QED BY <1>1, <1>4, <1>5

\* A fetch takes the rows, and with what follows them the result is over.
LEMMA ResultFetched ==
  ASSUME NEW w \in Seq(Packets), NEW k \in 0 .. Len(w), NEW g \in Nat, NEW r \in Nat,
         NEW s, Result(w, k, g, r, s)
  PROVE  /\ Queries!RowsOf(w) = k /\ g + k <= r
         /\ k = Len(w) => s = "send" /\ Result(<<>>, 0, g + k, r, s)
         /\ k # Len(w) =>
              \/ s = "idle" /\ g + k = r /\ SubSeq(w, k + 2, Len(w)) = <<>>
              \/ s = "closed" /\ SubSeq(w, k + 2, Len(w)) \in {<<>>, <<"close">>}
<1>1. Len(w) \in Nat /\ k \in Nat /\ \A i \in 1 .. k : w[i] = "row"
  BY DEF Result
<1>2. g + k <= r
  BY DEF Result
<1>3. Queries!RowsOf(w) = k
  <2>1. k < Len(w) => w[k + 1] # "row"
    BY <1>1 DEF Result
  <2> QED BY <1>1, <2>1, RowsOfIs
<1>4. ASSUME k = Len(w) PROVE s = "send" /\ Result(<<>>, 0, g + k, r, s)
  <2>1. s = "send"
    BY <1>1, <1>4 DEF Result
  <2> QED BY <1>1, <1>2, <2>1 DEF Result
<1>5. ASSUME k # Len(w)
      PROVE  \/ s = "idle" /\ g + k = r /\ SubSeq(w, k + 2, Len(w)) = <<>>
             \/ s = "closed" /\ SubSeq(w, k + 2, Len(w)) \in {<<>>, <<"close">>}
  <2>1. \/ s = "idle" /\ g + k = r /\ Len(w) = k + 1
        \/ s = "closed" /\ Len(w) = k + 1
        \/ s = "closed" /\ Len(w) = k + 2 /\ w[k + 2] = "close"
    BY <1>1, <1>5 DEF Result
  <2>2. ASSUME Len(w) = k + 1 PROVE SubSeq(w, k + 2, Len(w)) = <<>>
    BY <1>1, <2>2
  <2>3. ASSUME Len(w) = k + 2, w[k + 2] = "close" PROVE SubSeq(w, k + 2, Len(w)) = <<"close">>
    <3> DEFINE v == SubSeq(w, k + 2, k + 2)
    <3>1. v \in Seq(Packets) /\ Len(v) = 1 /\ v[1] = "close"
      BY <1>1, <2>3
    <3>2. <<"close">> \in Seq(Packets) /\ Len(<<"close">>) = 1 /\ <<"close">>[1] = "close"
      BY DEF Packets
    <3>3. \A i \in 1 .. 1 : i = 1
      OBVIOUS
    <3> HIDE DEF v
    <3>4. v = <<"close">>
      BY <3>1, <3>2, <3>3, SeqEqual
    <3> QED BY <2>3, <3>4 DEF v
  <2> QED BY <2>1, <2>2, <2>3
<1> QED BY <1>2, <1>3, <1>4, <1>5

------------------------------------------------------------------------------
(* The steps *)

\* A connection that a step leaves alone
Same(n) ==
  /\ dState'[n] = dState[n] /\ dWait'[n] = dWait[n] /\ dQuery'[n] = dQuery[n]
  /\ dGiven'[n] = dGiven[n] /\ dWire'[n] = dWire[n] /\ dServer'[n] = dServer[n]
  /\ dRows'[n] = dRows[n]
  /\ n \in dPool' <=> n \in dPool
  /\ n \in dFailed' <=> n \in dFailed
  /\ n \in dAgain' <=> n \in dAgain

LEMMA Elsewhere ==
  ASSUME NEW n, Same(n), Talks(n), Told(n)
  PROVE  Talks(n)' /\ Told(n)'
<1> USE DEF Same
<1>1. \A w : Holds(n, w) => Holds(n, w)'
  BY DEF Holds
<1>2. ASSUME Unmade(n) PROVE Unmade(n)'
  BY <1>2 DEF Unmade
<1>3. ASSUME Making(n) PROVE Making(n)'
  BY <1>3 DEF Making
<1>4. ASSUME Resting(n) PROVE Resting(n)'
  BY <1>4 DEF Resting, Quiet
<1>5. ASSUME Asked(n) PROVE Asked(n)'
  BY <1>1, <1>5 DEF Asked
<1>6. ASSUME Reading(n) PROVE Reading(n)'
  BY <1>1, <1>6 DEF Reading
<1>7. ASSUME Erred(n) PROVE Erred(n)'
  BY <1>7 DEF Erred, Quiet
<1>8. Told(n)'
  BY DEF Told
<1> QED BY <1>2, <1>3, <1>4, <1>5, <1>6, <1>7, <1>8 DEF Talks

LEMMA OnlyOne ==
  ASSUME QueryInv, NEW m \in Mysqls, \A n \in Mysqls \ {m} : Same(n),
         Types', Talks(m)', Told(m)', Full'
  PROVE  QueryInv'
<1>1. ASSUME NEW n \in Mysqls PROVE Talks(n)' /\ Told(n)'
  <2>1. CASE n = m
    BY <2>1
  <2>2. CASE n # m
    BY <2>2, Elsewhere DEF QueryInv
  <2> QED BY <2>1, <2>2
<1> QED BY <1>1 DEF QueryInv

LEMMA FullStays ==
  ASSUME Full, NEW m \in Mysqls, \A n \in Mysqls \ {m} : Same(n), dReady' = dReady,
         dState'[m] \in {"none", "connect"} => dState[m] \in {"none", "connect"}
  PROVE  Full'
<1>1. ASSUME dReady, NEW n \in Mysqls PROVE dState'[n] \notin {"none", "connect"}
  <2>1. CASE n = m
    BY <1>1, <2>1 DEF Full
  <2>2. CASE n # m
    BY <1>1, <2>2 DEF Full, Same
  <2> QED BY <2>1, <2>2
<1> QED BY <1>1 DEF Full

LEMMA Resulting ==
  ASSUME Types, NEW m \in Mysqls, NEW w \in Seq(Packets), Holds(m, w)
  PROVE  dServer[m] \in {"send", "idle", "closed"}
BY DEF Holds, Result

LEMMA Sent ==
  ASSUME Types, NEW m \in Mysqls, NEW p \in Packets,
         NEW s \in {"greet", "idle", "send", "closed"}, Queries!Sends(m, p, s)
  PROVE  /\ dWire'[m] = Append(dWire[m], p) /\ dServer'[m] = s
         /\ \A n \in Mysqls \ {m} : dWire'[n] = dWire[n] /\ dServer'[n] = dServer[n]
         /\ dWire' \in [Mysqls -> Seq(Packets)] /\ dEdge' \subseteq Mysqls
         /\ dServer' \in [Mysqls -> {"none", "greet", "auth", "idle", "run", "send", "closed"}]
<1>1. Append(dWire[m], p) \in Seq(Packets)
  BY Longer DEF Types
<1> QED BY <1>1 DEF Types, Queries!Sends

\* A step of the server: what the program has stays.
LEMMA Served ==
  ASSUME Types, NEW m \in Mysqls, NEW p \in Packets,
         NEW s \in {"greet", "idle", "send", "closed"}, Queries!Sends(m, p, s),
         UNCHANGED <<Queries!mine, Queries!poolVars, dFailed, dAgain>>,
         \A n \in Mysqls \ {m} : dRows'[n] = dRows[n],
         dRows' \in [Mysqls -> 0 .. MaxRows], dFails' \in 0 .. MaxFails
  PROVE  /\ Types' /\ \A n \in Mysqls \ {m} : Same(n)
         /\ Full => Full'
<1>1. /\ \A n \in Mysqls \ {m} : dWire'[n] = dWire[n] /\ dServer'[n] = dServer[n]
      /\ dWire' \in [Mysqls -> Seq(Packets)] /\ dEdge' \subseteq Mysqls
      /\ dServer' \in [Mysqls -> {"none", "greet", "auth", "idle", "run", "send", "closed"}]
  BY Sent
<1>2. Types'
  BY <1>1 DEF Types, Queries!mine, Queries!poolVars
<1>3. \A n \in Mysqls \ {m} : Same(n)
  BY <1>1 DEF Same, Queries!mine, Queries!poolVars
<1>4. Full => Full'
  BY DEF Full, Queries!mine, Queries!poolVars
<1> QED BY <1>2, <1>3, <1>4

LEMMA GreetsSound ==
  ASSUME QueryInv, NEW m \in Mysqls, Queries!Greets(m)
  PROVE  QueryInv'
<1> USE DEF QueryInv
<1>1. /\ dWire \in [Mysqls -> Seq(Packets)] /\ dFails \in 0 .. MaxFails
      /\ dRows \in [Mysqls -> 0 .. MaxRows]
  BY DEF Types
<1>2. /\ UNCHANGED <<Queries!mine, Queries!poolVars, dFailed, dAgain>> /\ dRows' = dRows /\ dFails' = dFails
      /\ dState'[m] = dState[m] /\ dWait'[m] = dWait[m] /\ dQuery'[m] = dQuery[m]
      /\ dPool' = dPool /\ dFailed' = dFailed /\ dAgain' = dAgain
  BY DEF Queries!Greets, Queries!mine, Queries!poolVars
<1>3. CASE dServer[m] = "greet" /\ dWire[m] = <<>> /\ dWait[m] = "out" /\ Queries!Sends(m, "greet", "greet")
  <2>1. Types' /\ Full' /\ \A n \in Mysqls \ {m} : Same(n)
    BY <1>1, <1>2, <1>3, Served DEF Packets
  <2>2. dWire'[m] = <<"greet">> /\ dServer'[m] = "greet"
    BY <1>3, Sent, Short DEF Packets
  <2>3. Making(m)
    <3>1. \A w \in Seq(Packets) : ~Holds(m, w)
      BY <1>3, Resulting
    <3>2. Tail(dWire[m]) \in Seq(Packets) \/ dWire[m] = <<>>
      BY <1>1, Shorter
    <3> QED BY <1>1, <1>3, <3>1, <3>2 DEF Talks, Unmade, Resting, Quiet, Asked, Reading, Erred
  <2>4. Making(m)'
    BY <1>2, <1>3, <2>2, <2>3 DEF Making
  <2>5. Told(m)'
    BY <1>2, <2>2, <2>3 DEF Told, Making
  <2> QED BY <2>1, <2>4, <2>5, OnlyOne DEF Talks
<1>4. CASE dServer[m] = "auth" /\ Queries!Sends(m, "ok", "idle")
  <2>1. Types' /\ Full' /\ \A n \in Mysqls \ {m} : Same(n)
    BY <1>1, <1>2, <1>4, Served DEF Packets
  <2>2. Making(m)
    <3>1. \A w \in Seq(Packets) : ~Holds(m, w)
      BY <1>4, Resulting
    <3>2. Tail(dWire[m]) \in Seq(Packets) \/ dWire[m] = <<>>
      BY <1>1, Shorter
    <3> QED BY <1>1, <1>4, <3>1, <3>2 DEF Talks, Unmade, Resting, Quiet, Asked, Reading, Erred
  <2>3. dWire[m] = <<>> /\ dWait[m] = "in"
    BY <1>4, <2>2 DEF Making
  <2>4. dWire'[m] = <<"ok">> /\ dServer'[m] = "idle"
    BY <1>4, <2>3, Sent, Short DEF Packets
  <2>5. Making(m)'
    BY <1>2, <2>2, <2>3, <2>4 DEF Making
  <2>6. Told(m)'
    BY <1>2, <1>4, <2>2 DEF Told, Making
  <2> QED BY <2>1, <2>5, <2>6, OnlyOne DEF Talks
<1> QED BY <1>3, <1>4 DEF Queries!Greets

LEMMA AnswersSound ==
  ASSUME QueryInv, MaxRows \in Nat, MaxFails \in Nat, NEW m \in Mysqls, Queries!Answers(m)
  PROVE  QueryInv'
<1> USE DEF QueryInv
<1>1. /\ dWire \in [Mysqls -> Seq(Packets)] /\ dFails \in 0 .. MaxFails
      /\ dRows \in [Mysqls -> 0 .. MaxRows]
  BY DEF Types
<1>2. /\ UNCHANGED <<Queries!mine, Queries!poolVars, dFailed, dAgain>>
      /\ dState'[m] = dState[m] /\ dWait'[m] = dWait[m] /\ dQuery'[m] = dQuery[m]
      /\ dGiven'[m] = dGiven[m]
      /\ dPool' = dPool /\ dFailed' = dFailed /\ dAgain' = dAgain
  BY DEF Queries!Answers, Queries!mine, Queries!poolVars
<1>3. dServer[m] = "run"
  BY DEF Queries!Answers
<1>4. Asked(m) /\ dWait[m] = "in" /\ dWire[m] = <<>>
  <2>1. \A w \in Seq(Packets) : ~Holds(m, w)
    BY <1>3, Resulting
  <2>2. Tail(dWire[m]) \in Seq(Packets) \/ dWire[m] = <<>>
    BY <1>1, Shorter
  <2>3. Asked(m)
    BY <1>1, <1>3, <2>1, <2>2 DEF Talks, Unmade, Making, Resting, Quiet, Reading, Erred
  <2> QED BY <1>3, <2>1, <2>2, <2>3 DEF Asked
<1>5. Told(m)'
  BY <1>2, <1>4 DEF Told, Asked
<1>6. CASE Queries!Sends(m, "err", "idle") /\ dFails < MaxFails /\ dFails' = dFails + 1 /\ UNCHANGED dRows
  <2>1. Types' /\ Full' /\ \A n \in Mysqls \ {m} : Same(n)
    BY <1>1, <1>2, <1>6, Served DEF Packets
  <2>2. dWire'[m] = <<"err">> /\ dServer'[m] = "idle"
    BY <1>4, <1>6, Sent, Short DEF Packets
  <2>3. Asked(m)'
    BY <1>2, <1>4, <2>2 DEF Asked
  <2> QED BY <1>5, <2>1, <2>3, OnlyOne DEF Talks
<1>7. CASE Queries!Sends(m, "ok", "idle") /\ dRows' = [dRows EXCEPT ![m] = 0] /\ UNCHANGED dFails
  <2>1. Types' /\ Full' /\ \A n \in Mysqls \ {m} : Same(n)
    BY <1>1, <1>2, <1>7, Served DEF Packets
  <2>2. dWire'[m] = <<"ok">> /\ dServer'[m] = "idle" /\ dRows'[m] = 0
    BY <1>1, <1>4, <1>7, Sent, Short DEF Packets
  <2>3. Asked(m)'
    BY <1>2, <1>4, <2>2 DEF Asked
  <2> QED BY <1>5, <2>1, <2>3, OnlyOne DEF Talks
<1>8. ASSUME Queries!Sends(m, "cols", "send"), UNCHANGED dFails,
             NEW k \in 0 .. MaxRows, dRows' = [dRows EXCEPT ![m] = k]
      PROVE  QueryInv'
  <2>1. Types' /\ Full' /\ \A n \in Mysqls \ {m} : Same(n)
    BY <1>1, <1>2, <1>8, Served DEF Packets
  <2>2. dWire'[m] = <<"cols">> /\ dServer'[m] = "send" /\ dRows'[m] = k
    BY <1>1, <1>4, <1>8, Sent, Short DEF Packets
  <2>3. dWire'[m] # <<>> /\ dWire'[m][1] = "cols" /\ Tail(dWire'[m]) = <<>>
    BY <2>2, Short DEF Packets
  <2>4. dGiven'[m] = 0
    BY <1>2, <1>4 DEF Asked
  <2>5. Result(<<>>, 0, dGiven'[m], dRows'[m], dServer'[m]) /\ 0 \in 0 .. Len(<<>>)
    BY <2>2, <2>4, ResultBegins
  <2>6. Holds(m, Tail(dWire[m]))'
    BY <2>3, <2>5 DEF Holds
  <2>7. Asked(m)'
    BY <1>2, <1>4, <2>3, <2>6 DEF Asked
  <2> QED BY <1>5, <2>1, <2>7, OnlyOne DEF Talks
<1> QED BY <1>3, <1>6, <1>7, <1>8 DEF Queries!Answers

\* A result is under way, with its columns in front or not.
LEMMA Results ==
  ASSUME QueryInv, NEW m \in Mysqls, dServer[m] = "send"
  PROVE  /\ \/ Asked(m) /\ dWait[m] = "in" /\ dWire[m] # <<>> /\ dWire[m][1] = "cols"
               /\ Holds(m, Tail(dWire[m]))
            \/ Reading(m)
         /\ dQuery[m] = "asked" /\ m \notin dPool
<1>1. Asked(m) \/ Reading(m)
  BY DEF QueryInv, Talks, Unmade, Making, Resting, Quiet, Erred
<1> QED BY <1>1 DEF Asked, Reading

LEMMA SendsRowSound ==
  ASSUME QueryInv, MaxRows \in Nat, NEW m \in Mysqls, Queries!SendsRow(m)
  PROVE  QueryInv'
<1> USE DEF QueryInv
<1>1. /\ dWire \in [Mysqls -> Seq(Packets)] /\ dFails \in 0 .. MaxFails
      /\ dRows \in [Mysqls -> 0 .. MaxRows] /\ dRows[m] \in Nat /\ dGiven[m] \in Nat
      /\ dWire[m] \in Seq(Packets)
  BY DEF Types
<1>2. /\ UNCHANGED <<Queries!mine, Queries!poolVars, dFailed, dAgain>> /\ dRows' = dRows /\ dFails' = dFails
      /\ dState'[m] = dState[m] /\ dWait'[m] = dWait[m] /\ dQuery'[m] = dQuery[m]
      /\ dGiven'[m] = dGiven[m]
      /\ dPool' = dPool /\ dFailed' = dFailed /\ dAgain' = dAgain
  BY DEF Queries!SendsRow, Queries!mine, Queries!poolVars
<1>3. dServer[m] = "send"
  BY DEF Queries!SendsRow
<1>4. dQuery[m] = "asked" /\ m \notin dPool
  BY <1>3, Results
<1>5. Told(m)'
  BY <1>2, <1>4 DEF Told
<1>6. ASSUME NEW p \in Packets, NEW s \in {"send", "idle"}, Queries!Sends(m, p, s)
      PROVE  Types' /\ Full' /\ (\A n \in Mysqls \ {m} : Same(n)) /\ dServer'[m] = s
             /\ dWire'[m] = Append(dWire[m], p)
  BY <1>1, <1>2, <1>6, Served, Sent
<1>7. ASSUME NEW w \in Seq(Packets), Holds(m, w),
             Cardinality({i \in DOMAIN dWire[m] : dWire[m][i] = "row"}) = Len(w)
      PROVE  \/ /\ Queries!Sends(m, "row", "send")
                /\ \E j \in 0 .. Len(Append(w, "row")) :
                     Result(Append(w, "row"), j, dGiven[m], dRows[m], "send")
             \/ /\ Queries!Sends(m, "eof", "idle")
                /\ \E j \in 0 .. Len(Append(w, "eof")) :
                     Result(Append(w, "eof"), j, dGiven[m], dRows[m], "idle")
  <2>1. PICK k \in 0 .. Len(w) : Result(w, k, dGiven[m], dRows[m], "send")
    BY <1>3, <1>7 DEF Holds
  <2>2. Len(w) = k
    BY <2>1 DEF Result
  <2>3. Queries!RowsSent(m) = dGiven[m] + k
    BY <1>7, <2>2, SetsCounted DEF Queries!RowsSent
  <2>4. CASE Queries!RowsSent(m) < dRows[m] /\ Queries!Sends(m, "row", "send")
    BY <1>1, <2>1, <2>3, <2>4, RowFollows
  <2>5. CASE Queries!RowsSent(m) = dRows[m] /\ Queries!Sends(m, "eof", "idle")
    BY <1>1, <2>1, <2>3, <2>5, EndFollows
  <2> QED BY <2>4, <2>5 DEF Queries!SendsRow
<1>8. ASSUME NEW w \in Seq(Packets), Holds(m, w)
      PROVE  /\ \A i \in 1 .. Len(w) : w[i] = "row"
             /\ Len(w) \in Nat
  BY <1>3, <1>8 DEF Holds, Result
<1>9. CASE Asked(m) /\ dWait[m] = "in" /\ dWire[m] # <<>> /\ dWire[m][1] = "cols"
           /\ Holds(m, Tail(dWire[m]))
  <2> DEFINE w == Tail(dWire[m])
  <2>1. /\ w \in Seq(Packets) /\ Len(dWire[m]) = Len(w) + 1 /\ Len(w) \in Nat
        /\ \A i \in 1 .. Len(w) : w[i] = dWire[m][i + 1]
    BY <1>1, <1>9, Shorter
  <2>2. Cardinality({i \in DOMAIN dWire[m] : dWire[m][i] = "row"}) = Len(w)
    <3>1. \A i \in 1 .. Len(w) : w[i] = "row"
      BY <1>8, <1>9, <2>1
    <3>2. ASSUME NEW i \in 1 .. Len(dWire[m]), i > 1 PROVE dWire[m][i] = "row"
      <4>1. i - 1 \in 1 .. Len(w) /\ (i - 1) + 1 = i
        BY <2>1, <3>2
      <4> HIDE DEF w
      <4> QED BY <2>1, <3>1, <4>1
    <3> HIDE DEF w
    <3> QED BY <1>1, <1>9, <2>1, <3>2, RowsCounted
  <2>3. ASSUME NEW p \in Packets PROVE /\ Append(dWire[m], p) # <<>>
                                       /\ Append(dWire[m], p)[1] = "cols"
                                       /\ Tail(Append(dWire[m], p)) = Append(w, p)
    BY <1>1, <1>9, Longer
  <2>4. CASE /\ Queries!Sends(m, "row", "send")
             /\ \E j \in 0 .. Len(Append(w, "row")) :
                     Result(Append(w, "row"), j, dGiven[m], dRows[m], "send")
    <3>1. /\ Types' /\ Full' /\ \A n \in Mysqls \ {m} : Same(n)
          /\ dServer'[m] = "send" /\ dWire'[m] = Append(dWire[m], "row")
      BY <1>6, <2>4 DEF Packets
    <3>2. dWire'[m] # <<>> /\ dWire'[m][1] = "cols" /\ Tail(dWire'[m]) = Append(w, "row")
      BY <2>3, <3>1 DEF Packets
    <3>3. Holds(m, Tail(dWire[m]))'
      BY <1>2, <2>4, <3>1, <3>2 DEF Holds
    <3>4. Asked(m)'
      BY <1>2, <1>9, <3>2, <3>3 DEF Asked
    <3> QED BY <1>5, <3>1, <3>4, OnlyOne DEF Talks
  <2>5. CASE /\ Queries!Sends(m, "eof", "idle")
             /\ \E j \in 0 .. Len(Append(w, "eof")) :
                     Result(Append(w, "eof"), j, dGiven[m], dRows[m], "idle")
    <3>1. /\ Types' /\ Full' /\ \A n \in Mysqls \ {m} : Same(n)
          /\ dServer'[m] = "idle" /\ dWire'[m] = Append(dWire[m], "eof")
      BY <1>6, <2>5 DEF Packets
    <3>2. dWire'[m] # <<>> /\ dWire'[m][1] = "cols" /\ Tail(dWire'[m]) = Append(w, "eof")
      BY <2>3, <3>1 DEF Packets
    <3>3. Holds(m, Tail(dWire[m]))'
      BY <1>2, <2>5, <3>1, <3>2 DEF Holds
    <3>4. Asked(m)'
      BY <1>2, <1>9, <3>2, <3>3 DEF Asked
    <3> QED BY <1>5, <3>1, <3>4, OnlyOne DEF Talks
  <2> HIDE DEF w
  <2>6. Holds(m, w)
    BY <1>9 DEF w
  <2> QED BY <1>7, <2>1, <2>2, <2>4, <2>5, <2>6
<1>10. CASE Reading(m)
  <2> DEFINE w == dWire[m]
  <2>1. Holds(m, w) /\ w \in Seq(Packets)
    BY <1>1, <1>10 DEF Reading
  <2>2. Cardinality({i \in DOMAIN w : w[i] = "row"}) = Len(w)
    <3>1. Len(w) \in Nat /\ \A i \in 1 .. Len(w) : w[i] = "row"
      BY <1>8, <2>1
    <3> HIDE DEF w
    <3> QED BY <2>1, <3>1, RowsCounted
  <2>3. CASE /\ Queries!Sends(m, "row", "send")
             /\ \E j \in 0 .. Len(Append(w, "row")) :
                     Result(Append(w, "row"), j, dGiven[m], dRows[m], "send")
    <3>1. /\ Types' /\ Full' /\ \A n \in Mysqls \ {m} : Same(n)
          /\ dServer'[m] = "send" /\ dWire'[m] = Append(w, "row")
      BY <1>6, <2>3 DEF Packets
    <3>2. Holds(m, dWire[m])'
      BY <1>2, <2>3, <3>1 DEF Holds
    <3>3. Reading(m)'
      BY <1>2, <1>10, <3>2 DEF Reading
    <3> QED BY <1>5, <3>1, <3>3, OnlyOne DEF Talks
  <2>4. CASE /\ Queries!Sends(m, "eof", "idle")
             /\ \E j \in 0 .. Len(Append(w, "eof")) :
                     Result(Append(w, "eof"), j, dGiven[m], dRows[m], "idle")
    <3>1. /\ Types' /\ Full' /\ \A n \in Mysqls \ {m} : Same(n)
          /\ dServer'[m] = "idle" /\ dWire'[m] = Append(w, "eof")
      BY <1>6, <2>4 DEF Packets
    <3>2. Holds(m, dWire[m])'
      BY <1>2, <2>4, <3>1 DEF Holds
    <3>3. Reading(m)'
      BY <1>2, <1>10, <3>2 DEF Reading
    <3> QED BY <1>5, <3>1, <3>3, OnlyOne DEF Talks
  <2> QED BY <1>7, <2>1, <2>2, <2>3, <2>4
<1> QED BY <1>3, <1>9, <1>10, Results

LEMMA ClosesSound ==
  ASSUME QueryInv, MaxFails \in Nat, NEW m \in Mysqls, Queries!Closes(m)
  PROVE  QueryInv'
<1> USE DEF QueryInv
<1>1. /\ dFails \in 0 .. MaxFails /\ dRows \in [Mysqls -> 0 .. MaxRows]
      /\ dWire[m] \in Seq(Packets) /\ dRows[m] \in Nat /\ dGiven[m] \in Nat
  BY DEF Types
<1>2. /\ UNCHANGED <<Queries!mine, Queries!poolVars, dFailed, dAgain>> /\ dRows' = dRows
      /\ dState'[m] = dState[m] /\ dWait'[m] = dWait[m] /\ dQuery'[m] = dQuery[m]
      /\ dGiven'[m] = dGiven[m]
      /\ dPool' = dPool /\ dFailed' = dFailed /\ dAgain' = dAgain
  BY DEF Queries!Closes, Queries!mine, Queries!poolVars
<1>3. dServer[m] \notin {"none", "closed"} /\ dFails' \in 0 .. MaxFails /\ Queries!Sends(m, "close", "closed")
  BY <1>1 DEF Queries!Closes
<1>4. Types' /\ Full' /\ \A n \in Mysqls \ {m} : Same(n)
  BY <1>1, <1>2, <1>3, Served DEF Packets
<1>5. dWire'[m] = Append(dWire[m], "close") /\ dServer'[m] = "closed"
  BY <1>3, Sent DEF Packets
<1>6. Told(m)'
  BY <1>2, <1>3, <1>5 DEF Told
<1>7. /\ dWire[m] = <<>> => dWire'[m] = <<"close">>
      /\ \A p \in Packets : dWire[m] = <<p>> => dWire'[m] = <<p, "close">>
  <2>1. "close" \in Packets
    BY DEF Packets
  <2>2. ASSUME dWire[m] = <<>> PROVE dWire'[m] = <<"close">>
    BY <1>5, <2>1, <2>2, Short
  <2>3. ASSUME NEW p \in Packets, dWire[m] = <<p>> PROVE dWire'[m] = <<p, "close">>
    <3>1. Append(<<p>>, "close") = <<p, "close">>
      BY <2>1, Short
    <3> QED BY <1>5, <2>3, <3>1
  <2> QED BY <2>2, <2>3
<1>8. \A w \in Seq(Packets) :
         Holds(m, w) => \E k \in 0 .. Len(Append(w, "close")) :
                           Result(Append(w, "close"), k, dGiven[m], dRows[m], "closed")
  <2> SUFFICES ASSUME NEW w \in Seq(Packets), Holds(m, w)
               PROVE  \E k \in 0 .. Len(Append(w, "close")) :
                           Result(Append(w, "close"), k, dGiven[m], dRows[m], "closed")
    OBVIOUS
  <2>1. PICK k \in 0 .. Len(w) : Result(w, k, dGiven[m], dRows[m], dServer[m])
    BY DEF Holds
  <2> QED BY <1>1, <1>3, <2>1, CloseFollows
<1>9. ~Unmade(m)
  BY <1>3 DEF Unmade
<1>10. ASSUME Making(m) PROVE Making(m)'
  <2>1. /\ \/ dWait[m] = "out" /\ dWire[m] \in {<<>>, <<"greet">>}
           \/ dWait[m] = "in" /\ dWire[m] \in {<<>>, <<"ok">>}
        /\ dState[m] = "connect" /\ dQuery[m] = "none" /\ m \notin dPool
    BY <1>3, <1>10 DEF Making
  <2>2. \/ dWait[m] = "out" /\ dWire'[m] \in {<<"close">>, <<"greet", "close">>}
        \/ dWait[m] = "in" /\ dWire'[m] \in {<<"close">>, <<"ok", "close">>}
    BY <1>7, <2>1 DEF Packets
  <2> QED BY <1>2, <1>5, <2>1, <2>2 DEF Making
<1>11. ASSUME Quiet(m) PROVE Quiet(m)'
  BY <1>3, <1>5, <1>7, <1>11 DEF Quiet
<1>12. ASSUME Resting(m) PROVE Resting(m)'
  BY <1>2, <1>11, <1>12 DEF Resting
<1>13. ASSUME Erred(m) PROVE Erred(m)'
  BY <1>2, <1>11, <1>13 DEF Erred
<1>14. ASSUME Reading(m) PROVE Reading(m)'
  <2>1. Holds(m, dWire[m])'
    BY <1>1, <1>2, <1>5, <1>8, <1>14 DEF Reading, Holds
  <2> QED BY <1>2, <1>14, <2>1 DEF Reading
<1>15. ASSUME Asked(m) PROVE Asked(m)'
  <2>1. CASE dWait[m] = "in" /\ dWire[m] # <<>> /\ dWire[m][1] = "cols" /\ Holds(m, Tail(dWire[m]))
    <3>1. /\ dWire'[m] # <<>> /\ dWire'[m][1] = "cols"
          /\ Tail(dWire'[m]) = Append(Tail(dWire[m]), "close") /\ Tail(dWire[m]) \in Seq(Packets)
      <4>1. "close" \in Packets /\ dWire[m] \in Seq(Packets) /\ dWire[m] # <<>>
        BY <1>1, <2>1 DEF Packets
      <4>2. Tail(dWire[m]) \in Seq(Packets)
        BY <4>1, Shorter
      <4>3. /\ Append(dWire[m], "close") # <<>> /\ Append(dWire[m], "close")[1] = dWire[m][1]
            /\ Tail(Append(dWire[m], "close")) = Append(Tail(dWire[m]), "close")
        BY <4>1, Longer
      <4> QED BY <1>5, <2>1, <4>2, <4>3
    <3>2. Holds(m, Tail(dWire[m]))'
      BY <1>2, <1>5, <1>8, <2>1, <3>1 DEF Holds
    <3> QED BY <1>2, <1>15, <2>1, <3>1, <3>2 DEF Asked
  <2>2. CASE dWait[m] = "out" /\ dWire[m] = <<>>
    BY <1>2, <1>5, <1>7, <1>15, <2>2 DEF Asked
  <2>3. CASE dWait[m] = "in" /\ dWire[m] \in {<<>>, <<"err">>, <<"ok">>}
    <3>1. dWire'[m] \in {<<"close">>, <<"err", "close">>, <<"ok", "close">>}
      BY <1>7, <2>3 DEF Packets
    <3> QED BY <1>2, <1>5, <1>15, <2>3, <3>1 DEF Asked
  <2> QED BY <1>3, <1>15, <2>1, <2>2, <2>3 DEF Asked
<1>16. Talks(m)'
  BY <1>9, <1>10, <1>12, <1>13, <1>14, <1>15 DEF Talks
<1> QED BY <1>4, <1>6, <1>16, OnlyOne

LEMMA Lendable ==
  ASSUME QueryInv, NEW m \in dPool
  PROVE  m \in Mysqls /\ Quiet(m) /\ dWait[m] = "none" /\ (Resting(m) \/ Erred(m))
BY DEF QueryInv, Types, Talks, Unmade, Making, Resting, Asked, Reading, Erred

LEMMA AsksSound ==
  ASSUME QueryInv, MaxRows \in Nat, NEW m \in Mysqls, Queries!Asks(m)
  PROVE  QueryInv'
<1> USE DEF QueryInv
<1>1. Quiet(m) /\ m \in dPool
  BY Lendable DEF Queries!Asks
<1>2. PICK w \in {"in", "out"} :
        /\ dWait' = [dWait EXCEPT ![m] = w]
        /\ dServer' = IF w = "in" /\ dServer[m] = "idle"
                       THEN [dServer EXCEPT ![m] = "run"] ELSE dServer
  BY DEF Queries!Asks
<1>3. /\ dState' = [dState EXCEPT ![m] = "query"] /\ dQuery' = [dQuery EXCEPT ![m] = "asked"]
      /\ dGiven' = [dGiven EXCEPT ![m] = 0] /\ dPool' = dPool \ {m}
      /\ dFailed' = dFailed \ {m} /\ dAgain' = dAgain \ {m}
      /\ dReady' = dReady /\ dRows' = dRows /\ dFails' = dFails
  BY DEF Queries!Asks
<1>4. /\ dServer[m] = "closed" => dWire' = [dWire EXCEPT ![m] = <<"close">>] /\ dEdge' = dEdge \cup {m}
      /\ dServer[m] # "closed" => dWire' = dWire /\ dEdge' = dEdge
  BY DEF Queries!Asks
<1>5. <<"close">> \in Seq(Packets)
  BY Short DEF Packets
<1>6. Types'
  <2>1. dWire' \in [Mysqls -> Seq(Packets)] /\ dEdge' \subseteq Mysqls
    BY <1>4, <1>5 DEF Types
  <2>2. dServer' \in [Mysqls -> {"none", "greet", "auth", "idle", "run", "send", "closed"}]
    BY <1>2 DEF Types
  <2>3. dWait' \in [Mysqls -> {"none", "in", "out"}]
    BY <1>2 DEF Types
  <2>4. /\ dState' \in [Mysqls -> {"none", "init", "connect", "query", "fetch"}]
        /\ dQuery' \in [Mysqls -> {"none", "asked", "ended"}]
        /\ dGiven' \in [Mysqls -> 0 .. MaxRows]
    BY <1>3 DEF Types
  <2>5. /\ dPool' \subseteq Mysqls /\ dFailed' \subseteq Mysqls /\ dAgain' \subseteq Mysqls
        /\ dReady' \in BOOLEAN /\ dRows' \in [Mysqls -> 0 .. MaxRows] /\ dFails' \in 0 .. MaxFails
    BY <1>3 DEF Types
  <2> QED BY <2>1, <2>2, <2>3, <2>4, <2>5 DEF Types
<1>7. \A n \in Mysqls \ {m} : Same(n)
  <2> SUFFICES ASSUME NEW n \in Mysqls \ {m} PROVE Same(n)
    OBVIOUS
  <2>1. dWire'[n] = dWire[n] /\ dServer'[n] = dServer[n] /\ dWait'[n] = dWait[n]
    BY <1>2, <1>4 DEF Types
  <2> QED BY <1>3, <2>1 DEF Types, Same
<1>8. dState'[m] = "query" /\ dQuery'[m] = "asked" /\ dGiven'[m] = 0 /\ dWait'[m] = w
  BY <1>2, <1>3 DEF Types
<1>9. Full'
  BY <1>3, <1>7, <1>8, FullStays
<1>10. \/ dServer'[m] = "closed" /\ dWire'[m] = <<"close">>
       \/ dWire'[m] = <<>> /\ dServer'[m] = IF w = "in" THEN "run" ELSE "idle"
  BY <1>1, <1>2, <1>4 DEF Quiet, Types
<1>11. Asked(m)'
  BY <1>3, <1>8, <1>10 DEF Asked
<1>12. Told(m)'
  BY <1>3 DEF Told
<1> QED BY <1>6, <1>7, <1>9, <1>11, <1>12, OnlyOne DEF Talks

LEMMA AsksInVainSound ==
  ASSUME QueryInv, MaxRows \in Nat, NEW m \in Mysqls, Queries!AsksInVain(m)
  PROVE  QueryInv'
<1> USE DEF QueryInv
<1>1. Quiet(m) /\ dWait[m] = "none" /\ m \in dPool /\ dServer[m] = "closed"
  BY Lendable DEF Queries!AsksInVain
<1>2. /\ dState' = [dState EXCEPT ![m] = "init"] /\ dQuery' = [dQuery EXCEPT ![m] = "ended"]
      /\ dGiven' = [dGiven EXCEPT ![m] = 0]
      /\ dFailed' = dFailed \ {m} /\ dAgain' = dAgain \ {m} /\ dWait' = dWait
      /\ dPool' = dPool /\ dReady' = dReady /\ dWire' = dWire /\ dEdge' = dEdge
      /\ dServer' = dServer /\ dRows' = dRows /\ dFails' = dFails
  BY DEF Queries!AsksInVain, Queries!poolVars, Queries!theirs
<1>3. Types'
  BY <1>2 DEF Types
<1>4. \A n \in Mysqls \ {m} : Same(n)
  BY <1>2 DEF Types, Same
<1>5. dState'[m] = "init" /\ dQuery'[m] = "ended"
  BY <1>2 DEF Types
<1>6. Full'
  BY <1>2, <1>4, <1>5, FullStays
<1>7. Resting(m)'
  BY <1>1, <1>2, <1>5 DEF Resting, Quiet
<1>8. Told(m)'
  BY <1>1, <1>2 DEF Told
<1> QED BY <1>3, <1>4, <1>6, <1>7, <1>8, OnlyOne DEF Talks

------------------------------------------------------------------------------
(* The events *)

\* The end of a query that is told for the first time
LEMMA Ends ==
  ASSUME Types, NEW m \in Mysqls, Told(m), dQuery[m] = "asked",
         Queries!Ended(m) \/ Queries!Failed(m)
  PROVE  /\ dQuery'[m] = "ended" /\ dWait'[m] = "none" /\ m \in dPool' /\ m \notin dAgain'
         /\ Queries!Ended(m) => dState'[m] = "init" /\ m \notin dFailed'
         /\ Queries!Failed(m) => dState'[m] = dState[m] /\ m \in dFailed'
BY DEF Types, Told, Queries!Ended, Queries!Failed

\* What an event that ends a query leaves alone
LEMMA EndsOne ==
  ASSUME Types, NEW m \in Mysqls, Queries!Ended(m) \/ Queries!Failed(m)
  PROVE  /\ dState' \in [Mysqls -> {"none", "init", "connect", "query", "fetch"}]
         /\ dWait' \in [Mysqls -> {"none", "in", "out"}]
         /\ dQuery' \in [Mysqls -> {"none", "asked", "ended"}]
         /\ dPool' \subseteq Mysqls /\ dFailed' \subseteq Mysqls /\ dAgain' \subseteq Mysqls
         /\ dReady' = dReady
         /\ \A n \in Mysqls \ {m} :
              /\ dState'[n] = dState[n] /\ dWait'[n] = dWait[n] /\ dQuery'[n] = dQuery[n]
              /\ n \in dPool' <=> n \in dPool
              /\ n \in dFailed' <=> n \in dFailed
              /\ n \in dAgain' <=> n \in dAgain
BY DEF Types, Queries!Ended, Queries!Failed

\* With the last connection none is missing.
LEMMA NoneMissing ==
  ASSUME IsFiniteSet(Mysqls), NEW m \in Mysqls, dState[m] = "connect",
         Queries!Num + 1 = Cardinality(Mysqls), NEW n \in Mysqls, n # m
  PROVE  dState[n] \notin {"none", "connect"}
<1> DEFINE Made == {k \in Mysqls : dState[k] \notin {"none", "connect"}}
<1>1. Made \subseteq Mysqls /\ m \notin Made /\ Queries!Num = Cardinality(Made)
  BY SetsCounted DEF Queries!Num
<1>2. n \in Made => dState[n] \notin {"none", "connect"}
  OBVIOUS
<1> HIDE DEF Made
<1>3. IsFiniteSet(Made)
  BY <1>1, FS_Subset
<1>4. IsFiniteSet(Made \cup {m}) /\ Cardinality(Made \cup {m}) = Cardinality(Made) + 1
  BY <1>1, <1>3, FS_AddElement
<1>5. Made \cup {m} = Mysqls
  <2>1. Made \cup {m} \subseteq Mysqls /\ Cardinality(Made \cup {m}) = Cardinality(Mysqls)
    BY <1>1, <1>4
  <2> QED BY <2>1, FS_Subset
<1> QED BY <1>2, <1>5

\* What a connection that is made has read
LEMMA MakingReads ==
  ASSUME NEW m, Making(m), dWire[m] # <<>>
  PROVE  \/ dWait[m] = "out" /\ dServer[m] = "greet" /\ dWire[m] = <<"greet">>
         \/ dWait[m] = "out" /\ dServer[m] = "closed" /\ dWire[m] \in {<<"close">>, <<"greet", "close">>}
         \/ dWait[m] = "in" /\ dServer[m] = "idle" /\ dWire[m] = <<"ok">>
         \/ dWait[m] = "in" /\ dServer[m] = "closed" /\ dWire[m] \in {<<"close">>, <<"ok", "close">>}
BY DEF Making

LEMMA ReadsOne ==
  ASSUME Types, NEW m \in Mysqls, dWire[m] # <<>>, dWire' = [dWire EXCEPT ![m] = Tail(@)]
  PROVE  /\ dWire'[m] = Tail(dWire[m]) /\ dWire' \in [Mysqls -> Seq(Packets)]
         /\ \A n \in Mysqls \ {m} : dWire'[n] = dWire[n]
<1>1. Tail(dWire[m]) \in Seq(Packets)
  BY Shorter DEF Types
<1> QED BY <1>1 DEF Types

LEMMA ConnectContSound ==
  ASSUME QueryInv, IsFiniteSet(Mysqls), MaxFails \in Nat, NEW m \in Mysqls,
         dWire[m] # <<>>, dEdge' = dEdge \ {m}, Queries!ConnectCont(m)
  PROVE  QueryInv'
<1> USE DEF QueryInv
<1>1. /\ dState[m] = "connect" /\ dWire' = [dWire EXCEPT ![m] = Tail(@)]
      /\ dQuery' = dQuery /\ dGiven' = dGiven /\ dRows' = dRows /\ dFailed' = dFailed /\ dAgain' = dAgain
  BY DEF Queries!ConnectCont
<1>2. Making(m) /\ dQuery[m] = "none" /\ m \notin dPool
  BY <1>1 DEF Talks, Unmade, Making, Resting, Asked, Reading, Erred
<1>3. /\ dWire'[m] = Tail(dWire[m]) /\ dWire' \in [Mysqls -> Seq(Packets)]
      /\ \A n \in Mysqls \ {m} : dWire'[n] = dWire[n]
  BY <1>1, ReadsOne
<1>4. dEdge' \subseteq Mysqls
  BY DEF Types
<1>5. \/ dWait[m] = "out" /\ dServer[m] = "greet" /\ dWire[m] = <<"greet">>
      \/ dWait[m] = "out" /\ dServer[m] = "closed" /\ dWire[m] \in {<<"close">>, <<"greet", "close">>}
      \/ dWait[m] = "in" /\ dServer[m] = "idle" /\ dWire[m] = <<"ok">>
      \/ dWait[m] = "in" /\ dServer[m] = "closed" /\ dWire[m] \in {<<"close">>, <<"ok", "close">>}
  BY <1>2, MakingReads
<1>6. /\ \A p \in Packets : Head(<<p>>) = p /\ Tail(<<p>>) = <<>>
      /\ \A p \in Packets : Head(<<p, "close">>) = p /\ Tail(<<p, "close">>) = <<"close">>
  <2>1. "close" \in Packets
    BY DEF Packets
  <2> QED BY <2>1, Short
<1>7. CASE /\ Head(dWire[m]) = "greet"
           /\ dWait' = [dWait EXCEPT ![m] = "in"]
           /\ dServer' = [dServer EXCEPT ![m] = IF @ = "closed" THEN @ ELSE "auth"]
           /\ UNCHANGED <<dState, Queries!poolVars, dFails>>
  <2>1. \/ dServer[m] = "greet" /\ dWire'[m] = <<>>
        \/ dServer[m] = "closed" /\ dWire'[m] = <<"close">>
    BY <1>3, <1>5, <1>6, <1>7 DEF Packets
  <2>2. /\ dWait'[m] = "in" /\ dWait' \in [Mysqls -> {"none", "in", "out"}]
        /\ \A n \in Mysqls \ {m} : dWait'[n] = dWait[n]
    BY <1>7 DEF Types
  <2>3. /\ dServer'[m] = IF dServer[m] = "closed" THEN "closed" ELSE "auth"
        /\ dServer' \in [Mysqls -> {"none", "greet", "auth", "idle", "run", "send", "closed"}]
        /\ \A n \in Mysqls \ {m} : dServer'[n] = dServer[n]
    BY <1>7 DEF Types
  <2>4. Types'
    BY <1>1, <1>3, <1>4, <1>7, <2>2, <2>3 DEF Types, Queries!poolVars
  <2>5. \A n \in Mysqls \ {m} : Same(n)
    BY <1>1, <1>3, <1>7, <2>2, <2>3 DEF Same, Queries!poolVars
  <2>6. Full'
    BY <1>7 DEF Full, Queries!poolVars
  <2>7. Making(m)'
    BY <1>1, <1>2, <1>7, <2>1, <2>2, <2>3 DEF Making, Queries!poolVars
  <2>8. Told(m)'
    BY <1>1, <1>2, <1>7 DEF Told, Queries!poolVars
  <2> QED BY <2>4, <2>5, <2>6, <2>7, <2>8, OnlyOne DEF Talks
<1>8. CASE /\ Head(dWire[m]) \in {"err", "close"}
           /\ dWait' = [dWait EXCEPT ![m] = "none"]
           /\ UNCHANGED <<dState, Queries!poolVars, dFails, dServer>>
  <2>1. dServer[m] = "closed" /\ dWire'[m] = <<>>
    BY <1>3, <1>5, <1>6, <1>8 DEF Packets
  <2>2. /\ dWait'[m] = "none" /\ dWait' \in [Mysqls -> {"none", "in", "out"}]
        /\ \A n \in Mysqls \ {m} : dWait'[n] = dWait[n]
    BY <1>8 DEF Types
  <2>3. Types'
    BY <1>1, <1>3, <1>4, <1>8, <2>2 DEF Types, Queries!poolVars
  <2>4. \A n \in Mysqls \ {m} : Same(n)
    BY <1>1, <1>3, <1>8, <2>2 DEF Same, Queries!poolVars
  <2>5. Full'
    BY <1>8 DEF Full, Queries!poolVars
  <2>6. Making(m)'
    BY <1>1, <1>2, <1>8, <2>1, <2>2 DEF Making, Queries!poolVars
  <2>7. Told(m)'
    BY <1>1, <1>2, <1>8 DEF Told, Queries!poolVars
  <2> QED BY <2>3, <2>4, <2>5, <2>6, <2>7, OnlyOne DEF Talks
<1>9. CASE Head(dWire[m]) = "ok" /\ Queries!Connected(m)
  <2>1. \/ dServer[m] = "idle" /\ dWire'[m] = <<>>
        \/ dServer[m] = "closed" /\ dWire'[m] = <<"close">>
    BY <1>3, <1>5, <1>6, <1>9 DEF Packets
  <2>2. /\ dPool' = dPool \cup {m} /\ dPool' \subseteq Mysqls
        /\ dReady' = (Queries!Num + 1 = Cardinality(Mysqls))
    BY <1>9, SetsCounted DEF Queries!Connected, Types
  <2>3. Told(m)'
    BY <1>1, <1>2 DEF Told
  <2>4. ASSUME NEW n \in Mysqls, Queries!Num + 1 # Cardinality(Mysqls), Queries!Connecting(n, m), UNCHANGED dFails
        PROVE  QueryInv'
    <3>1. dState[n] = "none" /\ n # m
      BY <1>1, <2>4 DEF Queries!Connecting
    <3>2. /\ dState'[m] = "init" /\ dWait'[m] = "none" /\ dServer'[m] = dServer[m]
          /\ dState'[n] = "connect" /\ dWait'[n] = "out" /\ dServer'[n] = "greet"
          /\ \A k \in Mysqls \ {m, n} :
               dState'[k] = dState[k] /\ dWait'[k] = dWait[k] /\ dServer'[k] = dServer[k]
      BY <2>4, <3>1 DEF Queries!Connecting, Types
    <3>3. /\ dState' \in [Mysqls -> {"none", "init", "connect", "query", "fetch"}]
          /\ dWait' \in [Mysqls -> {"none", "in", "out"}]
          /\ dServer' \in [Mysqls -> {"none", "greet", "auth", "idle", "run", "send", "closed"}]
      BY <2>4 DEF Queries!Connecting, Types
    <3>4. Types'
      BY <1>1, <1>3, <1>4, <2>2, <2>4, <3>3 DEF Types
    <3>5. \A k \in Mysqls \ {m, n} : Same(k)
      BY <1>1, <1>3, <2>2, <3>2 DEF Same
    <3>6. Full'
      BY <2>2, <2>4 DEF Full
    <3>7. Talks(m)'
      <4>1. Resting(m)'
        BY <1>1, <1>2, <2>1, <2>2, <3>2 DEF Resting, Quiet
      <4> QED BY <4>1 DEF Talks
    <3>8. Talks(n)' /\ Told(n)'
      <4>1. Unmade(n)
        BY <3>1 DEF Talks, Making, Resting, Asked, Reading, Erred
      <4>2. Making(n)'
        BY <1>1, <1>3, <2>2, <3>1, <3>2, <4>1 DEF Unmade, Making
      <4>3. Told(n)'
        BY <1>1, <2>2, <3>1, <4>1 DEF Unmade, Told
      <4> QED BY <4>2, <4>3 DEF Talks
    <3>9. ASSUME NEW k \in Mysqls PROVE Talks(k)' /\ Told(k)'
      <4>1. CASE k = m
        BY <2>3, <3>7, <4>1
      <4>2. CASE k = n
        BY <3>8, <4>2
      <4>3. CASE k \notin {m, n}
        BY <3>5, <4>3, Elsewhere
      <4> QED BY <4>1, <4>2, <4>3
    <3> QED BY <3>4, <3>6, <3>9
  <2>5. CASE /\ Queries!Num + 1 = Cardinality(Mysqls) \/ dFails < MaxFails
             /\ dState' = [dState EXCEPT ![m] = "init"]
             /\ dWait' = [dWait EXCEPT ![m] = "none"]
             /\ dFails' = IF Queries!Num + 1 = Cardinality(Mysqls) THEN dFails ELSE dFails + 1
             /\ UNCHANGED dServer
    <3>1. /\ dState'[m] = "init" /\ dWait'[m] = "none" /\ dServer'[m] = dServer[m]
          /\ \A k \in Mysqls \ {m} :
               dState'[k] = dState[k] /\ dWait'[k] = dWait[k] /\ dServer'[k] = dServer[k]
          /\ dState' \in [Mysqls -> {"none", "init", "connect", "query", "fetch"}]
          /\ dWait' \in [Mysqls -> {"none", "in", "out"}]
      BY <2>5 DEF Types
    <3>2. dFails' \in 0 .. MaxFails
      BY <2>5 DEF Types
    <3>3. Types'
      BY <1>1, <1>3, <1>4, <2>2, <2>5, <3>1, <3>2 DEF Types
    <3>4. \A k \in Mysqls \ {m} : Same(k)
      BY <1>1, <1>3, <2>2, <3>1 DEF Same
    <3>5. Full'
      <4> SUFFICES ASSUME dReady', NEW k \in Mysqls PROVE dState'[k] \notin {"none", "connect"}
        BY DEF Full
      <4>1. CASE k = m
        BY <3>1, <4>1
      <4>2. CASE k # m
        BY <1>1, <2>2, <3>1, <4>2, NoneMissing
      <4> QED BY <4>1, <4>2
    <3>6. Resting(m)'
      BY <1>1, <1>2, <2>1, <2>2, <3>1 DEF Resting, Quiet
    <3> QED BY <2>3, <3>3, <3>4, <3>5, <3>6, OnlyOne DEF Talks
  <2> QED BY <1>9, <2>4, <2>5, SetsCounted DEF Queries!Connected
<1> QED BY <1>7, <1>8, <1>9 DEF Queries!ConnectCont

\* What came of a result is taken: it goes on, or the query has come to its end.
LEMMA FetchingSound ==
  ASSUME QueryInv, MaxRows \in Nat, NEW m \in Mysqls, NEW w \in Seq(Packets), Holds(m, w),
         dQuery[m] = "asked", m \notin dPool, dState[m] \in {"query", "fetch"},
         dEdge' = dEdge \ {m}, Queries!Fetching(m, w), UNCHANGED <<dServer, dRows, dFails>>
  PROVE  QueryInv'
<1> USE DEF QueryInv
<1>1. PICK k \in 0 .. Len(w) : Result(w, k, dGiven[m], dRows[m], dServer[m])
  BY DEF Holds
<1>2. /\ dGiven[m] \in Nat /\ dRows[m] \in 0 .. MaxRows /\ dRows[m] \in Nat /\ k \in Nat
      /\ Len(w) \in Nat /\ dWire \in [Mysqls -> Seq(Packets)] /\ dGiven \in [Mysqls -> 0 .. MaxRows]
  BY DEF Types
<1>3. /\ Queries!RowsOf(w) = k /\ dGiven[m] + k <= dRows[m]
      /\ k = Len(w) => dServer[m] = "send" /\ Result(<<>>, 0, dGiven[m] + k, dRows[m], dServer[m])
      /\ k # Len(w) =>
           \/ dServer[m] = "idle" /\ dGiven[m] + k = dRows[m] /\ SubSeq(w, k + 2, Len(w)) = <<>>
           \/ dServer[m] = "closed" /\ SubSeq(w, k + 2, Len(w)) \in {<<>>, <<"close">>}
  BY <1>1, <1>2, ResultFetched
<1>4. dGiven' = [dGiven EXCEPT ![m] = dGiven[m] + k]
  BY <1>3 DEF Queries!Fetching
<1>5. dGiven[m] + k \in 0 .. MaxRows
  BY <1>2, <1>3
<1>6. /\ dGiven'[m] = dGiven[m] + k /\ dGiven' \in [Mysqls -> 0 .. MaxRows]
      /\ \A n \in Mysqls \ {m} : dGiven'[n] = dGiven[n]
  BY <1>2, <1>4, <1>5
<1>7. CASE k = Len(w)
  <2>1. /\ dState' = [dState EXCEPT ![m] = "fetch"]
        /\ dWait' = [dWait EXCEPT ![m] = "in"]
        /\ dWire' = [dWire EXCEPT ![m] = <<>>]
        /\ UNCHANGED <<dQuery, Queries!poolVars, dFailed, dAgain>>
    BY <1>3, <1>7 DEF Queries!Fetching
  <2>2. <<>> \in Seq(Packets)
    OBVIOUS
  <2>3. /\ dWire' \in [Mysqls -> Seq(Packets)] /\ dWire'[m] = <<>>
        /\ \A n \in Mysqls \ {m} : dWire'[n] = dWire[n]
    BY <1>2, <2>1, <2>2
  <2>4. /\ dState'[m] = "fetch" /\ dWait'[m] = "in"
        /\ dState' \in [Mysqls -> {"none", "init", "connect", "query", "fetch"}]
        /\ dWait' \in [Mysqls -> {"none", "in", "out"}]
        /\ \A n \in Mysqls \ {m} : dState'[n] = dState[n] /\ dWait'[n] = dWait[n]
    BY <2>1 DEF Types
  <2>5. Types'
    BY <1>6, <2>1, <2>3, <2>4 DEF Types, Queries!poolVars
  <2>6. \A n \in Mysqls \ {m} : Same(n)
    BY <1>6, <2>1, <2>3, <2>4 DEF Same, Queries!poolVars
  <2>7. dReady' = dReady
    BY <2>1 DEF Queries!poolVars
  <2>8. Full'
    BY <2>4, <2>6, <2>7, FullStays
  <2>9. Result(<<>>, 0, dGiven'[m], dRows'[m], dServer'[m]) /\ 0 \in 0 .. Len(<<>>)
    BY <1>3, <1>6, <1>7
  <2>10. Holds(m, dWire[m])'
    BY <2>3, <2>9 DEF Holds
  <2>11. Reading(m)'
    BY <2>1, <2>4, <2>10 DEF Reading, Queries!poolVars
  <2>12. Told(m)'
    BY <2>1 DEF Told, Queries!poolVars
  <2> QED BY <2>5, <2>6, <2>8, <2>11, <2>12, OnlyOne DEF Talks
<1>8. CASE k # Len(w)
  <2>1. Queries!Ended(m) /\ dWire' = [dWire EXCEPT ![m] = SubSeq(w, k + 2, Len(w))]
    BY <1>3, <1>8 DEF Queries!Fetching
  <2>2. /\ dQuery'[m] = "ended" /\ dWait'[m] = "none" /\ m \in dPool' /\ m \notin dAgain'
        /\ dState'[m] = "init" /\ m \notin dFailed'
    BY <2>1, Ends
  <2>3. <<>> \in Seq(Packets) /\ <<"close">> \in Seq(Packets)
    BY Short DEF Packets
  <2>4. /\ dWire' \in [Mysqls -> Seq(Packets)] /\ dWire'[m] = SubSeq(w, k + 2, Len(w))
        /\ \A n \in Mysqls \ {m} : dWire'[n] = dWire[n]
    BY <1>2, <1>3, <1>8, <2>1, <2>3
  <2>5. Types'
    BY <1>6, <2>1, <2>4, EndsOne DEF Types
  <2>6. (\A n \in Mysqls \ {m} : Same(n)) /\ dReady' = dReady
    BY <1>6, <2>1, <2>4, EndsOne DEF Same
  <2>7. Full'
    BY <2>2, <2>6, FullStays
  <2>8. Resting(m)'
    BY <1>3, <1>8, <2>2, <2>4 DEF Resting, Quiet
  <2>9. Told(m)'
    BY <1>3, <1>6, <1>8, <2>2 DEF Told
  <2> QED BY <2>5, <2>6, <2>7, <2>8, <2>9, OnlyOne DEF Talks
<1> QED BY <1>7, <1>8

LEMMA FetchContSound ==
  ASSUME QueryInv, MaxRows \in Nat, NEW m \in Mysqls, dEdge' = dEdge \ {m}, Queries!FetchCont(m)
  PROVE  QueryInv'
<1>1. Reading(m)
  BY DEF QueryInv, Queries!FetchCont, Talks, Unmade, Making, Resting, Asked, Erred
<1>2. dWire[m] \in Seq(Packets)
  BY DEF QueryInv, Types
<1>3. Holds(m, dWire[m]) /\ dQuery[m] = "asked" /\ m \notin dPool /\ dState[m] \in {"query", "fetch"}
  BY <1>1 DEF Reading
<1> QED BY <1>2, <1>3, FetchingSound DEF Queries!FetchCont

LEMMA QueryContSound ==
  ASSUME QueryInv, MaxRows \in Nat, NEW m \in Mysqls, dWire[m] # <<>>, dEdge' = dEdge \ {m},
         Queries!QueryCont(m)
  PROVE  QueryInv'
<1> USE DEF QueryInv
<1>1. dState[m] = "query" /\ UNCHANGED <<dServer, dRows, dFails>>
  BY DEF Queries!QueryCont
<1>2. Asked(m) \/ Erred(m)
  BY <1>1 DEF Talks, Unmade, Making, Resting, Reading
<1>3. dWire \in [Mysqls -> Seq(Packets)] /\ dWire[m] \in Seq(Packets)
  BY DEF Types
<1>4. ASSUME Queries!Ended(m) \/ Queries!Failed(m), dGiven' = dGiven, dWire' \in [Mysqls -> Seq(Packets)],
             \A n \in Mysqls \ {m} : dWire'[n] = dWire[n]
      PROVE  Types' /\ Full' /\ \A n \in Mysqls \ {m} : Same(n)
  <2>1. Types'
    BY <1>1, <1>4, EndsOne DEF Types
  <2>2. (\A n \in Mysqls \ {m} : Same(n)) /\ dReady' = dReady
    BY <1>1, <1>4, EndsOne DEF Same
  <2>3. dState'[m] \in {"none", "connect"} => dState[m] \in {"none", "connect"}
    BY <1>4 DEF Queries!Ended, Queries!Failed, Types
  <2> QED BY <2>1, <2>2, <2>3, FullStays
<1>5. CASE dWait[m] = "none" /\ Queries!Failed(m) /\ UNCHANGED <<dGiven, dWire>>
  <2>1. Erred(m) /\ dServer[m] = "closed"
    BY <1>2, <1>5 DEF Asked, Erred, Quiet
  <2>2. Types' /\ Full' /\ \A n \in Mysqls \ {m} : Same(n)
    BY <1>3, <1>4, <1>5
  <2>3. /\ dState'[m] = "query" /\ dQuery'[m] = "ended" /\ m \in dPool' /\ m \in dFailed'
        /\ dWait'[m] = "none"
    BY <1>1, <1>5 DEF Queries!Failed, Types
  <2>4. Erred(m)'
    BY <1>1, <1>5, <2>1, <2>3 DEF Erred, Quiet
  <2>5. Told(m)'
    BY <1>1, <2>1, <2>3 DEF Told
  <2> QED BY <2>2, <2>4, <2>5, OnlyOne DEF Talks
<1>6. CASE dWait[m] # "none" /\ Head(dWire[m]) = "cols" /\ Queries!Fetching(m, Tail(dWire[m]))
  <2>1. Asked(m)
    BY <1>2, <1>6 DEF Erred
  <2>2. Head(dWire[m]) = dWire[m][1] /\ Tail(dWire[m]) \in Seq(Packets)
    BY <1>3, Shorter
  <2>3. \A p \in Packets : <<p>>[1] = p /\ <<p, "close">>[1] = p
    <3>1. "close" \in Packets
      BY DEF Packets
    <3> QED BY <3>1, Short
  <2>4. Holds(m, Tail(dWire[m]))
    BY <1>6, <2>1, <2>2, <2>3 DEF Asked, Packets
  <2> QED BY <1>1, <1>6, <2>1, <2>2, <2>4, FetchingSound DEF Asked
<1>7. CASE /\ dWait[m] # "none" /\ Head(dWire[m]) # "cols"
           /\ dWire' = [dWire EXCEPT ![m] = Tail(@)]
           /\ IF Head(dWire[m]) = "ok" THEN Queries!Ended(m) ELSE Queries!Failed(m)
           /\ UNCHANGED dGiven
  <2>1. Asked(m) /\ dQuery[m] = "asked"
    BY <1>2, <1>7 DEF Erred, Asked
  <2>2. /\ dWire'[m] = Tail(dWire[m]) /\ dWire' \in [Mysqls -> Seq(Packets)]
        /\ \A n \in Mysqls \ {m} : dWire'[n] = dWire[n]
    BY <1>7, ReadsOne
  <2>3. Types' /\ Full' /\ \A n \in Mysqls \ {m} : Same(n)
    BY <1>4, <1>7, <2>2
  <2>4. Head(dWire[m]) = dWire[m][1]
    BY <1>3, Shorter
  <2>5. \/ dServer[m] = "closed"
             /\ dWire[m] \in {<<"close">>, <<"err", "close">>, <<"ok", "close">>}
        \/ dServer[m] = "idle" /\ dWire[m] = <<"err">>
        \/ dServer[m] = "idle" /\ dWire[m] = <<"ok">> /\ dRows[m] = 0
    BY <1>7, <2>1, <2>4 DEF Asked
  <2>6. /\ \A p \in Packets : Head(<<p>>) = p /\ Tail(<<p>>) = <<>>
        /\ \A p \in Packets : Head(<<p, "close">>) = p /\ Tail(<<p, "close">>) = <<"close">>
    <3>1. "close" \in Packets
      BY DEF Packets
    <3> QED BY <3>1, Short
  <2>7. Quiet(m)'
    BY <1>1, <2>2, <2>5, <2>6 DEF Quiet, Packets
  <2>8. CASE Head(dWire[m]) = "ok"
    <3>1. Queries!Ended(m)
      BY <1>7, <2>8
    <3>2. /\ dQuery'[m] = "ended" /\ dWait'[m] = "none" /\ m \in dPool' /\ m \notin dAgain'
          /\ dState'[m] = "init" /\ m \notin dFailed'
      BY <2>1, <3>1, Ends
    <3>3. Resting(m)'
      BY <2>7, <3>2 DEF Resting
    <3>4. dServer[m] = "idle" => dRows[m] = 0
      BY <2>5, <2>6, <2>8 DEF Packets
    <3>5. dGiven[m] = 0
      BY <2>1 DEF Asked
    <3>6. Told(m)'
      BY <1>1, <1>7, <3>2, <3>4, <3>5 DEF Told
    <3> QED BY <2>3, <3>3, <3>6, OnlyOne DEF Talks
  <2>9. CASE Head(dWire[m]) # "ok"
    <3>1. Queries!Failed(m)
      BY <1>7, <2>9
    <3>2. /\ dQuery'[m] = "ended" /\ dWait'[m] = "none" /\ m \in dPool' /\ m \notin dAgain'
          /\ dState'[m] = "query" /\ m \in dFailed'
      BY <1>1, <2>1, <3>1, Ends
    <3>3. Erred(m)'
      BY <2>7, <3>2 DEF Erred
    <3>4. Told(m)'
      BY <3>2 DEF Told
    <3> QED BY <2>3, <3>3, <3>4, OnlyOne DEF Talks
  <2> QED BY <2>8, <2>9
<1> QED BY <1>5, <1>6, <1>7 DEF Queries!QueryCont

LEMMA IgnoredSound ==
  ASSUME QueryInv, NEW m \in Mysqls, dEdge' = dEdge \ {m}, Queries!Ignored(m)
  PROVE  QueryInv'
<1> USE DEF QueryInv
<1>1. Types'
  BY DEF Types, Queries!Ignored, Queries!mine, Queries!poolVars
<1>2. \A n \in Mysqls : Same(n)
  BY DEF Same, Queries!Ignored, Queries!mine, Queries!poolVars
<1>3. \A n \in Mysqls : Talks(n)' /\ Told(n)'
  BY <1>2, Elsewhere
<1>4. Full'
  BY DEF Full, Queries!Ignored, Queries!mine, Queries!poolVars
<1> QED BY <1>1, <1>3, <1>4

------------------------------------------------------------------------------
(* The invariant *)

LEMMA QueryInvInit ==
  ASSUME MaxRows \in Nat, MaxFails \in Nat, Queries!Init
  PROVE  QueryInv
<1>1. PICK m \in Mysqls :
        /\ dState = [n \in Mysqls |-> IF n = m THEN "connect" ELSE "none"]
        /\ dWait = [n \in Mysqls |-> IF n = m THEN "out" ELSE "none"]
        /\ dServer = [n \in Mysqls |-> IF n = m THEN "greet" ELSE "none"]
  BY DEF Queries!Init
<1>2. /\ dQuery = [n \in Mysqls |-> "none"] /\ dGiven = [n \in Mysqls |-> 0]
      /\ dPool = {} /\ dReady = FALSE /\ dWire = [n \in Mysqls |-> <<>>] /\ dEdge = {}
      /\ dRows = [n \in Mysqls |-> 0] /\ dFailed = {} /\ dAgain = {} /\ dFails = 0
  BY DEF Queries!Init
<1>3. Types
  <2>1. /\ dState \in [Mysqls -> {"none", "init", "connect", "query", "fetch"}]
        /\ dWait \in [Mysqls -> {"none", "in", "out"}]
        /\ dServer \in [Mysqls -> {"none", "greet", "auth", "idle", "run", "send", "closed"}]
    BY <1>1
  <2>2. dWire \in [Mysqls -> Seq(Packets)]
    <3>1. <<>> \in Seq(Packets)
      OBVIOUS
    <3> QED BY <1>2, <3>1
  <2>3. /\ dQuery \in [Mysqls -> {"none", "asked", "ended"}]
        /\ dGiven \in [Mysqls -> 0 .. MaxRows] /\ dRows \in [Mysqls -> 0 .. MaxRows]
        /\ dFails \in 0 .. MaxFails
    BY <1>2
  <2> QED BY <1>2, <2>1, <2>2, <2>3 DEF Types
<1>4. Full
  BY <1>2 DEF Full
<1>5. ASSUME NEW n \in Mysqls PROVE Talks(n)
  <2>1. CASE n = m
    <3>1. dState[n] = "connect" /\ dWait[n] = "out" /\ dServer[n] = "greet"
      BY <1>1, <2>1
    <3>2. Making(n)
      BY <1>2, <3>1 DEF Making
    <3> QED BY <3>2 DEF Talks
  <2>2. CASE n # m
    <3>1. dState[n] = "none" /\ dWait[n] = "none" /\ dServer[n] = "none"
      BY <1>1, <2>2
    <3>2. Unmade(n)
      BY <1>2, <3>1 DEF Unmade
    <3> QED BY <3>2 DEF Talks
  <2> QED BY <2>1, <2>2
<1>6. ASSUME NEW n \in Mysqls PROVE Told(n)
  BY <1>2 DEF Told
<1> QED BY <1>3, <1>4, <1>5, <1>6 DEF QueryInv

LEMMA QueryInvNext ==
  ASSUME QueryInv, Queries!Bounds, [Queries!Next]_(Queries!vars)
  PROVE  QueryInv'
<1> IsFiniteSet(Mysqls) /\ MaxRows \in Nat /\ MaxFails \in Nat
  BY SetsCounted DEF Queries!Bounds
<1>1. CASE UNCHANGED Queries!vars
  <2>1. \A n \in Mysqls : Same(n)
    BY <1>1 DEF Same, Queries!vars, Queries!mine, Queries!poolVars, Queries!theirs
  <2>2. \A n \in Mysqls : Talks(n)' /\ Told(n)'
    BY <2>1, Elsewhere DEF QueryInv
  <2>3. Types' /\ Full'
    BY <1>1 DEF QueryInv, Types, Full, Queries!vars, Queries!mine, Queries!poolVars, Queries!theirs
  <2> QED BY <2>2, <2>3 DEF QueryInv
<1>2. ASSUME NEW m \in Mysqls, Queries!Event(m) PROVE QueryInv'
  <2>1. dWire[m] # <<>> /\ dEdge' = dEdge \ {m}
    BY <1>2 DEF Queries!Event
  <2>2. Queries!ConnectCont(m) \/ Queries!QueryCont(m) \/ Queries!FetchCont(m) \/ Queries!Ignored(m)
    BY <1>2 DEF Queries!Event
  <2> QED BY <1>2, <2>1, <2>2, ConnectContSound, QueryContSound, FetchContSound, IgnoredSound
<1>3. ASSUME NEW m \in Mysqls, Queries!Asks(m) \/ Queries!AsksInVain(m) PROVE QueryInv'
  BY <1>3, AsksSound, AsksInVainSound
<1>4. ASSUME NEW m \in Mysqls, Queries!Responds(m) \/ Queries!Closes(m) PROVE QueryInv'
  BY <1>4, GreetsSound, AnswersSound, SendsRowSound, ClosesSound DEF Queries!Responds
<1> QED BY <1>1, <1>2, <1>3, <1>4 DEF Queries!Next

LEMMA QueryInvSound ==
  ASSUME QueryInv
  PROVE  QueriesSound
<1> USE DEF QueryInv
<1>1. Queries!TypeOK
  BY DEF Types, Queries!TypeOK, Packets
<1>2. ASSUME NEW m \in dPool PROVE m \in Mysqls /\ Quiet(m)
  BY Lendable
<1>3. ASSUME NEW m \in Mysqls, dState[m] \notin {"none", "connect"}
      PROVE  m \in dPool <=> dQuery[m] # "asked"
  BY <1>3 DEF Talks, Unmade, Making, Resting, Asked, Reading, Erred
<1>4. Queries!Lent
  <2>1. ASSUME dReady, NEW m \in Mysqls PROVE m \in dPool \/ dQuery[m] = "asked"
    BY <1>3, <2>1 DEF Full
  <2>2. dPool \subseteq Mysqls
    BY DEF Types
  <2> QED BY <1>3, <2>1, <2>2 DEF Queries!Lent
<1>5. Queries!ReadToTheEnd
  <2> SUFFICES ASSUME NEW m \in dPool
               PROVE  /\ \A i \in DOMAIN dWire[m] : dWire[m][i] = "close"
                      /\ dServer[m] \in {"idle", "closed"}
    BY DEF Queries!ReadToTheEnd
  <2>1. dServer[m] \in {"idle", "closed"} /\ dWire[m] \in {<<>>, <<"close">>}
    BY <1>2 DEF Quiet
  <2>2. \A i \in DOMAIN <<"close">> : <<"close">>[i] = "close"
    OBVIOUS
  <2>3. DOMAIN <<>> = {}
    OBVIOUS
  <2> QED BY <2>1, <2>2, <2>3
<1>6. Queries!AllGiven
  BY <1>2 DEF Queries!AllGiven, Told
<1>7. Queries!ToldOnce
  BY DEF Types, Queries!ToldOnce, Told
<1> QED BY <1>1, <1>4, <1>5, <1>6, <1>7 DEF QueriesSound, Queries!QueriesSound

\* With any finite pool, any length of results and any number of failures of the server:
\* connections are lent to one query at a time, come back read to the end with all rows
\* given, and the end of a query is told once.
THEOREM PoolSound == Queries!Spec => []QueriesSound
<1>1. Queries!Init => QueryInv
  BY QueriesBounds, QueryInvInit DEF Queries!Bounds
<1>2. QueryInv /\ [Queries!Next]_(Queries!vars) => QueryInv'
  BY QueriesBounds, QueryInvNext
<1>3. QueryInv => QueriesSound
  BY QueryInvSound
<1> QED BY <1>1, <1>2, <1>3, PTL DEF Queries!Spec

------------------------------------------------------------------------------
(* HttpConn, for a client that waits for each answer *)

\* What may be left of an answer
Leftovers == {<<>>, <<"resp">>, <<"body", "resp">>, <<"header", "resp">>,
              <<"header", "body", "resp">>}

\* No request is outstanding: what the peer began lies in the socket, in hconn->buf
\* and in read_info, and write_func has nothing to do.
IdleInv ==
  /\ phase = 0 /\ destroy = 0 /\ gate = 0 /\ tasks = <<>> /\ owes = 0
  /\ pc \in {"loop", "read", "parse", "exec", "write"}
  /\ pc # "parse" => buf = 0
  /\ got = 2 <=> pc = "exec"
  /\ pend = 0 => ~half
  /\ inbox + buf + got <= IF half THEN 1 ELSE 2 * pend

\* One is: its bytes are used up, and the handler has yet to answer, or the answer is
\* being written, or it cannot be written.
OutstandingInv ==
  /\ phase = 1
  /\ got = 2 /\ buf = 0 /\ inbox = 0 /\ pend = 1 /\ ~half
  /\ pc \in {"loop", "read", "rest", "write"}
  /\ \/ tasks = <<>> /\ owes = 1
     \/ tasks # <<>> /\ owes = 0
     \/ tasks = <<>> /\ owes = 0 /\ peer = "reset"
  /\ pc = "write" /\ size = "fail" => peer = "reset"

\* TypeOK in three parts, with what the tasks may be
ConnFlags ==
  /\ alive \in BOOLEAN /\ half \in BOOLEAN
  /\ full \in BOOLEAN /\ evIn \in BOOLEAN /\ evOut \in BOOLEAN

ConnTypes ==
  /\ phase \in {0, 1} /\ destroy \in {0, 1} /\ gate \in {0, 1} /\ due \in {0, 1}
  /\ got \in 0..2 /\ buf \in Nat /\ inbox \in Nat /\ owes \in Nat
  /\ pend \in {0, 1}
  /\ pc \in {"loop", "read", "parse", "exec", "rest", "write"}
  /\ back \in {"loop", "rest"}
  /\ size \in {"ok", "fail"}
  /\ peer \in {"open", "fin", "reset"}

ConnInv ==
  /\ ConnFlags /\ ConnTypes /\ tasks \in Leftovers
  /\ ~alive => pc = "loop" /\ tasks = <<>> /\ owes = 0
  /\ pc = "write" => back = "loop"
  /\ alive => IdleInv \/ OutstandingInv

LEMMA LeftoverFacts ==
  ASSUME NEW s \in Leftovers
  PROVE  /\ s \in Seq({"header", "body", "resp"})
         /\ s # <<>> => Contains(s, "resp")
         /\ s # <<>> => Tail(s) \in Leftovers
         /\ s # <<>> /\ Head(s) # "resp" => Tail(s) # <<>>
         /\ s # <<>> /\ Head(s) = "resp" => Tail(s) = <<>>
         /\ Cardinality({i \in DOMAIN s : s[i] = "resp"}) = IF s = <<>> THEN 0 ELSE 1
<1>1. CASE s = <<>>
  <2>1. {i \in DOMAIN s : s[i] = "resp"} = {}
    BY <1>1
  <2>2. Cardinality({i \in DOMAIN s : s[i] = "resp"}) = 0
    BY <2>1, FS_EmptySet
  <2> QED BY <1>1, <2>2
<1>2. CASE s = <<"resp">>
  <2>1. {i \in DOMAIN s : s[i] = "resp"} = {1} /\ Len(s) = 1 /\ s[1] = "resp"
    BY <1>2
  <2>2. Cardinality({i \in DOMAIN s : s[i] = "resp"}) = 1
    BY <2>1, FS_Singleton
  <2>3. Contains(s, "resp") /\ Tail(s) = <<>> /\ s # <<>> /\ s \in Seq({"header", "body", "resp"})
    BY <1>2, <2>1 DEF Contains
  <2> QED BY <1>2, <2>1, <2>2, <2>3 DEF Leftovers
<1>3. CASE s = <<"header", "resp">>
  <2>1. {i \in DOMAIN s : s[i] = "resp"} = {2} /\ Len(s) = 2 /\ s[2] = "resp" /\ Head(s) # "resp"
    BY <1>3
  <2>2. Cardinality({i \in DOMAIN s : s[i] = "resp"}) = 1
    BY <2>1, FS_Singleton
  <2>3. Contains(s, "resp") /\ Tail(s) = <<"resp">> /\ s # <<>> /\ s \in Seq({"header", "body", "resp"})
    BY <1>3, <2>1 DEF Contains
  <2> QED BY <2>1, <2>2, <2>3 DEF Leftovers
<1>4. CASE s = <<"body", "resp">>
  <2>1. {i \in DOMAIN s : s[i] = "resp"} = {2} /\ Len(s) = 2 /\ s[2] = "resp" /\ Head(s) # "resp"
    BY <1>4
  <2>2. Cardinality({i \in DOMAIN s : s[i] = "resp"}) = 1
    BY <2>1, FS_Singleton
  <2>3. Contains(s, "resp") /\ Tail(s) = <<"resp">> /\ s # <<>> /\ s \in Seq({"header", "body", "resp"})
    BY <1>4, <2>1 DEF Contains
  <2> QED BY <2>1, <2>2, <2>3 DEF Leftovers
<1>5. CASE s = <<"header", "body", "resp">>
  <2>1. {i \in DOMAIN s : s[i] = "resp"} = {3} /\ Len(s) = 3 /\ s[3] = "resp" /\ Head(s) # "resp"
    BY <1>5
  <2>2. Cardinality({i \in DOMAIN s : s[i] = "resp"}) = 1
    BY <2>1, FS_Singleton
  <2>3. Contains(s, "resp") /\ Tail(s) = <<"body", "resp">> /\ s # <<>> /\ s \in Seq({"header", "body", "resp"})
    BY <1>5, <2>1 DEF Contains
  <2> QED BY <2>1, <2>2, <2>3 DEF Leftovers
<1> QED BY <1>1, <1>2, <1>3, <1>4, <1>5 DEF Leftovers

LEMMA AnswerQueued ==
  ASSUME NEW a \in Answers
  PROVE  <<>> \o a \in Leftovers \ {<<>>}
BY DEF Answers, Leftovers

LEMMA NothingLeft == <<>> \in Leftovers
BY DEF Leftovers

LEMMA ConnInvInit == Init => ConnInv
<1> SUFFICES ASSUME Init PROVE ConnInv
  OBVIOUS
<1>1. tasks \in Leftovers
  BY NothingLeft, Zenon DEF Init
<1>2. ConnTypes
  BY DEF Init, ConnTypes
<1>3. ConnFlags
  BY DEF Init, ConnFlags
<1> QED BY <1>1, <1>2, <1>3 DEF Init, ConnInv


LEMMA ConnAccept == ConnInv /\ Accept => ConnInv'
<1> SUFFICES ASSUME ConnInv, Accept PROVE ConnInv'
  OBVIOUS
<1>1. tasks' \in Leftovers
  BY NothingLeft, LeftoverFacts, AnswerQueued DEF ConnInv, IdleInv, OutstandingInv,
     Accept, connVars, readVars, pcVars, peerVars
<1>2. ConnFlags'
  BY DEF ConnInv, ConnFlags, Accept, connVars, readVars, pcVars, peerVars
<1>3. ConnTypes'
  BY DEF ConnInv, IdleInv, OutstandingInv, ConnTypes, Accept, connVars, readVars,
     pcVars, peerVars
<1> QED BY <1>1, <1>2, <1>3 DEF ConnInv, IdleInv, OutstandingInv, ConnTypes, ConnFlags,
    Accept, connVars, readVars, pcVars, peerVars

LEMMA ConnSecure == ConnInv /\ Secure => ConnInv'
<1> SUFFICES ASSUME ConnInv, Secure PROVE ConnInv'
  OBVIOUS
<1>1. tasks' \in Leftovers
  BY NothingLeft, LeftoverFacts, AnswerQueued DEF ConnInv, IdleInv, OutstandingInv,
     Secure, Free, connVars, readVars, pcVars, peerVars
<1>2. ConnFlags'
  BY DEF ConnInv, ConnFlags, Secure, Free, connVars, readVars, pcVars, peerVars
<1>3. ConnTypes'
  BY DEF ConnInv, IdleInv, OutstandingInv, ConnTypes, Secure, Free, connVars, readVars,
     pcVars, peerVars
<1> QED BY <1>1, <1>2, <1>3 DEF ConnInv, IdleInv, OutstandingInv, ConnTypes, ConnFlags,
    Secure, Free, connVars, readVars, pcVars, peerVars

LEMMA ConnTimePasses == ConnInv /\ TimePasses => ConnInv'
<1> SUFFICES ASSUME ConnInv, TimePasses PROVE ConnInv'
  OBVIOUS
<1>1. tasks' \in Leftovers
  BY NothingLeft, LeftoverFacts, AnswerQueued DEF ConnInv, IdleInv, OutstandingInv,
     TimePasses, connVars, readVars, pcVars, peerVars
<1>2. ConnFlags'
  BY DEF ConnInv, ConnFlags, TimePasses, connVars, readVars, pcVars, peerVars
<1>3. ConnTypes'
  BY DEF ConnInv, IdleInv, OutstandingInv, ConnTypes, TimePasses, connVars, readVars,
     pcVars, peerVars
<1> QED BY <1>1, <1>2, <1>3 DEF ConnInv, IdleInv, OutstandingInv, ConnTypes, ConnFlags,
    TimePasses, connVars, readVars, pcVars, peerVars

LEMMA ConnPeerSends == Window = 1 /\ ConnInv /\ PeerSends => ConnInv'
<1> SUFFICES ASSUME Window = 1, ConnInv, PeerSends PROVE ConnInv'
  OBVIOUS
<1>1. tasks' \in Leftovers
  BY DEF ConnInv, PeerSends
<1>2. ConnFlags'
  BY DEF ConnInv, ConnFlags, PeerSends, connVars, readVars, pcVars, peerVars
<1>3. ConnTypes'
  BY DEF ConnInv, ConnFlags, ConnTypes, PeerSends, connVars, readVars, pcVars, peerVars
<1>4. IdleInv
  BY DEF ConnInv, IdleInv, OutstandingInv, ConnTypes, PeerSends
<1>5. CASE half
  <2>1. pend = 1 /\ pend' = 1 /\ half' = FALSE /\ inbox + buf + got <= 1 /\ inbox' = inbox + 1
    BY <1>4, <1>5 DEF ConnInv, IdleInv, ConnTypes, PeerSends
  <2>2. IdleInv'
    BY <1>4, <2>1 DEF ConnInv, IdleInv, ConnTypes, PeerSends, connVars, readVars, pcVars
  <2> QED BY <1>1, <1>2, <1>3, <2>2 DEF ConnInv, PeerSends, connVars, pcVars
<1>6. CASE ~half
  BY <1>1, <1>2, <1>3, <1>4, <1>6 DEF ConnInv, IdleInv, ConnTypes, ConnFlags,
     PeerSends, connVars, readVars, pcVars, peerVars
<1> QED BY <1>5, <1>6

LEMMA ConnPeerLeaves == ConnInv /\ PeerLeaves => ConnInv'
<1> SUFFICES ASSUME ConnInv, PeerLeaves PROVE ConnInv'
  OBVIOUS
<1>1. tasks' \in Leftovers
  BY NothingLeft, LeftoverFacts, AnswerQueued DEF ConnInv, IdleInv, OutstandingInv,
     PeerLeaves, connVars, readVars, pcVars, peerVars
<1>2. ConnFlags'
  BY DEF ConnInv, ConnFlags, PeerLeaves, connVars, readVars, pcVars, peerVars
<1>3. ConnTypes'
  BY DEF ConnInv, IdleInv, OutstandingInv, ConnTypes, PeerLeaves, connVars, readVars,
     pcVars, peerVars
<1> QED BY <1>1, <1>2, <1>3 DEF ConnInv, IdleInv, OutstandingInv, ConnTypes, ConnFlags,
    PeerLeaves, connVars, readVars, pcVars, peerVars

LEMMA ConnDrain == ConnInv /\ Drain => ConnInv'
<1> SUFFICES ASSUME ConnInv, Drain PROVE ConnInv'
  OBVIOUS
<1>1. tasks' \in Leftovers
  BY NothingLeft, LeftoverFacts, AnswerQueued DEF ConnInv, IdleInv, OutstandingInv,
     Drain, connVars, readVars, pcVars, peerVars
<1>2. ConnFlags'
  BY DEF ConnInv, ConnFlags, Drain, connVars, readVars, pcVars, peerVars
<1>3. ConnTypes'
  BY DEF ConnInv, IdleInv, OutstandingInv, ConnTypes, Drain, connVars, readVars,
     pcVars, peerVars
<1> QED BY <1>1, <1>2, <1>3 DEF ConnInv, IdleInv, OutstandingInv, ConnTypes, ConnFlags,
    Drain, connVars, readVars, pcVars, peerVars

LEMMA ConnWakeup == ConnInv /\ Wakeup => ConnInv'
<1> SUFFICES ASSUME ConnInv, Wakeup PROVE ConnInv'
  OBVIOUS
<1>1. tasks' \in Leftovers
  BY NothingLeft, LeftoverFacts, AnswerQueued DEF ConnInv, IdleInv, OutstandingInv,
     Wakeup, connVars, readVars, pcVars, peerVars
<1>2. ConnFlags'
  BY DEF ConnInv, ConnFlags, Wakeup, connVars, readVars, pcVars, peerVars
<1>3. ConnTypes'
  BY DEF ConnInv, IdleInv, OutstandingInv, ConnTypes, Wakeup, connVars, readVars,
     pcVars, peerVars
<1> QED BY <1>1, <1>2, <1>3 DEF ConnInv, IdleInv, OutstandingInv, ConnTypes, ConnFlags,
    Wakeup, connVars, readVars, pcVars, peerVars

LEMMA ConnReadBytes == ConnInv /\ ReadBytes => ConnInv'
<1> SUFFICES ASSUME ConnInv, ReadBytes PROVE ConnInv'
  OBVIOUS
<1>1. tasks' \in Leftovers
  BY NothingLeft, LeftoverFacts, AnswerQueued DEF ConnInv, IdleInv, OutstandingInv,
     ReadBytes, connVars, readVars, pcVars, peerVars
<1>2. ConnFlags'
  BY DEF ConnInv, ConnFlags, ReadBytes, connVars, readVars, pcVars, peerVars
<1>3. ConnTypes'
  BY DEF ConnInv, IdleInv, OutstandingInv, ConnTypes, ReadBytes, connVars, readVars,
     pcVars, peerVars
<1> QED BY <1>1, <1>2, <1>3 DEF ConnInv, IdleInv, OutstandingInv, ConnTypes, ConnFlags,
    ReadBytes, connVars, readVars, pcVars, peerVars

LEMMA ConnReadAgain == ConnInv /\ ReadAgain => ConnInv'
<1> SUFFICES ASSUME ConnInv, ReadAgain PROVE ConnInv'
  OBVIOUS
<1>1. tasks' \in Leftovers
  BY NothingLeft, LeftoverFacts, AnswerQueued DEF ConnInv, IdleInv, OutstandingInv,
     ReadAgain, CallWrite, connVars, readVars, pcVars, peerVars
<1>2. ConnFlags'
  BY DEF ConnInv, ConnFlags, ReadAgain, CallWrite, connVars, readVars, pcVars, peerVars
<1>3. ConnTypes'
  BY DEF ConnInv, IdleInv, OutstandingInv, ConnTypes, ReadAgain, CallWrite, connVars,
     readVars, pcVars, peerVars
<1> QED BY <1>1, <1>2, <1>3 DEF ConnInv, IdleInv, OutstandingInv, ConnTypes, ConnFlags,
    ReadAgain, CallWrite, connVars, readVars, pcVars, peerVars

LEMMA ConnReadEnd == ConnInv /\ ReadEnd => ConnInv'
<1> SUFFICES ASSUME ConnInv, ReadEnd PROVE ConnInv'
  OBVIOUS
<1>1. tasks' \in Leftovers
  BY NothingLeft DEF ConnInv, ReadEnd, Destroy, Free
<1>2. ConnFlags'
  BY DEF ConnInv, ConnFlags, ReadEnd, Destroy, Free, connVars, readVars, pcVars,
     peerVars
<1>3. CASE phase = 1
  <2>1. ConnTypes'
    BY <1>3 DEF ConnInv, ConnTypes, ReadEnd, Destroy, connVars, readVars, pcVars,
       peerVars
  <2> QED BY <1>1, <1>2, <1>3, <2>1 DEF ConnInv, IdleInv, OutstandingInv, ConnTypes,
      ConnFlags, ReadEnd, Destroy, connVars, readVars, pcVars, peerVars
<1>4. CASE phase # 1
  <2>1. Free /\ pc' = "loop" /\ UNCHANGED <<back, size, peerVars, full>>
    BY <1>4 DEF ReadEnd, Destroy
  <2>2. ConnTypes'
    BY <2>1 DEF ConnInv, ConnTypes, Free, connVars, readVars, pcVars, peerVars
  <2> QED BY <1>1, <1>2, <2>1, <2>2 DEF ConnInv, Free
<1> QED BY <1>3, <1>4

LEMMA ConnParse == ConnInv /\ Parse => ConnInv'
<1> SUFFICES ASSUME ConnInv, Parse PROVE ConnInv'
  OBVIOUS
<1>1. tasks' \in Leftovers
  BY NothingLeft, LeftoverFacts, AnswerQueued DEF ConnInv, IdleInv, OutstandingInv,
     Parse, connVars, readVars, pcVars, peerVars
<1>2. ConnFlags'
  BY DEF ConnInv, ConnFlags, Parse, connVars, readVars, pcVars, peerVars
<1>3. ConnTypes'
  BY DEF ConnInv, IdleInv, OutstandingInv, ConnTypes, Parse, connVars, readVars,
     pcVars, peerVars
<1> QED BY <1>1, <1>2, <1>3 DEF ConnInv, IdleInv, OutstandingInv, ConnTypes, ConnFlags,
    Parse, connVars, readVars, pcVars, peerVars

LEMMA ConnExec == ConnInv /\ Exec => ConnInv'
<1> SUFFICES ASSUME ConnInv, Exec PROVE ConnInv'
  OBVIOUS
<1>1. alive /\ IdleInv
  BY DEF ConnInv, IdleInv, OutstandingInv, Exec
<1>2. /\ got = 2 /\ buf = 0 /\ inbox = 0 /\ pend = 1 /\ ~half
  BY <1>1 DEF ConnInv, IdleInv, ConnTypes, ConnFlags, Exec
<1>3. ConnFlags'
  BY DEF ConnInv, ConnFlags, Exec, connVars, readVars, pcVars, peerVars
<1>4. ConnTypes'
  BY DEF ConnInv, ConnTypes, Exec, CallWrite, connVars, readVars, pcVars, peerVars
<1>5. pc' = "rest" /\ alive' /\ phase' = 1
  BY <1>1 DEF IdleInv, Exec, connVars
<1>6. CASE owes' = owes + 1 /\ tasks' = tasks
  BY <1>1, <1>2, <1>3, <1>4, <1>5, <1>6, NothingLeft DEF ConnInv, IdleInv,
     OutstandingInv, Exec, connVars, readVars, pcVars, peerVars
<1>7. CASE owes' = owes /\ \E a \in Answers : Queued(a)
  <2>1. tasks' \in Leftovers \ {<<>>}
    BY <1>1, <1>7, AnswerQueued DEF IdleInv, Queued
  <2> QED BY <1>1, <1>2, <1>3, <1>4, <1>5, <1>7, <2>1 DEF ConnInv, IdleInv,
      OutstandingInv, Exec, connVars, readVars, pcVars, peerVars
<1> QED BY <1>6, <1>7 DEF Exec

LEMMA ConnRest == ConnInv /\ Rest => ConnInv'
<1> SUFFICES ASSUME ConnInv, Rest PROVE ConnInv'
  OBVIOUS
<1>1. tasks' \in Leftovers
  BY NothingLeft, LeftoverFacts, AnswerQueued DEF ConnInv, IdleInv, OutstandingInv,
     Rest, connVars, readVars, pcVars, peerVars
<1>2. ConnFlags'
  BY DEF ConnInv, ConnFlags, Rest, connVars, readVars, pcVars, peerVars
<1>3. ConnTypes'
  BY DEF ConnInv, IdleInv, OutstandingInv, ConnTypes, Rest, connVars, readVars, pcVars,
     peerVars
<1> QED BY <1>1, <1>2, <1>3 DEF ConnInv, IdleInv, OutstandingInv, ConnTypes, ConnFlags,
    Rest, connVars, readVars, pcVars, peerVars

LEMMA ConnAppAnswers == ConnInv /\ AppAnswers => ConnInv'
<1> SUFFICES ASSUME ConnInv, AppAnswers PROVE ConnInv'
  OBVIOUS
<1>1. OutstandingInv /\ tasks = <<>> /\ owes = 1
  BY DEF ConnInv, IdleInv, OutstandingInv, ConnTypes, AppAnswers
<1>2. tasks' \in Leftovers \ {<<>>}
  <2>1. PICK a \in Answers : tasks' = tasks \o a
    BY DEF AppAnswers, Queued
  <2> QED BY <1>1, <2>1, AnswerQueued
<1>3. ConnFlags'
  BY DEF ConnInv, ConnFlags, AppAnswers, connVars, readVars, pcVars, peerVars
<1>4. ConnTypes'
  BY <1>1 DEF ConnInv, ConnTypes, AppAnswers, CallWrite, connVars, readVars, pcVars,
     peerVars
<1> QED BY <1>1, <1>2, <1>3, <1>4 DEF ConnInv, IdleInv, OutstandingInv, ConnTypes,
    AppAnswers, CallWrite, connVars, readVars, pcVars, peerVars

LEMMA ConnWriteNone == ConnInv /\ WriteNone => ConnInv'
<1> SUFFICES ASSUME ConnInv, WriteNone PROVE ConnInv'
  OBVIOUS
<1>1. tasks' \in Leftovers
  BY NothingLeft, LeftoverFacts, AnswerQueued DEF ConnInv, IdleInv, OutstandingInv,
     WriteNone, connVars, readVars, pcVars, peerVars
<1>2. ConnFlags'
  BY DEF ConnInv, ConnFlags, WriteNone, connVars, readVars, pcVars, peerVars
<1>3. ConnTypes'
  BY DEF ConnInv, IdleInv, OutstandingInv, ConnTypes, WriteNone, connVars, readVars,
     pcVars, peerVars
<1> QED BY <1>1, <1>2, <1>3 DEF ConnInv, IdleInv, OutstandingInv, ConnTypes, ConnFlags,
    WriteNone, connVars, readVars, pcVars, peerVars

LEMMA ConnWriteSent == ConnInv /\ WriteSent => ConnInv'
<1> SUFFICES ASSUME ConnInv, WriteSent PROVE ConnInv'
  OBVIOUS
<1>1. tasks' \in Leftovers
  BY NothingLeft, LeftoverFacts, AnswerQueued DEF ConnInv, IdleInv, OutstandingInv,
     WriteSent, Sending, connVars, readVars, pcVars, peerVars
<1>2. ConnFlags'
  BY DEF ConnInv, ConnFlags, WriteSent, Sending, connVars, readVars, pcVars, peerVars
<1>3. ConnTypes'
  BY DEF ConnInv, IdleInv, OutstandingInv, ConnTypes, WriteSent, Sending, connVars,
     readVars, pcVars, peerVars
<1> QED BY <1>1, <1>2, <1>3, LeftoverFacts, AnswerQueued DEF ConnInv, IdleInv,
    OutstandingInv, ConnTypes, ConnFlags, WriteSent, Sending, connVars, readVars,
    pcVars, peerVars

LEMMA ConnWriteAgain == ConnInv /\ WriteAgain => ConnInv'
<1> SUFFICES ASSUME ConnInv, WriteAgain PROVE ConnInv'
  OBVIOUS
<1>1. tasks' \in Leftovers
  BY NothingLeft, LeftoverFacts, AnswerQueued DEF ConnInv, IdleInv, OutstandingInv,
     WriteAgain, Sending, connVars, readVars, pcVars, peerVars
<1>2. ConnFlags'
  BY DEF ConnInv, ConnFlags, WriteAgain, Sending, connVars, readVars, pcVars, peerVars
<1>3. ConnTypes'
  BY DEF ConnInv, IdleInv, OutstandingInv, ConnTypes, WriteAgain, Sending, connVars,
     readVars, pcVars, peerVars
<1> QED BY <1>1, <1>2, <1>3 DEF ConnInv, IdleInv, OutstandingInv, ConnTypes, ConnFlags,
    WriteAgain, Sending, connVars, readVars, pcVars, peerVars

LEMMA ConnWriteFails == ConnInv /\ WriteFails => ConnInv'
<1> SUFFICES ASSUME ConnInv, WriteFails PROVE ConnInv'
  OBVIOUS
<1>1. tasks' \in Leftovers
  BY NothingLeft, LeftoverFacts, AnswerQueued DEF ConnInv, IdleInv, OutstandingInv,
     WriteFails, Sending, connVars, readVars, pcVars, peerVars
<1>2. ConnFlags'
  BY DEF ConnInv, ConnFlags, WriteFails, Sending, connVars, readVars, pcVars, peerVars
<1>3. ConnTypes'
  BY DEF ConnInv, IdleInv, OutstandingInv, ConnTypes, WriteFails, Sending, connVars,
     readVars, pcVars, peerVars
<1> QED BY <1>1, <1>2, <1>3, LeftoverFacts, AnswerQueued DEF ConnInv, IdleInv,
    OutstandingInv, ConnTypes, ConnFlags, WriteFails, Sending, connVars, readVars,
    pcVars, peerVars

LEMMA ConnRespDropped == ConnInv /\ RespDropped => ConnInv'
<1> SUFFICES ASSUME ConnInv, RespDropped PROVE ConnInv'
  OBVIOUS
<1>1. tasks' \in Leftovers
  BY NothingLeft, LeftoverFacts, AnswerQueued DEF ConnInv, IdleInv, OutstandingInv,
     RespDropped, connVars, readVars, pcVars, peerVars
<1>2. ConnFlags'
  BY DEF ConnInv, ConnFlags, RespDropped, connVars, readVars, pcVars, peerVars
<1>3. ConnTypes'
  BY DEF ConnInv, IdleInv, OutstandingInv, ConnTypes, RespDropped, connVars, readVars,
     pcVars, peerVars
<1> QED BY <1>1, <1>2, <1>3, LeftoverFacts, AnswerQueued DEF ConnInv, IdleInv,
    OutstandingInv, ConnTypes, ConnFlags, RespDropped, connVars, readVars, pcVars,
    peerVars

LEMMA ConnRespDone == ConnInv /\ RespDone => ConnInv'
<1> SUFFICES ASSUME ConnInv, RespDone PROVE ConnInv'
  OBVIOUS
<1>1. alive /\ OutstandingInv /\ owes = 0 /\ Tail(tasks) = <<>> /\ pc' = "loop" /\ pend' = 0
  <2>1. alive /\ OutstandingInv /\ owes = 0 /\ back = "loop"
    BY DEF ConnInv, IdleInv, OutstandingInv, RespDone
  <2>2. Tail(tasks) = <<>>
    BY LeftoverFacts DEF ConnInv, RespDone
  <2> QED BY <2>1, <2>2 DEF OutstandingInv, RespDone
<1>2. tasks' \in Leftovers
  BY <1>1, NothingLeft, Zenon DEF RespDone, Free
<1>3. ConnFlags'
  BY DEF ConnInv, ConnFlags, RespDone, Free, connVars, readVars, pcVars, peerVars
<1>4. CASE Free
  <2>1. ConnTypes'
    BY <1>1, <1>4 DEF ConnInv, ConnTypes, RespDone, Free
  <2> QED BY <1>1, <1>2, <1>3, <1>4, <2>1 DEF ConnInv, Free
<1>5. CASE ~Free
  <2>1. /\ destroy = 0 /\ tasks' = <<>>
        /\ phase' = 0 /\ gate' = 0 /\ got' = 0
        /\ UNCHANGED <<alive, destroy, due, buf, owes, evIn, evOut, back, size, peer, half, inbox, full>>
    BY <1>1, <1>5 DEF RespDone
  <2>2. ConnTypes'
    BY <1>1, <2>1 DEF ConnInv, ConnTypes
  <2>3. IdleInv'
    BY <1>1, <2>1 DEF OutstandingInv, IdleInv
  <2>4. alive' /\ pc' = "loop"
    BY <1>1, <2>1
  <2> QED BY <1>2, <1>3, <2>2, <2>3, <2>4 DEF ConnInv
<1> QED BY <1>4, <1>5

LEMMA ConnInvStep == Window = 1 /\ ConnInv /\ [Next]_vars => ConnInv'
<1> SUFFICES ASSUME Window = 1, ConnInv, [Next]_vars PROVE ConnInv'
  OBVIOUS
<1>1. CASE UNCHANGED vars
  BY <1>1 DEF ConnInv, IdleInv, OutstandingInv, ConnTypes, ConnFlags, vars, connVars,
     readVars, pcVars, peerVars
<1>2. CASE Next
  BY <1>2, ConnAccept, ConnSecure, ConnTimePasses, ConnPeerSends, ConnPeerLeaves,
     ConnDrain,
     ConnWakeup, ConnReadBytes, ConnReadAgain, ConnReadEnd, ConnParse, ConnExec, ConnRest,
     ConnAppAnswers, ConnWriteNone, ConnWriteSent, ConnWriteAgain, ConnWriteFails,
     ConnRespDropped, ConnRespDone DEF Next
<1> QED BY <1>1, <1>2

LEMMA ConnInvSafe == Window = 1 /\ ConnInv => RequestsApart
<1> SUFFICES ASSUME Window = 1, ConnInv PROVE RequestsApart
  OBVIOUS
<1>1. CleanWhenIdle
  BY DEF ConnInv, IdleInv, OutstandingInv, ConnTypes, CleanWhenIdle
<1>2. NoUseAfterFree
  BY DEF ConnInv, NoUseAfterFree
<1>3. OneAnswerEach
  <2>1. owes + (IF tasks = <<>> THEN 0 ELSE 1) <= pend
    BY DEF ConnInv, IdleInv, OutstandingInv, ConnTypes
  <2>2. Cardinality({i \in DOMAIN tasks : tasks[i] = "resp"}) = IF tasks = <<>> THEN 0 ELSE 1
    BY LeftoverFacts DEF ConnInv
  <2> QED BY <2>1, <2>2, Zenon DEF OneAnswerEach
<1>4. TypeOK
  <2>1. tasks \in Seq({"header", "body", "resp"})
    BY LeftoverFacts DEF ConnInv
  <2>2. pend \in 0 .. Window
    BY DEF ConnInv, ConnTypes
  <2> QED BY <2>1, <2>2, Zenon DEF ConnInv, ConnFlags, ConnTypes, TypeOK
<1> QED BY <1>1, <1>2, <1>3, <1>4, Zenon DEF RequestsApart

\* A client that waits for each answer never sees the rest of another request in its
\* own, and rns_http.c goes on with no connection that a callback has freed: each
\* request reaches the handler once and gets one answer, whatever the peer, the kernel
\* and the timer do between two recv or send calls.
THEOREM ConnSafe == ASSUME Window = 1 PROVE Spec => []RequestsApart
<1>1. Init => ConnInv
  BY ConnInvInit
<1>2. ConnInv /\ [Next]_vars => ConnInv'
  BY ConnInvStep
<1>3. ConnInv => RequestsApart
  BY ConnInvSafe
<1> QED BY <1>1, <1>2, <1>3, PTL DEF Spec

\* What Life is in each state
LEMMA LifeIs ==
  ASSUME ConnInv
  PROVE  /\ ~alive => Life = "free"
         /\ alive /\ phase = 0 => Life = "idle"
         /\ alive /\ phase = 1 /\ tasks # <<>> => Life = "flush"
         /\ alive /\ phase = 1 /\ tasks = <<>> /\ owes > 0 => Life = "busy"
         /\ alive /\ phase = 1 /\ tasks = <<>> /\ owes = 0 => Life = "stuck"
<1>1. Contains(tasks, "resp") <=> tasks # <<>>
  <2>1. tasks = <<>> => Len(tasks) = 0
    OBVIOUS
  <2>2. tasks = <<>> => ~Contains(tasks, "resp")
    BY <2>1 DEF Contains
  <2> QED BY <2>2, LeftoverFacts DEF ConnInv
<1>2. alive \in BOOLEAN /\ phase \in {0, 1} /\ owes \in Nat
  BY DEF ConnInv, ConnFlags, ConnTypes
<1> QED BY <1>1, <1>2 DEF Life

LEMMA LifeIsNext ==
  ASSUME ConnInv'
  PROVE  /\ ~alive' => Life' = "free"
         /\ alive' /\ phase' = 0 => Life' = "idle"
         /\ alive' /\ phase' = 1 /\ tasks' # <<>> => Life' = "flush"
         /\ alive' /\ phase' = 1 /\ tasks' = <<>> /\ owes' > 0 => Life' = "busy"
         /\ alive' /\ phase' = 1 /\ tasks' = <<>> /\ owes' = 0 => Life' = "stuck"
<1>1. Contains(tasks', "resp") <=> tasks' # <<>>
  <2>1. tasks' = <<>> => Len(tasks') = 0
    OBVIOUS
  <2>2. tasks' = <<>> => ~Contains(tasks', "resp")
    BY <2>1 DEF Contains
  <2> QED BY <2>2, LeftoverFacts DEF ConnInv
<1>2. alive' \in BOOLEAN /\ phase' \in {0, 1} /\ owes' \in Nat
  BY DEF ConnInv, ConnFlags, ConnTypes
<1> QED BY <1>1, <1>2 DEF Life

\* Steps that the code above rns_http.c does not see
LEMMA LifeSame ==
  ASSUME ConnInv, ConnInv', UNCHANGED <<alive, phase, destroy, due, owes>>,
         (tasks' = <<>>) <=> (tasks = <<>>)
  PROVE  UNCHANGED Abstract!vars
<1>1. alive \in BOOLEAN /\ phase \in {0, 1} /\ owes \in Nat
  BY DEF ConnInv, ConnFlags, ConnTypes
<1>2. Life' = Life
  BY <1>1, LifeIs, LifeIsNext
<1> QED BY <1>2 DEF Abstract!vars

LEMMA LifeQuiet ==
  ASSUME ConnInv, ConnInv',
         PeerSends \/ PeerLeaves \/ Drain \/ Wakeup \/ ReadBytes \/ ReadAgain \/ Parse \/ Rest
           \/ WriteNone \/ WriteSent \/ WriteAgain \/ WriteFails
  PROVE  UNCHANGED Abstract!vars
<1>1. UNCHANGED <<alive, phase, destroy, due, owes>>
  BY DEF PeerSends, PeerLeaves, Drain, Wakeup, ReadBytes, ReadAgain, Parse, Rest,
     WriteNone,
     WriteSent, WriteAgain, WriteFails, connVars
<1>2. CASE tasks' = tasks
  BY <1>1, <1>2, LifeSame
<1>3. CASE WriteSent \/ WriteFails
  <2>1. tasks # <<>> /\ Head(tasks) # "resp" /\ tasks' = Tail(tasks)
    BY <1>3 DEF WriteSent, WriteFails, Sending
  <2>2. tasks' # <<>>
    BY <2>1, LeftoverFacts DEF ConnInv
  <2> QED BY <1>1, <2>1, <2>2, LifeSame
<1> QED BY <1>2, <1>3 DEF PeerSends, PeerLeaves, Drain, Wakeup, ReadBytes, ReadAgain,
    Parse, Rest,
     WriteNone, WriteSent, WriteAgain, WriteFails

LEMMA LifeFreed == ASSUME ConnInv', Free PROVE Abstract!Freed
BY LifeIsNext DEF Free, Abstract!Freed

\* What an action does to the abstract life of a connection
LEMMA LifeStep ==
  ASSUME ConnInv, ConnInv', Next
  PROVE  Abstract!Next \/ UNCHANGED Abstract!vars
<1>1. CASE Accept
  <2>1. Life = "free" /\ Life' = "idle"
    BY <1>1, LifeIs, LifeIsNext DEF Accept
  <2> QED BY <1>1, <2>1 DEF Accept, Abstract!Next, Abstract!Accept
<1>2. CASE Secure
  <2>1. Life # "free"
    BY <1>2, LifeIs DEF Secure, ConnInv, IdleInv, OutstandingInv, ConnTypes
  <2> QED BY <1>2, <2>1, LifeFreed DEF Secure, Abstract!Next, Abstract!TimesOut
<1>3. CASE TimePasses
  <2>1. Life # "free"
    BY <1>3, LifeIs DEF TimePasses, ConnInv, IdleInv, OutstandingInv, ConnTypes
  <2>2. UNCHANGED <<alive, phase, destroy, tasks, owes>>
    BY <1>3 DEF TimePasses
  <2>3. Life' = Life
    BY <2>2 DEF Life
  <2> QED BY <1>3, <2>1, <2>2, <2>3 DEF TimePasses, Abstract!Next, Abstract!TimePasses
<1>4. CASE ReadEnd
  <2>1. alive
    BY <1>4 DEF ReadEnd, ConnInv
  <2>2. CASE phase = 1
    <3>1. destroy' = 1 /\ UNCHANGED <<alive, phase, tasks, owes, due>>
      BY <1>4, <2>2 DEF ReadEnd, Destroy
    <3>2. Life' = Life
      BY <3>1 DEF Life
    <3>3. Life \in {"busy", "flush", "stuck"}
      BY <2>1, <2>2, LifeIs DEF ConnInv, ConnTypes
    <3> QED BY <3>1, <3>2, <3>3 DEF Abstract!Next, Abstract!Leave
  <2>3. CASE phase # 1
    <3>1. Free
      BY <1>4, <2>3 DEF ReadEnd, Destroy
    <3>2. Life = "idle"
      BY <2>1, <2>3, LifeIs DEF ConnInv, ConnTypes
    <3> QED BY <3>1, <3>2, LifeFreed DEF Abstract!Next, Abstract!Leave
  <2> QED BY <2>2, <2>3
<1>5. CASE Exec
  <2>1. Life = "idle"
    BY <1>5, LifeIs DEF Exec, ConnInv, IdleInv, OutstandingInv
  <2>2. alive /\ alive' /\ phase' = 1 /\ due' = 0 /\ destroy' = destroy
    BY <1>5 DEF Exec, ConnInv
  <2>3. Life' \in {"busy", "flush"}
    <3>1. CASE owes' = owes + 1
      <4>1. owes' > 0
        BY <3>1 DEF ConnInv, ConnTypes
      <4> QED BY <2>2, <4>1, LifeIsNext
    <3>2. CASE \E a \in Answers : Queued(a)
      <4>1. tasks = <<>>
        BY <1>5 DEF Exec, ConnInv, IdleInv, OutstandingInv
      <4>2. tasks' # <<>>
        BY <3>2, <4>1, AnswerQueued DEF Queued
      <4> QED BY <2>2, <4>2, LifeIsNext
    <3> QED BY <1>5, <3>1, <3>2 DEF Exec
  <2> QED BY <2>1, <2>2, <2>3 DEF Abstract!Next, Abstract!Arrive
<1>6. CASE AppAnswers
  <2>1. alive /\ phase = 1 /\ tasks = <<>> /\ owes > 0
    BY <1>6 DEF AppAnswers, ConnInv, IdleInv, OutstandingInv, ConnTypes
  <2>2. alive' /\ phase' = 1 /\ UNCHANGED <<destroy, due>>
    BY <1>6, <2>1 DEF AppAnswers, connVars
  <2>3. tasks' # <<>>
    BY <1>6, <2>1, AnswerQueued DEF AppAnswers, Queued
  <2>4. Life = "busy" /\ Life' = "flush"
    BY <2>1, <2>2, <2>3, LifeIs, LifeIsNext
  <2> QED BY <2>2, <2>4 DEF Abstract!Next, Abstract!Answer
<1>7. CASE RespDropped
  <2>1. alive /\ phase = 1 /\ tasks # <<>> /\ owes = 0
    BY <1>7 DEF RespDropped, ConnInv, IdleInv, OutstandingInv
  <2>2. tasks' = <<>> /\ UNCHANGED <<alive, phase, destroy, due, owes>>
    BY <1>7, LeftoverFacts DEF RespDropped, ConnInv, connVars
  <2>3. Life = "flush" /\ Life' = "stuck"
    BY <2>1, <2>2, LifeIs, LifeIsNext
  <2> QED BY <2>2, <2>3 DEF Abstract!Next, Abstract!Fail
<1>8. CASE RespDone
  <2>1. alive /\ phase = 1 /\ tasks # <<>>
    BY <1>8 DEF RespDone, ConnInv, IdleInv, OutstandingInv
  <2>2. Life = "flush"
    BY <2>1, LifeIs
  <2>3. CASE Free
    BY <2>2, <2>3, LifeFreed DEF Abstract!Next, Abstract!Finish
  <2>4. CASE ~Free
    <3>1. destroy = 0 /\ phase' = 0 /\ UNCHANGED <<alive, destroy, due>>
      BY <1>8, <2>4 DEF RespDone
    <3>2. Life' = "idle"
      BY <2>1, <3>1, LifeIsNext
    <3> QED BY <2>2, <3>1, <3>2 DEF Abstract!Next, Abstract!Finish
  <2> QED BY <2>3, <2>4
<1> QED BY <1>1, <1>2, <1>3, <1>4, <1>5, <1>6, <1>7, <1>8, LifeQuiet DEF Next

\* rns_http.c keeps the promise of ConnLife: seen from the code above it, every step of
\* reading, parsing, writing and freeing is a step of the abstract life of a connection,
\* or none.  A connection with a request outstanding is freed by its timer only, and one
\* whose peer left is never used for another request.
THEOREM ConnLives == ASSUME Window = 1 PROVE Spec => LivesAsPromised
<1>1. Init => ConnInv /\ Abstract!Init
  BY ConnInvInit DEF Init, Abstract!Init, Life
<1>2. ConnInv /\ [Next]_vars => ConnInv'
  BY ConnInvStep
<1>3. ConnInv /\ ConnInv' /\ [Next]_vars => [Abstract!Next]_(Abstract!vars)
  <2>1. UNCHANGED vars => UNCHANGED Abstract!vars
    BY DEF vars, connVars, Abstract!vars, Life
  <2> QED BY <2>1, LifeStep
<1> QED BY <1>1, <1>2, <1>3, PTL DEF Spec, LivesAsPromised, Abstract!Spec

------------------------------------------------------------------------------
(* HttpWrite *)

\* What may be attached to answers, and the tasks for it
Pieces == Writer!Parts \X (1 .. MaxAnswers)
WriteTasks == [part : Writer!Parts \cup {"resp"}, answer : 1 .. MaxAnswers, left : Nat]

WriteTypes ==
  /\ wTasks \in Seq(WriteTasks)
  /\ wWire \in Seq(Pieces) /\ wPromised \in Seq(Pieces)
  /\ wFp \in [1 .. MaxAnswers -> {"none", "open", "closed", "leaked"}]
  /\ wNext \in 1 .. MaxAnswers + 1 /\ wEnded \subseteq 1 .. MaxAnswers

\* The tasks are in the order of the answers, and those of an answer in the order header,
\* body or file, resp; an answer that ended has none.
Before(t, u) ==
  \/ t.answer < u.answer
  \/ t.answer = u.answer /\ t.part = "header" /\ u.part \in {"body", "file", "resp"}
  \/ t.answer = u.answer /\ t.part \in {"body", "file"} /\ u.part = "resp"

TasksSorted ==
  /\ \A i, j \in 1 .. Len(wTasks) : i < j => Before(wTasks[i], wTasks[j])
  /\ \A i \in 1 .. Len(wTasks) :
       /\ wTasks[i].answer < wNext /\ wTasks[i].answer \notin wEnded
       /\ wTasks[i].part = "resp" => wTasks[i].left = 0
  /\ \A n \in wEnded : n < wNext

\* The task of part p of answer n
Is(t, p, n) == t.part = p /\ t.answer = n
NoTask(p, n) == \A i \in 1 .. Len(wTasks) : ~Is(wTasks[i], p, n)

\* What of an answer is not on the wire is what its tasks have left.
Accounts(p, n) ==
  /\ \A i \in 1 .. Len(wTasks) : Is(wTasks[i], p, n) =>
       Writer!Count(wPromised, <<p, n>>) = Writer!Count(wWire, <<p, n>>) + wTasks[i].left
  /\ (wAlive \/ n \in wEnded) /\ NoTask(p, n) =>
       Writer!Count(wPromised, <<p, n>>) = Writer!Count(wWire, <<p, n>>)

Balance == \A n \in (1 .. MaxAnswers) \ wSpoiled, p \in Writer!Parts : Accounts(p, n)

\* Behind what is on the wire, the tasks cut what was promised: the i-th has the units
\* from c[i - 1] to c[i].
CutsOf(c, ts, m, pr) ==
  /\ c \in [0 .. Len(ts) -> 0 .. Len(pr)]
  /\ c[0] = m /\ c[Len(ts)] = Len(pr)
  /\ \A i \in 1 .. Len(ts) :
       /\ c[i] = c[i - 1] + ts[i].left
       /\ \A j \in c[i - 1] + 1 .. c[i] : pr[j] = <<ts[i].part, ts[i].answer>>
Cuts(c) == CutsOf(c, wTasks, Len(wWire), wPromised)

Laid ==
  wSpoiled = {} =>
    /\ Len(wWire) <= Len(wPromised) /\ \A j \in 1 .. Len(wWire) : wWire[j] = wPromised[j]
    /\ wAlive => \E c : Cuts(c)

FileTask(n) == \E i \in 1 .. Len(wTasks) : Is(wTasks[i], "file", n)
FilesKnown == \A n \in 1 .. MaxAnswers : (wFp[n] = "open") <=> FileTask(n)

WriteRest == wAlive \in BOOLEAN /\ (~wAlive => wTasks = <<>> /\ ~wRunning)

WriteInv == WriteTypes /\ TasksSorted /\ Balance /\ Laid /\ FilesKnown /\ WriteRest

------------------------------------------------------------------------------

\* Two sequences, one behind the other
LEMMA Joined ==
  ASSUME NEW S, NEW a \in Seq(S), NEW b \in Seq(S)
  PROVE  /\ a \o b \in Seq(S) /\ Len(a \o b) = Len(a) + Len(b)
         /\ \A i \in 1 .. Len(a) : (a \o b)[i] = a[i]
         /\ \A i \in 1 .. Len(b) : (a \o b)[Len(a) + i] = b[i]
<1>1. /\ a \o b \in Seq(S) /\ Len(a \o b) = Len(a) + Len(b)
      /\ \A i \in 1 .. Len(a) + Len(b) : (a \o b)[i] = IF i <= Len(a) THEN a[i] ELSE b[i - Len(a)]
  BY ConcatProperties
<1>2. Len(a) \in Nat /\ Len(b) \in Nat
  OBVIOUS
<1>3. ASSUME NEW i \in 1 .. Len(a) PROVE (a \o b)[i] = a[i]
  <2>1. i \in 1 .. Len(a) + Len(b) /\ i <= Len(a)
    BY <1>2
  <2> QED BY <1>1, <2>1
<1>4. ASSUME NEW i \in 1 .. Len(b) PROVE (a \o b)[Len(a) + i] = b[i]
  <2>1. /\ Len(a) + i \in 1 .. Len(a) + Len(b) /\ ~(Len(a) + i <= Len(a))
        /\ (Len(a) + i) - Len(a) = i
    BY <1>2
  <2> QED BY <1>1, <2>1
<1> QED BY <1>1, <1>3, <1>4

\* Units has one piece, k times.
LEMMA UnitsAre ==
  ASSUME NEW p \in Writer!Parts, NEW n \in 1 .. MaxAnswers, NEW k \in Nat
  PROVE  /\ Writer!Units(p, n, k) \in Seq(Pieces)
         /\ Len(Writer!Units(p, n, k)) = k
         /\ \A i \in 1 .. k : Writer!Units(p, n, k)[i] = <<p, n>>
<1>1. <<p, n>> \in Pieces
  BY DEF Pieces
<1> QED BY <1>1 DEF Writer!Units

\* Count in terms of the Cardinality of this module
LEMMA CountIs ==
  ASSUME NEW s, NEW u
  PROVE  Writer!Count(s, u) = Cardinality({i \in DOMAIN s : s[i] = u})
BY DEF Writer!Count, Writer!Cardinality, Cardinality

\* A count is a number.
LEMMA CountNat ==
  ASSUME NEW s \in Seq(Pieces), NEW u
  PROVE  Writer!Count(s, u) \in Nat
<1> DEFINE A == {i \in 1 .. Len(s) : s[i] = u}
<1>1. IsFiniteSet(1 .. Len(s))
  BY FS_Interval
<1>2. IsFiniteSet(A)
  BY <1>1, FS_Subset
<1>3. A = {i \in DOMAIN s : s[i] = u}
  OBVIOUS
<1>4. Writer!Count(s, u) = Cardinality(A)
  BY <1>3, CountIs
<1> QED BY <1>2, <1>4, FS_CardinalityType

\* A sequence with the same value several times behind it
LEMMA SameBehind ==
  ASSUME NEW S, NEW s \in Seq(S), NEW t \in Seq(S), NEW x, \A i \in 1 .. Len(t) : t[i] = x
  PROVE  /\ DOMAIN (s \o t) = 1 .. Len(s) + Len(t)
         /\ \A i \in 1 .. Len(s) : (s \o t)[i] = s[i]
         /\ \A i \in Len(s) + 1 .. Len(s) + Len(t) : (s \o t)[i] = x
<1>1. /\ s \o t \in Seq(S) /\ Len(s \o t) = Len(s) + Len(t)
      /\ \A i \in 1 .. Len(s) : (s \o t)[i] = s[i]
      /\ \A i \in 1 .. Len(t) : (s \o t)[Len(s) + i] = t[i]
  BY Joined
<1>2. Len(s) \in Nat /\ Len(t) \in Nat
  OBVIOUS
<1>3. ASSUME NEW i \in Len(s) + 1 .. Len(s) + Len(t) PROVE (s \o t)[i] = x
  <2>1. i - Len(s) \in 1 .. Len(t) /\ Len(s) + (i - Len(s)) = i
    BY <1>2
  <2>2. (s \o t)[Len(s) + (i - Len(s))] = t[i - Len(s)]
    BY <1>1, <2>1
  <2> QED BY <2>1, <2>2
<1>4. DOMAIN (s \o t) = 1 .. Len(s \o t)
  BY <1>1
<1> QED BY <1>1, <1>3, <1>4

\* The size of the next k numbers
LEMMA SpanCard ==
  ASSUME NEW a \in Nat, NEW k \in Nat
  PROVE  IsFiniteSet(a + 1 .. a + k) /\ Cardinality(a + 1 .. a + k) = k
<1>1. a + 1 \in Int /\ a + k \in Int
  OBVIOUS
<1>2. /\ IsFiniteSet(a + 1 .. a + k)
      /\ Cardinality(a + 1 .. a + k) = IF a + 1 > a + k THEN 0 ELSE (a + k) - (a + 1) + 1
  BY <1>1, FS_Interval
<1>3. (IF a + 1 > a + k THEN 0 ELSE (a + k) - (a + 1) + 1) = k
  OBVIOUS
<1> QED BY <1>2, <1>3

\* What several equal entries behind a sequence add to a count
LEMMA CountBehind ==
  ASSUME NEW s \in Seq(Pieces), NEW t \in Seq(Pieces), NEW x, \A i \in 1 .. Len(t) : t[i] = x,
         NEW u
  PROVE  Writer!Count(s \o t, u) = Writer!Count(s, u) + (IF u = x THEN Len(t) ELSE 0)
<1> DEFINE A == {i \in 1 .. Len(s) : s[i] = u}
           B == IF u = x THEN Len(s) + 1 .. Len(s) + Len(t) ELSE {}
           AB == {i \in DOMAIN (s \o t) : (s \o t)[i] = u}
<1>1. Len(s) \in Nat /\ Len(t) \in Nat
  OBVIOUS
<1>2. /\ DOMAIN (s \o t) = 1 .. Len(s) + Len(t)
      /\ \A i \in 1 .. Len(s) : (s \o t)[i] = s[i]
      /\ \A i \in Len(s) + 1 .. Len(s) + Len(t) : (s \o t)[i] = x
  BY SameBehind
<1>3. AB = A \cup B /\ A \cap B = {}
  <2> DEFINE st == s \o t
  <2>0. /\ DOMAIN st = 1 .. Len(s) + Len(t)
        /\ \A i \in 1 .. Len(s) : st[i] = s[i]
        /\ \A i \in Len(s) + 1 .. Len(s) + Len(t) : st[i] = x
    BY <1>2
  <2>1. AB = {i \in DOMAIN st : st[i] = u}
    OBVIOUS
  <2> HIDE DEF st, AB
  <2>2. ASSUME NEW i PROVE i \in AB <=> i \in A \cup B
    <3>1. i \in AB <=> i \in 1 .. Len(s) + Len(t) /\ st[i] = u
      BY <2>0, <2>1
    <3>2. i \in 1 .. Len(s) + Len(t) <=> i \in 1 .. Len(s) \/ i \in Len(s) + 1 .. Len(s) + Len(t)
      BY <1>1
    <3>3. CASE u = x
      BY <2>0, <3>1, <3>2, <3>3
    <3>4. CASE u # x
      BY <2>0, <3>1, <3>2, <3>4
    <3> QED BY <3>3, <3>4
  <2>3. A \cap B = {}
    BY <1>1
  <2> QED BY <2>2, <2>3
<1> HIDE DEF AB
<1>4. IsFiniteSet(A) /\ IsFiniteSet(B) /\ Cardinality(B) = IF u = x THEN Len(t) ELSE 0
  <2>1. IsFiniteSet(1 .. Len(s))
    BY <1>1, FS_Interval
  <2>2. IsFiniteSet(A)
    BY <2>1, FS_Subset
  <2>3. CASE u = x
    <3>1. B = Len(s) + 1 .. Len(s) + Len(t)
      BY <2>3
    <3>2. IsFiniteSet(B) /\ Cardinality(B) = Len(t)
      BY <1>1, <3>1, SpanCard
    <3> QED BY <2>2, <2>3, <3>2
  <2>4. CASE u # x
    <3>1. B = {}
      BY <2>4
    <3> QED BY <2>2, <2>4, <3>1, FS_EmptySet
  <2> QED BY <2>3, <2>4
<1>5. Cardinality(AB) = Cardinality(A) + Cardinality(B)
  <2>1. Cardinality(A \cup B) = Cardinality(A) + Cardinality(B) - Cardinality(A \cap B)
    BY <1>4, FS_Union
  <2>2. Cardinality(A \cap B) = 0 /\ Cardinality(A) \in Nat /\ Cardinality(B) \in Nat
    BY <1>3, <1>4, FS_EmptySet, FS_CardinalityType
  <2> QED BY <1>3, <2>1, <2>2
<1>6. Writer!Count(s \o t, u) = Cardinality(AB)
  BY CountIs DEF AB
<1>7. Writer!Count(s, u) = Cardinality(A)
  <2>1. A = {i \in DOMAIN s : s[i] = u}
    OBVIOUS
  <2> QED BY <2>1, CountIs
<1> QED BY <1>4, <1>5, <1>6, <1>7

\* The units of one piece that go behind a sequence
LEMMA CountMore ==
  ASSUME NEW s \in Seq(Pieces), NEW p \in Writer!Parts, NEW n \in 1 .. MaxAnswers, NEW k \in Nat,
         NEW u
  PROVE  Writer!Count(s \o Writer!Units(p, n, k), u) =
           Writer!Count(s, u) + (IF u = <<p, n>> THEN k ELSE 0)
<1> DEFINE t == Writer!Units(p, n, k)
           x == <<p, n>>
<1>1. t \in Seq(Pieces) /\ Len(t) = k /\ \A i \in 1 .. k : t[i] = x
  BY UnitsAre
<1> HIDE DEF t, x
<1>2. t \in Seq(Pieces) /\ \A i \in 1 .. Len(t) : t[i] = x
  BY <1>1
<1>3. Writer!Count(s \o t, u) = Writer!Count(s, u) + (IF u = x THEN Len(t) ELSE 0)
  BY <1>2, CountBehind
<1> QED BY <1>1, <1>3 DEF t, x

\* A sequence without its first entry
LEMMA TailIs ==
  ASSUME NEW S, NEW s \in Seq(S), s # <<>>
  PROVE  /\ Len(s) \in Nat \ {0} /\ s[1] = Head(s) /\ Head(s) \in S
         /\ Tail(s) \in Seq(S) /\ Len(Tail(s)) = Len(s) - 1
         /\ \A i \in 1 .. Len(s) - 1 : Tail(s)[i] = s[i + 1]
OBVIOUS

\* One entry in front of a sequence
LEMMA HeadBefore ==
  ASSUME NEW S, NEW h \in Seq(S), NEW t \in Seq(S)
  PROVE  Len(h) = 1 =>
           /\ h \o t \in Seq(S) /\ Len(h \o t) = Len(t) + 1 /\ (h \o t)[1] = h[1]
           /\ \A i \in 2 .. Len(t) + 1 : (h \o t)[i] = t[i - 1]
<1>1. /\ h \o t \in Seq(S) /\ Len(h \o t) = Len(h) + Len(t)
      /\ \A i \in 1 .. Len(h) : (h \o t)[i] = h[i]
      /\ \A i \in 1 .. Len(t) : (h \o t)[Len(h) + i] = t[i]
  BY Joined
<1>2. SUFFICES ASSUME Len(h) = 1
               PROVE  /\ h \o t \in Seq(S) /\ Len(h \o t) = Len(t) + 1 /\ (h \o t)[1] = h[1]
                      /\ \A i \in 2 .. Len(t) + 1 : (h \o t)[i] = t[i - 1]
  OBVIOUS
<1>3. Len(t) \in Nat
  OBVIOUS
<1>4. ASSUME NEW i \in 2 .. Len(t) + 1 PROVE (h \o t)[i] = t[i - 1]
  <2>1. i - 1 \in 1 .. Len(t) /\ Len(h) + (i - 1) = i
    BY <1>2, <1>3
  <2> QED BY <1>1, <2>1
<1> QED BY <1>1, <1>2, <1>3, <1>4

\* A sequence with another first entry: rns_list_first, whose task is changed in place
LEMMA HeadPut ==
  ASSUME NEW S, NEW s \in Seq(S), s # <<>>, NEW x \in S
  PROVE  /\ <<x>> \o Tail(s) \in Seq(S) /\ Len(<<x>> \o Tail(s)) = Len(s)
         /\ (<<x>> \o Tail(s))[1] = x
         /\ \A i \in 2 .. Len(s) : (<<x>> \o Tail(s))[i] = s[i]
<1>1. <<x>> \in Seq(S) /\ Len(<<x>>) = 1 /\ <<x>>[1] = x
  OBVIOUS
<1>2. Tail(s) \in Seq(S) /\ Len(Tail(s)) = Len(s) - 1 /\ Len(s) \in Nat
      /\ \A i \in 1 .. Len(s) - 1 : Tail(s)[i] = s[i + 1]
  BY TailIs
<1>3. /\ <<x>> \o Tail(s) \in Seq(S) /\ Len(<<x>> \o Tail(s)) = Len(Tail(s)) + 1
      /\ (<<x>> \o Tail(s))[1] = <<x>>[1]
      /\ \A i \in 2 .. Len(Tail(s)) + 1 : (<<x>> \o Tail(s))[i] = Tail(s)[i - 1]
  <2> DEFINE h == <<x>>
             r == Tail(s)
  <2>1. h \in Seq(S) /\ r \in Seq(S) /\ Len(h) = 1
    BY <1>1, <1>2
  <2> HIDE DEF h, r
  <2>2. /\ h \o r \in Seq(S) /\ Len(h \o r) = Len(r) + 1 /\ (h \o r)[1] = h[1]
        /\ \A i \in 2 .. Len(r) + 1 : (h \o r)[i] = r[i - 1]
    BY <2>1, HeadBefore
  <2> QED BY <2>2, Zenon DEF h, r
<1>4. ASSUME NEW i \in 2 .. Len(s) PROVE (<<x>> \o Tail(s))[i] = s[i]
  <2>1. i \in 2 .. Len(Tail(s)) + 1 /\ i - 1 \in 1 .. Len(s) - 1 /\ (i - 1) + 1 = i
    BY <1>2
  <2>2. (<<x>> \o Tail(s))[i] = Tail(s)[i - 1]
    BY <1>3, <2>1, Zenon
  <2>3. Tail(s)[i - 1] = s[i]
    BY <1>2, <2>1
  <2> QED BY <2>2, <2>3, Zenon
<1>5. Len(Tail(s)) + 1 = Len(s)
  BY <1>2
<1> QED BY <1>1, <1>3, <1>4, <1>5, Zenon

\* A connection begins without tasks.
LEMMA WriteInit == Writer!Bounds /\ Writer!Init => WriteInv
<1> SUFFICES ASSUME Writer!Bounds, Writer!Init PROVE WriteInv
  OBVIOUS
<1> USE DEF Writer!Bounds, Writer!Init
<1>1. Len(wTasks) = 0 /\ 1 .. Len(wTasks) = {} /\ Len(wWire) = 0 /\ Len(wPromised) = 0
  OBVIOUS
<1>2. WriteTypes
  BY DEF WriteTypes
<1>3. TasksSorted
  BY <1>1 DEF TasksSorted
<1>4. Balance
  BY <1>1 DEF Balance, Accounts
<1>5. Laid
  <2> DEFINE c == [i \in 0 .. 0 |-> 0]
  <2>1. Cuts(c)
    BY <1>1 DEF Cuts, CutsOf
  <2> QED BY <1>1, <2>1 DEF Laid
<1>6. FilesKnown
  BY <1>1 DEF FilesKnown, FileTask
<1> QED BY <1>2, <1>3, <1>4, <1>5, <1>6 DEF WriteInv, WriteRest

------------------------------------------------------------------------------
(* The tasks stay *)

\* write_func begins, meets EAGAIN or returns.
LEMMA TasksStay ==
  ASSUME WriteInv,
         UNCHANGED <<wTasks, wPromised, wWire, wFp, wEnded, wSpoiled, wAlive, wNext>>,
         wRunning' => wAlive
  PROVE  WriteInv'
<1>1. WriteTypes'
  BY DEF WriteInv, WriteTypes
<1>2. TasksSorted'
  BY DEF WriteInv, TasksSorted
<1>3. Balance'
  <2> SUFFICES ASSUME NEW n \in (1 .. MaxAnswers) \ wSpoiled', NEW p \in Writer!Parts
               PROVE  Accounts(p, n)'
    BY DEF Balance
  <2>1. Accounts(p, n)
    BY DEF WriteInv, Balance
  <2> QED BY <2>1 DEF Accounts, NoTask
<1>4. Laid'
  <2> SUFFICES ASSUME wSpoiled' = {} PROVE Laid'
    BY DEF Laid
  <2>1. ASSUME NEW c, Cuts(c) PROVE Cuts(c)'
    BY <2>1 DEF Cuts, CutsOf
  <2> QED BY <2>1 DEF WriteInv, Laid
<1>5. FilesKnown'
  BY DEF WriteInv, FilesKnown, FileTask
<1> QED BY <1>1, <1>2, <1>3, <1>4, <1>5 DEF WriteInv, WriteRest

------------------------------------------------------------------------------
(* The first task is done with: it has nothing left or failed, or it is the end of an *)
(* answer.                                                                          *)

\* The done and error callbacks, and a failed answer's resp task
LEMMA FirstGone ==
  ASSUME WriteInv, wTasks # <<>>, wTasks' = Tail(wTasks), wAlive,
         UNCHANGED <<wPromised, wWire, wNext, wAlive>>,
         wFp' = IF wTasks[1].part = "file" THEN [wFp EXCEPT ![wTasks[1].answer] = "closed"] ELSE wFp,
         \/ wSpoiled' = wSpoiled /\ wTasks[1].left = 0
         \/ wSpoiled' = wSpoiled \cup {wTasks[1].answer},
         wEnded' = wEnded \/ (wTasks[1].part = "resp" /\ wEnded' = wEnded \cup {wTasks[1].answer})
  PROVE  WriteInv'
<1> DEFINE t == wTasks[1]
           N == Len(wTasks)
<1>1. /\ N \in Nat \ {0} /\ t \in WriteTasks
      /\ wTasks' \in Seq(WriteTasks) /\ Len(wTasks') = N - 1
      /\ \A i \in 1 .. N - 1 : wTasks'[i] = wTasks[i + 1] /\ wTasks[i + 1] \in WriteTasks
  <2>1. wTasks \in Seq(WriteTasks)
    BY DEF WriteInv, WriteTypes
  <2> QED BY <2>1, TailIs
<1>2. \A i \in 2 .. N : Before(t, wTasks[i])
  BY <1>1 DEF WriteInv, TasksSorted
<1>3. \A i \in 1 .. N - 1 : i + 1 \in 2 .. N /\ i + 1 \in 1 .. N
  BY <1>1
<1>4. WriteTypes'
  <2>1. t.answer \in 1 .. MaxAnswers
    BY <1>1 DEF WriteTasks
  <2>2. wEnded' \subseteq 1 .. MaxAnswers
    BY <2>1 DEF WriteInv, WriteTypes
  <2>3. wFp' \in [1 .. MaxAnswers -> {"none", "open", "closed", "leaked"}]
    BY DEF WriteInv, WriteTypes
  <2> QED BY <1>1, <2>2, <2>3 DEF WriteInv, WriteTypes
<1>5. TasksSorted'
  <2>1. ASSUME NEW i \in 1 .. N - 1, NEW j \in 1 .. N - 1, i < j
        PROVE  Before(wTasks'[i], wTasks'[j])
    <3>1. i + 1 < j + 1
      BY <2>1
    <3>2. Before(wTasks[i + 1], wTasks[j + 1])
      BY <1>3, <3>1 DEF WriteInv, TasksSorted
    <3> QED BY <1>1, <3>2
  <2>2. ASSUME NEW i \in 1 .. N - 1
        PROVE  /\ wTasks'[i].answer < wNext /\ wTasks'[i].answer \notin wEnded'
               /\ wTasks'[i].part = "resp" => wTasks'[i].left = 0
    <3>1. /\ wTasks[i + 1].answer < wNext /\ wTasks[i + 1].answer \notin wEnded
          /\ wTasks[i + 1].part = "resp" => wTasks[i + 1].left = 0
      BY <1>3 DEF WriteInv, TasksSorted
    <3>2. t.part = "resp" => wTasks[i + 1].answer # t.answer
      BY <1>1, <1>2, <1>3 DEF Before, WriteTasks, Writer!Parts
    <3> QED BY <1>1, <3>1, <3>2
  <2>3. \A n \in wEnded' : n < wNext
    BY <1>1 DEF WriteInv, TasksSorted
  <2> QED BY <1>1, <2>1, <2>2, <2>3 DEF TasksSorted
<1>6. Balance'
  <2> SUFFICES ASSUME NEW n \in (1 .. MaxAnswers) \ wSpoiled', NEW p \in Writer!Parts
               PROVE  Accounts(p, n)'
    BY DEF Balance
  <2>1. Accounts(p, n)
    BY DEF WriteInv, Balance
  <2>2. ASSUME NEW i \in 1 .. N - 1, Is(wTasks'[i], p, n)
        PROVE  Writer!Count(wPromised, <<p, n>>) = Writer!Count(wWire, <<p, n>>) + wTasks'[i].left
    <3>1. wTasks'[i] = wTasks[i + 1] /\ i + 1 \in 1 .. N
      BY <1>1, <1>3
    <3> QED BY <2>1, <2>2, <3>1 DEF Accounts
  <2>3. ASSUME \A i \in 1 .. N - 1 : ~Is(wTasks'[i], p, n)
        PROVE  Writer!Count(wPromised, <<p, n>>) = Writer!Count(wWire, <<p, n>>)
    <3>1. \A i \in 2 .. N : ~Is(wTasks[i], p, n)
      <4> SUFFICES ASSUME NEW i \in 2 .. N PROVE ~Is(wTasks[i], p, n)
        OBVIOUS
      <4>1. i - 1 \in 1 .. N - 1 /\ (i - 1) + 1 = i
        BY <1>1
      <4>2. wTasks'[i - 1] = wTasks[i]
        BY <1>1, <4>1
      <4> QED BY <2>3, <4>1, <4>2
    <3>2. CASE Is(t, p, n)
      <4>1. t.left = 0
        BY <3>2 DEF Is
      <4>2. Writer!Count(wWire, <<p, n>>) \in Nat
        BY CountNat DEF WriteInv, WriteTypes
      <4>3. 1 \in 1 .. N
        BY <1>1
      <4> QED BY <2>1, <3>2, <4>1, <4>2, <4>3 DEF Accounts
    <3>3. CASE ~Is(t, p, n)
      <4>1. NoTask(p, n)
        BY <1>1, <3>1, <3>3 DEF NoTask
      <4> QED BY <2>1, <4>1 DEF Accounts
    <3> QED BY <3>2, <3>3
  <2> QED BY <1>1, <2>2, <2>3 DEF Accounts, NoTask
<1>7. Laid'
  <2> SUFFICES ASSUME wSpoiled' = {} PROVE \E c : Cuts(c)'
    BY DEF WriteInv, Laid
  <2>1. wSpoiled = {} /\ t.left = 0
    OBVIOUS
  <2>2. PICK c : Cuts(c)
    BY <2>1 DEF WriteInv, Laid
  <2> DEFINE d == [i \in 0 .. N - 1 |-> c[i + 1]]
  <2>3. \A i \in 0 .. N - 1 : i + 1 \in 0 .. N
    BY <1>1
  <2>4. d \in [0 .. N - 1 -> 0 .. Len(wPromised)] /\ \A i \in 0 .. N - 1 : d[i] = c[i + 1]
    BY <2>2, <2>3 DEF Cuts, CutsOf
  <2>5. d[0] = Len(wWire) /\ d[N - 1] = Len(wPromised)
    <3>1. c[1] = c[0] + t.left /\ c[0] = Len(wWire) /\ c[0] \in Nat /\ c[N] = Len(wPromised)
      BY <1>1, <2>2 DEF Cuts, CutsOf
    <3> QED BY <1>1, <2>1, <2>4, <3>1
  <2>6. ASSUME NEW i \in 1 .. N - 1
        PROVE  /\ d[i] = d[i - 1] + wTasks'[i].left
               /\ \A j \in d[i - 1] + 1 .. d[i] : wPromised[j] = <<wTasks'[i].part, wTasks'[i].answer>>
    <3>1. i \in 0 .. N - 1 /\ i - 1 \in 0 .. N - 1 /\ (i - 1) + 1 = i /\ (i + 1) - 1 = i
      BY <1>1
    <3>2. d[i] = c[i + 1] /\ d[i - 1] = c[i]
      BY <2>4, <3>1
    <3>3. /\ c[i + 1] = c[(i + 1) - 1] + wTasks[i + 1].left
          /\ \A j \in c[(i + 1) - 1] + 1 .. c[i + 1] : wPromised[j] = <<wTasks[i + 1].part, wTasks[i + 1].answer>>
      BY <1>3, <2>2 DEF Cuts, CutsOf
    <3> QED BY <1>1, <3>1, <3>2, <3>3
  <2> HIDE DEF d
  <2>7. PICK e : e = d
    OBVIOUS
  <2>8. Cuts(e)'
    <3>1. e \in [0 .. Len(wTasks') -> 0 .. Len(wPromised')]
      BY <1>1, <2>4, <2>7
    <3>2. e[0] = Len(wWire') /\ e[Len(wTasks')] = Len(wPromised')
      BY <1>1, <2>5, <2>7
    <3>3. ASSUME NEW i \in 1 .. Len(wTasks')
          PROVE  /\ e[i] = e[i - 1] + wTasks'[i].left
                 /\ \A j \in e[i - 1] + 1 .. e[i] : wPromised'[j] = <<wTasks'[i].part, wTasks'[i].answer>>
      BY <1>1, <2>6, <2>7
    <3> QED BY <3>1, <3>2, <3>3 DEF Cuts, CutsOf
  <2> QED BY <2>8
<1>8. FilesKnown'
  <2> SUFFICES ASSUME NEW n \in 1 .. MaxAnswers PROVE ((wFp[n] = "open") <=> FileTask(n))'
    BY DEF FilesKnown
  <2>1. (wFp[n] = "open") <=> FileTask(n)
    BY DEF WriteInv, FilesKnown
  <2>2. FileTask(n)' <=> \E i \in 2 .. N : Is(wTasks[i], "file", n)
    <3>1. ASSUME NEW i \in 1 .. N - 1, Is(wTasks'[i], "file", n) PROVE \E k \in 2 .. N : Is(wTasks[k], "file", n)
      BY <1>1, <1>3, <3>1
    <3>2. ASSUME NEW i \in 2 .. N, Is(wTasks[i], "file", n) PROVE \E k \in 1 .. N - 1 : Is(wTasks'[k], "file", n)
      <4>1. i - 1 \in 1 .. N - 1 /\ (i - 1) + 1 = i
        BY <1>1
      <4> QED BY <1>1, <3>2, <4>1
    <3> QED BY <1>1, <3>1, <3>2 DEF FileTask
  <2>3. FileTask(n) <=> Is(t, "file", n) \/ \E i \in 2 .. N : Is(wTasks[i], "file", n)
    BY <1>1 DEF FileTask
  <2>4. CASE Is(t, "file", n)
    <3>1. \A i \in 2 .. N : ~Is(wTasks[i], "file", n)
      BY <1>1, <1>2, <2>4 DEF Before, Is, WriteTasks
    <3>2. wFp'[n] = "closed"
      BY <2>4 DEF Is, WriteInv, WriteTypes
    <3> QED BY <2>2, <3>1, <3>2
  <2>5. CASE ~Is(t, "file", n)
    <3>1. wFp'[n] = wFp[n]
      BY <2>5 DEF Is, WriteInv, WriteTypes
    <3> QED BY <2>1, <2>2, <2>3, <2>5, <3>1
  <2> QED BY <2>4, <2>5
<1> QED BY <1>4, <1>5, <1>6, <1>7, <1>8 DEF WriteInv, WriteRest

------------------------------------------------------------------------------
(* The connection is freed with its tasks. *)

\* rns_hconn_destroy, which frees the tasks and not their files
LEMMA Emptied ==
  ASSUME WriteInv, wAlive, wTasks' = <<>>, ~wAlive', wAlive' \in BOOLEAN, ~wRunning',
         UNCHANGED <<wPromised, wWire, wSpoiled, wNext>>,
         wFp' = [n \in 1 .. MaxAnswers |-> IF wFp[n] = "open" THEN "leaked" ELSE wFp[n]],
         \/ wEnded' = wEnded
         \/ /\ wTasks # <<>> /\ wTasks[1].part = "resp"
            /\ wEnded' = wEnded \cup {wTasks[1].answer}
  PROVE  WriteInv'
<1>1. Len(wTasks') = 0 /\ 1 .. Len(wTasks') = {}
  OBVIOUS
<1>2. wTasks \in Seq(WriteTasks) /\ Len(wTasks) \in Nat
  BY DEF WriteInv, WriteTypes
<1>3. WriteTypes'
  <2>1. wTasks # <<>> => wTasks[1].answer \in 1 .. MaxAnswers
    <3>1. wTasks # <<>> => wTasks[1] \in WriteTasks
      BY <1>2
    <3> QED BY <3>1 DEF WriteTasks
  <2>2. wEnded' \subseteq 1 .. MaxAnswers
    BY <2>1 DEF WriteInv, WriteTypes
  <2>3. wFp' \in [1 .. MaxAnswers -> {"none", "open", "closed", "leaked"}]
    BY DEF WriteInv, WriteTypes
  <2>4. wTasks' \in Seq(WriteTasks)
    OBVIOUS
  <2> QED BY <2>2, <2>3, <2>4 DEF WriteInv, WriteTypes
<1>4. TasksSorted'
  <2>1. ASSUME wTasks # <<>> PROVE wTasks[1].answer < wNext
    <3>1. 1 \in 1 .. Len(wTasks)
      BY <1>2, <2>1, TailIs
    <3> QED BY <3>1 DEF WriteInv, TasksSorted
  <2>2. \A n \in wEnded' : n < wNext
    BY <2>1 DEF WriteInv, TasksSorted
  <2> QED BY <1>1, <2>2 DEF TasksSorted
<1>5. Balance'
  <2> SUFFICES ASSUME NEW n \in (1 .. MaxAnswers) \ wSpoiled, NEW p \in Writer!Parts, n \in wEnded'
               PROVE  Writer!Count(wPromised, <<p, n>>) = Writer!Count(wWire, <<p, n>>)
    BY <1>1 DEF Balance, Accounts
  <2>1. Accounts(p, n)
    BY DEF WriteInv, Balance
  <2>2. CASE n \in wEnded
    <3>1. NoTask(p, n)
      BY <2>2 DEF NoTask, Is, WriteInv, TasksSorted
    <3> QED BY <2>1, <3>1 DEF Accounts
  <2>3. CASE n \notin wEnded
    <3>1. wTasks # <<>> /\ wTasks[1].part = "resp" /\ n = wTasks[1].answer
      BY <2>3
    <3>2. 1 \in 1 .. Len(wTasks)
      BY <1>2, <3>1, TailIs
    <3>3. ASSUME NEW i \in 1 .. Len(wTasks) PROVE ~Is(wTasks[i], p, n)
      <4>1. CASE i = 1
        BY <3>1, <4>1 DEF Is, Writer!Parts
      <4>2. CASE i # 1
        <5>1. Before(wTasks[1], wTasks[i]) /\ wTasks[1] \in WriteTasks /\ wTasks[i] \in WriteTasks
          BY <1>2, <3>2, <4>2 DEF WriteInv, TasksSorted
        <5>2. wTasks[1].answer < wTasks[i].answer
          BY <3>1, <5>1 DEF Before
        <5> QED BY <3>1, <5>1, <5>2 DEF Is, WriteTasks
      <4> QED BY <4>1, <4>2
    <3> QED BY <2>1, <3>3 DEF Accounts, NoTask
  <2> QED BY <2>2, <2>3
<1>6. Laid'
  BY DEF WriteInv, Laid
<1>7. FilesKnown'
  BY <1>1 DEF FilesKnown, FileTask
<1> QED BY <1>3, <1>4, <1>5, <1>6, <1>7 DEF WriteInv, WriteRest

------------------------------------------------------------------------------
(* The kernel takes a part of the first task. *)

\* What goes out no longer is left.
LEMMA Shifted ==
  ASSUME NEW a, NEW b \in Nat, NEW c, NEW k \in Nat, NEW m \in Nat, NEW l,
         a = b + m, c = b + k, l = m - k
  PROVE  a = c + l
OBVIOUS


\* rns_http_send_buffer_work and file_download_work
LEMMA PartSent ==
  ASSUME WriteInv, wTasks # <<>>, wAlive, wTasks[1].part # "resp", NEW k \in 1 .. wTasks[1].left,
         wTasks' = <<[wTasks[1] EXCEPT !.left = wTasks[1].left - k]>> \o Tail(wTasks),
         wWire' = wWire \o Writer!Units(wTasks[1].part, wTasks[1].answer, k),
         UNCHANGED <<wPromised, wFp, wEnded, wSpoiled, wAlive, wNext>>
  PROVE  WriteInv'
<1> DEFINE t == wTasks[1]
           x == [t EXCEPT !.left = t.left - k]
           N == Len(wTasks)
           u == Writer!Units(t.part, t.answer, k)
<1>1. wTasks \in Seq(WriteTasks)
  BY DEF WriteInv, WriteTypes
<1>2. N \in Nat \ {0} /\ t \in WriteTasks /\ 1 \in 1 .. N
  BY <1>1, TailIs
<1>3. /\ k \in Nat \ {0} /\ k <= t.left /\ x \in WriteTasks
      /\ x.left = t.left - k /\ x.part = t.part /\ x.answer = t.answer
  <2>1. t.left \in Nat /\ t = [part |-> t.part, answer |-> t.answer, left |-> t.left]
    BY <1>2 DEF WriteTasks
  <2>2. k \in Nat \ {0} /\ k <= t.left /\ t.left - k \in Nat
    BY <2>1
  <2>3. x = [part |-> t.part, answer |-> t.answer, left |-> t.left - k]
    BY <2>1
  <2>4. x \in WriteTasks
    BY <1>2, <2>2, <2>3 DEF WriteTasks
  <2> QED BY <2>2, <2>3, <2>4
<1>4. t.part \in Writer!Parts /\ t.answer \in 1 .. MaxAnswers
  BY <1>2 DEF WriteTasks
<1>5. /\ wTasks' \in Seq(WriteTasks) /\ Len(wTasks') = N /\ wTasks'[1] = x
      /\ \A i \in 2 .. N : wTasks'[i] = wTasks[i]
  <2> HIDE DEF x
  <2>1. /\ <<x>> \o Tail(wTasks) \in Seq(WriteTasks) /\ Len(<<x>> \o Tail(wTasks)) = Len(wTasks)
        /\ (<<x>> \o Tail(wTasks))[1] = x
        /\ \A i \in 2 .. Len(wTasks) : (<<x>> \o Tail(wTasks))[i] = wTasks[i]
    BY <1>1, <1>3, HeadPut
  <2>2. wTasks' = <<x>> \o Tail(wTasks)
    BY DEF x
  <2> QED BY <2>1, <2>2
<1>6. wWire \in Seq(Pieces) /\ wPromised \in Seq(Pieces)
  BY DEF WriteInv, WriteTypes
<1>7. u \in Seq(Pieces) /\ Len(u) = k /\ \A i \in 1 .. k : u[i] = <<t.part, t.answer>>
  BY <1>3, <1>4, UnitsAre
<1>8. /\ wWire' \in Seq(Pieces) /\ Len(wWire') = Len(wWire) + k
      /\ \A i \in 1 .. Len(wWire) : wWire'[i] = wWire[i]
      /\ \A i \in Len(wWire) + 1 .. Len(wWire) + k : wWire'[i] = <<t.part, t.answer>>
  <2> HIDE DEF u
  <2>1. \A i \in 1 .. Len(u) : u[i] = <<t.part, t.answer>>
    BY <1>7
  <2>2. /\ \A i \in 1 .. Len(wWire) : (wWire \o u)[i] = wWire[i]
        /\ \A i \in Len(wWire) + 1 .. Len(wWire) + Len(u) : (wWire \o u)[i] = <<t.part, t.answer>>
    BY <1>6, <1>7, <2>1, SameBehind
  <2>3. wWire \o u \in Seq(Pieces) /\ Len(wWire \o u) = Len(wWire) + Len(u)
    BY <1>6, <1>7, Joined
  <2>4. wWire' = wWire \o u
    BY DEF u
  <2> QED BY <1>7, <2>2, <2>3, <2>4
<1> HIDE DEF x, u
<1>9. ASSUME NEW i \in 1 .. N
      PROVE  /\ wTasks'[i].part = wTasks[i].part /\ wTasks'[i].answer = wTasks[i].answer
             /\ wTasks'[i].left = IF i = 1 THEN wTasks[i].left - k ELSE wTasks[i].left
  <2>1. CASE i = 1
    BY <1>3, <1>5, <2>1
  <2>2. CASE i # 1
    <3>1. i \in 2 .. N
      BY <2>2
    <3> QED BY <1>5, <2>2, <3>1
  <2> QED BY <2>1, <2>2
<1>10. WriteTypes'
  BY <1>5, <1>8 DEF WriteInv, WriteTypes
<1>11. TasksSorted'
  <2>1. ASSUME NEW i \in 1 .. N, NEW j \in 1 .. N, i < j PROVE Before(wTasks'[i], wTasks'[j])
    <3>1. Before(wTasks[i], wTasks[j])
      BY <2>1 DEF WriteInv, TasksSorted
    <3> QED BY <1>9, <3>1 DEF Before
  <2>2. ASSUME NEW i \in 1 .. N
        PROVE  /\ wTasks'[i].answer < wNext /\ wTasks'[i].answer \notin wEnded
               /\ wTasks'[i].part = "resp" => wTasks'[i].left = 0
    <3>1. /\ wTasks[i].answer < wNext /\ wTasks[i].answer \notin wEnded
          /\ wTasks[i].part = "resp" => wTasks[i].left = 0
      BY DEF WriteInv, TasksSorted
    <3> QED BY <1>9, <3>1
  <2>3. \A n \in wEnded : n < wNext
    BY DEF WriteInv, TasksSorted
  <2> QED BY <1>5, <2>1, <2>2, <2>3 DEF TasksSorted
<1>12. Balance'
  <2> SUFFICES ASSUME NEW n \in (1 .. MaxAnswers) \ wSpoiled, NEW p \in Writer!Parts
               PROVE  Accounts(p, n)'
    BY DEF Balance
  <2>1. Accounts(p, n)
    BY DEF WriteInv, Balance
  <2>2. Writer!Count(wWire', <<p, n>>) =
          Writer!Count(wWire, <<p, n>>) + (IF <<p, n>> = <<t.part, t.answer>> THEN k ELSE 0)
    <3>1. k \in Nat
      BY <1>3
    <3>2. Writer!Count(wWire \o Writer!Units(t.part, t.answer, k), <<p, n>>) =
            Writer!Count(wWire, <<p, n>>) + (IF <<p, n>> = <<t.part, t.answer>> THEN k ELSE 0)
      BY <1>4, <1>6, <3>1, CountMore
    <3> QED BY <3>2
  <2>3. Writer!Count(wWire, <<p, n>>) \in Nat
    BY <1>6, CountNat
  <2>4. Is(wTasks[1], p, n) <=> <<p, n>> = <<t.part, t.answer>>
    BY DEF Is
  <2>5. ASSUME NEW i \in 1 .. N PROVE Is(wTasks'[i], p, n) <=> Is(wTasks[i], p, n)
    BY <1>9 DEF Is
  <2>6. ASSUME NEW i \in 1 .. N, Is(wTasks'[i], p, n)
        PROVE  Writer!Count(wPromised, <<p, n>>) = Writer!Count(wWire', <<p, n>>) + wTasks'[i].left
    <3>1. Writer!Count(wPromised, <<p, n>>) = Writer!Count(wWire, <<p, n>>) + wTasks[i].left
      BY <2>1, <2>5, <2>6 DEF Accounts
    <3>2. CASE i = 1
      <4>1. <<p, n>> = <<t.part, t.answer>>
        BY <2>4, <2>5, <2>6, <3>2
      <4>2. wTasks'[i].left = t.left - k /\ t.left \in Nat
        BY <1>2, <1>9, <3>2 DEF WriteTasks
      <4>3. Writer!Count(wWire', <<p, n>>) = Writer!Count(wWire, <<p, n>>) + k
        BY <2>2, <4>1
      <4> HIDE DEF t
      <4>4. Writer!Count(wPromised, <<p, n>>) = Writer!Count(wWire, <<p, n>>) + t.left
        BY <3>1, <3>2 DEF t
      <4>5. k \in Nat /\ t.left \in Nat
        BY <1>3, <4>2
      <4> QED BY <2>3, <4>2, <4>3, <4>4, <4>5, Shifted
    <3>3. CASE i # 1
      <4>1. ~Is(wTasks[1], p, n)
        <5>0. 1 < i /\ 1 \in 1 .. Len(wTasks) /\ i \in 1 .. Len(wTasks)
          BY <1>2, <3>3
        <5>1. Before(wTasks[1], wTasks[i])
          BY <5>0 DEF WriteInv, TasksSorted
        <5>2. wTasks[i].part = p /\ wTasks[i].answer = n
          BY <2>5, <2>6 DEF Is
        <5>3. t.answer \in Nat /\ n \in Nat
          BY <1>4
        <5> QED BY <5>1, <5>2, <5>3 DEF Is, Before, Writer!Parts
      <4>2. Writer!Count(wWire', <<p, n>>) = Writer!Count(wWire, <<p, n>>) + 0
        BY <2>2, <2>4, <4>1
      <4>3. wTasks'[i].left = wTasks[i].left
        BY <1>9, <3>3
      <4> QED BY <2>3, <3>1, <4>2, <4>3
    <3> QED BY <3>2, <3>3
  <2>7. ASSUME \A i \in 1 .. N : ~Is(wTasks'[i], p, n)
        PROVE  Writer!Count(wPromised, <<p, n>>) = Writer!Count(wWire', <<p, n>>)
    <3>1. NoTask(p, n) /\ ~Is(wTasks[1], p, n)
      BY <1>2, <2>5, <2>7 DEF NoTask
    <3>2. Writer!Count(wWire', <<p, n>>) = Writer!Count(wWire, <<p, n>>) + 0
      BY <2>2, <2>4, <3>1
    <3>3. Writer!Count(wPromised, <<p, n>>) = Writer!Count(wWire, <<p, n>>)
      BY <2>1, <3>1 DEF Accounts
    <3> QED BY <2>3, <3>2, <3>3
  <2> QED BY <1>5, <2>6, <2>7 DEF Accounts, NoTask
<1>13. Laid'
  <2> SUFFICES ASSUME wSpoiled = {}
               PROVE  /\ Len(wWire') <= Len(wPromised)
                      /\ \A j \in 1 .. Len(wWire') : wWire'[j] = wPromised[j]
                      /\ \E c : Cuts(c)'
    BY DEF Laid
  <2>1. Len(wWire) <= Len(wPromised) /\ \A j \in 1 .. Len(wWire) : wWire[j] = wPromised[j]
    BY DEF WriteInv, Laid
  <2>2. PICK c : Cuts(c)
    BY DEF WriteInv, Laid
  <2>3. /\ c \in [0 .. N -> 0 .. Len(wPromised)]
        /\ c[0] = Len(wWire) /\ c[N] = Len(wPromised)
        /\ \A i \in 1 .. N :
             /\ c[i] = c[i - 1] + wTasks[i].left
             /\ \A j \in c[i - 1] + 1 .. c[i] : wPromised[j] = <<wTasks[i].part, wTasks[i].answer>>
    BY <2>2 DEF Cuts, CutsOf
  <2>4. /\ c[1] = Len(wWire) + t.left /\ c[1] \in 0 .. Len(wPromised)
        /\ \A j \in Len(wWire) + 1 .. Len(wWire) + t.left : wPromised[j] = <<t.part, t.answer>>
    <3>1. 1 \in 0 .. N /\ 1 \in 1 .. N /\ 1 - 1 = 0
      BY <1>2
    <3>2. /\ c[1] = c[1 - 1] + t.left
          /\ \A j \in c[1 - 1] + 1 .. c[1] : wPromised[j] = <<t.part, t.answer>>
      BY <2>3, <3>1, Zenon
    <3>3. c[1 - 1] = Len(wWire)
      BY <2>3, <3>1, Zenon
    <3>4. c[1] \in 0 .. Len(wPromised)
      BY <2>3, <3>1
    <3>5. c[1] = Len(wWire) + t.left
      BY <3>2, <3>3, Zenon
    <3> QED BY <3>2, <3>3, <3>4, <3>5, Zenon
  <2>5. Len(wWire) \in Nat /\ t.left \in Nat /\ Len(wPromised) \in Nat
    BY <1>2, <1>6 DEF WriteTasks
  <2> HIDE DEF t
  <2>6. Len(wWire') <= Len(wPromised)
    BY <1>3, <1>8, <2>4, <2>5
  <2>7. ASSUME NEW j \in 1 .. Len(wWire') PROVE wWire'[j] = wPromised[j]
    <3>1. CASE j <= Len(wWire)
      BY <1>8, <2>1, <2>5, <3>1
    <3>2. CASE j > Len(wWire)
      <4>1. j \in Len(wWire) + 1 .. Len(wWire) + k /\ j \in Len(wWire) + 1 .. Len(wWire) + t.left
        BY <1>3, <1>8, <2>5, <3>2
      <4> QED BY <1>8, <2>4, <4>1
    <3> QED BY <2>5, <3>1, <3>2
  <2>8. PICK e : e = [i \in 0 .. N |-> IF i = 0 THEN Len(wWire) + k ELSE c[i]]
    OBVIOUS
  <2>9. Cuts(e)'
    <3>0. Len(wWire) + k \in 0 .. Len(wPromised) /\ 0 \in 0 .. N
      BY <1>2, <1>3, <1>8, <2>5, <2>6
    <3>1. e \in [0 .. N -> 0 .. Len(wPromised)] /\ e[0] = Len(wWire) + k
          /\ \A i \in 1 .. N : e[i] = c[i]
      BY <1>2, <2>3, <2>8, <3>0
    <3>2. e[N] = Len(wPromised)
      BY <1>2, <2>3, <3>1
    <3>3. ASSUME NEW i \in 1 .. N
          PROVE  /\ e[i] = e[i - 1] + wTasks'[i].left
                 /\ \A j \in e[i - 1] + 1 .. e[i] :
                      wPromised[j] = <<wTasks'[i].part, wTasks'[i].answer>>
      <4>1. CASE i = 1
        <5>0. i - 1 = 0
          BY <4>1
        <5>1. e[i] = Len(wWire) + t.left /\ e[i - 1] = Len(wWire) + k
          <6>1. e[i] = c[i] /\ e[0] = Len(wWire) + k
            BY <3>1, Zenon
          <6>2. c[1] = Len(wWire) + t.left
            BY <2>4, Zenon
          <6> QED BY <4>1, <5>0, <6>1, <6>2, Zenon
        <5>2. /\ wTasks'[i].left = t.left - k /\ wTasks'[i].part = t.part
              /\ wTasks'[i].answer = t.answer
          BY <1>9, <4>1 DEF t
        <5>3. e[i] = e[i - 1] + wTasks'[i].left
          BY <1>3, <2>5, <5>1, <5>2
        <5>4. ASSUME NEW j \in e[i - 1] + 1 .. e[i] PROVE wPromised[j] = <<t.part, t.answer>>
          <6>1. j \in Len(wWire) + 1 .. Len(wWire) + t.left
            BY <1>3, <2>5, <5>1
          <6> QED BY <2>4, <6>1
        <5> QED BY <5>2, <5>3, <5>4
      <4>2. CASE i # 1
        <5>1. i - 1 \in 1 .. N
          BY <1>2, <4>2
        <5>2. e[i] = c[i] /\ e[i - 1] = c[i - 1]
          BY <3>1, <5>1
        <5>3. /\ wTasks'[i].left = wTasks[i].left /\ wTasks'[i].part = wTasks[i].part
              /\ wTasks'[i].answer = wTasks[i].answer
          BY <1>9, <4>2
        <5> QED BY <2>3, <5>2, <5>3
      <4> QED BY <4>1, <4>2
    <3>4. Len(wTasks') = N /\ wPromised' = wPromised /\ Len(wWire') = Len(wWire) + k
      BY <1>5, <1>8
    <3> QED BY <3>1, <3>2, <3>3, <3>4 DEF Cuts, CutsOf
  <2> QED BY <2>6, <2>7, <2>9
<1>14. FilesKnown'
  <2> SUFFICES ASSUME NEW n \in 1 .. MaxAnswers PROVE ((wFp[n] = "open") <=> FileTask(n))'
    BY DEF FilesKnown
  <2>1. (wFp[n] = "open") <=> FileTask(n)
    BY DEF WriteInv, FilesKnown
  <2>2. \A i \in 1 .. N : Is(wTasks'[i], "file", n) <=> Is(wTasks[i], "file", n)
    BY <1>9 DEF Is
  <2> QED BY <1>5, <2>1, <2>2 DEF FileTask
<1>15. WriteRest'
  <2>1. wTasks' # <<>>
    BY <1>2, <1>5
  <2> QED BY DEF WriteInv, WriteRest
<1> QED BY <1>10, <1>11, <1>12, <1>13, <1>14, <1>15 DEF WriteInv

------------------------------------------------------------------------------
(* An answer is given: its tasks b go behind the others. *)

LEMMA Within ==
  ASSUME NEW n \in Nat, NEW a \in 0 .. n, NEW b \in 0 .. n, NEW j \in a + 1 .. b
  PROVE  j \in 1 .. n
OBVIOUS

\* A task behind the others, and its units behind what was promised
LEMMA CutMore ==
  ASSUME NEW ts \in Seq(WriteTasks), NEW t \in WriteTasks, NEW m \in Nat,
         NEW pr \in Seq(Pieces), NEW pq \in Seq(Pieces),
         Len(pq) = Len(pr) + t.left, \A i \in 1 .. Len(pr) : pq[i] = pr[i],
         \A i \in Len(pr) + 1 .. Len(pr) + t.left : pq[i] = <<t.part, t.answer>>,
         NEW c, CutsOf(c, ts, m, pr)
  PROVE  \E d : CutsOf(d, Append(ts, t), m, pq)
<1> DEFINE N == Len(ts)
           us == Append(ts, t)
<1>1. N \in Nat /\ Len(pr) \in Nat /\ Len(pq) \in Nat /\ t.left \in Nat
  BY DEF WriteTasks
<1>2. /\ us \in Seq(WriteTasks) /\ Len(us) = N + 1 /\ us[N + 1] = t
      /\ \A i \in 1 .. N : us[i] = ts[i] /\ ts[i] \in WriteTasks
  OBVIOUS
<1> HIDE DEF us
<1>3. /\ c \in [0 .. N -> 0 .. Len(pr)]
      /\ c[0] = m /\ c[N] = Len(pr)
      /\ \A i \in 1 .. N :
           /\ c[i] = c[i - 1] + ts[i].left
           /\ \A j \in c[i - 1] + 1 .. c[i] : pr[j] = <<ts[i].part, ts[i].answer>>
  BY DEF CutsOf
<1>4. PICK d : d = [i \in 0 .. N + 1 |-> IF i = N + 1 THEN Len(pq) ELSE c[i]]
  OBVIOUS
<1>5. /\ d \in [0 .. N + 1 -> 0 .. Len(pq)] /\ d[N + 1] = Len(pq)
      /\ \A i \in 0 .. N : d[i] = c[i] /\ c[i] \in 0 .. Len(pr)
  <2>1. \A i \in 0 .. N : i \in 0 .. N + 1 /\ i # N + 1
    BY <1>1
  <2>2. \A i \in 0 .. N : c[i] \in 0 .. Len(pr) /\ c[i] \in 0 .. Len(pq)
    <3> SUFFICES ASSUME NEW i \in 0 .. N PROVE c[i] \in 0 .. Len(pr) /\ c[i] \in 0 .. Len(pq)
      OBVIOUS
    <3>1. c[i] \in 0 .. Len(pr)
      BY <1>3
    <3> QED BY <1>1, <3>1
  <2>3. N + 1 \in 0 .. N + 1 /\ Len(pq) \in 0 .. Len(pq)
    BY <1>1
  <2>4. \A i \in 0 .. N : d[i] = c[i]
    BY <1>4, <2>1
  <2>5. d[N + 1] = Len(pq)
    BY <1>4, <2>3
  <2>6. ASSUME NEW i \in 0 .. N + 1 PROVE d[i] \in 0 .. Len(pq)
    <3>1. CASE i = N + 1
      BY <2>3, <2>5, <3>1
    <3>2. CASE i # N + 1
      <4>1. i \in 0 .. N
        BY <1>1, <3>2
      <4> QED BY <2>2, <2>4, <4>1
    <3> QED BY <3>1, <3>2
  <2>7. d = [i \in 0 .. N + 1 |-> d[i]]
    BY <1>4
  <2> QED BY <2>2, <2>4, <2>5, <2>6, <2>7
<1>6. d[0] = m
  BY <1>1, <1>3, <1>5
<1>7. ASSUME NEW i \in 1 .. N + 1
      PROVE  /\ d[i] = d[i - 1] + us[i].left
             /\ \A j \in d[i - 1] + 1 .. d[i] : pq[j] = <<us[i].part, us[i].answer>>
  <2>1. CASE i = N + 1
    <3>1. d[i] = Len(pr) + t.left /\ d[i - 1] = Len(pr) /\ us[i] = t
      BY <1>1, <1>2, <1>3, <1>5, <2>1
    <3> QED BY <3>1
  <2>2. CASE i # N + 1
    <3>1. i \in 1 .. N /\ i \in 0 .. N /\ i - 1 \in 0 .. N
      BY <1>1, <2>2
    <3>2. d[i] = c[i] /\ d[i - 1] = c[i - 1] /\ us[i] = ts[i]
      BY <1>2, <1>5, <3>1
    <3>3. d[i] = d[i - 1] + us[i].left
      BY <1>3, <3>1, <3>2
    <3>4. ASSUME NEW j \in d[i - 1] + 1 .. d[i] PROVE pq[j] = <<us[i].part, us[i].answer>>
      <4>1. j \in 1 .. Len(pr)
        <5>1. d[i] \in 0 .. Len(pr) /\ d[i - 1] \in 0 .. Len(pr)
          BY <1>5, <3>1, <3>2
        <5> QED BY <1>1, <5>1, Within
      <4>2. pr[j] = <<ts[i].part, ts[i].answer>>
        BY <1>3, <3>1, <3>2
      <4> QED BY <3>2, <4>1, <4>2
    <3> QED BY <3>3, <3>4
  <2> QED BY <2>1, <2>2
<1>8. CutsOf(d, us, m, pq)
  BY <1>2, <1>5, <1>6, <1>7 DEF CutsOf
<1> QED BY <1>8 DEF us

\* A part of an answer, and what it adds to what is promised
LEMMA CutPart ==
  ASSUME NEW ts \in Seq(WriteTasks), NEW p \in Writer!Parts, NEW n \in 1 .. MaxAnswers,
         NEW k \in Nat, NEW m \in Nat, NEW pr \in Seq(Pieces), NEW c, CutsOf(c, ts, m, pr)
  PROVE  \E d : CutsOf(d, Append(ts, Writer!Task(p, n, k)), m, pr \o Writer!Units(p, n, k))
<1> DEFINE t == Writer!Task(p, n, k)
           u == Writer!Units(p, n, k)
           pq == pr \o u
<1>1. t \in WriteTasks /\ t.left = k /\ t.part = p /\ t.answer = n
  BY DEF WriteTasks, Writer!Task
<1>2. u \in Seq(Pieces) /\ Len(u) = k /\ \A i \in 1 .. k : u[i] = <<p, n>>
  BY UnitsAre
<1> HIDE DEF u
<1>3. \A i \in 1 .. Len(u) : u[i] = <<p, n>>
  BY <1>2
<1>4. /\ \A i \in 1 .. Len(pr) : (pr \o u)[i] = pr[i]
      /\ \A i \in Len(pr) + 1 .. Len(pr) + Len(u) : (pr \o u)[i] = <<p, n>>
  BY <1>2, <1>3, SameBehind
<1>5. pr \o u \in Seq(Pieces) /\ Len(pr \o u) = Len(pr) + Len(u)
  BY <1>2, Joined
<1>6. /\ pq \in Seq(Pieces) /\ Len(pq) = Len(pr) + t.left
      /\ \A i \in 1 .. Len(pr) : pq[i] = pr[i]
      /\ \A i \in Len(pr) + 1 .. Len(pr) + t.left : pq[i] = <<t.part, t.answer>>
  BY <1>1, <1>2, <1>4, <1>5
<1> HIDE DEF t, pq
<1>7. \E d : CutsOf(d, Append(ts, t), m, pq)
  BY <1>1, <1>6, CutMore
<1> QED BY <1>7 DEF t, pq, u

\* The resp task, which has no units
LEMMA CutResp ==
  ASSUME NEW ts \in Seq(WriteTasks), NEW n \in 1 .. MaxAnswers, NEW m \in Nat,
         NEW pr \in Seq(Pieces), NEW c, CutsOf(c, ts, m, pr)
  PROVE  \E d : CutsOf(d, Append(ts, Writer!RespTask(n)), m, pr)
<1> DEFINE t == Writer!RespTask(n)
<1>1. t \in WriteTasks /\ t.left = 0
  BY DEF WriteTasks, Writer!RespTask, Writer!Task
<1> HIDE DEF t
<1>2. Len(pr) = Len(pr) + t.left /\ \A i \in 1 .. Len(pr) : pr[i] = pr[i]
  BY <1>1
<1>3. \A i \in Len(pr) + 1 .. Len(pr) + t.left : pr[i] = <<t.part, t.answer>>
  BY <1>1
<1>4. \E d : CutsOf(d, Append(ts, t), m, pr)
  BY <1>1, <1>2, <1>3, CutMore
<1> QED BY <1>4 DEF t

\* The tasks b of a new answer, with what they add to what is promised
LEMMA Attached ==
  ASSUME WriteInv, wAlive, wNext \in 1 .. MaxAnswers, MaxAnswers \in Nat, NEW b \in Seq(WriteTasks),
         wTasks' = wTasks \o b,
         \A i \in 1 .. Len(b) : b[i].answer = wNext /\ (b[i].part = "resp" => b[i].left = 0),
         \A i, j \in 1 .. Len(b) : i < j => Before(b[i], b[j]),
         wPromised' \in Seq(Pieces), Len(wPromised) <= Len(wPromised'),
         \A j \in 1 .. Len(wPromised) : wPromised'[j] = wPromised[j],
         \A n \in 1 .. MaxAnswers, p \in Writer!Parts : n # wNext =>
           Writer!Count(wPromised', <<p, n>>) = Writer!Count(wPromised, <<p, n>>),
         \A p \in Writer!Parts, i \in 1 .. Len(b) : b[i].part = p =>
           Writer!Count(wPromised', <<p, wNext>>) =
             Writer!Count(wPromised, <<p, wNext>>) + b[i].left,
         \A p \in Writer!Parts : (\A i \in 1 .. Len(b) : b[i].part # p) =>
           Writer!Count(wPromised', <<p, wNext>>) = Writer!Count(wPromised, <<p, wNext>>),
         (\E c : Cuts(c)) => \E c : CutsOf(c, wTasks \o b, Len(wWire), wPromised'),
         wFp' = IF \E i \in 1 .. Len(b) : b[i].part = "file"
                THEN [wFp EXCEPT ![wNext] = "open"] ELSE wFp,
         wNext' = wNext + 1, UNCHANGED <<wWire, wEnded, wSpoiled, wAlive>>
  PROVE  WriteInv'
<1> DEFINE N == Len(wTasks)
           B == Len(b)
<1>1. wTasks \in Seq(WriteTasks) /\ wWire \in Seq(Pieces) /\ wPromised \in Seq(Pieces)
  BY DEF WriteInv, WriteTypes
<1>2. N \in Nat /\ B \in Nat /\ \A i \in 1 .. N : wTasks[i] \in WriteTasks
  BY <1>1
<1>3. /\ wTasks' \in Seq(WriteTasks) /\ Len(wTasks') = N + B
      /\ \A i \in 1 .. N : wTasks'[i] = wTasks[i]
      /\ \A i \in 1 .. B : wTasks'[N + i] = b[i]
  <2>1. /\ wTasks \o b \in Seq(WriteTasks) /\ Len(wTasks \o b) = Len(wTasks) + Len(b)
        /\ \A i \in 1 .. Len(wTasks) : (wTasks \o b)[i] = wTasks[i]
        /\ \A i \in 1 .. Len(b) : (wTasks \o b)[Len(wTasks) + i] = b[i]
    BY <1>1, Joined
  <2> QED BY <2>1
<1>4. ASSUME NEW i \in 1 .. N + B PROVE \/ i \in 1 .. N
                                        \/ i > N /\ i - N \in 1 .. B /\ wTasks'[i] = b[i - N]
  <2>1. CASE i > N
    <3>1. i - N \in 1 .. B /\ N + (i - N) = i
      BY <1>2, <2>1
    <3>2. wTasks'[N + (i - N)] = b[i - N]
      BY <1>3, <3>1
    <3> QED BY <2>1, <3>1, <3>2
  <2> QED BY <1>2, <2>1
<1>5. ASSUME NEW i \in 1 .. N PROVE wTasks[i].answer < wNext /\ wTasks[i].answer # wNext
  BY <1>2 DEF WriteInv, TasksSorted, WriteTasks
<1>6. wNext \notin wEnded
  BY DEF WriteInv, TasksSorted
<1>7. WriteTypes'
  <2>1. wNext' \in 1 .. MaxAnswers + 1
    OBVIOUS
  <2>2. wFp' \in [1 .. MaxAnswers -> {"none", "open", "closed", "leaked"}]
    BY DEF WriteInv, WriteTypes
  <2>3. wEnded' \subseteq 1 .. MaxAnswers
    BY DEF WriteInv, WriteTypes
  <2> QED BY <1>1, <1>3, <2>1, <2>2, <2>3 DEF WriteTypes
<1>8. TasksSorted'
  <2>1. ASSUME NEW i \in 1 .. N + B, NEW j \in 1 .. N + B, i < j PROVE Before(wTasks'[i], wTasks'[j])
    <3>1. CASE j \in 1 .. N
      <4>1. i \in 1 .. N
        BY <1>2, <2>1, <3>1
      <4>2. Before(wTasks[i], wTasks[j])
        BY <2>1, <3>1, <4>1 DEF WriteInv, TasksSorted
      <4> QED BY <1>3, <3>1, <4>1, <4>2
    <3>2. CASE j \notin 1 .. N
      <4>1. j - N \in 1 .. B /\ wTasks'[j] = b[j - N]
        BY <1>4, <3>2
      <4>2. CASE i \in 1 .. N
        <5>1. wTasks'[i].answer < wNext
          BY <1>3, <1>5, <4>2
        <5>2. wTasks'[j].answer = wNext
          BY <4>1
        <5> QED BY <5>1, <5>2 DEF Before
      <4>3. CASE i \notin 1 .. N
        <5>1. i - N \in 1 .. B /\ wTasks'[i] = b[i - N]
          BY <1>4, <4>3
        <5>2. i - N < j - N
          BY <1>2, <2>1
        <5> QED BY <4>1, <5>1, <5>2
      <4> QED BY <4>2, <4>3
    <3> QED BY <3>1, <3>2
  <2>2. ASSUME NEW i \in 1 .. N + B
        PROVE  /\ wTasks'[i].answer < wNext' /\ wTasks'[i].answer \notin wEnded
               /\ wTasks'[i].part = "resp" => wTasks'[i].left = 0
    <3>1. CASE i \in 1 .. N
      <4>1. /\ wTasks[i].answer < wNext /\ wTasks[i].answer \notin wEnded
            /\ wTasks[i].part = "resp" => wTasks[i].left = 0
        BY <3>1 DEF WriteInv, TasksSorted
      <4>2. wTasks[i].answer \in Nat
        BY <1>2, <3>1 DEF WriteTasks
      <4> QED BY <1>3, <3>1, <4>1, <4>2
    <3>2. CASE i \notin 1 .. N
      <4>1. i - N \in 1 .. B /\ wTasks'[i] = b[i - N]
        BY <1>4, <3>2
      <4> QED BY <1>6, <4>1
    <3> QED BY <3>1, <3>2
  <2>3. ASSUME NEW n \in wEnded PROVE n < wNext'
    <3>1. n < wNext
      BY DEF WriteInv, TasksSorted
    <3>2. n \in 1 .. MaxAnswers
      BY DEF WriteInv, WriteTypes
    <3> QED BY <3>1, <3>2
  <2> QED BY <1>3, <2>1, <2>2, <2>3 DEF TasksSorted
<1>9. Balance'
  <2> SUFFICES ASSUME NEW n \in (1 .. MaxAnswers) \ wSpoiled, NEW p \in Writer!Parts
               PROVE  Accounts(p, n)'
    BY DEF Balance
  <2>1. Accounts(p, n)
    BY DEF WriteInv, Balance
  <2>2. CASE n # wNext
    <3>1. Writer!Count(wPromised', <<p, n>>) = Writer!Count(wPromised, <<p, n>>)
      BY <2>2
    <3>2. ASSUME NEW i \in 1 .. N + B, Is(wTasks'[i], p, n)
          PROVE  i \in 1 .. N /\ Is(wTasks[i], p, n) /\ wTasks'[i] = wTasks[i]
      BY <1>3, <1>4, <2>2, <3>2 DEF Is
    <3>3. ASSUME NEW i \in 1 .. N, Is(wTasks[i], p, n)
          PROVE  i \in 1 .. N + B /\ Is(wTasks'[i], p, n)
      BY <1>2, <1>3, <3>3
    <3>4. NoTask(p, n)' => NoTask(p, n)
      BY <1>3, <3>3 DEF NoTask
    <3> QED BY <1>3, <2>1, <3>1, <3>2, <3>4 DEF Accounts
  <2>3. CASE n = wNext
    <3>1. NoTask(p, n)
      BY <1>5, <2>3 DEF NoTask, Is
    <3>2. Writer!Count(wPromised, <<p, n>>) = Writer!Count(wWire, <<p, n>>)
      BY <2>1, <3>1 DEF Accounts
    <3>3. ASSUME NEW i \in 1 .. N + B, Is(wTasks'[i], p, n)
          PROVE  Writer!Count(wPromised', <<p, n>>) = Writer!Count(wWire, <<p, n>>) + wTasks'[i].left
      <4>1. i - N \in 1 .. B /\ wTasks'[i] = b[i - N]
        BY <1>3, <1>4, <1>5, <2>3, <3>3 DEF Is
      <4>2. b[i - N].part = p
        BY <3>3, <4>1 DEF Is
      <4>3. Writer!Count(wPromised', <<p, n>>) = Writer!Count(wPromised, <<p, n>>) + b[i - N].left
        BY <2>3, <4>1, <4>2
      <4> QED BY <3>2, <4>1, <4>3
    <3>4. ASSUME NoTask(p, n)' PROVE Writer!Count(wPromised', <<p, n>>) = Writer!Count(wWire, <<p, n>>)
      <4>1. ASSUME NEW i \in 1 .. B PROVE b[i].part # p
        <5>1. N + i \in 1 .. N + B /\ wTasks'[N + i] = b[i]
          BY <1>2, <1>3
        <5>2. ~Is(wTasks'[N + i], p, n)
          BY <1>3, <3>4, <5>1 DEF NoTask
        <5>3. b[i].answer = n
          BY <2>3
        <5> QED BY <5>1, <5>2, <5>3 DEF Is
      <4>2. Writer!Count(wPromised', <<p, n>>) = Writer!Count(wPromised, <<p, n>>)
        BY <2>3, <4>1
      <4> QED BY <3>2, <4>2
    <3> QED BY <1>3, <3>3, <3>4 DEF Accounts
  <2> QED BY <2>2, <2>3
<1>10. Laid'
  <2> SUFFICES ASSUME wSpoiled = {}
               PROVE  /\ Len(wWire) <= Len(wPromised')
                      /\ \A j \in 1 .. Len(wWire) : wWire[j] = wPromised'[j]
                      /\ \E c : Cuts(c)'
    BY DEF Laid
  <2>1. /\ Len(wWire) <= Len(wPromised) /\ \A j \in 1 .. Len(wWire) : wWire[j] = wPromised[j]
        /\ \E c : Cuts(c)
    BY DEF WriteInv, Laid
  <2>2. Len(wWire) \in Nat /\ Len(wPromised) \in Nat /\ Len(wPromised') \in Nat
    BY <1>1
  <2>3. PICK c : CutsOf(c, wTasks \o b, Len(wWire), wPromised')
    BY <2>1
  <2>4. Cuts(c)'
    BY <2>3 DEF Cuts
  <2>5. \A j \in 1 .. Len(wWire) : j \in 1 .. Len(wPromised)
    BY <2>1, <2>2
  <2> QED BY <2>1, <2>2, <2>4, <2>5
<1>11. FilesKnown'
  <2> SUFFICES ASSUME NEW n \in 1 .. MaxAnswers PROVE ((wFp[n] = "open") <=> FileTask(n))'
    BY DEF FilesKnown
  <2>1. (wFp[n] = "open") <=> FileTask(n)
    BY DEF WriteInv, FilesKnown
  <2>2. FileTask(n)' <=> FileTask(n) \/ (n = wNext /\ \E i \in 1 .. B : b[i].part = "file")
    <3>1. ASSUME NEW i \in 1 .. N + B, Is(wTasks'[i], "file", n)
          PROVE  FileTask(n) \/ (n = wNext /\ \E k \in 1 .. B : b[k].part = "file")
      <4>1. CASE i \in 1 .. N
        BY <1>3, <3>1, <4>1 DEF FileTask
      <4>2. CASE i \notin 1 .. N
        <5>1. i - N \in 1 .. B /\ wTasks'[i] = b[i - N]
          BY <1>4, <4>2
        <5> QED BY <3>1, <5>1 DEF Is
      <4> QED BY <4>1, <4>2
    <3>2. ASSUME NEW i \in 1 .. N, Is(wTasks[i], "file", n) PROVE FileTask(n)'
      <4>1. i \in 1 .. N + B
        BY <1>2
      <4> QED BY <1>3, <3>2, <4>1 DEF FileTask
    <3>3. ASSUME NEW i \in 1 .. B, b[i].part = "file", n = wNext PROVE FileTask(n)'
      <4>1. N + i \in 1 .. N + B /\ wTasks'[N + i] = b[i]
        BY <1>2, <1>3
      <4>2. Is(wTasks'[N + i], "file", n)
        BY <3>3, <4>1 DEF Is
      <4> QED BY <1>3, <4>1, <4>2 DEF FileTask
    <3> QED BY <1>3, <3>1, <3>2, <3>3 DEF FileTask
  <2>3. n = wNext => ~FileTask(n)
    BY <1>5 DEF FileTask, Is
  <2>4. wFp \in [1 .. MaxAnswers -> {"none", "open", "closed", "leaked"}]
    BY DEF WriteInv, WriteTypes
  <2> QED BY <2>1, <2>2, <2>3, <2>4
<1>12. WriteRest'
  BY DEF WriteInv, WriteRest
<1> QED BY <1>7, <1>8, <1>9, <1>10, <1>11, <1>12 DEF WriteInv

\* Entries one after the other, or at once
LEMMA TwoBehind ==
  ASSUME NEW S, NEW s \in Seq(S), NEW x \in S, NEW y \in S
  PROVE  Append(Append(s, x), y) = s \o <<x, y>>
OBVIOUS

LEMMA ThreeBehind ==
  ASSUME NEW S, NEW s \in Seq(S), NEW x \in S, NEW y \in S, NEW z \in S
  PROVE  Append(Append(Append(s, x), y), z) = s \o <<x, y, z>>
OBVIOUS

\* rns_hconn_resp2 and rns_http_download queue an answer.
LEMMA AnswerGiven ==
  ASSUME Writer!Bounds, WriteInv, Writer!Respond
  PROVE  WriteInv'
<1>0. MaxAnswers \in Nat /\ Lengths \subseteq Nat
  BY DEF Writer!Bounds
<1>1. /\ wAlive /\ wNext \in 1 .. MaxAnswers /\ wNext' = wNext + 1
      /\ UNCHANGED <<wRunning, wSize, wWire, wEnded, wSpoiled, wAlive>>
  BY <1>0 DEF Writer!Respond, WriteInv, WriteTypes
<1>2. wTasks \in Seq(WriteTasks) /\ wWire \in Seq(Pieces) /\ wPromised \in Seq(Pieces)
      /\ Len(wWire) \in Nat
  BY DEF WriteInv, WriteTypes
<1>3. PICK h \in Lengths :
        \/ /\ wTasks' = wTasks \o <<Writer!Header(wNext, h), Writer!RespTask(wNext)>>
           /\ wPromised' = wPromised \o Writer!Units("header", wNext, h)
           /\ UNCHANGED wFp
        \/ \E k \in Lengths : \E t \in {Writer!Body(wNext, k), Writer!File(wNext, k)} :
           /\ wTasks' = wTasks \o <<Writer!Header(wNext, h), t, Writer!RespTask(wNext)>>
           /\ wPromised' = wPromised \o Writer!Units("header", wNext, h)
                                    \o Writer!Units(t.part, wNext, k)
           /\ wFp' = IF t.part = "file" THEN [wFp EXCEPT ![wNext] = "open"] ELSE wFp
  BY DEF Writer!Respond
<1>4. h \in Nat /\ "header" \in Writer!Parts
  BY <1>0 DEF Writer!Parts
<1> DEFINE a == Writer!Task("header", wNext, h)
           z == Writer!RespTask(wNext)
           u == Writer!Units("header", wNext, h)
           q == wPromised \o u
<1>5. /\ a \in WriteTasks /\ a.part = "header" /\ a.answer = wNext /\ a.left = h
      /\ z \in WriteTasks /\ z.part = "resp" /\ z.answer = wNext /\ z.left = 0
  BY <1>1, <1>4 DEF WriteTasks, Writer!Task, Writer!RespTask
<1>6. u \in Seq(Pieces)
  BY <1>1, <1>4, UnitsAre
<1>7. /\ q \in Seq(Pieces) /\ Len(wPromised) <= Len(q)
      /\ \A j \in 1 .. Len(wPromised) : q[j] = wPromised[j]
  <2> HIDE DEF u
  <2>1. /\ wPromised \o u \in Seq(Pieces) /\ Len(wPromised \o u) = Len(wPromised) + Len(u)
        /\ \A j \in 1 .. Len(wPromised) : (wPromised \o u)[j] = wPromised[j]
    BY <1>2, <1>6, Joined
  <2>2. Len(wPromised) \in Nat /\ Len(u) \in Nat
    BY <1>2, <1>6
  <2> QED BY <2>1, <2>2
<1>8. \A p, n : Writer!Count(q, <<p, n>>) =
                 Writer!Count(wPromised, <<p, n>>) + (IF p = "header" /\ n = wNext THEN h ELSE 0)
  <2> SUFFICES ASSUME NEW p, NEW n
               PROVE  Writer!Count(q, <<p, n>>) =
                 Writer!Count(wPromised, <<p, n>>) + (IF p = "header" /\ n = wNext THEN h ELSE 0)
    OBVIOUS
  <2>1. Writer!Count(wPromised \o Writer!Units("header", wNext, h), <<p, n>>) =
          Writer!Count(wPromised, <<p, n>>) + (IF <<p, n>> = <<"header", wNext>> THEN h ELSE 0)
    BY <1>1, <1>2, <1>4, CountMore
  <2>2. <<p, n>> = <<"header", wNext>> <=> p = "header" /\ n = wNext
    OBVIOUS
  <2> QED BY <2>1, <2>2
<1>9. \A p, n : Writer!Count(wPromised, <<p, n>>) \in Nat
  BY <1>2, CountNat
<1>10. ASSUME NEW c, Cuts(c)
       PROVE  \E d : CutsOf(d, Append(wTasks, a), Len(wWire), q)
  <2>1. CutsOf(c, wTasks, Len(wWire), wPromised)
    BY <1>10 DEF Cuts
  <2>2. \E d : CutsOf(d, Append(wTasks, Writer!Task("header", wNext, h)), Len(wWire),
                      wPromised \o Writer!Units("header", wNext, h))
    BY <1>1, <1>2, <1>4, <2>1, CutPart
  <2> QED BY <2>2
<1>11. Append(wTasks, a) \in Seq(WriteTasks)
  BY <1>2, <1>5
<1> HIDE DEF a, z, u, q
<1>12. CASE /\ wTasks' = wTasks \o <<Writer!Header(wNext, h), Writer!RespTask(wNext)>>
            /\ wPromised' = wPromised \o Writer!Units("header", wNext, h)
            /\ UNCHANGED wFp
  <2> DEFINE b == <<a, z>>
  <2>1. wTasks' = wTasks \o b /\ wPromised' = q
    BY <1>12 DEF a, z, u, q, Writer!Header
  <2>2. b \in Seq(WriteTasks) /\ Len(b) = 2 /\ b[1] = a /\ b[2] = z
    BY <1>5
  <2> HIDE DEF b
  <2>3. \A i \in 1 .. Len(b) : i = 1 \/ i = 2
    BY <2>2
  <2>4. \A i \in 1 .. Len(b) : b[i].answer = wNext /\ (b[i].part = "resp" => b[i].left = 0)
    BY <1>5, <2>2, <2>3
  <2>5. \A i, j \in 1 .. Len(b) : i < j => Before(b[i], b[j])
    BY <1>5, <2>2, <2>3 DEF Before
  <2>6. \A n \in 1 .. MaxAnswers, p \in Writer!Parts : n # wNext =>
           Writer!Count(wPromised', <<p, n>>) = Writer!Count(wPromised, <<p, n>>)
    BY <1>8, <1>9, <2>1
  <2>7. \A p \in Writer!Parts, i \in 1 .. Len(b) : b[i].part = p =>
           Writer!Count(wPromised', <<p, wNext>>) =
             Writer!Count(wPromised, <<p, wNext>>) + b[i].left
    <3> SUFFICES ASSUME NEW p \in Writer!Parts, NEW i \in 1 .. Len(b), b[i].part = p
                 PROVE  Writer!Count(wPromised', <<p, wNext>>) =
                          Writer!Count(wPromised, <<p, wNext>>) + b[i].left
      OBVIOUS
    <3>1. i = 1
      BY <1>5, <2>2, <2>3 DEF Writer!Parts
    <3>2. p = "header" /\ b[i].left = h
      BY <1>5, <2>2, <3>1
    <3> QED BY <1>8, <2>1, <3>2
  <2>8. \A p \in Writer!Parts : (\A i \in 1 .. Len(b) : b[i].part # p) =>
           Writer!Count(wPromised', <<p, wNext>>) = Writer!Count(wPromised, <<p, wNext>>)
    <3> SUFFICES ASSUME NEW p \in Writer!Parts, \A i \in 1 .. Len(b) : b[i].part # p
                 PROVE  Writer!Count(wPromised', <<p, wNext>>) = Writer!Count(wPromised, <<p, wNext>>)
      OBVIOUS
    <3>1. p # "header"
      BY <1>5, <2>2
    <3> QED BY <1>8, <1>9, <2>1, <3>1
  <2>9. (\E c : Cuts(c)) => \E c : CutsOf(c, wTasks \o b, Len(wWire), wPromised')
    <3> SUFFICES ASSUME NEW c, Cuts(c)
                 PROVE  \E d : CutsOf(d, wTasks \o b, Len(wWire), wPromised')
      OBVIOUS
    <3>1. PICK d : CutsOf(d, Append(wTasks, a), Len(wWire), q)
      BY <1>10
    <3>2. \E e : CutsOf(e, Append(Append(wTasks, a), z), Len(wWire), q)
      BY <1>1, <1>2, <1>7, <1>11, <3>1, CutResp DEF z
    <3>3. Append(Append(wTasks, a), z) = wTasks \o b
      BY <1>2, <1>5, TwoBehind DEF b
    <3> QED BY <2>1, <3>2, <3>3
  <2>10. wFp' = IF \E i \in 1 .. Len(b) : b[i].part = "file"
                THEN [wFp EXCEPT ![wNext] = "open"] ELSE wFp
    BY <1>5, <1>12, <2>2, <2>3
  <2> QED BY <1>0, <1>1, <1>7, <2>1, <2>2, <2>4, <2>5, <2>6, <2>7, <2>8, <2>9, <2>10,
             Attached
<1>13. CASE \E k \in Lengths : \E t \in {Writer!Body(wNext, k), Writer!File(wNext, k)} :
            /\ wTasks' = wTasks \o <<Writer!Header(wNext, h), t, Writer!RespTask(wNext)>>
            /\ wPromised' = wPromised \o Writer!Units("header", wNext, h)
                                     \o Writer!Units(t.part, wNext, k)
            /\ wFp' = IF t.part = "file" THEN [wFp EXCEPT ![wNext] = "open"] ELSE wFp
  <2> PICK k \in Lengths : \E t \in {Writer!Body(wNext, k), Writer!File(wNext, k)} :
            /\ wTasks' = wTasks \o <<Writer!Header(wNext, h), t, Writer!RespTask(wNext)>>
            /\ wPromised' = wPromised \o Writer!Units("header", wNext, h)
                                     \o Writer!Units(t.part, wNext, k)
            /\ wFp' = IF t.part = "file" THEN [wFp EXCEPT ![wNext] = "open"] ELSE wFp
    BY <1>13
  <2>0. PICK t \in {Writer!Body(wNext, k), Writer!File(wNext, k)} :
            /\ wTasks' = wTasks \o <<Writer!Header(wNext, h), t, Writer!RespTask(wNext)>>
            /\ wPromised' = wPromised \o Writer!Units("header", wNext, h)
                                     \o Writer!Units(t.part, wNext, k)
            /\ wFp' = IF t.part = "file" THEN [wFp EXCEPT ![wNext] = "open"] ELSE wFp
    OBVIOUS
  <2>1. /\ k \in Nat /\ t \in WriteTasks /\ t.part \in {"body", "file"} /\ t.part \in Writer!Parts
        /\ t.answer = wNext /\ t.left = k /\ t = Writer!Task(t.part, wNext, k)
    BY <1>0, <1>1 DEF WriteTasks, Writer!Body, Writer!File, Writer!Task, Writer!Parts
  <2> DEFINE b == <<a, t, z>>
             v == Writer!Units(t.part, wNext, k)
  <2>2. wTasks' = wTasks \o b /\ wPromised' = q \o v
    BY <2>0 DEF a, z, u, q, Writer!Header
  <2>3. b \in Seq(WriteTasks) /\ Len(b) = 3 /\ b[1] = a /\ b[2] = t /\ b[3] = z
    BY <1>5, <2>1
  <2>4. v \in Seq(Pieces)
    BY <1>1, <2>1, UnitsAre
  <2>5. \A p, n : Writer!Count(wPromised', <<p, n>>) =
                   Writer!Count(wPromised, <<p, n>>) + (IF p = "header" /\ n = wNext THEN h ELSE 0)
                     + (IF p = t.part /\ n = wNext THEN k ELSE 0)
    <3> SUFFICES ASSUME NEW p, NEW n
                 PROVE  Writer!Count(wPromised', <<p, n>>) =
                   Writer!Count(wPromised, <<p, n>>) + (IF p = "header" /\ n = wNext THEN h ELSE 0)
                     + (IF p = t.part /\ n = wNext THEN k ELSE 0)
      OBVIOUS
    <3>1. Writer!Count(q \o v, <<p, n>>) =
            Writer!Count(q, <<p, n>>) + (IF <<p, n>> = <<t.part, wNext>> THEN k ELSE 0)
      BY <1>1, <1>7, <2>1, CountMore
    <3>2. <<p, n>> = <<t.part, wNext>> <=> p = t.part /\ n = wNext
      OBVIOUS
    <3> HIDE DEF v
    <3> QED BY <1>8, <2>2, <3>1, <3>2
  <2> HIDE DEF b, v
  <2>6. /\ wPromised' \in Seq(Pieces) /\ Len(wPromised) <= Len(wPromised')
        /\ \A j \in 1 .. Len(wPromised) : wPromised'[j] = wPromised[j]
    <3>1. /\ q \o v \in Seq(Pieces) /\ Len(q \o v) = Len(q) + Len(v)
          /\ \A j \in 1 .. Len(q) : (q \o v)[j] = q[j]
      BY <1>7, <2>4, Joined
    <3>2. Len(wPromised) \in Nat /\ Len(q) \in Nat /\ Len(v) \in Nat
      BY <1>2, <1>7, <2>4
    <3>3. \A j \in 1 .. Len(wPromised) : j \in 1 .. Len(q)
      BY <1>7, <3>2
    <3>4. Len(wPromised) <= Len(q \o v)
      BY <1>7, <3>1, <3>2
    <3> QED BY <1>7, <2>2, <3>1, <3>3, <3>4, Zenon
  <2>7. \A i \in 1 .. Len(b) : i = 1 \/ i = 2 \/ i = 3
    BY <2>3
  <2>8. \A i \in 1 .. Len(b) : b[i].answer = wNext /\ (b[i].part = "resp" => b[i].left = 0)
    BY <1>5, <2>1, <2>3, <2>7
  <2>9. \A i, j \in 1 .. Len(b) : i < j => Before(b[i], b[j])
    BY <1>5, <2>1, <2>3, <2>7 DEF Before
  <2>10. \A n \in 1 .. MaxAnswers, p \in Writer!Parts : n # wNext =>
           Writer!Count(wPromised', <<p, n>>) = Writer!Count(wPromised, <<p, n>>)
    BY <1>9, <2>5
  <2>11. \A p \in Writer!Parts, i \in 1 .. Len(b) : b[i].part = p =>
           Writer!Count(wPromised', <<p, wNext>>) =
             Writer!Count(wPromised, <<p, wNext>>) + b[i].left
    <3> SUFFICES ASSUME NEW p \in Writer!Parts, NEW i \in 1 .. Len(b), b[i].part = p
                 PROVE  Writer!Count(wPromised', <<p, wNext>>) =
                          Writer!Count(wPromised, <<p, wNext>>) + b[i].left
      OBVIOUS
    <3>1. i = 1 \/ i = 2
      BY <1>5, <2>3, <2>7 DEF Writer!Parts
    <3>2. CASE i = 1
      <4>1. p = "header" /\ p # t.part /\ b[i].left = h
        BY <1>5, <2>1, <2>3, <3>2
      <4> QED BY <1>4, <1>9, <2>5, <4>1
    <3>3. CASE i = 2
      <4>1. p = t.part /\ p # "header" /\ b[i].left = k
        BY <2>1, <2>3, <3>3
      <4> QED BY <1>9, <2>1, <2>5, <4>1
    <3> QED BY <3>1, <3>2, <3>3
  <2>12. \A p \in Writer!Parts : (\A i \in 1 .. Len(b) : b[i].part # p) =>
           Writer!Count(wPromised', <<p, wNext>>) = Writer!Count(wPromised, <<p, wNext>>)
    <3> SUFFICES ASSUME NEW p \in Writer!Parts, \A i \in 1 .. Len(b) : b[i].part # p
                 PROVE  Writer!Count(wPromised', <<p, wNext>>) = Writer!Count(wPromised, <<p, wNext>>)
      OBVIOUS
    <3>1. p # "header" /\ p # t.part
      BY <1>5, <2>3
    <3> QED BY <1>9, <2>5, <3>1
  <2>13. (\E c : Cuts(c)) => \E c : CutsOf(c, wTasks \o b, Len(wWire), wPromised')
    <3> SUFFICES ASSUME NEW c, Cuts(c)
                 PROVE  \E d : CutsOf(d, wTasks \o b, Len(wWire), wPromised')
      OBVIOUS
    <3>1. PICK d : CutsOf(d, Append(wTasks, a), Len(wWire), q)
      BY <1>10
    <3>2. \E e : CutsOf(e, Append(Append(wTasks, a), Writer!Task(t.part, wNext, k)),
                        Len(wWire), q \o Writer!Units(t.part, wNext, k))
      BY <1>1, <1>2, <1>7, <1>11, <2>1, <3>1, CutPart
    <3>3. PICK e : CutsOf(e, Append(Append(wTasks, a), t), Len(wWire), wPromised')
      BY <2>1, <2>2, <3>2 DEF v
    <3>4. Append(Append(wTasks, a), t) \in Seq(WriteTasks)
      BY <1>11, <2>1
    <3>5. \E f : CutsOf(f, Append(Append(Append(wTasks, a), t), z), Len(wWire), wPromised')
      BY <1>1, <1>2, <2>6, <3>3, <3>4, CutResp DEF z
    <3>6. Append(Append(Append(wTasks, a), t), z) = wTasks \o b
      <4>1. a \in WriteTasks /\ z \in WriteTasks
        BY <1>5
      <4>2. Append(Append(Append(wTasks, a), t), z) = wTasks \o <<a, t, z>>
        <5>1. wTasks \in Seq(WriteTasks) /\ t \in WriteTasks
          BY <1>2, <2>1
        <5> QED BY <4>1, <5>1, ThreeBehind
      <4> QED BY <4>2, Zenon DEF b
    <3> QED BY <3>5, <3>6
  <2>14. wFp' = IF \E i \in 1 .. Len(b) : b[i].part = "file"
                THEN [wFp EXCEPT ![wNext] = "open"] ELSE wFp
    BY <1>5, <2>0, <2>3, <2>7
  <2> QED BY <1>0, <1>1, <2>2, <2>3, <2>6, <2>8, <2>9, <2>10, <2>11, <2>12, <2>13,
             <2>14, Attached
<1> QED BY <1>3, <1>12, <1>13

------------------------------------------------------------------------------
(* The steps of write_func *)

\* A call of the first task's work function
LEMMA WorkKeeps ==
  ASSUME WriteInv, wTasks # <<>>, Writer!Work(Head(wTasks))
  PROVE  WriteInv'
<1> DEFINE t == wTasks[1]
<1>1. wTasks \in Seq(WriteTasks) /\ Head(wTasks) = t /\ t \in WriteTasks
  <2>1. wTasks \in Seq(WriteTasks)
    BY DEF WriteInv, WriteTypes
  <2> QED BY <2>1, TailIs
<1>2. wAlive /\ wRunning /\ t.part # "resp"
  BY <1>1 DEF Writer!Work, Writer!Sent, Writer!Again, Writer!Fails, Writer!Finished,
     Writer!FileEnds, Writer!Working, WriteInv, WriteRest
<1>3. t.left \in Nat
  BY <1>1 DEF WriteTasks
<1>4. CASE Writer!Sent(t)
  <2>1. PICK k \in 1 .. t.left :
          /\ wWire' = wWire \o Writer!Units(t.part, t.answer, k)
          /\ wTasks' = <<[t EXCEPT !.left = t.left - k]>> \o Tail(wTasks)
    BY <1>4 DEF Writer!Sent, Writer!PutBack
  <2>2. UNCHANGED <<wPromised, wFp, wEnded, wSpoiled, wAlive, wNext>>
    BY <1>4 DEF Writer!Sent
  <2> QED BY <1>2, <2>1, <2>2, PartSent
<1>5. CASE Writer!Again(t)
  BY <1>2, <1>5, TasksStay DEF Writer!Again
<1>6. CASE Writer!Fails(t)
  <2>1. wTasks' = Tail(wTasks) /\ wSpoiled' = wSpoiled \cup {t.answer}
        /\ UNCHANGED <<wPromised, wWire, wNext, wAlive, wEnded>>
        /\ wFp' = IF t.part = "file" THEN [wFp EXCEPT ![t.answer] = "closed"] ELSE wFp
    BY <1>6 DEF Writer!Fails, Writer!Closed
  <2> QED BY <1>2, <2>1, FirstGone
<1>7. CASE Writer!Finished(t)
  <2>1. wTasks' = Tail(wTasks) /\ wSpoiled' = wSpoiled /\ t.left = 0
        /\ UNCHANGED <<wPromised, wWire, wNext, wAlive, wEnded>>
        /\ wFp' = IF t.part = "file" THEN [wFp EXCEPT ![t.answer] = "closed"] ELSE wFp
    BY <1>7 DEF Writer!Finished, Writer!Working, Writer!Closed
  <2> QED BY <1>2, <2>1, FirstGone
<1>8. CASE Writer!FileEnds(t)
  <2>1. wTasks' = Tail(wTasks) /\ wSpoiled' = wSpoiled \cup {t.answer}
        /\ UNCHANGED <<wPromised, wWire, wNext, wAlive, wEnded>>
        /\ wFp' = IF t.part = "file" THEN [wFp EXCEPT ![t.answer] = "closed"] ELSE wFp
    BY <1>8 DEF Writer!FileEnds, Writer!Closed
  <2> QED BY <1>2, <2>1, FirstGone
<1> HIDE DEF t
<1> QED BY <1>1, <1>4, <1>5, <1>6, <1>7, <1>8 DEF Writer!Work

\* The resp task: dropped after a failure, else it ends the answer and perhaps the
\* connection
LEMMA RespKeeps ==
  ASSUME WriteInv, Writer!Resp
  PROVE  WriteInv'
<1> DEFINE t == wTasks[1]
<1>1. /\ wTasks \in Seq(WriteTasks) /\ wTasks # <<>> /\ Head(wTasks) = t /\ t \in WriteTasks
      /\ 1 \in 1 .. Len(wTasks)
  <2>1. wTasks \in Seq(WriteTasks) /\ wTasks # <<>>
    BY DEF WriteInv, WriteTypes, Writer!Resp
  <2> QED BY <2>1, TailIs
<1>2. wAlive /\ wRunning /\ t.part = "resp" /\ t.left = 0
  BY <1>1 DEF Writer!Resp, WriteInv, WriteRest, TasksSorted
<1>3. UNCHANGED <<wSize, wPromised, wWire, wSpoiled, wNext>>
  BY DEF Writer!Resp
<1>4. CASE wTasks' = Tail(wTasks) /\ UNCHANGED <<wEnded, wFp, wAlive>>
  BY <1>1, <1>2, <1>3, <1>4, FirstGone
<1>5. CASE wTasks' = Tail(wTasks) /\ wEnded' = wEnded \cup {t.answer} /\ UNCHANGED <<wFp, wAlive>>
  BY <1>1, <1>2, <1>3, <1>5, FirstGone
<1>6. CASE /\ wEnded' = wEnded \cup {t.answer} /\ wRunning' = FALSE
           /\ wAlive' = FALSE /\ wTasks' = <<>>
           /\ wFp' = [n \in 1 .. MaxAnswers |-> IF wFp[n] = "open" THEN "leaked" ELSE wFp[n]]
  BY <1>1, <1>2, <1>3, <1>6, Emptied
<1> QED BY <1>1, <1>4, <1>5, <1>6 DEF Writer!Resp

\* Every step keeps the invariant.
LEMMA WriteStep ==
  ASSUME Writer!Bounds, WriteInv, [Writer!Next]_(Writer!vars)
  PROVE  WriteInv'
<1>1. CASE Writer!Respond
  BY <1>1, AnswerGiven
<1>2. CASE Writer!Destroy
  <2>1. /\ wAlive /\ ~wRunning' /\ ~wAlive' /\ wAlive' \in BOOLEAN /\ wTasks' = <<>>
        /\ UNCHANGED <<wPromised, wWire, wEnded, wSpoiled, wNext>>
        /\ wFp' = [n \in 1 .. MaxAnswers |-> IF wFp[n] = "open" THEN "leaked" ELSE wFp[n]]
    BY <1>2 DEF Writer!Destroy
  <2> QED BY <2>1, Emptied
<1>3. CASE Writer!Start
  BY <1>3, TasksStay DEF Writer!Start
<1>4. CASE Writer!Resp
  BY <1>4, RespKeeps
<1>5. CASE Writer!Return
  BY <1>5, TasksStay DEF Writer!Return
<1>6. CASE wTasks # <<>> /\ Writer!Work(Head(wTasks))
  BY <1>6, WorkKeeps
<1>7. CASE UNCHANGED Writer!vars
  <2>1. UNCHANGED <<wTasks, wPromised, wWire, wFp, wEnded, wSpoiled, wAlive, wNext, wRunning>>
    BY <1>7 DEF Writer!vars
  <2>2. wRunning' => wAlive
    BY <2>1 DEF WriteInv, WriteRest
  <2> QED BY <2>1, <2>2, TasksStay
<1> QED BY <1>1, <1>2, <1>3, <1>4, <1>5, <1>6, <1>7 DEF Writer!Next

------------------------------------------------------------------------------

\* The invariant says what the run checks.
LEMMA WriteInvIs == WriteInv => AnswersWhole
<1> SUFFICES ASSUME WriteInv PROVE AnswersWhole
  OBVIOUS
<1>1. wWire \in Seq(Pieces) /\ wPromised \in Seq(Pieces)
  BY DEF WriteInv, WriteTypes
<1>2. Writer!InOrder
  <2> SUFFICES ASSUME wSpoiled = {} PROVE Writer!IsPrefix(wWire, wPromised)
    BY DEF Writer!InOrder
  <2>1. /\ Len(wWire) <= Len(wPromised)
        /\ \A j \in 1 .. Len(wWire) : wWire[j] = wPromised[j]
    BY DEF WriteInv, Laid
  <2> QED BY <1>1, <2>1 DEF Writer!IsPrefix
<1>3. Writer!EndsWritten
  <2> SUFFICES ASSUME NEW n \in wEnded \ wSpoiled, NEW p \in Writer!Parts
               PROVE  Writer!Count(wWire, <<p, n>>) = Writer!Count(wPromised, <<p, n>>)
    BY DEF Writer!EndsWritten
  <2>1. n \in (1 .. MaxAnswers) \ wSpoiled
    BY DEF WriteInv, WriteTypes
  <2>2. Accounts(p, n)
    BY <2>1 DEF WriteInv, Balance
  <2>3. NoTask(p, n)
    BY DEF WriteInv, TasksSorted, NoTask, Is
  <2> QED BY <2>2, <2>3 DEF Accounts
<1>4. Writer!FilesClosed
  <2>1. DOMAIN wTasks = 1 .. Len(wTasks)
    BY DEF WriteInv, WriteTypes
  <2> QED BY <2>1 DEF WriteInv, FilesKnown, FileTask, Is, Writer!FilesClosed
<1> QED BY <1>2, <1>3, <1>4 DEF AnswersWhole

\* For any number of answers of any lengths, sent in any parts, with any failures and at
\* any end of the connection: until a send fails or a file falls short, the wire has what
\* was attached, in order and once; an answer that ends and was not spoiled is on the
\* wire whole; and a file is open exactly as long as a task has it.
THEOREM AnswersSafe == Writer!Spec => []AnswersWhole
<1>1. Writer!Init => WriteInv
  BY WriterBounds, WriteInit
<1>2. WriteInv /\ [Writer!Next]_(Writer!vars) => WriteInv'
  BY WriterBounds, WriteStep
<1> QED BY <1>1, <1>2, WriteInvIs, PTL DEF Writer!Spec

===============================================================================
