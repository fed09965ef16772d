-------------------------------- MODULE Login --------------------------------
(****************************************************************************)
(* How a TRS stays known to the FOSS (src/src/trs/trs.c,                    *)
(* src/src/foss/foss.c): it logs in at intervals and looks at no answer; the*)
(* FOSS keeps an entry for it behind a timer that each login delays.  The   *)
(* FOSS reports to the OCS in the same way.  Logins may be lost or late,    *)
(* and both programs restart.                                               *)
(*                                                                          *)
(* Time is relative: next, left and report are what is to go until a timer  *)
(* is due (negative when the loop is late).                                 *)
(****************************************************************************)
EXTENDS Integers, FiniteSets

CONSTANTS
  Trss,      \* ids of TRS servers
  None,      \* no timer
  First,     \* the 4000 ms after the start
  Interval,  \* trs->interval, 20 s by default
  Report,    \* the 30000 ms between two reports to the OCS
  Timeout,   \* the 120000 ms an entry is kept
  MaxDelay,  \* bound: how long a login is under way
  MaxLate,   \* bound: how late a TRS runs its timer
  Losses     \* logins in a row that may be lost

VARIABLES
  next,    \* trs->timer of a TRS that serves
  age,     \* how long its login has been under way
  left,    \* trsmgr->timer of its entry
  heard,   \* TRSs that the FOSS has heard of since both started
  lost,    \* logins in a row that were lost
  report   \* foss->timer

vars == <<next, age, left, heard, lost, report>>

TypeOK ==
  /\ next \in [Trss -> (-MaxLate .. (Interval + First)) \cup {None}]
  /\ age \in [Trss -> (0 .. MaxDelay) \cup {None}]
  /\ left \in [Trss -> Int \cup {None}]
  /\ heard \in SUBSET Trss
  /\ lost \in [Trss -> 0 .. Losses + 1]
  /\ report \in -MaxLate .. (Report + First)

\* The configuration and the timing that the promise rests on.
Timing ==
  /\ None \notin Int
  /\ First \in Nat \ {0} /\ Interval \in Nat \ {0} /\ Report \in Nat \ {0}
  /\ Timeout \in Nat /\ MaxDelay \in Nat /\ MaxLate \in Nat /\ Losses \in Nat
  /\ MaxDelay < Interval
  /\ (Losses + 1) * (Interval + MaxLate) + MaxDelay < Timeout
  /\ First + MaxLate + Losses * (Interval + MaxLate) + MaxDelay < Timeout

Init ==
  /\ next = [t \in Trss |-> None]
  /\ age = [t \in Trss |-> None]
  /\ left = [t \in Trss |-> None]
  /\ heard = {}
  /\ lost = [t \in Trss |-> 0]
  /\ report = First

------------------------------------------------------------------------------
(* The TRS *)

\* stb_fetch_done: the TRS has loaded its boxes, adds its timer and listens.
Start(t) ==
  /\ next[t] = None
  /\ next' = [next EXCEPT ![t] = First]
  /\ UNCHANGED <<age, left, heard, lost, report>>

\* The process ends; what it sent is on its way.
Stop(t) ==
  /\ next[t] # None
  /\ next' = [next EXCEPT ![t] = None]
  /\ heard' = heard \ {t}
  /\ lost' = [lost EXCEPT ![t] = 0]
  /\ UNCHANGED <<age, left, report>>

\* Faulty variant of SendLogin: the timer is delayed when the answer comes.
SendLoginOnce(t) ==
  /\ next[t] # None /\ next[t] <= 0
  /\ age[t] = None
  /\ age' = [age EXCEPT ![t] = 0]
  /\ next' = [next EXCEPT ![t] = Interval + First]
  /\ UNCHANGED <<left, heard, lost, report>>

\* foss_keepavlie: a login is sent and the timer delayed, whatever becomes of the
\* login.  When no connection can be had the timer is not delayed: it is the
\* first one until it can (EventLoop has what that does to the others).
SendLogin(t) ==
  /\ next[t] # None /\ next[t] <= 0
  /\ age[t] = None
  /\ age' = [age EXCEPT ![t] = 0]
  /\ next' = [next EXCEPT ![t] = Interval]
  /\ UNCHANGED <<left, heard, lost, report>>

------------------------------------------------------------------------------
(* The FOSS *)

\* Faulty variant of GotLogin: the timer of an entry is not delayed.
GotLoginOnce(t) ==
  /\ age[t] # None
  /\ age' = [age EXCEPT ![t] = None]
  /\ left' = [left EXCEPT ![t] = IF @ = None THEN Timeout ELSE @]
  /\ IF next[t] = None THEN UNCHANGED <<heard, lost>>
       ELSE heard' = heard \cup {t} /\ lost' = [lost EXCEPT ![t] = 0]
  /\ UNCHANGED <<next, report>>

\* /Foss/login: an entry is made, or its timer delayed.
GotLogin(t) ==
  /\ age[t] # None
  /\ age' = [age EXCEPT ![t] = None]
  /\ left' = [left EXCEPT ![t] = Timeout]
  /\ IF next[t] = None THEN UNCHANGED <<heard, lost>>
       ELSE heard' = heard \cup {t} /\ lost' = [lost EXCEPT ![t] = 0]
  /\ UNCHANGED <<next, report>>

\* The connection breaks: nobody sends the login again.
LoginLost(t) ==
  /\ age[t] # None
  /\ age' = [age EXCEPT ![t] = None]
  /\ lost' = [lost EXCEPT ![t] = IF next[t] # None /\ @ <= Losses THEN @ + 1 ELSE @]
  /\ UNCHANGED <<next, left, heard, report>>

\* Faulty variant of Forget: the entry is kept.
ForgetLater(t) ==
  /\ left[t] # None /\ left[t] <= 0
  /\ left' = [left EXCEPT ![t] = Timeout]
  /\ UNCHANGED <<next, age, heard, lost, report>>

\* trs_login: the entry goes out of both trees, and its timer with it.
Forget(t) ==
  /\ left[t] # None /\ left[t] <= 0
  /\ left' = [left EXCEPT ![t] = None]
  /\ UNCHANGED <<next, age, heard, lost, report>>

\* foss_login: the report to the OCS.
SendReport ==
  /\ report <= 0
  /\ report' = Report
  /\ UNCHANGED <<next, age, left, heard, lost>>

\* main of the FOSS: it listens with empty trees, before it has connections to the
\* database; the first report is due after 4 s.
FossStart ==
  /\ left' = [t \in Trss |-> None]
  /\ heard' = {}
  /\ lost' = [t \in Trss |-> 0]
  /\ report' = First
  /\ UNCHANGED <<next, age>>

------------------------------------------------------------------------------
Less(f) == [t \in Trss |-> IF f[t] = None THEN None ELSE f[t] - 1]

Tick ==
  /\ \A t \in Trss : next[t] # None => next[t] > -MaxLate
  /\ \A t \in Trss : age[t] # None => age[t] < MaxDelay
  /\ \A t \in Trss : left[t] # None => left[t] > 0
  /\ report > -MaxLate
  /\ next' = Less(next)
  /\ age' = [t \in Trss |-> IF age[t] = None THEN None ELSE age[t] + 1]
  /\ left' = Less(left)
  /\ report' = report - 1
  /\ UNCHANGED <<heard, lost>>

Next ==
  \/ \E t \in Trss : \/ Start(t) \/ Stop(t) \/ SendLogin(t)
                     \/ GotLogin(t) \/ LoginLost(t) \/ Forget(t)
  \/ SendReport \/ FossStart \/ Tick

Spec == Init /\ [][Next]_vars

\* Time passes, and the FOSS runs its timers.
FairSpec == Spec /\ WF_vars(Tick) /\ WF_vars(SendReport)
  /\ \A t \in Trss : WF_vars(SendLogin(t)) /\ WF_vars(GotLogin(t)) /\ WF_vars(Forget(t))

------------------------------------------------------------------------------
(* Properties *)

\* A TRS that serves and was heard of is known to the FOSS, although Losses logins
\* in a row were lost, others came late, and the TRS ran its timer late: with
\* 20 s and 120 s, four logins may be lost.  (foss_keepavlie delays its timer without
\* waiting for the answer; /Foss/login delays that of the entry.)
StaysKnown == \A t \in heard : lost[t] <= Losses => left[t] # None

\* A TRS that went away is forgotten.
Forgotten == \A t \in Trss :
  next[t] = None ~> (left[t] = None \/ next[t] # None)
==============================================================================
