--------------------------- MODULE HttpClientProofs ---------------------------
(* Proofs about HttpClient, for all connections and requests, any number of *)
(* connections at the start, and all callbacks.                             *)
EXTENDS HttpClient, SequenceTheorems, TLAPS

USE NoneAssumption, ReqsAssumption, NumAssumption

------------------------------------------------------------------------------
(* Lists without repetition *)

Once(s) == \A i, j \in DOMAIN s : s[i] = s[j] => i = j

\* rns_list_add
LEMMA OnceAppend ==
  ASSUME NEW S, NEW s \in Seq(S), Once(s), NEW e \in S, e \notin ToSet(s)
  PROVE  /\ Append(s, e) \in Seq(S) /\ Once(Append(s, e))
         /\ ToSet(Append(s, e)) = ToSet(s) \cup {e}
<1>1. /\ Append(s, e) \in Seq(S) /\ Len(Append(s, e)) = Len(s) + 1
      /\ DOMAIN Append(s, e) = 1 .. Len(s) + 1 /\ DOMAIN s = 1 .. Len(s) /\ Len(s) \in Nat
      /\ \A i \in 1 .. Len(s) : Append(s, e)[i] = s[i]
      /\ Append(s, e)[Len(s) + 1] = e
  OBVIOUS
<1> QED BY <1>1 DEF Once, ToSet

\* rns_list_first, and its removal
LEMMA OnceTail ==
  ASSUME NEW S, NEW s \in Seq(S), Once(s), s # <<>>
  PROVE  /\ Tail(s) \in Seq(S) /\ Once(Tail(s)) /\ Head(s) \in ToSet(s) /\ Head(s) \in S
         /\ ToSet(Tail(s)) = ToSet(s) \ {Head(s)}
<1>1. /\ Tail(s) \in Seq(S) /\ Len(s) \in Nat \ {0} /\ Head(s) = s[1]
      /\ DOMAIN Tail(s) = 1 .. Len(s) - 1 /\ DOMAIN s = 1 .. Len(s)
      /\ \A i \in 1 .. Len(s) - 1 : Tail(s)[i] = s[i + 1]
  OBVIOUS
<1>2. Once(Tail(s))
  BY <1>1 DEF Once
<1>3. ASSUME NEW x \in ToSet(Tail(s)) PROVE x \in ToSet(s) \ {Head(s)}
  BY <1>1, <1>3 DEF Once, ToSet
<1>4. ASSUME NEW x \in ToSet(s) \ {Head(s)} PROVE x \in ToSet(Tail(s))
  <2>1. PICK i \in 1 .. Len(s) : x = s[i]
    BY <1>1, <1>4 DEF ToSet
  <2>2. i - 1 \in 1 .. Len(s) - 1 /\ Tail(s)[i - 1] = x
    BY <1>1, <1>4, <2>1
  <2> QED BY <1>1, <2>2 DEF ToSet
<1>5. Head(s) \in ToSet(s) /\ Head(s) \in S
  BY <1>1 DEF ToSet
<1> QED BY <1>1, <1>2, <1>3, <1>4, <1>5

\* rns_list_del
LEMMA OnceRemove ==
  ASSUME NEW S, NEW s \in Seq(S), Once(s), NEW e
  PROVE  /\ RemoveFirst(s, e) \in Seq(S) /\ Once(RemoveFirst(s, e))
         /\ ToSet(RemoveFirst(s, e)) = ToSet(s) \ {e}
<1>1. DOMAIN s = 1 .. Len(s) /\ Len(s) \in Nat
  OBVIOUS
<1>2. CASE \A i \in 1 .. Len(s) : s[i] # e
  <2>1. RemoveFirst(s, e) = s
    BY <1>2 DEF RemoveFirst
  <2> QED BY <1>1, <1>2, <2>1 DEF ToSet
<1>3. CASE \E i \in 1 .. Len(s) : s[i] = e
  <2>1. PICK k \in 1 .. Len(s) : s[k] = e
    BY <1>3
  <2>2. {i \in 1 .. Len(s) : s[i] = e} = {k}
    BY <1>1, <2>1 DEF Once
  <2>3. SelectInSeq(s, LAMBDA v : v = e) = k
    BY <2>2 DEF SelectInSeq, Min
  <2>4. RemoveFirst(s, e) = SubSeq(s, 1, k - 1) \o SubSeq(s, k + 1, Len(s))
    BY <1>3, <2>3 DEF RemoveFirst, RemoveAt
  <2> DEFINE t == SubSeq(s, 1, k - 1) \o SubSeq(s, k + 1, Len(s))
  <2>5. /\ SubSeq(s, 1, k - 1) \in Seq(S) /\ Len(SubSeq(s, 1, k - 1)) = k - 1
        /\ \A i \in 1 .. k - 1 : SubSeq(s, 1, k - 1)[i] = s[i]
    BY <1>1
  <2>6. /\ SubSeq(s, k + 1, Len(s)) \in Seq(S) /\ Len(SubSeq(s, k + 1, Len(s))) = Len(s) - k
        /\ \A i \in 1 .. Len(s) - k : SubSeq(s, k + 1, Len(s))[i] = s[k + i]
    <3>1. k + 1 \in Int /\ Len(s) \in Int /\ \A i \in k + 1 .. Len(s) : s[i] \in S
      BY <1>1
    <3>2. /\ SubSeq(s, k + 1, Len(s)) \in Seq(S)
          /\ Len(SubSeq(s, k + 1, Len(s))) = IF k + 1 <= Len(s) THEN Len(s) - (k + 1) + 1 ELSE 0
          /\ \A i \in 1 .. Len(s) - (k + 1) + 1 : SubSeq(s, k + 1, Len(s))[i] = s[k + 1 + i - 1]
      BY <3>1, SubSeqProperties
    <3>3. Len(s) - (k + 1) + 1 = Len(s) - k /\ (k + 1 <= Len(s) \/ Len(s) - k = 0)
      <4>1. \A n \in Nat : \A m \in 1 .. n : n - (m + 1) + 1 = n - m /\ (m + 1 <= n \/ n - m = 0)
        OBVIOUS
      <4> QED BY <1>1, <4>1
    <3> DEFINE v == SubSeq(s, k + 1, Len(s))
    <3>4. v \in Seq(S) /\ Len(v) = Len(s) - k
      BY <3>2, <3>3
    <3>5. ASSUME NEW i \in 1 .. Len(s) - k PROVE v[i] = s[k + i]
      <4>1. v[i] = s[k + 1 + i - 1]
        BY <3>2, <3>3
      <4>2. k + 1 + i - 1 = k + i
        BY <1>1
      <4> QED BY <4>1, <4>2
    <3> QED BY <3>4, <3>5
  <2>7. /\ t \in Seq(S) /\ DOMAIN t = 1 .. Len(s) - 1
        /\ \A i \in 1 .. Len(s) - 1 : t[i] = IF i < k THEN s[i] ELSE s[i + 1]
    <3> DEFINE u == SubSeq(s, 1, k - 1)
               v == SubSeq(s, k + 1, Len(s))
    <3> HIDE DEF u, v
    <3>1. /\ u \in Seq(S) /\ v \in Seq(S) /\ Len(u) = k - 1 /\ Len(v) = Len(s) - k
          /\ \A i \in 1 .. k - 1 : u[i] = s[i]
          /\ \A i \in 1 .. Len(s) - k : v[i] = s[k + i]
      BY <2>5, <2>6 DEF u, v
    <3>2. /\ u \o v \in Seq(S) /\ Len(u \o v) = Len(u) + Len(v)
          /\ \A i \in 1 .. Len(u) + Len(v) :
               (u \o v)[i] = IF i <= Len(u) THEN u[i] ELSE v[i - Len(u)]
      BY <3>1, ConcatProperties
    <3>3. ASSUME NEW i \in 1 .. Len(s) - 1
          PROVE  (u \o v)[i] = IF i < k THEN s[i] ELSE s[i + 1]
      <4>1. (u \o v)[i] = IF i <= k - 1 THEN u[i] ELSE v[i - (k - 1)]
        BY <1>1, <3>1, <3>2
      <4>2. CASE i < k
        BY <1>1, <3>1, <4>1, <4>2
      <4>3. CASE ~ (i < k)
        <5>1. i - (k - 1) \in 1 .. Len(s) - k /\ k + (i - (k - 1)) = i + 1 /\ ~ (i <= k - 1)
          BY <1>1, <4>3
        <5>2. v[i - (k - 1)] = s[k + (i - (k - 1))]
          BY <3>1, <5>1
        <5> QED BY <4>1, <4>3, <5>1, <5>2
      <4> QED BY <4>2, <4>3
    <3>4. DOMAIN (u \o v) = 1 .. Len(s) - 1
      <4>1. DOMAIN (u \o v) = 1 .. Len(u \o v)
        BY <3>2, LenProperties
      <4>2. Len(u \o v) = Len(s) - 1
        BY <1>1, <3>1, <3>2
      <4> QED BY <4>1, <4>2
    <3>5. t = u \o v
      BY DEF u, v
    <3> QED BY <3>2, <3>3, <3>4, <3>5
  <2> HIDE DEF t
  <2>8. Once(t)
    <3> SUFFICES ASSUME NEW i \in 1 .. Len(s) - 1, NEW j \in 1 .. Len(s) - 1, t[i] = t[j]
                 PROVE  i = j
      BY <2>7 DEF Once
    <3>1. /\ i \in 1 .. Len(s) /\ i + 1 \in 1 .. Len(s)
          /\ j \in 1 .. Len(s) /\ j + 1 \in 1 .. Len(s)
      BY <1>1
    <3> QED BY <1>1, <2>7, <3>1 DEF Once
  <2>9. ASSUME NEW i \in 1 .. Len(s) - 1 PROVE t[i] \in ToSet(s) /\ t[i] # e
    <3>1. i \in 1 .. Len(s) /\ i + 1 \in 1 .. Len(s)
      BY <1>1
    <3>2. t[i] \in ToSet(s)
      BY <1>1, <2>7, <3>1 DEF ToSet
    <3>3. t[i] # e
      BY <1>1, <2>1, <2>7, <3>1 DEF Once
    <3> QED BY <3>2, <3>3
  <2>10. ASSUME NEW x \in ToSet(s) \ {e} PROVE x \in ToSet(t)
    <3>1. PICK i \in 1 .. Len(s) : x = s[i]
      BY <1>1, <2>10 DEF ToSet
    <3>2. CASE i < k
      BY <2>7, <3>1, <3>2, i \in 1 .. Len(s) - 1 DEF ToSet
    <3>3. CASE i > k
      <4>1. i - 1 \in 1 .. Len(s) - 1 /\ t[i - 1] = x
        BY <2>7, <3>1, <3>3
      <4> QED BY <2>7, <4>1 DEF ToSet
    <3> QED BY <2>1, <2>10, <3>1, <3>2, <3>3
  <2>11. ToSet(t) \subseteq ToSet(s) \ {e}
    BY <2>7, <2>9 DEF ToSet
  <2>12. RemoveFirst(s, e) = t
    BY <2>4 DEF t
  <2> QED BY <2>7, <2>8, <2>10, <2>11, <2>12
<1> QED BY <1>2, <1>3

------------------------------------------------------------------------------
(* The inductive invariant *)

Clear(c) == out[c] = <<>> /\ wire[c] = <<>> /\ ans[c] = <<>>

\* One request is on c, as a task, with the server, or answered; and it is the one that
\* the callbacks of c belong to.
Carries(c) ==
  \/ out[c] = <<cb[c]>> /\ wire[c] = <<>> /\ ans[c] = <<>>
  \/ out[c] = <<>> /\ wire[c] = <<cb[c]>> /\ ans[c] = <<>>
  \/ /\ out[c] = <<>> /\ wire[c] = <<>>
     /\ \E k \in {"keep", "close"} : ans[c] = <<[req |-> cb[c], conn |-> k]>>

ConnInv(c) ==
  /\ c \in ToSet(pool) => c \in live /\ Clear(c)
  /\ c \notin live => Clear(c) /\ cb[c] = None
  /\ Clear(c) \/ (Carries(c) /\ got[c] = "no" /\ cb[c] \in Reqs /\ work[cb[c]] = 0)
  /\ cb[c] # None => cb[c] \in asked /\ lost[cb[c]] = 0
  /\ c \in live => \/ c = cur /\ got[c] # "no"
                   \/ c \in ToSet(pool) \/ peer[c] # "open" \/ ~ Clear(c)

\* The callbacks of a request are set on one connection.
OneOwner == \A c, d \in Conns : cb[c] = cb[d] /\ cb[c] # None => c = d

Fresh == \A r \in Reqs : r \notin asked => work[r] = 0 /\ lost[r] = 0

ConnsInv == \A c \in Conns : ConnInv(c)

ClientInv == TypeOK /\ Once(pool) /\ ConnsInv /\ OneOwner /\ Fresh /\ AnswerMatches

LEMMA ClientInit == Init => ClientInv
<1> SUFFICES ASSUME Init PROVE ClientInv
  OBVIOUS
<1>1. PICK n \in 0 .. Num : pool \in [1 .. n -> Conns] /\ IsInjective(pool)
  BY DEF Init
<1>2. pool \in Seq(Conns) /\ Once(pool)
  BY <1>1 DEF IsInjective, Once
<1>3. ToSet(pool) \subseteq Conns
  BY <1>2 DEF ToSet
<1>4. <<>> \in Seq(Reqs) /\ <<>> \in Seq(Answers)
  OBVIOUS
<1>5. TypeOK
  BY <1>2, <1>3, <1>4 DEF Init, TypeOK
<1>6. ConnsInv
  BY <1>3 DEF Init, ConnsInv, ConnInv, Clear
<1>7. OneOwner /\ Fresh /\ AnswerMatches
  BY DEF Init, OneOwner, Fresh, AnswerMatches
<1> QED BY <1>2, <1>5, <1>6, <1>7 DEF ClientInv

\* What a step on another connection leaves alone
LEMMA OtherConn ==
  ASSUME ClientInv, NEW d \in Conns,
         cb'[d] = cb[d], got'[d] = got[d], peer'[d] = peer[d],
         out'[d] = out[d], wire'[d] = wire[d], ans'[d] = ans[d],
         d \in live' <=> d \in live, d \in ToSet(pool') <=> d \in ToSet(pool),
         d = cur /\ got[d] # "no" => d = cur',
         asked \subseteq asked',
         cb[d] # None => work'[cb[d]] = work[cb[d]] /\ lost'[cb[d]] = lost[cb[d]]
  PROVE  ConnInv(d)'
<1>1. ConnInv(d)
  BY DEF ClientInv, ConnsInv
<1>2. Clear(d)' <=> Clear(d)
  BY DEF Clear
<1>3. Carries(d)' <=> Carries(d)
  BY DEF Carries
<1>4. cb[d] \in Reqs => cb[d] # None
  OBVIOUS
<1> QED BY <1>1, <1>2, <1>3, <1>4 DEF ConnInv

------------------------------------------------------------------------------
(* Requests *)

\* rns_hconn_req on a connection that was in the list, or is new
LEMMA SentInv ==
  ASSUME ClientInv, NEW r \in Reqs \ asked, NEW c \in Conns, Clear(c), Sent(r, c),
         pool' \in Seq(Conns), Once(pool'), ToSet(pool') = ToSet(pool) \ {c},
         live' = live \cup {c},
         peer' \in [Conns -> {"open", "fin", "reset"}],
         \A d \in Conns \ {c} : peer'[d] = peer[d]
  PROVE  ClientInv'
<1> USE DEF ClientInv
<1>0. /\ TypeOK /\ cb' = [cb EXCEPT ![c] = r] /\ got' = [got EXCEPT ![c] = "no"]
      /\ out' = [out EXCEPT ![c] = Append(@, r)] /\ asked' = asked \cup {r}
      /\ cur' = cur /\ wire' = wire /\ ans' = ans /\ work' = work /\ lost' = lost
      /\ from' = from /\ undefined' = undefined
  BY DEF Sent, Tuned, HeaderAttached
<1>1. out'[c] = <<r>> /\ wire'[c] = <<>> /\ ans'[c] = <<>> /\ cb'[c] = r /\ got'[c] = "no"
  BY <1>0 DEF Clear, TypeOK
<1>2. TypeOK'
  <2>1. /\ cb' \in [Conns -> Reqs \cup {None}] /\ got' \in [Conns -> {"no", "keep", "close"}]
        /\ live' \subseteq Conns /\ cur' \in live' \cup {None} /\ asked' \subseteq Reqs
    BY <1>0 DEF TypeOK
  <2>2. out' \in [Conns -> Seq(Reqs)]
    BY <1>0 DEF TypeOK
  <2> QED BY <1>0, <2>1, <2>2 DEF TypeOK
<1>3. ConnInv(c)'
  <2>1. Carries(c)' /\ ~ Clear(c)'
    BY <1>1 DEF Carries, Clear
  <2>2. work[r] = 0 /\ lost[r] = 0
    BY DEF Fresh
  <2> QED BY <1>0, <1>1, <2>1, <2>2 DEF ConnInv
<1>4. ASSUME NEW d \in Conns \ {c} PROVE ConnInv(d)'
  <2>1. cb'[d] = cb[d] /\ got'[d] = got[d] /\ out'[d] = out[d]
    BY <1>0 DEF TypeOK
  <2>2. (d \in live' <=> d \in live) /\ (d \in ToSet(pool') <=> d \in ToSet(pool))
    OBVIOUS
  <2> QED BY <1>0, <2>1, <2>2, OtherConn
<1>5. OneOwner'
  <2>1. \A d \in Conns : cb[d] # r
    BY DEF ConnsInv, ConnInv
  <2>2. \A d \in Conns : cb'[d] = IF d = c THEN r ELSE cb[d]
    BY <1>0 DEF TypeOK
  <2> QED BY <2>1, <2>2 DEF OneOwner
<1>6. Fresh' /\ AnswerMatches'
  BY <1>0 DEF Fresh, AnswerMatches
<1> QED BY <1>2, <1>3, <1>4, <1>5, <1>6 DEF ConnsInv

LEMMA GetInv == ASSUME ClientInv, NEW r \in Reqs, Get(r) PROVE ClientInv'
<1> USE DEF ClientInv
<1>1. CASE GetPooled(r)
  <2> DEFINE c == Head(pool)
  <2>1. /\ r \in Reqs \ asked /\ pool # <<>> /\ pool' = Tail(pool) /\ Sent(r, c)
        /\ live' = live /\ peer' = peer
    BY <1>1 DEF GetPooled
  <2>2. /\ Tail(pool) \in Seq(Conns) /\ Once(Tail(pool)) /\ c \in ToSet(pool) /\ c \in Conns
        /\ ToSet(Tail(pool)) = ToSet(pool) \ {c}
    BY <2>1, OnceTail DEF TypeOK
  <2>3. Clear(c) /\ c \in live
    BY <2>2 DEF ConnsInv, ConnInv
  <2>4. live' = live \cup {c} /\ peer' \in [Conns -> {"open", "fin", "reset"}]
    BY <2>1, <2>3 DEF TypeOK
  <2> HIDE DEF c
  <2> QED BY <2>1, <2>2, <2>3, <2>4, SentInv
<1>2. CASE GetCreated(r)
  <2>1. PICK c \in Conns \ live :
          /\ live' = live \cup {c} /\ peer' = [peer EXCEPT ![c] = "open"] /\ Sent(r, c)
    BY <1>2 DEF GetCreated
  <2>2. r \in Reqs \ asked /\ pool' = pool
    BY <1>2 DEF GetCreated
  <2>3. Clear(c) /\ c \notin ToSet(pool)
    BY <2>1 DEF ConnsInv, ConnInv
  <2>4. /\ pool' \in Seq(Conns) /\ Once(pool') /\ ToSet(pool') = ToSet(pool) \ {c}
        /\ peer' \in [Conns -> {"open", "fin", "reset"}]
        /\ \A d \in Conns \ {c} : peer'[d] = peer[d]
    BY <2>1, <2>2, <2>3 DEF TypeOK
  <2> QED BY <2>1, <2>2, <2>3, <2>4, SentInv
<1>3. CASE GetFails(r)
  <2>1. /\ asked' = asked \cup {r}
        /\ UNCHANGED <<pool, live, cb, got, cur, out, wire, ans, peer, work, lost, from, undefined>>
    BY <1>3 DEF GetFails, connVars, netVars
  <2>2. \A d \in Conns : ConnInv(d)'
    BY <2>1, OtherConn
  <2> QED BY <2>1, <2>2 DEF TypeOK, ConnsInv, OneOwner, Fresh, AnswerMatches
<1> QED BY <1>1, <1>2, <1>3 DEF Get

------------------------------------------------------------------------------
(* The socket and the server *)

\* A step that moves the request on one connection, or drops it with its end
LEMMA MovedInv ==
  ASSUME ClientInv, NEW c \in Conns, TypeOK', Carries(c)' \/ (Clear(c)' /\ peer'[c] # "open"),
         \A d \in Conns \ {c} : /\ out'[d] = out[d] /\ wire'[d] = wire[d] /\ ans'[d] = ans[d]
                                /\ peer'[d] = peer[d],
         ~ Clear(c), c \in live, UNCHANGED <<connVars, cur, userVars>>
  PROVE  ClientInv'
<1> USE DEF ClientInv
<1>0. UNCHANGED <<pool, live, cb, got, cur, asked, work, lost, from>>
  BY DEF connVars, userVars
<1>1. ConnInv(c)'
  <2>1. ~ Clear(c)' \/ peer'[c] # "open"
    BY DEF Carries, Clear
  <2>2. ConnInv(c)
    BY DEF ConnsInv
  <2>3. c \notin ToSet(pool)'
    BY <1>0, <2>2 DEF ConnInv
  <2> QED BY <1>0, <2>1, <2>2, <2>3 DEF ConnInv
<1>2. ASSUME NEW d \in Conns \ {c} PROVE ConnInv(d)'
  BY <1>0, <1>2, OtherConn
<1> QED BY <1>0, <1>1, <1>2 DEF ConnsInv, OneOwner, Fresh, AnswerMatches

LEMMA WriteInv == ASSUME ClientInv, NEW c \in Conns, Write(c) PROVE ClientInv'
<1> USE DEF ClientInv
<1>0. /\ c \in live /\ out[c] # <<>> /\ TypeOK
      /\ wire' = [wire EXCEPT ![c] = IF peer[c] = "open" THEN @ \o out[c] ELSE @]
      /\ out' = [out EXCEPT ![c] = <<>>]
      /\ UNCHANGED <<connVars, cur, userVars>> /\ ans' = ans /\ peer' = peer
      /\ undefined' = undefined
  BY DEF Write
<1>1. /\ out[c] = <<cb[c]>> /\ wire[c] = <<>> /\ ans[c] = <<>> /\ cb[c] \in Reqs /\ ~ Clear(c)
  BY <1>0 DEF ConnsInv, ConnInv, Carries, Clear
<1>2. out'[c] = <<>> /\ wire'[c] = (IF peer[c] = "open" THEN <<cb[c]>> ELSE <<>>) /\ ans'[c] = <<>>
  BY <1>0, <1>1 DEF TypeOK
<1>3. cb'[c] = cb[c]
  BY <1>0 DEF connVars
<1>4. Carries(c)' \/ (Clear(c)' /\ peer'[c] # "open")
  BY <1>0, <1>2, <1>3 DEF Carries, Clear
<1>5. \A d \in Conns \ {c} : out'[d] = out[d] /\ wire'[d] = wire[d]
  BY <1>0 DEF TypeOK
<1>6. TypeOK'
  <2>1. out' \in [Conns -> Seq(Reqs)] /\ wire' \in [Conns -> Seq(Reqs)]
    BY <1>0 DEF TypeOK
  <2> QED BY <1>0, <2>1 DEF TypeOK, connVars, userVars
<1> QED BY <1>0, <1>1, <1>4, <1>5, <1>6, MovedInv

LEMMA ServerInv == ASSUME ClientInv, NEW c \in Conns, Server(c) PROVE ClientInv'
<1> USE DEF ClientInv
<1>1. CASE ServerAnswers(c)
  <2>0. PICK k \in {"keep", "close"} :
          /\ c \in live /\ wire[c] # <<>> /\ TypeOK
          /\ ans' = [ans EXCEPT ![c] = Append(@, [req |-> Head(wire[c]), conn |-> k])]
          /\ wire' = [wire EXCEPT ![c] = Tail(@)]
          /\ UNCHANGED <<connVars, cur, userVars>> /\ out' = out /\ peer' = peer
          /\ undefined' = undefined
    BY <1>1 DEF ServerAnswers
  <2>1. out[c] = <<>> /\ wire[c] = <<cb[c]>> /\ ans[c] = <<>> /\ cb[c] \in Reqs /\ ~ Clear(c)
    BY <2>0 DEF ConnsInv, ConnInv, Carries, Clear
  <2>2. out'[c] = <<>> /\ wire'[c] = <<>> /\ ans'[c] = <<[req |-> cb[c], conn |-> k]>>
    BY <2>0, <2>1 DEF TypeOK
  <2>3. Carries(c)'
    BY <2>0, <2>2 DEF Carries, connVars
  <2>4. \A d \in Conns \ {c} : ans'[d] = ans[d] /\ wire'[d] = wire[d]
    BY <2>0 DEF TypeOK
  <2>5. TypeOK'
    <3>1. wire' \in [Conns -> Seq(Reqs)]
      BY <2>0 DEF TypeOK
    <3>2. [req |-> Head(wire[c]), conn |-> k] \in Answers
      BY <2>1 DEF Answers
    <3>3. ans' \in [Conns -> Seq(Answers)]
      BY <2>0, <3>2 DEF TypeOK
    <3> QED BY <2>0, <3>1, <3>3 DEF TypeOK, connVars, userVars
  <2> QED BY <2>0, <2>1, <2>3, <2>4, <2>5, MovedInv
<1>2. CASE ServerLeaves(c)
  <2>0. /\ c \in live /\ TypeOK /\ peer[c] = "open"
        /\ \/ peer' = [peer EXCEPT ![c] = "fin"] /\ ans' = ans
           \/ peer' = [peer EXCEPT ![c] = "reset"] /\ ans' = [ans EXCEPT ![c] = <<>>]
        /\ wire' = [wire EXCEPT ![c] = <<>>]
        /\ UNCHANGED <<pool, live, cb, got, cur, asked, work, lost, from>> /\ out' = out
        /\ undefined' = undefined
    BY <1>2 DEF ServerLeaves, connVars, userVars
  <2>1. TypeOK'
    <3>0. <<>> \in Seq(Reqs) /\ <<>> \in Seq(Answers)
      OBVIOUS
    <3>1. wire' \in [Conns -> Seq(Reqs)]
      BY <2>0, <3>0 DEF TypeOK
    <3>3. ans' \in [Conns -> Seq(Answers)]
      BY <2>0, <3>0 DEF TypeOK
    <3>2. peer' \in [Conns -> {"open", "fin", "reset"}]
      BY <2>0 DEF TypeOK
    <3> QED BY <2>0, <3>1, <3>2, <3>3 DEF TypeOK
  <2>2. ConnInv(c)'
    <3>1. /\ out'[c] = out[c] /\ wire'[c] = <<>> /\ (ans'[c] = ans[c] \/ ans'[c] = <<>>)
          /\ peer'[c] # "open"
      BY <2>0 DEF TypeOK
    <3>2. ConnInv(c)
      BY DEF ConnsInv
    <3>3. Clear(c) => Clear(c)'
      BY <3>1 DEF Clear
    <3>4. Carries(c) => Carries(c)' \/ Clear(c)'
      BY <2>0, <3>1 DEF Carries, Clear
    <3> QED BY <2>0, <3>1, <3>2, <3>3, <3>4 DEF ConnInv
  <2>3. ASSUME NEW d \in Conns \ {c} PROVE ConnInv(d)'
    <3>1. peer'[d] = peer[d] /\ ans'[d] = ans[d] /\ wire'[d] = wire[d]
      BY <2>0 DEF TypeOK
    <3> QED BY <2>0, <3>1, OtherConn
  <2> QED BY <2>0, <2>1, <2>2, <2>3 DEF ConnsInv, OneOwner, Fresh, AnswerMatches
<1> QED BY <1>1, <1>2 DEF Server

------------------------------------------------------------------------------
(* read_func *)

\* rns_hconn_free
LEMMA ReturnedPool ==
  ASSUME TypeOK, Once(pool), NEW c \in Conns
  PROVE  Returned(c) \in Seq(Conns) /\ Once(Returned(c)) /\ ToSet(Returned(c)) = ToSet(pool) \cup {c}
<1>1. DOMAIN pool = 1 .. Len(pool) /\ pool \in Seq(Conns)
  BY DEF TypeOK
<1>2. Contains(pool, c) <=> c \in ToSet(pool)
  BY <1>1 DEF Contains, ToSet
<1>3. CASE Contains(pool, c)
  BY <1>1, <1>2, <1>3 DEF Returned
<1>4. CASE ~ Contains(pool, c)
  BY <1>1, <1>2, <1>4, OnceAppend DEF Returned
<1> QED BY <1>3, <1>4

LEMMA ReadAnswerInv == ASSUME ClientInv, NEW c \in Conns, ReadAnswer(c) PROVE ClientInv'
<1> USE DEF ClientInv
<1> DEFINE a == Head(ans[c])
           r == cb[c]
<1>0. /\ c \in live /\ cur \in {None, c} /\ ans[c] # <<>> /\ TypeOK
      /\ cur' = c /\ got' = [got EXCEPT ![c] = a.conn] /\ ans' = [ans EXCEPT ![c] = Tail(@)]
      /\ work' = IF r = None THEN work ELSE [work EXCEPT ![r] = @ + 1]
      /\ from' = IF r = None THEN from ELSE [from EXCEPT ![r] = @ \cup {a.req}]
      /\ pool' = IF r \in Freeing THEN Returned(c) ELSE pool
      /\ UNCHANGED <<live, cb, out, wire, peer, asked, lost, undefined>>
  BY DEF ReadAnswer, Reading
<1>1. ConnInv(c)
  BY DEF ConnsInv
<1>2. PICK k \in {"keep", "close"} :
        out[c] = <<>> /\ wire[c] = <<>> /\ ans[c] = <<[req |-> r, conn |-> k]>>
  BY <1>0, <1>1 DEF ConnInv, Clear, Carries
<1>3. a = [req |-> r, conn |-> k] /\ Tail(ans[c]) = <<>> /\ a.req = r /\ a.conn = k
  BY <1>2
<1>4. r \in Reqs /\ r # None /\ work[r] = 0 /\ r \in asked /\ lost[r] = 0
  BY <1>0, <1>1 DEF ConnInv, Clear
<1> HIDE DEF a, r
<1>5. /\ pool' \in Seq(Conns) /\ Once(pool')
      /\ ToSet(pool') = ToSet(pool) \/ ToSet(pool') = ToSet(pool) \cup {c}
  BY <1>0, ReturnedPool DEF TypeOK
<1>6. TypeOK'
  <2>1. got' \in [Conns -> {"no", "keep", "close"}]
    BY <1>0, <1>3 DEF TypeOK
  <2>2. ans' \in [Conns -> Seq(Answers)]
    BY <1>0, <1>3, <<>> \in Seq(Answers) DEF TypeOK
  <2>3. work' \in [Reqs -> Nat] /\ from' \in [Reqs -> SUBSET Reqs]
    BY <1>0, <1>3, <1>4 DEF TypeOK
  <2> QED BY <1>0, <1>5, <2>1, <2>2, <2>3 DEF TypeOK
<1>7. ConnInv(c)'
  <2>1. Clear(c)' /\ got'[c] # "no" /\ cur' = c
    BY <1>0, <1>2, <1>3 DEF Clear, TypeOK
  <2>2. cb'[c] = r /\ lost'[r] = 0 /\ r \in asked'
    BY <1>0, <1>4 DEF r
  <2> QED BY <1>0, <2>1, <2>2 DEF ConnInv
<1>8. ASSUME NEW d \in Conns \ {c} PROVE ConnInv(d)'
  <2>1. /\ got'[d] = got[d] /\ ans'[d] = ans[d]
        /\ d \in ToSet(pool') <=> d \in ToSet(pool)
    BY <1>0, <1>5 DEF TypeOK
  <2>2. d # cur
    BY <1>0
  <2>3. cb[d] # None => cb[d] # r
    BY DEF OneOwner, r
  <2>4. cb[d] # None => work'[cb[d]] = work[cb[d]]
    BY <1>0, <2>3 DEF TypeOK
  <2> QED BY <1>0, <2>1, <2>2, <2>4, OtherConn
<1>9. OneOwner'
  BY <1>0 DEF OneOwner
<1>10. Fresh' /\ AnswerMatches'
  BY <1>0, <1>3, <1>4 DEF Fresh, AnswerMatches, TypeOK
<1> QED BY <1>5, <1>6, <1>7, <1>8, <1>9, <1>10 DEF ConnsInv

\* rns_hconn_destroy, after a close or error callback or without one
LEMMA DestroyedInv ==
  ASSUME ClientInv, NEW c \in Conns, c \in live, Destroyed(c), cur \in {None, c}, cur' = None,
         lost' = lost \/ (cb[c] \in Reqs /\ lost' = [lost EXCEPT ![cb[c]] = @ + 1]),
         undefined' \in BOOLEAN,
         UNCHANGED <<peer, asked, work, from>>
  PROVE  ClientInv'
<1> USE DEF ClientInv
<1>0. /\ TypeOK /\ live' = live \ {c} /\ pool' = RemoveFirst(pool, c)
      /\ cb' = [cb EXCEPT ![c] = None] /\ got' = [got EXCEPT ![c] = "no"]
      /\ out' = [out EXCEPT ![c] = <<>>] /\ wire' = [wire EXCEPT ![c] = <<>>]
      /\ ans' = [ans EXCEPT ![c] = <<>>]
  BY DEF Destroyed
<1>1. /\ pool' \in Seq(Conns) /\ Once(pool') /\ ToSet(pool') = ToSet(pool) \ {c}
  BY <1>0, OnceRemove DEF TypeOK
<1>2. lost' \in [Reqs -> Nat] /\ \A r \in Reqs : r # cb[c] => lost'[r] = lost[r]
  <2>0. lost \in [Reqs -> Nat]
    BY <1>0 DEF TypeOK
  <2>1. CASE lost' = lost
    BY <2>0, <2>1
  <2>2. CASE cb[c] \in Reqs /\ lost' = [lost EXCEPT ![cb[c]] = @ + 1]
    BY <2>0, <2>2
  <2> QED BY <2>1, <2>2
<1>3. TypeOK'
  <2>0. <<>> \in Seq(Reqs) /\ <<>> \in Seq(Answers)
    OBVIOUS
  <2>1. cb' \in [Conns -> Reqs \cup {None}] /\ got' \in [Conns -> {"no", "keep", "close"}]
    BY <1>0 DEF TypeOK
  <2>2. out' \in [Conns -> Seq(Reqs)] /\ wire' \in [Conns -> Seq(Reqs)]
    BY <1>0, <2>0 DEF TypeOK
  <2>3. ans' \in [Conns -> Seq(Answers)]
    BY <1>0, <2>0 DEF TypeOK
  <2> QED BY <1>0, <1>1, <1>2, <2>1, <2>2, <2>3 DEF TypeOK
<1>4. ConnInv(c)'
  <2>1. Clear(c)' /\ cb'[c] = None /\ c \notin live' /\ c \notin ToSet(pool')
    BY <1>0, <1>1 DEF Clear, TypeOK
  <2> QED BY <2>1 DEF ConnInv
<1>5. ASSUME NEW d \in Conns \ {c} PROVE ConnInv(d)'
  <2>1. /\ cb'[d] = cb[d] /\ got'[d] = got[d]
        /\ out'[d] = out[d] /\ wire'[d] = wire[d] /\ ans'[d] = ans[d]
    BY <1>0 DEF TypeOK
  <2>2. (d \in live' <=> d \in live) /\ (d \in ToSet(pool') <=> d \in ToSet(pool)) /\ d # cur
    BY <1>0, <1>1
  <2>3. cb[d] # None => cb[d] \in Reqs /\ cb[d] # cb[c]
    BY DEF OneOwner, TypeOK
  <2> QED BY <1>2, <2>1, <2>2, <2>3, OtherConn
<1>6. OneOwner'
  <2>1. \A d \in Conns : cb'[d] = IF d = c THEN None ELSE cb[d]
    BY <1>0 DEF TypeOK
  <2> QED BY <2>1 DEF OneOwner
<1>7. Fresh' /\ AnswerMatches'
  <2>1. cb[c] # None => cb[c] \in asked
    BY DEF ConnsInv, ConnInv
  <2> QED BY <1>2, <2>1 DEF Fresh, AnswerMatches
<1> QED BY <1>1, <1>3, <1>4, <1>5, <1>6, <1>7 DEF ConnsInv

LEMMA ReadAgainInv == ASSUME ClientInv, NEW c \in Conns, ReadAgain(c) PROVE ClientInv'
<1> USE DEF ClientInv
<1>0. /\ c \in live /\ cur = c /\ cur' = None /\ ans[c] = <<>> /\ peer[c] = "open" /\ TypeOK
      /\ UNCHANGED <<asked, work, lost, from>>
  BY DEF ReadAgain, Reading, userVars
<1>1. ConnInv(c)
  BY DEF ConnsInv
<1>2. CASE got[c] = "keep" /\ pool' = Returned(c) /\ got' = [got EXCEPT ![c] = "no"]
           /\ UNCHANGED <<live, cb, netVars, undefined>>
  <2>0. UNCHANGED <<live, cb, out, wire, ans, peer, undefined>>
    BY <1>2 DEF netVars
  <2>1. /\ pool' \in Seq(Conns) /\ Once(pool') /\ ToSet(pool') = ToSet(pool) \cup {c}
    BY <1>2, ReturnedPool DEF TypeOK
  <2>2. TypeOK'
    <3>1. got' \in [Conns -> {"no", "keep", "close"}]
      BY <1>0, <1>2 DEF TypeOK
    <3> QED BY <1>0, <2>0, <2>1, <3>1 DEF TypeOK
  <2>3. ConnInv(c)'
    <3>1. Clear(c)' /\ c \in ToSet(pool')
      BY <1>1, <1>2, <2>0, <2>1 DEF ConnInv, Clear
    <3> QED BY <1>0, <1>1, <2>0, <3>1 DEF ConnInv
  <2>4. ASSUME NEW d \in Conns \ {c} PROVE ConnInv(d)'
    <3>1. got'[d] = got[d] /\ d # cur /\ (d \in ToSet(pool') <=> d \in ToSet(pool))
      BY <1>0, <1>2, <2>1 DEF TypeOK
    <3> QED BY <1>0, <2>0, <3>1, OtherConn
  <2> QED BY <1>0, <2>0, <2>1, <2>2, <2>3, <2>4 DEF ConnsInv, OneOwner, Fresh, AnswerMatches
<1>3. CASE Destroyed(c) /\ undefined' = TRUE /\ UNCHANGED peer
  BY <1>0, <1>3, DestroyedInv
<1>4. CASE got[c] = "no" /\ UNCHANGED <<connVars, netVars, undefined>>
  <2>0. UNCHANGED <<pool, live, cb, got, out, wire, ans, peer, undefined>>
    BY <1>4 DEF connVars, netVars
  <2>1. \A d \in Conns : ConnInv(d)'
    BY <1>0, <1>4, <2>0, OtherConn
  <2> QED BY <1>0, <2>0, <2>1 DEF TypeOK, ConnsInv, OneOwner, Fresh, AnswerMatches
<1> QED BY <1>2, <1>3, <1>4 DEF ReadAgain

LEMMA ReadEndInv == ASSUME ClientInv, NEW c \in Conns, ReadEnd(c) PROVE ClientInv'
<1>0. /\ c \in live /\ cur \in {None, c} /\ cur' = None /\ Destroyed(c)
      /\ lost' = IF cb[c] \in Told THEN [lost EXCEPT ![cb[c]] = @ + 1] ELSE lost
      /\ UNCHANGED <<peer, asked, work, from, undefined>>
  BY DEF ReadEnd, Reading
<1>1. undefined' \in BOOLEAN
  BY <1>0 DEF ClientInv, TypeOK
<1> QED BY <1>0, <1>1, DestroyedInv

LEMMA ClientNext == ClientInv /\ [Next]_vars => ClientInv'
<1> SUFFICES ASSUME ClientInv, [Next]_vars PROVE ClientInv'
  OBVIOUS
<1>1. CASE \E r \in Reqs : Get(r)
  BY <1>1, GetInv
<1>2. CASE \E c \in Conns : Write(c) \/ Server(c) \/ Read(c)
  BY <1>2, WriteInv, ServerInv, ReadAnswerInv, ReadAgainInv, ReadEndInv DEF Read
<1>3. CASE UNCHANGED vars
  <2>0. UNCHANGED <<pool, live, cb, got, cur, out, wire, ans, peer, asked, work, lost, from, undefined>>
    BY <1>3 DEF vars, connVars, netVars, userVars
  <2>1. \A d \in Conns : ConnInv(d)'
    BY <2>0, OtherConn
  <2> QED BY <2>0, <2>1 DEF ClientInv, TypeOK, ConnsInv, OneOwner, Fresh, AnswerMatches
<1> QED BY <1>1, <1>2, <1>3 DEF Next

------------------------------------------------------------------------------
(* What the invariant says of the pool, and the requests *)

LEMMA ClientSafe == ClientInv => PoolSafe
<1> SUFFICES ASSUME ClientInv PROVE PoolSafe
  OBVIOUS
<1> USE DEF ClientInv
<1>0. DOMAIN pool = 1 .. Len(pool)
  BY DEF TypeOK
<1>1. ASSUME NEW c PROVE Contains(pool, c) <=> c \in ToSet(pool)
  BY <1>0 DEF Contains, ToSet
<1>2. PoolSound
  <2>1. \A i \in DOMAIN pool : pool[i] \in Conns /\ pool[i] \in ToSet(pool)
    BY DEF TypeOK, ToSet
  <2> QED BY <2>1 DEF PoolSound, Once, ConnsInv, ConnInv, Clear
<1>3. NoneForgotten
  <2>1. SUFFICES ASSUME cur = None, NEW c \in live
                 PROVE  Contains(pool, c) \/ peer[c] # "open" \/ ~ Clear(c)
    BY DEF NoneForgotten, Clear
  <2>2. c \in Conns /\ c # cur
    BY <2>1 DEF TypeOK
  <2> QED BY <1>1, <2>2 DEF ConnsInv, ConnInv
<1> QED BY <1>2, <1>3 DEF PoolSafe

\* For any number of connections and requests: the pool lends a connection to one request
\* at a time, an answer is delivered to the request it belongs to, and no connection that
\* lives is neither in the pool nor at work.
THEOREM ClientPoolSafe == Spec => []PoolSafe
<1> QED BY ClientInit, ClientNext, ClientSafe, PTL DEF Spec

\* The steps that count for a request are those of read_func.
LEMMA StepsOfRequest ==
  ASSUME ClientInv, [Next]_vars, NEW r \in Reqs
  PROVE  [Request(r)!Next]_<<work[r], lost[r]>>
<1> USE DEF ClientInv, Request!Next, Request!Answer, Request!Lose
<1>1. CASE UNCHANGED <<work, lost>>
  BY <1>1
<1>2. ASSUME NEW c \in Conns, ReadAnswer(c)
      PROVE  [Request(r)!Next]_<<work[r], lost[r]>>
  <2>1. /\ work' = IF cb[c] = None THEN work ELSE [work EXCEPT ![cb[c]] = @ + 1]
        /\ lost' = lost /\ ans[c] # <<>> /\ TypeOK
    BY <1>2 DEF ReadAnswer
  <2>2. cb[c] \in Reqs /\ cb[c] # None /\ work[cb[c]] = 0 /\ lost[cb[c]] = 0
    BY <2>1 DEF ConnsInv, ConnInv, Clear
  <2>3. work'[r] = IF r = cb[c] THEN 1 ELSE work[r]
    BY <2>1, <2>2 DEF TypeOK
  <2> QED BY <2>1, <2>2, <2>3
<1>3. ASSUME NEW c \in Conns, ReadEnd(c)
      PROVE  [Request(r)!Next]_<<work[r], lost[r]>>
  <2>1. /\ lost' = IF cb[c] \in Told THEN [lost EXCEPT ![cb[c]] = @ + 1] ELSE lost
        /\ work' = work /\ TypeOK
    BY <1>3 DEF ReadEnd
  <2>2. cb[c] # None => lost[cb[c]] = 0
    BY DEF ConnsInv, ConnInv
  <2>3. lost'[r] = IF r = cb[c] /\ r \in Told THEN 1 ELSE lost[r]
    BY <2>1, <2>2 DEF TypeOK
  <2> QED BY <2>1, <2>2, <2>3
<1>4. [Next]_vars => \/ UNCHANGED <<work, lost>>
                     \/ \E c \in Conns : ReadAnswer(c) \/ ReadEnd(c)
  BY DEF Next, Get, GetPooled, GetCreated, GetFails, Sent, Write, Server, ServerAnswers,
         ServerLeaves, Read, ReadAgain, vars, userVars
<1> QED BY <1>1, <1>2, <1>3, <1>4

\* Every request lives as Request promises: at most one answer, and none after its
\* connection was reported lost.
THEOREM RequestsLive == Spec => LivesAsPromised
<1>1. Init => \A r \in Reqs : Request(r)!Init
  BY DEF Init, Request!Init
<1>2. ClientInv /\ [Next]_vars => \A r \in Reqs : [Request(r)!Next]_<<work[r], lost[r]>>
  BY StepsOfRequest
<1>3. ClientInv /\ [Next]_vars => [\A r \in Reqs : [Request(r)!Next]_<<work[r], lost[r]>>]_vars
  BY <1>2
<1> QED BY <1>1, <1>3, ClientInit, ClientNext, PTL DEF Spec, LivesAsPromised
===============================================================================
