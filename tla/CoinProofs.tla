----------------------------- MODULE CoinProofs -----------------------------
(***************************************************************************)
(* Proofs about what a coin is made of, and what is read of it: the stream *)
(* of notifications and the rows of CoinStore, for any number of clients,  *)
(* workers and sockets, the requests of CoinRequests, for any number of    *)
(* callers, and the pages of Listings and CandleReads, of any length.      *)
(***************************************************************************)
EXTENDS CoinStore, CoinRequests, Listings, CandleReads,
        FiniteSetTheorems, WellFoundedInduction, NaturalsInduction, TLAPS

(* Push.  Ordered says where a notification may be: sent ones come before  *)
(* those in the inbox, and what a client got before what is to come.       *)

Rising(q)   == \A i, j \in DOMAIN q : i < j => q[i] < q[j]
Before(q, p) == \A i \in DOMAIN q, j \in DOMAIN p : q[i] < p[j]

Ordered ==
  /\ Rising(sent) /\ Rising(inbox) /\ Before(sent, inbox)
  /\ \A s \in Sockets :
       /\ Rising(got[s]) /\ Before(got[s], inbox)
       /\ \A i \in DOMAIN got[s], j \in next[s]..Len(sent) : got[s][i] < sent[j]

Somewhere(n) == \/ n \in lost
                \/ \E i \in DOMAIN inbox : inbox[i] = n
                \/ \E i \in DOMAIN sent : sent[i] = n

\* Every notification is somewhere, and who was never overtaken has all up to its position.
Accounted ==
  /\ \A n \in 1..commits : Somewhere(n)
  /\ \A s \in Sockets : socket[s] = "none" => got[s] = <<>>
  /\ \A s \in Sockets \ lagged :
       got[s] # <<>> => next[s] > 1 /\ got[s][Len(got[s])] = sent[next[s] - 1]

PushInv == PushTypeOK /\ Ordered /\ Accounted /\ GapsHaveCause

-----------------------------------------------------------------------------
LEMMA Widen ==
  ASSUME NEW n \in Nat, NEW q \in Seq(1..n)
  PROVE  q \in Seq(1..(n + 1))
OBVIOUS

LEMMA Domains ==
  ASSUME NEW S, NEW q \in Seq(S)
  PROVE  DOMAIN q = 1..Len(q) /\ Len(q) \in Nat /\ \A i \in DOMAIN q : q[i] \in S
OBVIOUS

LEMMA Appended ==
  ASSUME NEW n \in Nat, NEW q \in Seq(1..n), Rising(q), NEW x \in 1..n, \A i \in DOMAIN q : q[i] < x
  PROVE  /\ Append(q, x) \in Seq(1..n) /\ Rising(Append(q, x))
         /\ Len(Append(q, x)) = Len(q) + 1 /\ Append(q, x)[Len(q) + 1] = x
         /\ DOMAIN q = 1..Len(q) /\ DOMAIN Append(q, x) = 1..(Len(q) + 1) /\ Len(q) \in Nat
         /\ \A i \in 1..Len(q) : Append(q, x)[i] = q[i]
<1>1. /\ Append(q, x) \in Seq(1..n) /\ Len(Append(q, x)) = Len(q) + 1 /\ Append(q, x)[Len(q) + 1] = x
      /\ \A i \in 1..Len(q) : Append(q, x)[i] = q[i]
  OBVIOUS
<1>2. Rising(Append(q, x)) BY <1>1 DEF Rising
<1> QED BY <1>1, <1>2, Domains

LEMMA Shortened ==
  ASSUME NEW n \in Nat, NEW q \in Seq(1..n), Rising(q), q # <<>>
  PROVE  /\ Head(q) = q[1] /\ Head(q) \in 1..n /\ Tail(q) \in Seq(1..n)
         /\ Len(Tail(q)) = Len(q) - 1 /\ Len(q) > 0
         /\ \A i \in 1..(Len(q) - 1) : Tail(q)[i] = q[i + 1]
         /\ Rising(Tail(q)) /\ \A i \in DOMAIN Tail(q) : Head(q) < Tail(q)[i]
<1>1. /\ Head(q) = q[1] /\ Head(q) \in 1..n /\ Tail(q) \in Seq(1..n)
      /\ Len(Tail(q)) = Len(q) - 1 /\ Len(q) > 0
      /\ \A i \in 1..(Len(q) - 1) : Tail(q)[i] = q[i + 1]
  OBVIOUS
<1>2. Rising(Tail(q)) BY <1>1 DEF Rising
<1>3. \A i \in DOMAIN Tail(q) : Head(q) < Tail(q)[i] BY <1>1 DEF Rising
<1> QED BY <1>1, <1>2, <1>3

-----------------------------------------------------------------------------
LEMMA PushStarts == PushInit => PushInv
<1> SUFFICES ASSUME PushInit PROVE PushInv OBVIOUS
<1>1. PushTypeOK BY PushAssumption DEF PushInit, PushTypeOK
<1>2. Ordered BY DEF PushInit, Ordered, Rising, Before
<1>3. Accounted /\ GapsHaveCause BY DEF PushInit, Accounted, GapsHaveCause
<1> QED BY <1>1, <1>2, <1>3 DEF PushInv

LEMMA NotifyKeeps == ASSUME PushInv, Notify PROVE PushInv'
<1>1. /\ commits \in Nat /\ commits' = commits + 1 /\ commits' \in 0..MaxCommits
      /\ sent \in Seq(1..commits) /\ inbox \in Seq(1..commits)
      /\ got \in [Sockets -> Seq(1..commits)] /\ lost \subseteq 1..commits
      /\ UNCHANGED <<relay, sent, socket, next, got, lagged, drops>>
  BY PushAssumption DEF Notify, PushInv, PushTypeOK
<1>2. /\ sent' \in Seq(1..commits') /\ inbox \in Seq(1..commits')
      /\ \A s \in Sockets : got[s] \in Seq(1..commits) /\ got'[s] \in Seq(1..commits')
  BY <1>1, Widen
<1>3. CASE relay = "up"
  <2>1. inbox' = Append(inbox, commits') /\ lost' = lost BY <1>3 DEF Notify
  <2>2. \A i \in DOMAIN inbox : inbox[i] < commits' BY <1>1
  <2>3. /\ inbox' \in Seq(1..commits') /\ Rising(inbox') /\ Len(inbox') = Len(inbox) + 1
        /\ inbox'[Len(inbox) + 1] = commits' /\ \A i \in 1..Len(inbox) : inbox'[i] = inbox[i]
        /\ DOMAIN inbox = 1..Len(inbox) /\ DOMAIN inbox' = 1..(Len(inbox) + 1) /\ Len(inbox) \in Nat
    BY <1>1, <1>2, <2>1, <2>2, Appended DEF PushInv, Ordered
  <2>4. PushTypeOK' BY <1>1, <1>2, <2>1, <2>3 DEF PushInv, PushTypeOK
  <2>5. Before(sent, inbox')
    <3>1. Before(sent, inbox) /\ \A i \in DOMAIN sent : sent[i] < commits' BY <1>1, Domains DEF PushInv, Ordered
    <3> QED BY <2>3, <3>1 DEF Before
  <2>6. ASSUME NEW s \in Sockets PROVE Before(got[s], inbox')
    <3>1. Before(got[s], inbox) /\ \A i \in DOMAIN got[s] : got[s][i] < commits'
      BY <1>1, <1>2, Domains DEF PushInv, Ordered
    <3> QED BY <2>3, <3>1 DEF Before
  <2>7. Ordered' BY <1>1, <2>3, <2>5, <2>6 DEF PushInv, Ordered
  <2>8. Accounted'
    <3>1. ASSUME NEW n \in 1..commits' PROVE Somewhere(n)'
      <4>1. CASE n = commits'
        <5>1. Len(inbox) + 1 \in DOMAIN inbox' /\ inbox'[Len(inbox) + 1] = n BY <2>3, <4>1
        <5> QED BY <5>1 DEF Somewhere
      <4>2. CASE n \in 1..commits
        <5>1. Somewhere(n) BY <4>2 DEF PushInv, Accounted
        <5>2. \A i \in DOMAIN inbox : i \in DOMAIN inbox' /\ inbox'[i] = inbox[i] BY <2>3
        <5> QED BY <1>1, <2>1, <5>1, <5>2 DEF Somewhere
      <4> QED BY <1>1, <4>1, <4>2
    <3> QED BY <1>1, <3>1 DEF PushInv, Accounted
  <2>9. GapsHaveCause' BY <1>1, <2>1 DEF PushInv, GapsHaveCause
  <2> QED BY <2>4, <2>7, <2>8, <2>9 DEF PushInv
<1>4. CASE relay # "up"
  <2>1. inbox' = inbox /\ lost' = lost \cup {commits'} BY <1>4 DEF Notify
  <2>2. PushTypeOK' BY <1>1, <1>2, <2>1 DEF PushInv, PushTypeOK
  <2>3. Ordered' BY <1>1, <2>1 DEF PushInv, Ordered, Rising, Before
  <2>4. Accounted'
    <3>1. ASSUME NEW n \in 1..commits' PROVE Somewhere(n)'
      <4>1. CASE n = commits' BY <2>1, <4>1 DEF Somewhere
      <4>2. CASE n \in 1..commits
        <5>1. Somewhere(n) BY <4>2 DEF PushInv, Accounted
        <5> QED BY <1>1, <2>1, <5>1 DEF Somewhere
      <4> QED BY <1>1, <4>1, <4>2
    <3> QED BY <1>1, <3>1 DEF PushInv, Accounted
  <2>5. GapsHaveCause' BY <1>1, <2>1 DEF PushInv, GapsHaveCause
  <2> QED BY <2>2, <2>3, <2>4, <2>5 DEF PushInv
<1> QED BY <1>3, <1>4

\* The relay is down or has stopped: what it had not handed over is lost.
LEMMA EmptiedKeeps ==
  ASSUME PushInv, inbox' = <<>>, lost' = lost \cup ToSet(inbox), relay' \in {"down", "stopped"},
         drops' \in 0..MaxDrops, UNCHANGED <<commits, sent, socket, next, got, lagged>>
  PROVE  PushInv'
<1>1. inbox \in Seq(1..commits) /\ ToSet(inbox) = {inbox[i] : i \in DOMAIN inbox} BY DEF PushInv, PushTypeOK, ToSet
<1>2. ToSet(inbox) \subseteq 1..commits
  <2>1. \A i \in DOMAIN inbox : inbox[i] \in 1..commits BY <1>1, Domains
  <2> QED BY <1>1, <2>1
<1>3. PushTypeOK'
  <2>1. inbox' \in Seq(1..commits) OBVIOUS
  <2>2. lost' \subseteq 1..commits BY <1>2 DEF PushInv, PushTypeOK
  <2> QED BY <2>1, <2>2 DEF PushInv, PushTypeOK
<1>4. Ordered' BY DEF PushInv, Ordered, Rising, Before
<1>5. ASSUME NEW n \in 1..commits PROVE Somewhere(n)'
  <2>1. Somewhere(n) BY <1>5 DEF PushInv, Accounted
  <2>2. (\E i \in DOMAIN inbox : inbox[i] = n) => n \in lost' BY <1>1
  <2> QED BY <2>1, <2>2 DEF Somewhere
<1>6. Accounted' BY <1>5 DEF PushInv, Accounted
<1>7. GapsHaveCause' BY DEF PushInv, GapsHaveCause
<1> QED BY <1>3, <1>4, <1>6, <1>7 DEF PushInv

LEMMA RelayKeeps == ASSUME PushInv, Relay PROVE PushInv'
<1>1. /\ commits \in Nat /\ sent \in Seq(1..commits) /\ inbox \in Seq(1..commits) /\ inbox # <<>>
      /\ \A s \in Sockets : got[s] \in Seq(1..commits) /\ next[s] \in 1..(Len(sent) + 1)
      /\ sent' = Append(sent, Head(inbox)) /\ inbox' = Tail(inbox)
      /\ UNCHANGED <<commits, relay, socket, next, got, lost, lagged, drops>>
  BY PushAssumption DEF Relay, PushInv, PushTypeOK
<1> DEFINE x == inbox[1]
<1>2. /\ Head(inbox) = x /\ x \in 1..commits /\ inbox' \in Seq(1..commits)
      /\ Len(inbox') = Len(inbox) - 1 /\ Len(inbox) > 0
      /\ \A i \in 1..(Len(inbox) - 1) : inbox'[i] = inbox[i + 1]
      /\ Rising(inbox') /\ \A i \in DOMAIN inbox' : x < inbox'[i]
  BY <1>1, Shortened DEF PushInv, Ordered
<1>3. DOMAIN inbox = 1..Len(inbox) /\ DOMAIN inbox' = 1..(Len(inbox) - 1) /\ Len(inbox) \in Nat /\ 1 \in DOMAIN inbox
  BY <1>1, <1>2, Domains
<1>4. \A i \in DOMAIN sent : sent[i] < x BY <1>3 DEF PushInv, Ordered, Before
<1>5. /\ sent' \in Seq(1..commits) /\ Rising(sent') /\ Len(sent') = Len(sent) + 1 /\ sent'[Len(sent) + 1] = x
      /\ DOMAIN sent = 1..Len(sent) /\ DOMAIN sent' = 1..(Len(sent) + 1) /\ Len(sent) \in Nat
      /\ \A i \in 1..Len(sent) : sent'[i] = sent[i]
  BY <1>1, <1>2, <1>4, Appended DEF PushInv, Ordered
<1>6. PushTypeOK' BY <1>1, <1>2, <1>5 DEF PushInv, PushTypeOK
<1>7. ASSUME NEW i \in DOMAIN inbox' PROVE i + 1 \in DOMAIN inbox /\ inbox'[i] = inbox[i + 1]
  BY <1>2, <1>3
<1>8. Before(sent', inbox')
  <2>1. ASSUME NEW i \in DOMAIN sent', NEW j \in DOMAIN inbox' PROVE sent'[i] < inbox'[j]
    <3>1. sent'[i] = x \/ (i \in DOMAIN sent /\ sent'[i] = sent[i]) BY <1>5
    <3>2. x < inbox'[j] BY <1>2
    <3>3. i \in DOMAIN sent => sent[i] < inbox'[j] BY <1>7 DEF PushInv, Ordered, Before
    <3> QED BY <3>1, <3>2, <3>3
  <2> QED BY <2>1 DEF Before
<1>9. ASSUME NEW s \in Sockets
      PROVE  /\ Rising(got[s]) /\ Before(got[s], inbox')
             /\ \A i \in DOMAIN got[s], j \in next[s]..Len(sent') : got[s][i] < sent'[j]
  <2>1. Rising(got[s]) /\ Before(got[s], inbox)
        /\ \A i \in DOMAIN got[s], j \in next[s]..Len(sent) : got[s][i] < sent[j]
    BY DEF PushInv, Ordered
  <2>2. Before(got[s], inbox') BY <1>7, <2>1 DEF Before
  <2>3. \A i \in DOMAIN got[s] : got[s][i] < x BY <1>3, <2>1 DEF Before
  <2>4. ASSUME NEW i \in DOMAIN got[s], NEW j \in next[s]..Len(sent') PROVE got[s][i] < sent'[j]
    <3>1. CASE j = Len(sent) + 1 BY <1>5, <2>3, <3>1
    <3>2. CASE j \in next[s]..Len(sent)
      <4>1. j \in 1..Len(sent) BY <1>1, <1>5, <3>2
      <4> QED BY <1>5, <2>1, <3>2, <4>1
    <3> QED BY <1>1, <1>5, <3>1, <3>2
  <2> QED BY <2>1, <2>2, <2>4
<1>10. Ordered' BY <1>1, <1>2, <1>5, <1>8, <1>9 DEF Ordered
<1>11. ASSUME NEW n \in 1..commits PROVE Somewhere(n)'
  <2>1. Somewhere(n) BY <1>11 DEF PushInv, Accounted
  <2>2. ASSUME NEW i \in DOMAIN sent, sent[i] = n PROVE Somewhere(n)'
    <3>1. i \in DOMAIN sent' /\ sent'[i] = n BY <1>5, <2>2
    <3> QED BY <3>1 DEF Somewhere
  <2>3. ASSUME NEW i \in DOMAIN inbox, inbox[i] = n PROVE Somewhere(n)'
    <3>1. CASE i = 1
      <4>1. Len(sent) + 1 \in DOMAIN sent' /\ sent'[Len(sent) + 1] = n BY <1>5, <2>3, <3>1
      <4> QED BY <4>1 DEF Somewhere
    <3>2. CASE i # 1
      <4>1. i - 1 \in DOMAIN inbox' /\ inbox'[i - 1] = n BY <1>2, <1>3, <2>3, <3>2
      <4> QED BY <4>1 DEF Somewhere
    <3> QED BY <3>1, <3>2
  <2> QED BY <1>1, <2>1, <2>2, <2>3 DEF Somewhere
<1>12. ASSUME NEW s \in Sockets \ lagged, got[s] # <<>>
       PROVE  next[s] > 1 /\ got[s][Len(got[s])] = sent'[next[s] - 1]
  <2>1. next[s] > 1 /\ got[s][Len(got[s])] = sent[next[s] - 1] BY <1>12 DEF PushInv, Accounted
  <2>2. next[s] \in 1..(Len(sent) + 1) /\ Len(sent) \in Nat BY <1>1, <1>5
  <2>3. next[s] - 1 \in 1..Len(sent) BY ONLY <2>1, <2>2
  <2> QED BY <1>5, <2>1, <2>3
<1>13. Accounted' BY <1>1, <1>11, <1>12 DEF PushInv, Accounted
<1>14. GapsHaveCause' BY <1>1 DEF PushInv, GapsHaveCause
<1> QED BY <1>6, <1>10, <1>13, <1>14 DEF PushInv

LEMMA ListenKeeps == ASSUME PushInv, Listen PROVE PushInv'
<1>1. UNCHANGED <<commits, inbox, sent, socket, next, got, lost, lagged, drops>> /\ relay' = "up" BY DEF Listen
<1>2. PushTypeOK' BY <1>1 DEF PushInv, PushTypeOK
<1>3. Ordered' BY <1>1 DEF PushInv, Ordered, Rising, Before
<1>4. Accounted' /\ GapsHaveCause' BY <1>1 DEF PushInv, Accounted, Somewhere, GapsHaveCause
<1> QED BY <1>2, <1>3, <1>4 DEF PushInv

LEMMA CloseKeeps == ASSUME PushInv, NEW s \in Sockets, Close(s) PROVE PushInv'
<1>1. /\ UNCHANGED <<commits, relay, inbox, sent, next, got, lost, lagged, drops>>
      /\ socket \in [Sockets -> {"none", "open", "closed"}] /\ socket' = [socket EXCEPT ![s] = "closed"]
  BY DEF Close, PushInv, PushTypeOK
<1>2. PushTypeOK' BY <1>1 DEF PushInv, PushTypeOK
<1>3. Ordered' BY <1>1 DEF PushInv, Ordered, Rising, Before
<1>4. \A t \in Sockets : socket'[t] = "none" => socket[t] = "none" BY <1>1
<1>5. Accounted' /\ GapsHaveCause' BY <1>1, <1>4 DEF PushInv, Accounted, Somewhere, GapsHaveCause
<1> QED BY <1>2, <1>3, <1>5 DEF PushInv

\* A socket whose position in the channel moves without a payload: a new one, or one that
\* was overtaken.
LEMMA MovedKeeps ==
  ASSUME PushInv, NEW s \in Sockets, NEW p \in 1..(Len(sent) + 1), next[s] <= p \/ got[s] = <<>>,
         next' = [next EXCEPT ![s] = p],
         UNCHANGED <<commits, relay, inbox, sent, got, lost, drops>>,
         socket' \in [Sockets -> {"none", "open", "closed"}],
         \A t \in Sockets : socket'[t] = "none" => socket[t] = "none",
         lagged' = lagged \cup {s} \/ (lagged' = lagged /\ got[s] = <<>>)
  PROVE  PushInv'
<1>1. /\ next \in [Sockets -> 1..(Len(sent) + 1)] /\ lagged \subseteq Sockets /\ sent \in Seq(1..commits)
      /\ Len(sent) \in Nat
  BY Domains DEF PushInv, PushTypeOK
<1>2. next'[s] = p /\ \A t \in Sockets \ {s} : next'[t] = next[t] BY <1>1
<1>3. PushTypeOK' BY <1>1 DEF PushInv, PushTypeOK
<1>4. ASSUME NEW t \in Sockets
      PROVE  \A i \in DOMAIN got[t], j \in next'[t]..Len(sent) : got[t][i] < sent[j]
  <2>1. \A i \in DOMAIN got[t], j \in next[t]..Len(sent) : got[t][i] < sent[j] BY DEF PushInv, Ordered
  <2>2. CASE t # s BY <1>2, <2>1, <2>2
  <2>3. CASE t = s /\ got[s] = <<>> BY <2>3
  <2>4. CASE t = s /\ next[s] <= p BY <1>1, <1>2, <2>1, <2>4
  <2> QED BY <2>2, <2>3, <2>4
<1>5. Ordered' BY <1>4 DEF PushInv, Ordered, Rising, Before
<1>6. ASSUME NEW t \in Sockets \ lagged', got[t] # <<>>
      PROVE  next'[t] > 1 /\ got[t][Len(got[t])] = sent[next'[t] - 1]
  <2>1. t # s /\ t \notin lagged BY <1>6
  <2> QED BY <1>2, <1>6, <2>1 DEF PushInv, Accounted
<1>7. Accounted' BY <1>6 DEF PushInv, Accounted, Somewhere
<1>8. GapsHaveCause' BY DEF PushInv, GapsHaveCause
<1> QED BY <1>3, <1>5, <1>7, <1>8 DEF PushInv

LEMMA SubscribeKeeps == ASSUME PushInv, NEW s \in Sockets, Subscribe(s) PROVE PushInv'
<1>1. got[s] = <<>> BY DEF Subscribe, PushInv, Accounted
<1>2. sent \in Seq(1..commits) /\ socket \in [Sockets -> {"none", "open", "closed"}] BY DEF PushInv, PushTypeOK
<1>3. Len(sent) + 1 \in 1..(Len(sent) + 1) BY <1>2, Domains
<1>4. /\ socket' \in [Sockets -> {"none", "open", "closed"}]
      /\ \A t \in Sockets : socket'[t] = "none" => socket[t] = "none"
  BY <1>2 DEF Subscribe
<1> QED BY <1>1, <1>3, <1>4, MovedKeeps DEF Subscribe

LEMMA LagKeeps == ASSUME PushInv, NEW s \in Sockets, Lag(s) PROVE PushInv'
<1>1. /\ sent \in Seq(1..commits) /\ socket \in [Sockets -> {"none", "open", "closed"}]
      /\ next[s] \in 1..(Len(sent) + 1)
  BY DEF PushInv, PushTypeOK
<1>2. Len(sent) \in Nat /\ Capacity \in Nat \ {0} BY <1>1, Domains, PushAssumption
<1> DEFINE p == Len(sent) - Capacity + 1
<1>3. p \in 1..(Len(sent) + 1) /\ next[s] <= p BY <1>1, <1>2 DEF Lag, Overtaken
<1> QED BY <1>1, <1>3, MovedKeeps DEF Lag

\* Between two neighbours of the channel there is nothing but what was lost.
LEMMA NothingBetween ==
  ASSUME PushInv, NEW k \in DOMAIN sent, k > 1, NEW n \in (sent[k - 1] + 1)..(sent[k] - 1)
  PROVE  n \in lost
<1>1. sent \in Seq(1..commits) /\ commits \in Nat /\ inbox \in Seq(1..commits)
  BY PushAssumption DEF PushInv, PushTypeOK
<1>2. /\ DOMAIN sent = 1..Len(sent) /\ Len(sent) \in Nat /\ \A i \in DOMAIN sent : sent[i] \in 1..commits
      /\ \A i \in DOMAIN inbox : inbox[i] \in 1..commits
  BY <1>1, Domains
<1>3. k - 1 \in DOMAIN sent /\ n \in 1..commits /\ sent[k - 1] < n /\ n < sent[k] BY <1>1, <1>2
<1>4. Somewhere(n) BY <1>3 DEF PushInv, Accounted
<1>5. ASSUME NEW i \in DOMAIN inbox, inbox[i] = n PROVE FALSE
  <2>1. sent[k] < n BY <1>5 DEF PushInv, Ordered, Before
  <2> QED BY <1>2, <1>3, <2>1
<1>6. ASSUME NEW i \in DOMAIN sent, sent[i] = n PROVE FALSE
  <2>1. i < k - 1 \/ i = k - 1 \/ i = k \/ k < i BY <1>2
  <2>2. i < k - 1 => sent[i] < sent[k - 1] BY <1>3 DEF PushInv, Ordered, Rising
  <2>3. k < i => sent[k] < sent[i] BY DEF PushInv, Ordered, Rising
  <2> QED BY <1>2, <1>3, <1>6, <2>1, <2>2, <2>3
<1> QED BY <1>4, <1>5, <1>6 DEF Somewhere

LEMMA ForwardKeeps == ASSUME PushInv, NEW s \in Sockets, Forward(s) PROVE PushInv'
<1>1. /\ commits \in Nat /\ sent \in Seq(1..commits) /\ inbox \in Seq(1..commits)
      /\ got \in [Sockets -> Seq(1..commits)] /\ next \in [Sockets -> 1..(Len(sent) + 1)]
      /\ got[s] \in Seq(1..commits) /\ next[s] \in 1..(Len(sent) + 1) /\ next[s] <= Len(sent)
      /\ UNCHANGED <<commits, relay, inbox, sent, socket, lost, lagged, drops>>
  BY PushAssumption DEF Forward, Behind, PushInv, PushTypeOK
<1> DEFINE k == next[s]  x == sent[k]  g == got[s]
<1>2. /\ DOMAIN sent = 1..Len(sent) /\ Len(sent) \in Nat /\ \A i \in DOMAIN sent : sent[i] \in 1..commits
      /\ DOMAIN g = 1..Len(g) /\ Len(g) \in Nat /\ \A i \in DOMAIN g : g[i] \in 1..commits
  BY <1>1, Domains
<1>3. k \in DOMAIN sent /\ k \in next[s]..Len(sent) /\ x \in 1..commits BY <1>1, <1>2
<1>4. /\ got'[s] = Append(g, x) /\ \A t \in Sockets \ {s} : got'[t] = got[t]
      /\ next'[s] = k + 1 /\ \A t \in Sockets \ {s} : next'[t] = next[t]
      /\ got' = [got EXCEPT ![s] = Append(g, x)] /\ next' = [next EXCEPT ![s] = k + 1]
  BY <1>1 DEF Forward
<1>5. Rising(g) /\ \A i \in DOMAIN g : g[i] < x BY <1>3 DEF PushInv, Ordered
<1>6. /\ got'[s] \in Seq(1..commits) /\ Rising(got'[s]) /\ got'[s][Len(g) + 1] = x
      /\ Len(got'[s]) = Len(g) + 1 /\ DOMAIN got'[s] = 1..(Len(g) + 1)
      /\ \A i \in DOMAIN g : got'[s][i] = g[i]
  <2> HIDE DEF x, g
  <2>1. g \in Seq(1..commits) BY <1>1 DEF g
  <2>2. /\ Append(g, x) \in Seq(1..commits) /\ Rising(Append(g, x)) /\ Append(g, x)[Len(g) + 1] = x
        /\ Len(Append(g, x)) = Len(g) + 1 /\ DOMAIN Append(g, x) = 1..(Len(g) + 1)
        /\ \A i \in 1..Len(g) : Append(g, x)[i] = g[i]
    BY <1>1, <1>3, <1>5, <2>1, Appended
  <2>3. got'[s] = Append(g, x) /\ DOMAIN g = 1..Len(g) BY <1>2, <1>4
  <2> QED BY <2>2, <2>3
<1> HIDE DEF x, g, k
<1>7. PushTypeOK'
  <2>1. k + 1 \in 1..(Len(sent) + 1) BY <1>2, <1>3
  <2>2. next' \in [Sockets -> 1..(Len(sent) + 1)] BY <1>1, <1>4, <2>1
  <2>3. got' \in [Sockets -> Seq(1..commits)] BY <1>1, <1>4, <1>6
  <2> QED BY <1>1, <2>2, <2>3 DEF PushInv, PushTypeOK
<1>8. ASSUME NEW i \in DOMAIN got'[s]
      PROVE  (i \in DOMAIN g /\ got'[s][i] = g[i]) \/ (i = Len(g) + 1 /\ got'[s][i] = x)
  BY <1>2, <1>6
<1>9. Before(got'[s], inbox)
  <2>1. Before(g, inbox) /\ Before(sent, inbox) BY DEF PushInv, Ordered, g
  <2>2. \A j \in DOMAIN inbox : x < inbox[j] BY <1>3, <2>1 DEF Before, x
  <2> QED BY <1>8, <2>1, <2>2 DEF Before
<1>10. ASSUME NEW i \in DOMAIN got'[s], NEW j \in next'[s]..Len(sent) PROVE got'[s][i] < sent[j]
  <2>1. j \in DOMAIN sent /\ k < j /\ j \in next[s]..Len(sent) BY <1>2, <1>3, <1>4 DEF k
  <2>2. x < sent[j] BY <1>3, <2>1 DEF PushInv, Ordered, Rising, x
  <2>3. i \in DOMAIN g => g[i] < sent[j] BY <2>1 DEF PushInv, Ordered, g
  <2> QED BY <1>8, <2>2, <2>3
<1>11. ASSUME NEW t \in Sockets
       PROVE  /\ Rising(got'[t]) /\ Before(got'[t], inbox)
              /\ \A i \in DOMAIN got'[t], j \in next'[t]..Len(sent) : got'[t][i] < sent[j]
  <2>1. CASE t = s BY <1>6, <1>9, <1>10, <2>1
  <2>2. CASE t # s BY <1>4, <2>2 DEF PushInv, Ordered
  <2> QED BY <2>1, <2>2
<1>12. Ordered' BY <1>1, <1>11 DEF PushInv, Ordered
<1>13. ASSUME NEW t \in Sockets
       PROVE  /\ socket[t] = "none" => got'[t] = <<>>
              /\ t \notin lagged /\ got'[t] # <<>> => next'[t] > 1 /\ got'[t][Len(got'[t])] = sent[next'[t] - 1]
  <2>1. CASE t = s
    <3>1. socket[s] = "open" BY DEF Forward, Behind
    <3>2. next'[s] > 1 /\ next'[s] - 1 = k BY <1>2, <1>3, <1>4
    <3> QED BY <1>6, <2>1, <3>1, <3>2 DEF x
  <2>2. CASE t # s BY <1>4, <2>2 DEF PushInv, Accounted
  <2> QED BY <2>1, <2>2
<1>14. Accounted' BY <1>1, <1>13 DEF PushInv, Accounted, Somewhere
<1>15. ASSUME NEW t \in Sockets \ lagged, NEW i \in DOMAIN got'[t] \ {1},
              NEW n \in (got'[t][i - 1] + 1)..(got'[t][i] - 1)
       PROVE  n \in lost
  <2>1. CASE t # s BY <1>4, <1>15, <2>1 DEF PushInv, GapsHaveCause
  <2>2. CASE t = s
    <3>1. i \in 2..(Len(g) + 1) /\ i - 1 \in DOMAIN g /\ got'[s][i - 1] = g[i - 1] BY <1>2, <1>6, <2>2
    <3>2. CASE i # Len(g) + 1
      <4>1. i \in DOMAIN g \ {1} /\ got'[s][i] = g[i] BY <1>2, <1>6, <3>1, <3>2
      <4> QED BY <1>15, <2>2, <3>1, <4>1 DEF PushInv, GapsHaveCause, g
    <3>3. CASE i = Len(g) + 1
      <4>1. got[s] # <<>> /\ got[s] = g BY <1>2, <3>1, <3>3 DEF g
      <4>2. k > 1 /\ g[Len(g)] = sent[k - 1] BY <2>2, <4>1 DEF PushInv, Accounted, k
      <4>3. got'[s][i - 1] = sent[k - 1] /\ got'[s][i] = sent[k] BY <1>2, <1>6, <3>1, <3>3, <4>2 DEF x
      <4>4. n \in (sent[k - 1] + 1)..(sent[k] - 1) BY <2>2, <4>3
      <4> QED BY <1>3, <4>2, <4>4, NothingBetween
    <3> QED BY <3>2, <3>3
  <2> QED BY <2>1, <2>2
<1>16. GapsHaveCause' BY <1>1, <1>15 DEF GapsHaveCause
<1> QED BY <1>7, <1>12, <1>14, <1>16 DEF PushInv

LEMMA PushStep == ASSUME PushInv, Notify \/ PushNext \/ UNCHANGED pushVars PROVE PushInv'
<1>1. CASE UNCHANGED pushVars
  BY <1>1 DEF pushVars, PushInv, PushTypeOK, Ordered, Rising, Before, Accounted, Somewhere, GapsHaveCause
<1>2. CASE Drop \/ StopRelay
  <2>1. drops' \in 0..MaxDrops BY <1>2, PushAssumption DEF Drop, StopRelay, PushInv, PushTypeOK
  <2> QED BY <1>2, <2>1, EmptiedKeeps DEF Drop, StopRelay
<1> QED BY <1>1, <1>2, NotifyKeeps, ListenKeeps, RelayKeeps, SubscribeKeeps, LagKeeps, ForwardKeeps, CloseKeeps
        DEF PushNext, Deliver

-----------------------------------------------------------------------------
(* The registrations.                                                      *)

\* One transaction has inserted the key and not committed, and only before there is a coin.
RegisterInv ==
  /\ coin \in BOOLEAN /\ queued \subseteq InitialKinds /\ born \in Nat
  /\ request \in [Clients -> {"insert", "enqueue", "answered"}]
  /\ CreatedOnce
  /\ \A q \in Clients : request[q] = "enqueue" => ~coin /\ \A p \in Clients : request[p] = "enqueue" => p = q

LEMMA RegisterStarts == Init => RegisterInv
<1> SUFFICES ASSUME Init PROVE RegisterInv OBVIOUS
<1>1. coin = FALSE /\ queued = {} /\ born = 0 /\ request = [q \in Clients |-> "insert"] BY DEF Init
<1>2. CreatedOnce BY <1>1 DEF CreatedOnce
<1>3. request \in [Clients -> {"insert", "enqueue", "answered"}] /\ \A q \in Clients : request[q] # "enqueue" BY <1>1
<1> QED BY <1>1, <1>2, <1>3 DEF RegisterInv

LEMMA RegisterStep == ASSUME RegisterInv, [Next]_vars PROVE RegisterInv'
<1>1. CASE UNCHANGED <<coin, queued, born, request>>
  BY <1>1 DEF RegisterInv, CreatedOnce
<1>2. ASSUME NEW q \in Clients, Insert(q) PROVE RegisterInv'
  <2>1. /\ request' = [request EXCEPT ![q] = IF coin THEN "answered" ELSE "enqueue"]
        /\ UNCHANGED <<coin, queued, born>> /\ \A p \in Clients : request[p] # "enqueue"
    BY <1>2 DEF Insert, Step
  <2>2. request' \in [Clients -> {"insert", "enqueue", "answered"}] BY <2>1 DEF RegisterInv
  <2>3. \A p \in Clients : request'[p] = "enqueue" => p = q /\ ~coin BY <2>1 DEF RegisterInv
  <2> QED BY <2>1, <2>2, <2>3 DEF RegisterInv, CreatedOnce
<1>3. ASSUME NEW q \in Clients, CommitRegister(q) PROVE RegisterInv'
  <2>1. request[q] = "enqueue" /\ ~coin /\ born = 0 BY <1>3 DEF CommitRegister, RegisterInv, CreatedOnce
  <2>2. request' = [request EXCEPT ![q] = "answered"] BY <1>3 DEF CommitRegister, Step
  <2>3. request' \in [Clients -> {"insert", "enqueue", "answered"}] BY <2>2 DEF RegisterInv
  <2>4. \A p \in Clients : request'[p] # "enqueue" BY <2>1, <2>2 DEF RegisterInv
  <2>5. CASE UNCHANGED <<coin, queued, born>> BY <2>3, <2>4, <2>5 DEF RegisterInv, CreatedOnce
  <2>6. CASE coin' = TRUE /\ queued' = InitialKinds /\ born' = born + 1
    BY <2>1, <2>3, <2>4, <2>6 DEF RegisterInv, CreatedOnce
  <2> QED BY <1>3, <2>5, <2>6 DEF CommitRegister
<1>4. CASE Revises
  <2>1. UNCHANGED <<coin, queued, born, request>>
    BY <1>4 DEF Revises, FetchMetadata, ReadLatest, StampRevision, WriteRevision
  <2> QED BY <1>1, <2>1
<1>5. CASE Pushes \/ UNCHANGED vars
  <2>1. UNCHANGED <<coin, queued, born, request>> BY <1>5 DEF Pushes, Publish, storeVars, vars
  <2> QED BY <1>1, <2>1
<1> QED BY <1>2, <1>3, <1>4, <1>5 DEF Next, Registers

-----------------------------------------------------------------------------
(* The revisions.  Only who holds the next number writes, and has read the *)
(* one before and taken a later time.                                      *)

Jobs == [at : {"idle", "select", "insert", "write"}, val : Values \cup {none}, rev : Nat, stamp : 0..moment]

ReviseTypes ==
  /\ job \in [Workers -> Jobs]
  /\ meta \in Seq([val : Values, since : 0..moment]) /\ moment \in 0..MaxInserts

\* Of a worker's job j, when it has read the latest revision.
JobOK(j) ==
  /\ j.at # "idle" => j.val \in Values
  /\ j.at \in {"insert", "write"} => j.rev <= Len(meta) + 1
  /\ j.at \in {"insert", "write"} /\ j.rev = Len(meta) + 1 /\ meta # <<>> => j.val # meta[Len(meta)].val
  /\ j.at = "write" /\ j.rev = Len(meta) + 1 => \A r \in DOMAIN meta : meta[r].since < j.stamp

InTime == \A r, q \in DOMAIN meta : r < q => meta[r].since < meta[q].since

ReviseInv ==
  /\ ReviseTypes /\ InTime /\ RevisionsDiffer
  /\ \A w \in Workers : JobOK(job[w])

LEMMA ReviseStarts == Init => ReviseInv
<1> SUFFICES ASSUME Init PROVE ReviseInv OBVIOUS
<1>1. job = [w \in Workers |-> NoJob] /\ meta = <<>> /\ moment = 0 BY DEF Init
<1>2. NoJob \in Jobs BY <1>1 DEF NoJob, Jobs
<1>3. ReviseTypes BY <1>1, <1>2, StoreAssumption DEF ReviseTypes
<1>4. \A w \in Workers : JobOK(job[w]) BY <1>1 DEF JobOK, NoJob
<1> QED BY <1>1, <1>3, <1>4 DEF ReviseInv, InTime, RevisionsDiffer

\* A worker's job changes and the revisions do not.
LEMMA JobChanges ==
  ASSUME ReviseInv, NEW w \in Workers, NEW j, job' = [job EXCEPT ![w] = j], meta' = meta,
         moment' \in moment..MaxInserts, j \in Jobs', JobOK(j)
  PROVE  ReviseInv'
<1>1. /\ job \in [Workers -> Jobs] /\ moment \in Nat /\ moment' \in Nat /\ moment <= moment'
      /\ MaxInserts \in Nat /\ moment' \in 0..MaxInserts
      /\ meta \in Seq([val : Values, since : 0..moment])
  BY StoreAssumption DEF ReviseInv, ReviseTypes
<1>2. job'[w] = j /\ \A v \in Workers \ {w} : job'[v] = job[v] BY <1>1
<1>3. 0..moment \subseteq 0..moment' BY <1>1
<1>4. \A k \in Jobs : k \in Jobs' BY <1>3 DEF Jobs
<1>5. job' \in [Workers -> Jobs'] BY <1>1, <1>4
<1>6. meta' \in Seq([val : Values, since : 0..moment'])
  <2> DEFINE S == [val : Values, since : 0..moment]  T == [val : Values, since : 0..moment']
  <2>1. S \subseteq T BY <1>3
  <2>2. meta \in Seq(S) BY <1>1
  <2> HIDE DEF S, T
  <2>3. meta \in Seq(T) BY <2>1, <2>2
  <2> QED BY <2>3 DEF T
<1>7. ReviseTypes' BY <1>1, <1>5, <1>6 DEF ReviseTypes
<1>8. \A v \in Workers : JobOK(job[v])' BY <1>2 DEF ReviseInv, JobOK
<1> QED BY <1>7, <1>8 DEF ReviseInv, InTime, RevisionsDiffer

LEMMA FetchKeeps == ASSUME ReviseInv, NEW w \in Workers, FetchMetadata(w) PROVE ReviseInv'
<1>1. PICK v \in Values : job' = [job EXCEPT ![w] = [at |-> "select", val |-> v, rev |-> 0, stamp |-> 0]]
  BY DEF FetchMetadata
<1> DEFINE j == [at |-> "select", val |-> v, rev |-> 0, stamp |-> 0]
<1>2. meta' = meta /\ moment' = moment /\ moment' \in moment..MaxInserts
  BY StoreAssumption DEF FetchMetadata, ReviseInv, ReviseTypes
<1>3. j \in Jobs' BY <1>2, StoreAssumption DEF Jobs, ReviseInv, ReviseTypes
<1>4. JobOK(j) BY DEF JobOK
<1> QED BY <1>1, <1>2, <1>3, <1>4, JobChanges

LEMMA IdleKeeps == ASSUME ReviseInv, NEW w \in Workers, job' = [job EXCEPT ![w] = NoJob],
                          meta' = meta, moment' = moment
                   PROVE  ReviseInv'
<1>1. moment' \in moment..MaxInserts BY StoreAssumption DEF ReviseInv, ReviseTypes
<1>2. NoJob \in Jobs' BY <1>1, StoreAssumption DEF Jobs, NoJob, ReviseInv, ReviseTypes
<1>3. JobOK(NoJob) BY DEF JobOK, NoJob
<1> QED BY <1>1, <1>2, <1>3, JobChanges

LEMMA ReadKeeps == ASSUME ReviseInv, NEW w \in Workers, ReadLatest(w) PROVE ReviseInv'
<1> DEFINE same == meta # <<>> /\ Last(meta).val = job[w].val
           n == Len(meta) + 1
           j == [job[w] EXCEPT !.at = "insert", !.rev = n]
<1>1. meta' = meta /\ moment' = moment /\ moment' \in moment..MaxInserts /\ job[w] \in Jobs /\ n \in Nat
  BY StoreAssumption, Domains DEF ReadLatest, ReviseInv, ReviseTypes
<1>2. CASE same BY <1>1, <1>2, IdleKeeps DEF ReadLatest
<1>3. CASE ~same
  <2>1. job' = [job EXCEPT ![w] = j] BY <1>3 DEF ReadLatest
  <2> HIDE DEF n
  <2>2. j \in Jobs /\ j.at = "insert" /\ j.rev = n /\ j.val = job[w].val BY <1>1 DEF Jobs
  <2>3. Jobs' = Jobs BY <1>1 DEF Jobs
  <2>4. job[w].val \in Values BY DEF ReadLatest, At, ReviseInv, JobOK
  <2>5. meta # <<>> => meta[Len(meta)].val # job[w].val BY <1>3 DEF Last
  <2> HIDE DEF j
  <2>6. JobOK(j) BY <1>1, <2>2, <2>4, <2>5 DEF JobOK, n
  <2> QED BY <1>1, <2>1, <2>2, <2>3, <2>6, JobChanges
<1> QED BY <1>2, <1>3

LEMMA StampKeeps == ASSUME ReviseInv, NEW w \in Workers, StampRevision(w) PROVE ReviseInv'
<1> DEFINE j == [job[w] EXCEPT !.at = "write", !.stamp = moment']
<1>1. /\ meta' = meta /\ moment' = moment + 1 /\ moment \in Nat /\ moment' \in moment..MaxInserts /\ moment' \in 0..moment'
      /\ job[w] \in Jobs /\ job[w].at = "insert" /\ JobOK(job[w])
      /\ meta \in Seq([val : Values, since : 0..moment])
  BY StoreAssumption DEF StampRevision, At, ReviseInv, ReviseTypes
<1>2. job' = [job EXCEPT ![w] = j] BY DEF StampRevision
<1>3. j \in Jobs' /\ j.at = "write" /\ j.stamp = moment + 1 /\ j.rev = job[w].rev /\ j.val = job[w].val
  BY <1>1 DEF Jobs
<1>4. \A r \in DOMAIN meta : meta[r].since < moment + 1
  <2>1. \A r \in DOMAIN meta : meta[r] \in [val : Values, since : 0..moment] BY <1>1, Domains
  <2> QED BY <1>1, <2>1
<1> HIDE DEF j
<1>5. JobOK(j) BY <1>1, <1>3, <1>4 DEF JobOK
<1> QED BY <1>1, <1>2, <1>3, <1>5, JobChanges

LEMMA WriteKeeps == ASSUME ReviseInv, NEW w \in Workers, WriteRevision(w) PROVE ReviseInv'
<1> DEFINE S == [val : Values, since : 0..moment]
           x == [val |-> job[w].val, since |-> job[w].stamp]
           n == Len(meta)
<1>1. CASE job[w].rev # Len(meta) + 1 BY <1>1, IdleKeeps DEF WriteRevision
<1>2. CASE job[w].rev = Len(meta) + 1
  <2>1. /\ job' = [job EXCEPT ![w] = NoJob] /\ meta' = Append(meta, x) /\ moment' = moment
        /\ job \in [Workers -> Jobs] /\ job[w] \in Jobs /\ JobOK(job[w]) /\ job[w].at = "write" /\ job[w].rev = n + 1
        /\ meta \in Seq(S) /\ moment \in 0..MaxInserts
    BY <1>2 DEF WriteRevision, At, ReviseInv, ReviseTypes
  <2>2. x \in S BY <2>1 DEF Jobs, JobOK
  <2> HIDE DEF S
  <2>3. /\ meta' \in Seq(S) /\ Len(meta') = n + 1 /\ n \in Nat /\ DOMAIN meta = 1..n /\ DOMAIN meta' = 1..(n + 1)
        /\ meta'[n + 1] = x /\ \A r \in 1..n : meta'[r] = meta[r]
    BY <2>1, <2>2, Domains
  <2>4. /\ \A r \in 1..n : meta[r].since < x.since
        /\ n # 0 => meta[n].val # x.val
    <3>1. \A r \in DOMAIN meta : meta[r].since < job[w].stamp BY <2>1 DEF JobOK
    <3>2. meta # <<>> => meta[n].val # job[w].val BY <2>1 DEF JobOK
    <3>3. meta = <<>> => n = 0 OBVIOUS
    <3>4. n # 0 => meta # <<>> OBVIOUS
    <3> QED BY <2>3, <3>1, <3>2, <3>4
  <2> HIDE DEF x, n
  <2>5. InTime'
    <3>1. ASSUME NEW r \in 1..(n + 1), NEW q \in 1..(n + 1), r < q PROVE meta'[r].since < meta'[q].since
      <4>1. r \in 1..n BY <2>3, <3>1
      <4>2. CASE q = n + 1 BY <2>3, <2>4, <4>1, <4>2
      <4>3. CASE q # n + 1 BY <2>3, <3>1, <4>1, <4>3 DEF ReviseInv, InTime
      <4> QED BY <4>2, <4>3
    <3> QED BY <2>3, <3>1 DEF InTime
  <2>6. RevisionsDiffer'
    <3>1. ASSUME NEW r \in 2..(n + 1) PROVE meta'[r].val # meta'[r - 1].val
      <4>1. CASE r = n + 1
        <5>1. n # 0 /\ r - 1 = n /\ n \in 1..n BY <2>3, <3>1, <4>1
        <5> QED BY <2>3, <2>4, <4>1, <5>1
      <4>2. CASE r # n + 1
        <5>1. r \in DOMAIN meta \ {1} /\ r - 1 \in 1..n /\ r \in 1..n BY <2>3, <3>1, <4>2
        <5> QED BY <2>3, <5>1 DEF ReviseInv, RevisionsDiffer
      <4> QED BY <4>1, <4>2
    <3>2. \A r \in DOMAIN meta' \ {1} : r \in 2..(n + 1) BY <2>3
    <3> QED BY <3>1, <3>2 DEF RevisionsDiffer
  <2>7. \A v \in Workers \ {w} : job'[v] = job[v] BY <2>1
  <2>8. job'[w] = NoJob BY <2>1
  <2>9. ASSUME NEW v \in Workers PROVE JobOK(job[v])'
    <3>1. CASE v = w BY <2>8, <3>1 DEF JobOK, NoJob
    <3>2. CASE v # w
      <4>1. job'[v] = job[v] /\ JobOK(job[v]) /\ job[v] \in Jobs BY <2>1, <2>7, <3>2 DEF ReviseInv
      <4>2. job[v].at \in {"insert", "write"} => job[v].rev <= n + 1 /\ job[v].rev \in Nat
        BY <4>1 DEF JobOK, Jobs, n
      <4>3. job[v].at \in {"insert", "write"} => job[v].rev # Len(meta') + 1 /\ job[v].rev <= Len(meta') + 1
        BY <2>3, <4>2
      <4> QED BY <4>1, <4>3 DEF JobOK
    <3> QED BY <3>1, <3>2
  <2>10. ReviseTypes'
    <3>1. NoJob \in Jobs BY <2>1, StoreAssumption DEF Jobs, NoJob
    <3>2. Jobs' = Jobs BY <2>1 DEF Jobs
    <3>3. job' \in [Workers -> Jobs'] BY <2>1, <3>1, <3>2
    <3> QED BY <2>1, <2>3, <3>3 DEF ReviseTypes, S
  <2> QED BY <2>5, <2>6, <2>9, <2>10 DEF ReviseInv
<1> QED BY <1>1, <1>2

LEMMA ReviseStep == ASSUME ReviseInv, [Next]_vars PROVE ReviseInv'
<1>1. CASE UNCHANGED <<job, meta, moment>>
  BY <1>1 DEF ReviseInv, ReviseTypes, Jobs, JobOK, InTime, RevisionsDiffer
<1>2. CASE Revises BY <1>2, FetchKeeps, ReadKeeps, StampKeeps, WriteKeeps DEF Revises
<1>3. CASE Registers \/ Pushes \/ UNCHANGED vars
  <2>1. UNCHANGED <<job, meta, moment>>
    BY <1>3 DEF Registers, Insert, CommitRegister, Pushes, Publish, storeVars, vars
  <2> QED BY <1>1, <2>1
<1> QED BY <1>2, <1>3 DEF Next

LEMMA LatestIsNow == ReviseInv => AsOfNowIsLatest
<1> SUFFICES ASSUME ReviseInv PROVE AsOfNowIsLatest OBVIOUS
<1> DEFINE known == {r \in DOMAIN meta : meta[r].since <= moment}  n == Len(meta)
           best(r) == r \in known /\ \A q \in known : meta[q].since <= meta[r].since
<1>1. /\ meta \in Seq([val : Values, since : 0..moment]) /\ moment \in Nat /\ DOMAIN meta = 1..n /\ n \in Nat
      /\ \A r \in DOMAIN meta : meta[r] \in [val : Values, since : 0..moment]
  <2> DEFINE S == [val : Values, since : 0..moment]
  <2>1. meta \in Seq(S) /\ moment \in Nat BY StoreAssumption DEF ReviseInv, ReviseTypes
  <2> HIDE DEF S
  <2>2. DOMAIN meta = 1..n /\ n \in Nat /\ \A r \in DOMAIN meta : meta[r] \in S BY <2>1, Domains
  <2> QED BY <2>1, <2>2 DEF S
<1>2. known = 1..n BY <1>1
<1>3. CASE n = 0 BY <1>2, <1>3 DEF AsOfNowIsLatest, AsOf, Latest
<1>4. CASE n # 0
  <2>1. n \in known BY <1>1, <1>2, <1>4
  <2>2. \A q \in known : q < n => meta[q].since < meta[n].since BY <1>1, <1>2, <2>1 DEF ReviseInv, InTime
  <2>3. best(n)
    <3>1. ASSUME NEW q \in known PROVE meta[q].since <= meta[n].since
      <4>1. q = n \/ q < n BY <1>1, <1>2
      <4>2. meta[q].since \in 0..moment /\ meta[n].since \in 0..moment BY <1>1, <1>2, <2>1
      <4> QED BY <2>2, <4>1, <4>2
    <3> QED BY <2>1, <3>1
  <2>4. ASSUME NEW r, best(r) PROVE r = n
    <3>1. r \in 1..n /\ meta[n].since <= meta[r].since BY <1>2, <2>1, <2>4
    <3>2. r = n \/ r < n
      <4>1. r \in 1..n /\ n \in Nat BY <1>1, <3>1
      <4> HIDE DEF n
      <4> QED BY <4>1
    <3>3. meta[r].since \in 0..moment /\ meta[n].since \in 0..moment BY <1>1, <2>1, <1>2, <3>1
    <3> QED BY <1>2, <2>2, <3>1, <3>2, <3>3
  <2>5. (CHOOSE r \in known : \A q \in known : meta[q].since <= meta[r].since) = n BY <2>3, <2>4
  <2>6. AsOf(moment) = n BY <2>1, <2>5 DEF AsOf
  <2> QED BY <2>6 DEF AsOfNowIsLatest, Latest
<1> QED BY <1>3, <1>4

-----------------------------------------------------------------------------
LEMMA StreamStep == ASSUME PushInv, [Next]_vars PROVE PushInv'
<1>1. Notify \/ PushNext \/ UNCHANGED pushVars
  BY DEF Next, Registers, Insert, CommitRegister, Revises, FetchMetadata, ReadLatest, StampRevision, WriteRevision,
         Pushes, Publish, vars, storeVars
<1> QED BY <1>1, PushStep

LEMMA StoreInvariant == FairSpec => [](RegisterInv /\ ReviseInv /\ PushInv)
<1>1. Init => RegisterInv /\ ReviseInv /\ PushInv BY RegisterStarts, ReviseStarts, PushStarts DEF Init
<1>2. RegisterInv /\ ReviseInv /\ PushInv /\ [Next]_vars => (RegisterInv /\ ReviseInv /\ PushInv)'
  BY RegisterStep, ReviseStep, StreamStep
<1> QED BY <1>1, <1>2, PTL DEF FairSpec

\* Every client is notified in the order of the commits and never twice, whatever the
\* capacity of the channel and however often the relay and the sockets break off.
THEOREM StreamIsOrdered == FairSpec => []StreamInOrder
<1>1. PushInv => StreamInOrder BY DEF PushInv, Ordered, Rising, StreamInOrder
<1> QED BY <1>1, StoreInvariant, PTL

\* What a client misses was lost by the relay, or the channel told it so.
THEOREM GapsAreExplained == FairSpec => []GapsHaveCause
<1>1. PushInv => GapsHaveCause BY DEF PushInv
<1> QED BY <1>1, StoreInvariant, PTL

\* One of any number of registrations creates the coin, and all that collects it with it.
THEOREM CoinIsCreatedOnce == FairSpec => []CreatedOnce
<1>1. RegisterInv => CreatedOnce BY DEF RegisterInv
<1> QED BY <1>1, StoreInvariant, PTL

\* However many workers dispatch one metadata item, neighbouring revisions differ.
THEOREM NeighboursDiffer == FairSpec => []RevisionsDiffer
<1>1. ReviseInv => RevisionsDiffer BY DEF ReviseInv
<1> QED BY <1>1, StoreInvariant, PTL

\* The order of revisions is the order of time, so the two reads of the metadata agree.
THEOREM NowIsLatest == FairSpec => []AsOfNowIsLatest
<1> QED BY LatestIsNow, StoreInvariant, PTL

\* Every variable keeps its type.
THEOREM TypesOfTheStore == FairSpec => []TypeOK
<1>1. RegisterInv /\ ReviseInv /\ PushInv => TypeOK
  BY DEF RegisterInv, ReviseInv, ReviseTypes, Jobs, PushInv, TypeOK
<1> QED BY <1>1, StoreInvariant, PTL

\* The stream of every client is in order and its gaps have a cause.
THEOREM StreamHolds == FairSpec => []StreamIsSound
BY StreamIsOrdered, GapsAreExplained, PTL DEF StreamIsSound

\* The history of a coin is the one that happened.
THEOREM HistoryHolds == FairSpec => []StoreIsSound
BY CoinIsCreatedOnce, NeighboursDiffer, NowIsLatest, PTL DEF StoreIsSound

-----------------------------------------------------------------------------
(* Requests.  Any number of callers that use one coin, with any number of  *)
(* failing statements, use it as the object of CoinObject.                 *)

(* What a request in hand knows of the row: InHandOK names, for every      *)
(* place between two statements, what the earlier ones established.        *)

Codes == {0, 200, 201, 204, 400, 404, 422, 500}
Call  == [at : Steps, req : Requests \cup {NoRequest}, code : Codes,
          body : Shown \cup {NoBody}, early : BOOLEAN, saw : {"unknown", "absent", "paused"}]

OpAt(step) ==
  CASE step \in {"insert", "commit", "reselect", "close"} -> "register" [] step = "select" -> "get"
    [] step = "update" -> "patch" [] OTHER -> "delete"

\* Of one caller's call k, when the row is r.
CallOK(k, r) ==
  /\ k \in Call
  /\ k.body # NoBody => k.code \in {200, 201}
  /\ k.at \notin {"idle", "answered"} =>
       /\ k.req \in Requests /\ k.req.op = OpAt(k.at)
       /\ r = NoCoin => k.early
       /\ k.at = "commit" => r = NoCoin
       /\ k.at = "reselect" => r # NoCoin
       /\ k.at = "close" => k.code = 200
       /\ k.at # "close" => k.body = NoBody /\ k.code = 0
       /\ k.at = "recheck" => k.saw \in {"absent", "paused"}
       /\ k.at = "recheck" /\ k.saw = "paused" => r # NoCoin
       /\ k.at = "recheck" /\ k.saw = "absent" => k.early
  /\ k.at \in {"idle", "answered"} => k.req = NoRequest /\ ~k.early

OneInserts == \A c, d \in Callers : On(c, "commit") /\ On(d, "commit") => c = d

ReqInv ==
  /\ row \in CoinRow \cup {NoCoin} /\ faults \in 0..MaxFaults
  /\ client = [c \in Callers |-> client[c]]
  /\ \A c \in Callers : CallOK(client[c], row)
  /\ OneInserts

\* A row is never removed, and appears when a transaction commits.
RowStep(c) ==
  /\ row' \in CoinRow \cup {NoCoin} /\ (row # NoCoin => row' # NoCoin)
  /\ row' # row => row # NoCoin \/ On(c, "commit")

\* Caller c moves, and nobody else.
Moves(c, k) ==
  /\ client' = [client EXCEPT ![c] = k]
  /\ CallOK(k, row')
  /\ k.at = "commit" => \A d \in Callers : ~On(d, "commit")
  /\ RowStep(c) /\ faults' \in 0..MaxFaults

-----------------------------------------------------------------------------
\* The rows that the statements leave are rows, and what is shown of them is shown.
LEMMA Statements ==
  ASSUME NEW q \in Requests
  PROVE  /\ q \in Request
         /\ q.op = "register" => FreshRow(q) \in CoinRow
         /\ \A r \in CoinRow : /\ Patched(r, q) \in CoinRow /\ Dto(r) \in Shown
                               /\ [r EXCEPT !.status = "paused"] \in CoinRow
                               /\ [r EXCEPT !.due = FALSE] \in CoinRow
<1>1. q \in Request /\ (q.op = "register" => q.interval # "keep") BY RequestsAssumption
<1>2. q.op = "register" => FreshRow(q) \in CoinRow BY <1>1 DEF Request, CoinRow, FreshRow, Cadences
<1>3. ASSUME NEW r \in CoinRow
      PROVE  /\ Patched(r, q) \in CoinRow /\ Dto(r) \in Shown
             /\ [r EXCEPT !.status = "paused"] \in CoinRow /\ [r EXCEPT !.due = FALSE] \in CoinRow
  <2>1. r.error \/ q.error \in BOOLEAN BY <1>1 DEF Request, CoinRow
  <2>2. (IF q.status = "keep" THEN r.status ELSE q.status) \in {"active", "paused", "error"}
    BY <1>1 DEF Request, CoinRow
  <2>3. Patched(r, q) \in CoinRow BY <1>1, <2>1, <2>2 DEF Patched, Request, CoinRow, Cadences
  <2> QED BY <2>3 DEF Dto, Shown, CoinRow
<1> QED BY <1>1, <1>2, <1>3

\* An answer is a call that is over.
LEMMA Answered ==
  ASSUME NEW code \in Codes, NEW body \in Shown \cup {NoBody}, body # NoBody => code \in {200, 201}, NEW r
  PROVE  CallOK([at |-> "answered", req |-> NoRequest, code |-> code, body |-> body,
                 early |-> FALSE, saw |-> "unknown"], r)
BY DEF CallOK, Call, Codes, Steps

LEMMA IdleOK == \A r : CallOK(Idle, r)
BY DEF CallOK, Call, Idle, Codes, Steps

LEMMA Framed ==
  ASSUME ReqInv, NEW c \in Callers, NEW k, Moves(c, k)
  PROVE  ReqInv'
<1>1. client' = [d \in Callers |-> client'[d]] /\ client'[c] = k /\ \A d \in Callers \ {c} : client'[d] = client[d]
  BY DEF ReqInv, Moves
<1>2. ASSUME NEW d \in Callers PROVE CallOK(client[d], row)'
  <2>1. CASE d = c BY <1>1, <2>1 DEF Moves
  <2>2. CASE d # c
    <3>1. client'[d] = client[d] /\ CallOK(client[d], row) BY <1>1, <2>2 DEF ReqInv
    <3>2. row = NoCoin /\ row' # NoCoin => client[d].at # "commit"
      BY <2>2 DEF ReqInv, Moves, RowStep, OneInserts, On
    <3>3. CallOK(client[d], row') BY <3>1, <3>2 DEF CallOK, Moves, RowStep
    <3> QED BY <3>1, <3>3
  <2> QED BY <2>1, <2>2
<1>3. OneInserts' BY <1>1 DEF OneInserts, On, Moves, ReqInv
<1> QED BY <1>1, <1>2, <1>3 DEF ReqInv, Moves, RowStep

-----------------------------------------------------------------------------
(* Every action of a caller moves that caller, and keeps the invariant.    *)

\* Of a request in hand: its operation and what a row is when it is carried out.
LEMMA InHandFacts ==
  ASSUME ReqInv, NEW c \in Callers, InHand(c)
  PROVE  /\ client[c] \in Call /\ client[c].req \in Requests /\ client[c].req \in Request
         /\ client[c].at \notin {"idle", "answered"}
         /\ client[c].req.op = OpAt(client[c].at)
         /\ client[c].at \in Steps
         /\ row \in CoinRow \cup {NoCoin} /\ NoCoin \notin CoinRow
BY RequestsAssumption DEF ReqInv, InHand, CallOK, Call

LEMMA DoneIsRowStep ==
  ASSUME ReqInv, NEW c \in Callers, InHand(c), row' \in {row, Done(c)}
  PROVE  RowStep(c)
<1>1. /\ client[c].req \in Requests /\ client[c].req.op = OpAt(client[c].at) /\ client[c].at \in Steps
      /\ row \in CoinRow \cup {NoCoin} /\ NoCoin \notin CoinRow
  BY InHandFacts
<1>2. CASE row' = row BY <1>1, <1>2 DEF RowStep
<1>3. CASE row' = Done(c) /\ On(c, "commit")
  <2>1. row' = FreshRow(client[c].req) BY <1>3 DEF Done, On
  <2>2. client[c].req.op = "register" BY <1>1, <1>3 DEF On, OpAt
  <2> QED BY <1>1, <1>3, <2>1, <2>2, Statements DEF RowStep
<1>4. CASE row' = Done(c) /\ ~On(c, "commit")
  <2>1. row' = row \/ (row # NoCoin /\ row' \in CoinRow)
    <3>1. row' \in {row} \/ (row # NoCoin /\ row' \in {Patched(row, client[c].req), [row EXCEPT !.status = "paused"]})
      BY <1>4 DEF Done, Pausable
    <3> QED BY <1>1, <3>1, Statements
  <2> QED BY <1>1, <2>1 DEF RowStep
<1> QED BY <1>2, <1>3, <1>4

LEMMA Responds ==
  ASSUME ReqInv, NEW c \in Callers, NEW code \in Codes, NEW body \in Shown \cup {NoBody},
         body # NoBody => code \in {200, 201}, Respond(c, code, body), RowStep(c), faults' \in 0..MaxFaults
  PROVE  ReqInv'
<1> DEFINE k == [at |-> "answered", req |-> NoRequest, code |-> code, body |-> body, early |-> FALSE, saw |-> "unknown"]
<1>1. Moves(c, k) BY Answered DEF Moves, Respond
<1> QED BY <1>1, Framed

LEMMA ReceiveKeeps ==
  ASSUME ReqInv, NEW c \in Callers, Receive(c)
  PROVE  ReqInv'
<1>1. PICK q \in Requests :
        IF Refusal(q) # 0 THEN Respond(c, Refusal(q), NoBody)
        ELSE client' = [client EXCEPT ![c] = [at |-> FirstStatement(q), req |-> q, code |-> 0, body |-> NoBody,
                                              early |-> (row = NoCoin), saw |-> "unknown"]]
  BY DEF Receive
<1>2. RowStep(c) /\ faults' \in 0..MaxFaults /\ row' = row BY DEF Receive, ReqInv, RowStep
<1>3. CASE Refusal(q) # 0
  <2>1. Refusal(q) \in Codes BY <1>3 DEF Refusal, Codes
  <2> QED BY <1>1, <1>2, <1>3, <2>1, Responds
<1>4. CASE Refusal(q) = 0
  <2> DEFINE k == [at |-> FirstStatement(q), req |-> q, code |-> 0, body |-> NoBody,
                   early |-> (row = NoCoin), saw |-> "unknown"]
  <2>1. /\ FirstStatement(q) \in {"insert", "select", "update", "pause"} /\ q.op = OpAt(FirstStatement(q))
        /\ FirstStatement(q) \in Steps
    BY Statements DEF Request, FirstStatement, OpAt, Steps
  <2>2. k \in Call BY <2>1 DEF Call, Codes
  <2>3. CallOK(k, row) BY <2>1, <2>2 DEF CallOK
  <2>4. Moves(c, k) BY <1>1, <1>2, <1>4, <2>1, <2>3 DEF Moves
  <2> QED BY <2>4, Framed
<1> QED BY <1>3, <1>4

LEMMA InsertKeeps ==
  ASSUME ReqInv, NEW c \in Callers, InsertCoin(c)
  PROVE  ReqInv'
<1> DEFINE k == [client[c] EXCEPT !.at = IF row = NoCoin THEN "commit" ELSE "reselect"]
<1>1. RowStep(c) /\ faults' \in 0..MaxFaults /\ row' = row BY DEF InsertCoin, ReqInv, RowStep
<1>2. InHand(c) /\ client[c].at = "insert" BY DEF InsertCoin, On, InHand
<1>3. client[c] \in Call /\ client[c].req.op = "register" BY <1>2, InHandFacts DEF OpAt
<1>4. k \in Call /\ k.req = client[c].req /\ k.code = client[c].code /\ k.body = client[c].body /\ k.early = client[c].early
      /\ k.at = IF row = NoCoin THEN "commit" ELSE "reselect"
  BY <1>3 DEF Call, Steps
<1>5. CallOK(client[c], row) BY DEF ReqInv
<1>6. CallOK(k, row) BY <1>2, <1>3, <1>4, <1>5 DEF CallOK, OpAt
<1>7. Moves(c, k) BY <1>1, <1>6 DEF Moves, InsertCoin, To
<1> QED BY <1>7, Framed

LEMMA CommitKeeps ==
  ASSUME ReqInv, NEW c \in Callers, Commit(c)
  PROVE  ReqInv'
<1>1. InHand(c) /\ client[c].at = "commit" BY DEF Commit, On, InHand
<1>2. client[c].req \in Requests /\ client[c].req.op = "register" BY <1>1, InHandFacts DEF OpAt
<1>3. row' \in CoinRow BY <1>2, Statements DEF Commit
<1>4. Dto(row') \in Shown BY <1>2, <1>3, Statements
<1>5. RowStep(c) BY <1>1, <1>3, RequestsAssumption DEF RowStep, On
<1> QED BY <1>4, <1>5, Responds DEF Commit, Codes, ReqInv

LEMMA ReselectKeeps ==
  ASSUME ReqInv, NEW c \in Callers, Reselect(c)
  PROVE  ReqInv'
<1> DEFINE k == [client[c] EXCEPT !.at = "close", !.code = 200, !.body = Dto(row)]
<1>1. RowStep(c) /\ faults' \in 0..MaxFaults /\ row' = row BY DEF Reselect, ReqInv, RowStep
<1>2. InHand(c) /\ client[c].at = "reselect" BY DEF Reselect, On, InHand
<1>3. client[c] \in Call /\ client[c].req.op = "register" /\ client[c].req \in Requests
  BY <1>2, InHandFacts DEF OpAt
<1>4. CallOK(client[c], row) BY DEF ReqInv
<1>5. Dto(row) \in Shown BY <1>2, <1>3, <1>4, InHandFacts, Statements DEF CallOK
<1>6. /\ k \in Call /\ k.req = client[c].req /\ k.early = client[c].early /\ k.at = "close"
      /\ k.code = 200 /\ k.body = Dto(row)
  <2> DEFINE b == Dto(row)  k1 == [client[c] EXCEPT !.at = "close"]  k2 == [k1 EXCEPT !.code = 200]
             k3 == [k2 EXCEPT !.body = b]
  <2>1. b \in Shown /\ k3 = k BY <1>5
  <2>2. k1 \in Call /\ k1.req = client[c].req /\ k1.early = client[c].early /\ k1.at = "close"
    BY <1>3 DEF Call, Steps
  <2> HIDE DEF k1
  <2>3. k2 \in Call /\ k2.req = k1.req /\ k2.early = k1.early /\ k2.at = "close" /\ k2.code = 200
    BY <2>2 DEF Call, Codes
  <2> HIDE DEF k2, b
  <2>4. k3 \in Call /\ k3.req = k2.req /\ k3.early = k2.early /\ k3.at = "close" /\ k3.code = 200 /\ k3.body = b
    BY <2>1, <2>3 DEF Call
  <2> QED BY <2>1, <2>2, <2>3, <2>4 DEF b
<1>7. CallOK(k, row) BY <1>2, <1>3, <1>4, <1>6 DEF CallOK, OpAt
<1>8. Moves(c, k) BY <1>1, <1>6, <1>7 DEF Moves, Reselect
<1> QED BY <1>8, Framed

LEMMA ReadKeepsRow ==
  ASSUME ReqInv, NEW c \in Callers, Select(c) \/ CloseRead(c) \/ Recheck(c)
  PROVE  ReqInv'
<1>1. RowStep(c) /\ faults' \in 0..MaxFaults BY DEF Select, CloseRead, Recheck, ReqInv, RowStep
<1>2. InHand(c) BY DEF Select, CloseRead, Recheck, On, InHand
<1>3. row # NoCoin => Dto(row) \in Shown BY <1>2, InHandFacts, Statements
<1>4. CASE Select(c) BY <1>1, <1>3, <1>4, Responds DEF Select, Codes
<1>5. CASE Recheck(c) BY <1>1, <1>5, Responds DEF Recheck, Codes
<1>6. CASE CloseRead(c)
  <2>1. client[c].code = 200 /\ client[c].body \in Shown \cup {NoBody}
    BY <1>6 DEF CloseRead, On, ReqInv, CallOK, Call
  <2> QED BY <1>1, <1>6, <2>1, Responds DEF CloseRead, Codes
<1> QED BY <1>4, <1>5, <1>6

LEMMA UpdateKeeps ==
  ASSUME ReqInv, NEW c \in Callers, Update(c)
  PROVE  ReqInv'
<1>1. InHand(c) BY DEF Update, On, InHand
<1>2. client[c].req \in Requests /\ row \in CoinRow \cup {NoCoin} /\ NoCoin \notin CoinRow BY <1>1, InHandFacts
<1>3. row # NoCoin => row' \in CoinRow /\ Dto(row') \in Shown BY <1>2, Statements DEF Update
<1>4. RowStep(c) BY <1>2, <1>3 DEF RowStep, Update
<1> QED BY <1>3, <1>4, Responds DEF Update, Codes, ReqInv

LEMMA PauseKeeps ==
  ASSUME ReqInv, NEW c \in Callers, Pause(c)
  PROVE  ReqInv'
<1>1. InHand(c) /\ client[c].at = "pause" BY DEF Pause, On, InHand
<1>2. /\ client[c] \in Call /\ client[c].req \in Requests /\ client[c].req.op = "delete"
      /\ row \in CoinRow \cup {NoCoin} /\ NoCoin \notin CoinRow
  BY <1>1, InHandFacts DEF OpAt
<1>3. CASE Pausable
  <2>1. row # NoCoin /\ row' \in CoinRow BY <1>2, <1>3, Statements DEF Pause, Pausable
  <2>2. RowStep(c) BY <2>1, <1>2 DEF RowStep
  <2> QED BY <1>3, <2>2, Responds DEF Pause, Codes, ReqInv
<1>4. CASE ~Pausable
  <2> DEFINE k == [client[c] EXCEPT !.at = "recheck", !.saw = IF row = NoCoin THEN "absent" ELSE "paused"]
  <2>1. RowStep(c) /\ faults' \in 0..MaxFaults /\ row' = row BY <1>4 DEF Pause, ReqInv, RowStep
  <2>2. /\ k \in Call /\ k.req = client[c].req /\ k.code = client[c].code /\ k.body = client[c].body
        /\ k.early = client[c].early /\ k.at = "recheck" /\ k.saw = IF row = NoCoin THEN "absent" ELSE "paused"
    BY <1>2 DEF Call, Steps
  <2>3. CallOK(client[c], row) BY DEF ReqInv
  <2>4. CallOK(k, row) BY <1>1, <1>2, <2>2, <2>3 DEF CallOK, OpAt
  <2>5. Moves(c, k) BY <1>4, <2>1, <2>2, <2>4 DEF Moves, Pause
  <2> QED BY <2>5, Framed
<1> QED BY <1>3, <1>4

\* A failed statement answers 500 and a hang-up nothing, whether carried out or not.
LEMMA BreaksKeep ==
  ASSUME ReqInv, NEW c \in Callers, StatementFails(c) \/ HangUp(c)
  PROVE  ReqInv'
<1>1. InHand(c) /\ row' \in {row, Done(c)} BY DEF StatementFails, HangUp
<1>2. RowStep(c) BY <1>1, DoneIsRowStep
<1>3. faults' \in 0..MaxFaults BY RequestsAssumption DEF StatementFails, HangUp, ReqInv
<1>4. CASE StatementFails(c) BY <1>2, <1>3, <1>4, Responds DEF StatementFails, Codes
<1>5. CASE HangUp(c)
  <2>1. CallOK(Idle, row') BY IdleOK
  <2>2. Moves(c, Idle) BY <1>2, <1>3, <1>5, <2>1 DEF Moves, HangUp, Idle
  <2> QED BY <2>2, Framed
<1> QED BY <1>4, <1>5

LEMMA PollKeeps ==
  ASSUME ReqInv, PollerWrites
  PROVE  ReqInv'
<1>1. row \in CoinRow /\ row' = [row EXCEPT !.due = FALSE] /\ client' = client /\ faults' = faults
  BY DEF PollerWrites, ReqInv
<1>2. row' \in CoinRow BY <1>1 DEF CoinRow
<1>3. ASSUME NEW c \in Callers PROVE CallOK(client[c], row)'
  <2>1. CallOK(client[c], row) /\ row # NoCoin /\ row' # NoCoin BY <1>1, <1>2, RequestsAssumption DEF ReqInv
  <2>2. CallOK(client[c], row') BY <2>1 DEF CallOK
  <2> QED BY <1>1, <2>2
<1> QED BY <1>1, <1>2, <1>3 DEF ReqInv, OneInserts, On

LEMMA StepKeeps ==
  ASSUME ReqInv, [ReqNext]_reqVars
  PROVE  ReqInv'
<1>1. CASE UNCHANGED reqVars BY <1>1 DEF reqVars, ReqInv, OneInserts, On
<1>2. CASE PollerWrites BY <1>2, PollKeeps
<1>3. ASSUME NEW c \in Callers, Handle(c) PROVE ReqInv'
  BY <1>3, ReceiveKeeps, InsertKeeps, CommitKeeps, ReselectKeeps, ReadKeepsRow, UpdateKeeps, PauseKeeps, BreaksKeep
     DEF Handle
<1> QED BY <1>1, <1>2, <1>3 DEF ReqNext

LEMMA InitInvariant == ReqInit => ReqInv
<1> SUFFICES ASSUME ReqInit PROVE ReqInv OBVIOUS
<1>1. \A c \in Callers : client[c] = Idle BY DEF ReqInit
<1>2. \A c \in Callers : CallOK(client[c], row) BY <1>1, IdleOK
<1>3. OneInserts BY <1>1 DEF OneInserts, On, Idle
<1> QED BY <1>2, <1>3, RequestsAssumption DEF ReqInit, ReqInv

\* However many callers there are, whatever they ask and however many statements fail,
\* the types hold, and a row comes back in a 200 or a 201 only.
THEOREM TypesOfRequests == ReqSpec => []ReqTypeOK
<1>1. ReqInv => ReqTypeOK BY DEF ReqInv, CallOK, Call, Codes, ReqTypeOK
<1> QED BY <1>1, InitInvariant, StepKeeps, PTL DEF ReqSpec

-----------------------------------------------------------------------------
(* CoinRequests implements CoinObject.                                     *)

Calls == [c \in Callers |-> ObjectCall(c)]

\* Who moves is seen to move, and nobody else.
LEMMA Seen ==
  ASSUME ReqInv, NEW c \in Callers, NEW k, client' = [client EXCEPT ![c] = k]
  PROVE  /\ Calls' = [Calls EXCEPT ![c] = ObjectCall(c)'] /\ Calls[c] = ObjectCall(c)
         /\ client'[c] = k
<1>1. client'[c] = k /\ \A d \in Callers \ {c} : client'[d] = client[d] BY DEF ReqInv
<1>2. \A d \in Callers \ {c} : ObjectCall(d)' = ObjectCall(d) BY <1>1 DEF ObjectCall, InHand, Carried, On
<1> QED BY <1>1, <1>2 DEF Calls

LEMMA SeenAnswer ==
  ASSUME ReqInv, NEW c \in Callers, NEW code, NEW body, Respond(c, code, body)
  PROVE  Object!Answer(c, code, body)
<1> DEFINE k == [at |-> "answered", req |-> NoRequest, code |-> code, body |-> body, early |-> FALSE, saw |-> "unknown"]
<1>1. client' = [client EXCEPT ![c] = k] BY DEF Respond
<1>2. Calls' = [Calls EXCEPT ![c] = ObjectCall(c)'] /\ client'[c] = k BY <1>1, Seen
<1>3. ObjectCall(c)' = [at |-> "answered", req |-> NoRequest, early |-> FALSE, code |-> code, body |-> body]
  BY <1>2 DEF ObjectCall, InHand, Carried, On
<1> QED BY <1>2, <1>3 DEF Object!Answer, Calls

\* What a request that is not settled looks like, and one that is.
LEMMA SeenInHand ==
  ASSUME ReqInv, NEW c \in Callers, InHand(c)
  PROVE  /\ Calls[c] = ObjectCall(c)
         /\ ObjectCall(c).req = client[c].req /\ ObjectCall(c).early = client[c].early
         /\ ObjectCall(c).body = client[c].body
         /\ ~Carried(c) => ObjectCall(c).at = "asked"
         /\ Carried(c) => ObjectCall(c).at = "taken"
         /\ On(c, "recheck") /\ Carried(c) => ObjectCall(c).code = 204
         /\ ~On(c, "recheck") => ObjectCall(c).code = client[c].code
BY DEF Calls, ObjectCall, InHand

\* The statements do to the row what the object's operations do.
LEMMA SameEffects ==
  ASSUME NEW q \in Requests, NEW r \in CoinRow \cup {NoCoin}
  PROVE  /\ Refusal(q) = Object!Rejects(q)
         /\ Dto(r) = Object!View(r)
         /\ q.op = "register" /\ r = NoCoin => Object!Used(r, q) = FreshRow(q)
         /\ q.op = "patch" /\ r # NoCoin => Object!Used(r, q) = Patched(r, q)
         /\ q.op = "delete" /\ r # NoCoin => Object!Used(r, q) = [r EXCEPT !.status = "paused"]
         /\ q.op = "get" \/ (q.op = "register" /\ r # NoCoin) \/ (q.op # "register" /\ r = NoCoin)
              => Object!Used(r, q) = r
<1>1. q \in Request BY Statements
<1>2. Refusal(q) = Object!Rejects(q) BY DEF Refusal, Object!Rejects
<1>3. Dto(r) = Object!View(r) BY DEF Dto, Object!View
<1>4. q.op = "register" /\ r = NoCoin => Object!Used(r, q) = FreshRow(q) BY DEF Object!Used, FreshRow
<1>5. ASSUME q.op = "patch", r # NoCoin PROVE Object!Used(r, q) = Patched(r, q)
  <2>1. Object!Used(r, q) = Object!With(r, q) BY <1>5 DEF Object!Used
  <2>2. r \in CoinRow BY <1>5
  <2> DEFINE st == IF q.status = "keep" THEN r.status ELSE q.status
             e == r.error \/ q.error
  <2>3. Patched(r, q) = IF q.interval = "keep"
                        THEN [status |-> st, interval |-> r.interval, error |-> e, due |-> r.due]
                        ELSE [status |-> st, interval |-> q.interval, error |-> e, due |-> TRUE]
    BY DEF Patched
  <2>4. Object!With(r, q) = [status |-> st, interval |-> IF q.interval = "keep" THEN r.interval ELSE q.interval,
                             error |-> e, due |-> r.due \/ q.interval # "keep"]
    BY DEF Object!With
  <2>5. (r.due \/ FALSE) = r.due /\ (r.due \/ TRUE) = TRUE BY <2>2 DEF CoinRow
  <2> HIDE DEF st, e
  <2>7. CASE q.interval = "keep"
    <3>1. Patched(r, q) = [status |-> st, interval |-> r.interval, error |-> e, due |-> r.due] BY <2>3, <2>7
    <3>2. (r.due \/ q.interval # "keep") = r.due BY <2>5, <2>7
    <3> QED BY <2>1, <2>4, <2>7, <3>1, <3>2
  <2>8. CASE q.interval # "keep"
    <3>1. Patched(r, q) = [status |-> st, interval |-> q.interval, error |-> e, due |-> TRUE] BY <2>3, <2>8
    <3>2. (r.due \/ q.interval # "keep") = TRUE BY <2>5, <2>8
    <3> QED BY <2>1, <2>4, <2>8, <3>1, <3>2
  <2> QED BY <2>7, <2>8
<1>6. q.op = "delete" /\ r # NoCoin => Object!Used(r, q) = [r EXCEPT !.status = "paused"] BY DEF Object!Used
<1>7. q.op = "get" \/ (q.op = "register" /\ r # NoCoin) \/ (q.op # "register" /\ r = NoCoin)
        => Object!Used(r, q) = r
  BY <1>1 DEF Object!Used, Request
<1> QED BY <1>2, <1>3, <1>4, <1>5, <1>6, <1>7

-----------------------------------------------------------------------------
(* Every step of the handlers is a step of the object, or none.            *)

LEMMA ReceiveIsArrival ==
  ASSUME ReqInv, NEW c \in Callers, Receive(c)
  PROVE  Object!Arrives(c)
<1>1. PICK q \in Requests :
        IF Refusal(q) # 0 THEN Respond(c, Refusal(q), NoBody)
        ELSE client' = [client EXCEPT ![c] = [at |-> FirstStatement(q), req |-> q, code |-> 0, body |-> NoBody,
                                              early |-> (row = NoCoin), saw |-> "unknown"]]
  BY DEF Receive
<1>2. Calls[c].at \in {"idle", "answered"} BY DEF Receive, Calls, ObjectCall, InHand
<1>3. Refusal(q) = Object!Rejects(q) BY SameEffects DEF ReqInv
<1>4. CASE Refusal(q) # 0
  <2>1. Object!Answer(c, Object!Rejects(q), NoBody) BY <1>1, <1>3, <1>4, SeenAnswer
  <2> QED BY <1>2, <1>3, <1>4, <2>1 DEF Object!Arrives, Receive, Calls
<1>5. CASE Refusal(q) = 0
  <2> DEFINE k == [at |-> FirstStatement(q), req |-> q, code |-> 0, body |-> NoBody,
                   early |-> (row = NoCoin), saw |-> "unknown"]
  <2>1. Calls' = [Calls EXCEPT ![c] = ObjectCall(c)'] /\ client'[c] = k BY <1>1, <1>5, Seen
  <2>2. FirstStatement(q) \in {"insert", "select", "update", "pause"}
    BY Statements DEF Request, FirstStatement
  <2>3. ObjectCall(c)' = [at |-> "asked", req |-> q, early |-> (row = NoCoin), code |-> 0, body |-> NoBody]
    BY <2>1, <2>2 DEF ObjectCall, InHand, Carried, On
  <2> QED BY <1>2, <1>3, <1>5, <2>1, <2>3 DEF Object!Arrives, Receive, Calls
<1> QED BY <1>4, <1>5

LEMMA InsertIsStutter ==
  ASSUME ReqInv, NEW c \in Callers, InsertCoin(c)
  PROVE  UNCHANGED <<row, Calls, faults>>
<1> DEFINE k == [client[c] EXCEPT !.at = IF row = NoCoin THEN "commit" ELSE "reselect"]
<1>1. Calls' = [Calls EXCEPT ![c] = ObjectCall(c)'] /\ Calls[c] = ObjectCall(c) /\ client'[c] = k
  BY Seen DEF InsertCoin, To
<1>2. client[c] \in Call /\ client[c].at = "insert" BY DEF ReqInv, CallOK, InsertCoin, On
<1>3. /\ k.req = client[c].req /\ k.code = client[c].code /\ k.body = client[c].body /\ k.early = client[c].early
      /\ k.at \in {"commit", "reselect"}
  BY <1>2 DEF Call
<1>4. ObjectCall(c)' = ObjectCall(c) BY <1>1, <1>2, <1>3 DEF ObjectCall, InHand, Carried, On
<1>5. Calls' = Calls BY <1>1, <1>4 DEF Calls
<1> QED BY <1>5 DEF InsertCoin

\* A request that has not been carried out is, and is answered in the same step.
LEMMA AnswersAtOnce ==
  ASSUME ReqInv, NEW c \in Callers, InHand(c), ~Carried(c), NEW code, NEW body,
         Respond(c, code, body), faults' = faults,
         row' = Object!Used(row, client[c].req), code = Object!Code(row, client[c].req),
         body = IF code \in {200, 201} THEN Object!View(row') ELSE NoBody
  PROVE  Object!CarriedOut(c)
<1>1. Calls[c].at = "asked" /\ Calls[c].req = client[c].req BY SeenInHand
<1>2. Object!Answer(c, code, body) BY SeenAnswer
<1> QED BY <1>1, <1>2 DEF Object!CarriedOut, Calls

LEMMA CommitIsCarriedOut ==
  ASSUME ReqInv, NEW c \in Callers, Commit(c)
  PROVE  Object!CarriedOut(c)
<1>1. InHand(c) /\ ~Carried(c) /\ client[c].at = "commit" BY DEF Commit, On, InHand, Carried
<1>2. /\ client[c].req \in Requests /\ client[c].req.op = "register" /\ row = NoCoin
      /\ row \in CoinRow \cup {NoCoin}
  BY <1>1, InHandFacts DEF OpAt, ReqInv, CallOK
<1>3. row' = Object!Used(row, client[c].req) BY <1>2, SameEffects DEF Commit
<1>4. row' \in CoinRow BY <1>2, Statements DEF Commit
<1>5. Dto(row') = Object!View(row') BY <1>2, <1>4, SameEffects
<1>6. Object!Code(row, client[c].req) = 201 BY <1>2 DEF Object!Code
<1> QED BY <1>1, <1>3, <1>5, <1>6, AnswersAtOnce DEF Commit

LEMMA SelectIsCarriedOut ==
  ASSUME ReqInv, NEW c \in Callers, Select(c)
  PROVE  Object!CarriedOut(c)
<1>1. InHand(c) /\ ~Carried(c) /\ client[c].at = "select" BY DEF Select, On, InHand, Carried
<1>2. client[c].req \in Requests /\ client[c].req.op = "get" /\ row \in CoinRow \cup {NoCoin}
  BY <1>1, InHandFacts DEF OpAt
<1>3. row' = row /\ Object!Used(row, client[c].req) = row BY <1>2, SameEffects DEF Select
<1>4. Dto(row) = Object!View(row) BY <1>2, SameEffects
<1>5. Object!Code(row, client[c].req) = IF row = NoCoin THEN 404 ELSE 200 BY <1>2 DEF Object!Code
<1> QED BY <1>1, <1>3, <1>4, <1>5, AnswersAtOnce DEF Select

LEMMA UpdateIsCarriedOut ==
  ASSUME ReqInv, NEW c \in Callers, Update(c)
  PROVE  Object!CarriedOut(c)
<1>1. InHand(c) /\ ~Carried(c) /\ client[c].at = "update" BY DEF Update, On, InHand, Carried
<1>2. /\ client[c].req \in Requests /\ client[c].req.op = "patch" /\ row \in CoinRow \cup {NoCoin}
  BY <1>1, InHandFacts DEF OpAt
<1>3. row' = Object!Used(row, client[c].req) BY <1>2, SameEffects DEF Update
<1>4. row' \in CoinRow \cup {NoCoin} BY <1>2, Statements DEF Update
<1>5. Dto(row') = Object!View(row') BY <1>2, <1>4, SameEffects
<1>6. Object!Code(row, client[c].req) = IF row = NoCoin THEN 404 ELSE 200 BY <1>2 DEF Object!Code
<1> QED BY <1>1, <1>3, <1>5, <1>6, AnswersAtOnce DEF Update

\* A request that has not been carried out is, and its answer is settled.
LEMMA SettlesLater ==
  ASSUME ReqInv, NEW c \in Callers, InHand(c), ~Carried(c), NEW code, NEW body,
         Calls' = [Calls EXCEPT ![c] =
           [at |-> "taken", req |-> client[c].req, early |-> client[c].early, code |-> code, body |-> body]],
         faults' = faults, row' = Object!Used(row, client[c].req),
         code = Object!Code(row, client[c].req),
         code \in {200, 201} => body = Object!View(row'), code \notin {200, 201} => body = NoBody
  PROVE  Object!CarriedOut(c)
<1>1. Calls[c].at = "asked" /\ Calls[c].req = client[c].req /\ Calls[c].early = client[c].early BY SeenInHand
<1>2. Calls' = [Calls EXCEPT ![c] =
        [at |-> "taken", req |-> Calls[c].req, early |-> Calls[c].early, code |-> code, body |-> body]]
  BY <1>1
<1> QED BY <1>1, <1>2 DEF Object!CarriedOut, Calls

LEMMA ReselectIsCarriedOut ==
  ASSUME ReqInv, NEW c \in Callers, Reselect(c)
  PROVE  Object!CarriedOut(c)
<1> DEFINE k == [client[c] EXCEPT !.at = "close", !.code = 200, !.body = Dto(row)]
<1>1. InHand(c) /\ ~Carried(c) /\ client[c].at = "reselect" BY DEF Reselect, On, InHand, Carried
<1>2. /\ client[c] \in Call /\ client[c].req \in Requests /\ client[c].req.op = "register" /\ row # NoCoin
      /\ row \in CoinRow \cup {NoCoin}
  BY <1>1, InHandFacts DEF OpAt, ReqInv, CallOK
<1>3. row' = row /\ Object!Used(row, client[c].req) = row BY <1>2, SameEffects DEF Reselect
<1>4. Dto(row) = Object!View(row) BY <1>2, SameEffects
<1>5. Object!Code(row, client[c].req) = 200 BY <1>2 DEF Object!Code
<1>6. client' = [client EXCEPT ![c] = k] BY DEF Reselect
<1>7. client'[c] = k /\ Calls' = [Calls EXCEPT ![c] = ObjectCall(c)'] BY <1>6, Seen
<1>8. k.at = "close" /\ k.code = 200 /\ k.body = Dto(row) /\ k.req = client[c].req /\ k.early = client[c].early
  BY <1>2 DEF Call
<1>9. ObjectCall(c)' = [at |-> "taken", req |-> client[c].req, early |-> client[c].early, code |-> 200,
                        body |-> Dto(row)]
  BY <1>7, <1>8 DEF ObjectCall, InHand, Carried, On
<1>10. Dto(row) = Object!View(row') BY <1>3, <1>4
<1>11. faults' = faults BY DEF Reselect
<1>12. row' = Object!Used(row, client[c].req) BY <1>3
<1>13. Calls' = [Calls EXCEPT ![c] =
         [at |-> "taken", req |-> client[c].req, early |-> client[c].early, code |-> 200, body |-> Dto(row)]]
  BY <1>7, <1>9
<1> QED BY <1>1, <1>5, <1>10, <1>11, <1>12, <1>13, SettlesLater

LEMMA PauseIsStep ==
  ASSUME ReqInv, NEW c \in Callers, Pause(c)
  PROVE  Object!CarriedOut(c) \/ UNCHANGED <<row, Calls, faults>>
<1>1. InHand(c) /\ ~Carried(c) /\ client[c].at = "pause" BY DEF Pause, On, InHand, Carried
<1>2. /\ client[c] \in Call /\ client[c].req \in Requests /\ client[c].req.op = "delete"
      /\ row \in CoinRow \cup {NoCoin} /\ client[c].body = NoBody /\ client[c].code = 0
  BY <1>1, InHandFacts DEF OpAt, ReqInv, CallOK
<1>3. row # NoCoin => Object!Code(row, client[c].req) = 204 BY <1>2 DEF Object!Code
<1>4. row # NoCoin => Object!Used(row, client[c].req) = [row EXCEPT !.status = "paused"] BY <1>2, SameEffects
<1>5. CASE Pausable
  <2>1. row # NoCoin /\ row' = Object!Used(row, client[c].req) BY <1>4, <1>5 DEF Pause, Pausable
  <2> QED BY <1>1, <1>3, <1>5, <2>1, AnswersAtOnce DEF Pause
<1>6. CASE ~Pausable
  <2> DEFINE k == [client[c] EXCEPT !.at = "recheck", !.saw = IF row = NoCoin THEN "absent" ELSE "paused"]
  <2>1. client' = [client EXCEPT ![c] = k] /\ row' = row /\ faults' = faults BY <1>6 DEF Pause
  <2>2. client'[c] = k /\ Calls' = [Calls EXCEPT ![c] = ObjectCall(c)'] /\ Calls[c] = ObjectCall(c) BY <2>1, Seen
  <2>3. /\ k.at = "recheck" /\ k.saw = IF row = NoCoin THEN "absent" ELSE "paused"
        /\ k.req = client[c].req /\ k.early = client[c].early /\ k.code = 0 /\ k.body = NoBody
    BY <1>2 DEF Call
  <2>4. CASE row = NoCoin
    <3>1. ObjectCall(c)' = ObjectCall(c) BY <1>1, <1>2, <2>2, <2>3, <2>4 DEF ObjectCall, InHand, Carried, On
    <3>2. Calls' = Calls BY <2>2, <3>1 DEF Calls
    <3> QED BY <2>1, <3>2
  <2>5. CASE row # NoCoin
    <3>1. row \in CoinRow /\ row.status = "paused" BY <1>2, <1>6, <2>5 DEF Pausable
    <3>2. [row EXCEPT !.status = "paused"] = row BY <3>1 DEF CoinRow
    <3>3. row' = Object!Used(row, client[c].req) BY <1>4, <2>1, <2>5, <3>2
    <3>4. ObjectCall(c)' = [at |-> "taken", req |-> client[c].req, early |-> client[c].early, code |-> 204, body |-> NoBody]
      BY <2>2, <2>3, <2>5 DEF ObjectCall, InHand, Carried, On
    <3> DEFINE code == Object!Code(row, client[c].req)
    <3>5. code = 204 BY <1>3, <2>5
    <3>6. code \notin {200, 201} /\ code = Object!Code(row, client[c].req) BY <3>5
    <3>7. Calls' = [Calls EXCEPT ![c] =
            [at |-> "taken", req |-> client[c].req, early |-> client[c].early, code |-> code, body |-> NoBody]]
      BY <2>2, <3>4, <3>5
    <3>8. faults' = faults BY <2>1
    <3> HIDE DEF code
    <3>9. Object!CarriedOut(c) BY <1>1, <3>3, <3>6, <3>7, <3>8, SettlesLater
    <3> QED BY <3>9
  <2> QED BY <2>4, <2>5
<1> QED BY <1>5, <1>6

LEMMA CloseReadIsReturn ==
  ASSUME ReqInv, NEW c \in Callers, CloseRead(c)
  PROVE  Object!Returns(c)
<1>1. InHand(c) /\ Carried(c) /\ ~On(c, "recheck") BY DEF CloseRead, On, InHand, Carried
<1>2. Calls[c].at = "taken" /\ Calls[c].code = client[c].code /\ Calls[c].body = client[c].body
  BY <1>1, SeenInHand
<1>3. Object!Answer(c, client[c].code, client[c].body) BY SeenAnswer DEF CloseRead
<1> QED BY <1>2, <1>3 DEF Object!Returns, CloseRead, Calls

LEMMA RecheckIsStep ==
  ASSUME ReqInv, NEW c \in Callers, Recheck(c)
  PROVE  Object!Returns(c) \/ Object!CarriedOut(c) \/ Object!DeletesNothing(c)
<1>1. InHand(c) /\ client[c].at = "recheck" /\ On(c, "recheck") BY DEF Recheck, On, InHand
<1>2. /\ client[c].req \in Requests /\ client[c].req.op = "delete" /\ row \in CoinRow \cup {NoCoin}
      /\ client[c].body = NoBody /\ client[c].saw \in {"absent", "paused"}
  BY <1>1, InHandFacts DEF OpAt, ReqInv, CallOK
<1>3. Respond(c, IF row = NoCoin THEN 404 ELSE 204, NoBody) /\ row' = row /\ faults' = faults BY DEF Recheck
<1>4. Object!Answer(c, IF row = NoCoin THEN 404 ELSE 204, NoBody) BY <1>3, SeenAnswer
<1>5. CASE client[c].saw = "paused"
  <2>1. Carried(c) /\ row # NoCoin BY <1>1, <1>2, <1>5, InHandFacts DEF Carried, ReqInv, CallOK
  <2>2. Calls[c].at = "taken" /\ Calls[c].code = 204 /\ Calls[c].body = NoBody BY <1>1, <1>2, <2>1, SeenInHand
  <2> QED BY <1>3, <1>4, <2>1, <2>2 DEF Object!Returns, Calls
<1>6. CASE client[c].saw = "absent"
  <2>1. ~Carried(c) BY <1>1, <1>6 DEF Carried, On
  <2>2. client[c].early BY <1>1, <1>6 DEF ReqInv, CallOK
  <2>3. CASE row = NoCoin
    <3>1. Object!Used(row, client[c].req) = row /\ Object!Code(row, client[c].req) = 404
      BY <1>2, <2>3, SameEffects DEF Object!Code
    <3> QED BY <1>1, <1>3, <2>1, <2>3, <3>1, AnswersAtOnce
  <2>4. CASE row # NoCoin
    <3>1. Calls[c].at = "asked" /\ Calls[c].req = client[c].req /\ Calls[c].early = client[c].early
      BY <1>1, <2>1, SeenInHand
    <3> QED BY <1>2, <1>3, <1>4, <2>2, <2>4, <3>1 DEF Object!DeletesNothing, Calls
  <2> QED BY <2>3, <2>4
<1> QED BY <1>2, <1>5, <1>6

LEMMA BreaksAreSeen ==
  ASSUME ReqInv, NEW c \in Callers, StatementFails(c) \/ HangUp(c)
  PROVE  Object!Fails(c) \/ Object!HangsUp(c)
<1>1. InHand(c) /\ row' \in {row, Done(c)} BY DEF StatementFails, HangUp
<1>2. /\ client[c].req \in Requests /\ client[c].req.op = OpAt(client[c].at) /\ client[c].at \in Steps
      /\ row \in CoinRow \cup {NoCoin} /\ CallOK(client[c], row)
  BY <1>1, InHandFacts DEF ReqInv
<1>3. /\ Calls[c].req = client[c].req
      /\ Carried(c) => Calls[c].at = "taken"
      /\ ~Carried(c) => Calls[c].at = "asked"
  BY <1>1, SeenInHand
<1>4. Carried(c) => row' = row BY <1>1 DEF Carried, Done, On
<1>5. ~Carried(c) => row' \in {row, Object!Used(row, client[c].req)}
  <2>1. CASE client[c].at = "commit"
    <3>1. Done(c) = FreshRow(client[c].req) BY <2>1 DEF Done, On
    <3>2. client[c].req.op = "register" /\ row = NoCoin BY <1>2, <2>1 DEF OpAt, CallOK
    <3> QED BY <1>1, <1>2, <3>1, <3>2, SameEffects
  <2>2. CASE client[c].at = "update" /\ row # NoCoin
    <3>1. Done(c) = Patched(row, client[c].req) BY <2>2 DEF Done, On
    <3>2. client[c].req.op = "patch" BY <1>2, <2>2 DEF OpAt
    <3> QED BY <1>1, <1>2, <2>2, <3>1, <3>2, SameEffects
  <2>3. CASE client[c].at = "pause" /\ Pausable
    <3>1. Done(c) = [row EXCEPT !.status = "paused"] BY <2>3 DEF Done, On
    <3>2. client[c].req.op = "delete" /\ row # NoCoin BY <1>2, <2>3 DEF OpAt, Pausable
    <3> QED BY <1>1, <1>2, <3>1, <3>2, SameEffects
  <2>4. CASE ~(client[c].at = "commit" \/ (client[c].at = "update" /\ row # NoCoin) \/ (client[c].at = "pause" /\ Pausable))
    <3>1. Done(c) = row BY <2>4 DEF Done, On
    <3> QED BY <1>1, <3>1
  <2> QED BY <2>1, <2>2, <2>3, <2>4
<1>6. Object!Broken(c) BY <1>3, <1>4, <1>5 DEF Object!Broken, Calls
<1>7. CASE StatementFails(c)
  <2>1. Object!Answer(c, 500, NoBody) BY <1>7, SeenAnswer DEF StatementFails
  <2> QED BY <1>6, <1>7, <2>1 DEF StatementFails, Object!Fails
<1>8. CASE HangUp(c)
  <2>1. Calls' = [Calls EXCEPT ![c] = ObjectCall(c)'] /\ client'[c] = Idle BY <1>8, Seen DEF HangUp
  <2>2. ObjectCall(c)' = Object!Quiet BY <2>1 DEF ObjectCall, InHand, Carried, On, Idle, Object!Quiet
  <2> QED BY <1>6, <1>8, <2>1, <2>2 DEF HangUp, Object!HangsUp, Calls
<1> QED BY <1>7, <1>8

LEMMA ObjectInit == ReqInit => Object!ObjInit
BY DEF ReqInit, Idle, Object!ObjInit, Object!Quiet, ObjectCall, InHand, Carried, On

\* A handler moves the caller it serves.
LEMMA HandlersMove ==
  ASSUME NEW c \in Callers, Handle(c)
  PROVE  \E k : client' = [client EXCEPT ![c] = k]
<1>1. CASE Receive(c)
  BY <1>1 DEF Receive, Respond
<1>2. CASE InsertCoin(c)
  <2>1. PICK step : client' = [client EXCEPT ![c].at = step]
    BY <1>2 DEF InsertCoin, To
  <2> QED BY <2>1
<1>3. CASE Commit(c) \/ Reselect(c) \/ CloseRead(c)
  BY <1>3 DEF Commit, Reselect, CloseRead, Respond
<1>4. CASE Select(c) \/ Update(c) \/ Pause(c) \/ Recheck(c)
  BY <1>4 DEF Select, Update, Pause, Recheck, Respond
<1>5. CASE StatementFails(c) \/ HangUp(c)
  BY <1>5 DEF StatementFails, HangUp, Respond
<1> QED BY <1>1, <1>2, <1>3, <1>4, <1>5 DEF Handle

LEMMA ObjectStep ==
  ASSUME ReqInv, [ReqNext]_reqVars
  PROVE  [Object!ObjNext]_Object!objVars
<1>1. CASE UNCHANGED reqVars
  BY <1>1 DEF reqVars, Object!objVars, ObjectCall, InHand, Carried, On
<1>2. CASE PollerWrites
  BY <1>2 DEF PollerWrites, Object!ObjNext, Object!Polls, ObjectCall, InHand, Carried, On
<1>3. ASSUME NEW c \in Callers, Handle(c) PROVE [Object!ObjNext]_Object!objVars
  <2>1. \/ Object!Arrives(c) \/ Object!CarriedOut(c) \/ Object!DeletesNothing(c)
        \/ Object!Returns(c) \/ Object!Fails(c) \/ Object!HangsUp(c)
        \/ UNCHANGED <<row, Calls, faults>>
    BY <1>3, ReceiveIsArrival, InsertIsStutter, CommitIsCarriedOut, ReselectIsCarriedOut, CloseReadIsReturn,
       SelectIsCarriedOut, UpdateIsCarriedOut, PauseIsStep, RecheckIsStep, BreaksAreSeen DEF Handle
  <2>2. CASE Calls'[c] # Calls[c]
    BY <2>1, <2>2 DEF Object!ObjNext, Object!objVars, Calls
  <2>3. CASE Calls'[c] = Calls[c]
    <3>1. Calls' = Calls
      <4>1. PICK k : client' = [client EXCEPT ![c] = k]
        BY <1>3, HandlersMove
      <4>2. Calls' = [Calls EXCEPT ![c] = ObjectCall(c)'] /\ Calls[c] = ObjectCall(c)
        BY <4>1, Seen
      <4> QED BY <2>3, <4>2 DEF Calls
    <3>2. UNCHANGED <<row, faults>>
      <4>1. CASE Object!Arrives(c) \/ Object!DeletesNothing(c) \/ Object!Returns(c)
        BY <4>1 DEF Object!Arrives, Object!DeletesNothing, Object!Returns
      <4>2. CASE Object!CarriedOut(c) \/ Object!Fails(c) \/ Object!HangsUp(c)
        BY <3>1, <4>2 DEF Object!CarriedOut, Object!Fails, Object!HangsUp, Object!Broken, Object!Answer, Object!Quiet, Calls
      <4> QED BY <2>1, <4>1, <4>2
    <3> QED BY <3>1, <3>2 DEF Object!objVars, Calls
  <2> QED BY <2>2, <2>3
<1> QED BY <1>1, <1>2, <1>3 DEF ReqNext

\* However many callers there are, the statements of the handlers, which overlap, fail and
\* break off, are the one-instant operations of CoinObject.
THEOREM RequestsAreAtomic == ReqSpec => RefinesObject
<1>1. ReqInit => ReqInv /\ Object!ObjInit BY InitInvariant, ObjectInit
<1>2. ReqInv /\ [ReqNext]_reqVars => ReqInv' BY StepKeeps
<1>3. ReqInv /\ [ReqNext]_reqVars => [Object!ObjNext]_Object!objVars BY ObjectStep
<1> QED BY <1>1, <1>2, <1>3, PTL DEF ReqSpec, RefinesObject, Object!ObjSpec

-----------------------------------------------------------------------------
(* Extremes, and the first of many.                                        *)

LEMMA NatOrder ==
  ASSUME NEW T, T \subseteq Nat, T # {}
  PROVE  \E x \in T : \A y \in T : x <= y
<1>1. PICK x \in T : \A y \in T : ~ (<<y, x>> \in OpToRel(<, Nat))
  BY WFMin, NatLessThanWellFounded
<1>2. OpToRel(<, Nat) = {ss \in Nat \X Nat : ss[1] < ss[2]} BY DEF OpToRel
<1> HIDE DEF OpToRel
<1>3. \A y \in T : ~(y < x) BY <1>1, <1>2
<1> QED BY <1>3

LEMMA LeastKey ==
  ASSUME NEW T, T \subseteq Nat, T # {}
  PROVE  Min(T) \in T /\ Min(T) \in Nat /\ \A y \in T : Min(T) <= y
<1>1. Min(T) \in T /\ \A y \in T : Min(T) <= y BY NatOrder DEF Min
<1> QED BY <1>1

LEMMA Greatest ==
  ASSUME NEW h \in Nat, NEW S, NEW f \in [S -> 0..h], NEW T, T \subseteq S, T # {}
  PROVE  \E r \in T : \A q \in T : f[q] <= f[r]
<1> DEFINE below == {h - f[r] : r \in T}
<1>1. below \subseteq Nat /\ below # {} OBVIOUS
<1>2. PICK d \in below : \A y \in below : d <= y BY <1>1, NatOrder
<1>3. PICK r \in T : d = h - f[r] BY <1>2
<1>4. \A q \in T : f[q] <= f[r]
  <2> TAKE q \in T
  <2>1. h - f[q] \in below OBVIOUS
  <2>2. h - f[r] <= h - f[q] BY <1>2, <1>3, <2>1
  <2> QED BY <2>2
<1> QED BY <1>4

\* There are k highest members, whatever k, if there are that many.
Highest(T, S, f) == T \subseteq S /\ \A r \in T, q \in S \ T : f[q] <= f[r]

LEMMA HighestExist ==
  ASSUME NEW h \in Nat, NEW S, IsFiniteSet(S), NEW f \in [S -> 0..h]
  PROVE  \A k \in 0..Cardinality(S) : \E T : Highest(T, S, f) /\ Cardinality(T) = k
<1> DEFINE bad == {k \in 0..Cardinality(S) : ~\E T : Highest(T, S, f) /\ Cardinality(T) = k}
<1> SUFFICES ASSUME bad # {} PROVE FALSE OBVIOUS
<1>0. Cardinality(S) \in Nat BY FS_CardinalityType
<1>1. bad \subseteq Nat BY <1>0
<1>2. PICK k \in bad : \A j \in bad : k <= j BY <1>1, NatOrder
<1>3. k # 0
  <2>1. Highest({}, S, f) /\ Cardinality({}) = 0 BY FS_EmptySet DEF Highest
  <2> QED BY <2>1
<1>4. k - 1 \in 0..Cardinality(S) /\ k - 1 \notin bad BY <1>0, <1>2, <1>3
<1>5. PICK T : Highest(T, S, f) /\ Cardinality(T) = k - 1 BY <1>4
<1>6. IsFiniteSet(T) /\ T \subseteq S BY <1>5, FS_Subset DEF Highest
<1>7. S \ T # {}
  <2> SUFFICES ASSUME S = T PROVE FALSE BY <1>6
  <2> QED BY <1>0, <1>2, <1>5
<1>8. PICK r \in S \ T : \A q \in S \ T : f[q] <= f[r] BY <1>7, Greatest
<1>9. Cardinality(T \cup {r}) = k
  <2>1. r \notin T /\ k \in Nat BY <1>1, <1>2, <1>8
  <2>2. Cardinality(T \cup {r}) = Cardinality(T) + 1 BY <1>6, <2>1, FS_AddElement
  <2> QED BY <1>5, <2>1, <2>2
<1>10. Highest(T \cup {r}, S, f) BY <1>5, <1>8 DEF Highest
<1> QED BY <1>2, <1>9, <1>10

-----------------------------------------------------------------------------
(* The listings.  Rows of one currency have keys of their own, so a page   *)
(* is cut between two keys: what is owed lies past the mark.               *)

IsFirst(T, S) == T \subseteq S /\ \A r \in T, q \in S \ T : q.key <= r.key

LEMMA FirstRowsAre ==
  ASSUME NEW h \in Nat, NEW S, IsFiniteSet(S), \A r \in S : r.key \in 0..h, NEW k \in Nat
  PROVE  /\ IsFirst(FirstRows(k, S), S) /\ IsFiniteSet(FirstRows(k, S))
         /\ Cardinality(FirstRows(k, S)) <= k
         /\ FirstRows(k, S) = S \/ Cardinality(FirstRows(k, S)) = k
<1>0. Cardinality(S) \in Nat BY FS_CardinalityType
<1>1. CASE Cardinality(S) <= k BY <1>1 DEF FirstRows, IsFirst
<1>2. CASE ~(Cardinality(S) <= k)
  <2>1. k \in 0..Cardinality(S) BY <1>0, <1>2
  <2> DEFINE f == [r \in S |-> r.key]
  <2>2. f \in [S -> 0..h] OBVIOUS
  <2>3. PICK T : Highest(T, S, f) /\ Cardinality(T) = k
    <3> HIDE DEF f
    <3> QED BY <2>1, <2>2, HighestExist
  <2>4. IsFirst(T, S) /\ Cardinality(T) = k BY <2>3 DEF Highest, IsFirst
  <2>5. T \in kSubset(k, S) /\ \A r \in T, q \in S \ T : q.key <= r.key
    BY <2>4 DEF kSubset, IsFirst
  <2> DEFINE F == CHOOSE U \in kSubset(k, S) : \A r \in U, q \in S \ U : q.key <= r.key
  <2>6. F \in kSubset(k, S) /\ \A r \in F, q \in S \ F : q.key <= r.key BY <2>5
  <2>7. F \subseteq S /\ Cardinality(F) = k BY <2>6 DEF kSubset
  <2>8. FirstRows(k, S) = F BY <1>2 DEF FirstRows
  <2>9. IsFirst(F, S) BY <2>6, <2>7 DEF IsFirst
  <2>10. IsFiniteSet(F) BY <2>7, FS_Subset
  <2> HIDE DEF F
  <2> QED BY <2>7, <2>8, <2>9, <2>10
<1> QED BY <1>1, <1>2

-----------------------------------------------------------------------------
ListInv ==
  /\ ListTypeOK /\ ask.kind \in Kinds /\ table = [k \in Kinds |-> table[k]]
  /\ at = "select" => ~over
  /\ WindowIsServed
  /\ mark <= Horizon => owed \subseteq PastMark(Asked(FALSE))

LEMMA ListConstants ==
  /\ Horizon \in Nat /\ Span \in Nat /\ Day \in Nat /\ PageLimit \in Nat /\ MaxAdds \in Nat
  /\ Horizon >= 1 /\ PageLimit >= 1 /\ Day < Span
<1>1. \A n \in {Horizon, Span, Day, PageLimit} : n \in Nat /\ n # 0 BY ListingsAssumption
<1>2. Horizon \in Nat /\ Horizon # 0 /\ Span \in Nat /\ Day \in Nat /\ PageLimit \in Nat /\ PageLimit # 0 BY <1>1
<1> QED BY <1>2, ListingsAssumption

LEMMA ListInitially == ListInit => ListInv
<1> SUFFICES ASSUME ListInit PROVE ListInv OBVIOUS
<1> USE ListConstants
<1>1. PICK past \in SUBSET {r \in Row("quotes") : r.key < Horizon} :
        table = [k \in Kinds |-> IF k = "coins" THEN {[r EXCEPT !.cur = AnyCurrency] : r \in past} ELSE past]
  BY DEF ListInit
<1>2. \A r \in past : r \in [cur : Currencies, key : Instants]
  BY DEF Row, CurrenciesOf
<1>3. \A k \in Kinds : table[k] \subseteq Row(k)
  <2>1. table["coins"] \subseteq Row("coins")
    <3>1. table["coins"] = {[r EXCEPT !.cur = AnyCurrency] : r \in past} BY <1>1 DEF Kinds
    <3>2. \A r \in past : [r EXCEPT !.cur = AnyCurrency] \in [cur : {AnyCurrency}, key : Instants] BY <1>2
    <3>3. Row("coins") = [cur : {AnyCurrency}, key : Instants] BY DEF Row, CurrenciesOf
    <3> QED BY <3>1, <3>2, <3>3
  <2>2. table["quotes"] \subseteq Row("quotes") /\ table["market"] \subseteq Row("market")
    BY <1>1, <1>2 DEF Kinds, Row, CurrenciesOf
  <2> QED BY <2>1, <2>2 DEF Kinds
<1>4. table = [k \in Kinds |-> table[k]] BY <1>1
<1>5. ask.kind \in Kinds BY DEF ListInit
<1>6. /\ instant \in Instants /\ at \in {"exists", "select"} /\ mark \in 0..(Horizon + 1) /\ over \in BOOLEAN
      /\ items = {} /\ owed = {} /\ adds \in 0..MaxAdds /\ at # "select" /\ ~over
      /\ ~(mark <= Horizon)
  <2>1. /\ instant \in {Horizon - 1, Horizon} /\ at = "exists" /\ mark = Horizon + 1 /\ items = {} /\ over = FALSE
        /\ owed = {} /\ adds = 0
    BY DEF ListInit
  <2>2. instant \in Instants /\ mark \in 0..(Horizon + 1) /\ ~(mark <= Horizon) /\ adds \in 0..MaxAdds
    BY <2>1 DEF Instants
  <2> QED BY <2>1, <2>2
<1>7. Cardinality(items) <= PageLimit BY <1>6, FS_EmptySet
<1> QED BY <1>3, <1>4, <1>5, <1>6, <1>7 DEF ListInv, ListTypeOK, WindowIsServed

\* The window of a later page holds that of the first.
LEMMA LaterPages ==
  ASSUME NEW kind, NEW start, NEW end, NEW k \in Nat, k >= LowerBound(kind, start, end, TRUE)
  PROVE  k >= LowerBound(kind, start, end, FALSE)
<1>1. CASE start # Unset BY <1>1 DEF LowerBound
<1>2. CASE start = Unset
  <2>1. LowerBound(kind, start, end, FALSE) = 0 BY <1>2, Zenon DEF LowerBound
  <2>2. k >= 0 OBVIOUS
  <2> QED BY <2>1, <2>2, Zenon
<1> QED BY <1>1, <1>2

\* What a statement reads: rows of one currency, each with a key of its own.
LEMMA AskedRows ==
  ASSUME ListInv, NEW first \in BOOLEAN
  PROVE  /\ Asked(first) \subseteq table[ask.kind]
         /\ \A r \in Asked(first) : r = [cur |-> ask.cur, key |-> r.key] /\ r.key \in 0..Horizon
         /\ IsFiniteSet(Asked(first))
         /\ Asked(TRUE) \subseteq Asked(FALSE)
<1> USE ListConstants
<1>1. table[ask.kind] \subseteq Row(ask.kind) BY DEF ListInv, ListTypeOK
<1>2. \A b \in BOOLEAN : Asked(b) \subseteq {r \in table[ask.kind] : r.cur = ask.cur} BY DEF Asked, OfCurrency
<1>3. \A b \in BOOLEAN : \A r \in Asked(b) : r = [cur |-> ask.cur, key |-> r.key] /\ r.key \in 0..Horizon
  BY <1>1, <1>2 DEF Row, Instants
<1>4. IsFiniteSet(Asked(first))
  <2> DEFINE of == [k \in 0..Horizon |-> [cur |-> ask.cur, key |-> k]]
             all == {of[k] : k \in 0..Horizon}
  <2>1. IsFiniteSet(0..Horizon) BY FS_Interval
  <2>2. of \in Surjection(0..Horizon, all) BY DEF Surjection
  <2> HIDE DEF of
  <2>3. IsFiniteSet(all) BY <2>1, <2>2, FS_Surjection
  <2>4. Asked(first) \subseteq all
    <3> SUFFICES ASSUME NEW r \in Asked(first) PROVE r \in all OBVIOUS
    <3>1. r = of[r.key] /\ r.key \in 0..Horizon BY <1>3 DEF of
    <3> QED BY <3>1
  <2> QED BY <2>3, <2>4, FS_Subset
<1>5. Asked(TRUE) \subseteq Asked(FALSE)
  <2> SUFFICES ASSUME NEW r \in Asked(TRUE) PROVE r \in Asked(FALSE) OBVIOUS
  <2>1. r \in OfCurrency(ask.kind, ask.cur) /\ r.key <= UpperBound(ask.end)
        /\ r.key >= LowerBound(ask.kind, ask.start, ask.end, TRUE)
    BY DEF Asked
  <2>2. r.key \in 0..Horizon BY <1>3, Zenon
  <2>3. r.key \in Nat BY <2>2
  <2>4. r.key >= LowerBound(ask.kind, ask.start, ask.end, FALSE) BY <2>1, <2>3, LaterPages, Zenon
  <2> QED BY <2>1, <2>4 DEF Asked
<1> QED BY <1>2, <1>3, <1>4, <1>5

\* What a page gives, of the rows past the mark.
LEMMA PageGives ==
  ASSUME ListInv, NEW first \in BOOLEAN, NEW S, S = PastMark(Asked(first)), Paged(S)
  PROVE  /\ items' \subseteq S /\ Cardinality(items') <= PageLimit /\ over' \in BOOLEAN
         /\ over' => items' = S /\ mark' = mark
         /\ ~over' => /\ mark' \in 0..Horizon /\ mark' < mark
                      /\ \A r \in items' : mark' <= r.key
                      /\ \A r \in S \ items' : r.key < mark'
<1> USE ListConstants
<1> DEFINE read == FirstRows(PageLimit + 1, S)
           shown == FirstRows(PageLimit, read)
<1>1. /\ items' = shown /\ over' = (read = shown)
      /\ mark' = IF read = shown THEN mark ELSE Min({r.key : r \in shown})
  BY DEF Paged
<1>2. /\ S \subseteq Asked(first) /\ IsFiniteSet(S) /\ \A r \in S : r.key < mark
      /\ \A r \in S : r = [cur |-> ask.cur, key |-> r.key] /\ r.key \in 0..Horizon
  <2>1. S \subseteq Asked(first) /\ \A r \in S : r.key < mark BY DEF PastMark
  <2>2. IsFiniteSet(S) BY <2>1, AskedRows, FS_Subset
  <2> QED BY <2>1, <2>2, AskedRows
<1>3. /\ IsFirst(read, S) /\ IsFiniteSet(read) /\ Cardinality(read) <= PageLimit + 1
      /\ read = S \/ Cardinality(read) = PageLimit + 1
  BY <1>2, FirstRowsAre
<1>4. read \subseteq S /\ \A r \in read : r.key \in 0..Horizon BY <1>2, <1>3 DEF IsFirst
<1>5. /\ IsFirst(shown, read) /\ IsFiniteSet(shown) /\ Cardinality(shown) <= PageLimit
      /\ shown = read \/ Cardinality(shown) = PageLimit
  BY <1>3, <1>4, FirstRowsAre
<1>6. shown \subseteq read BY <1>5 DEF IsFirst
<1>7. Cardinality(shown) \in Nat BY <1>5, FS_CardinalityType
<1> HIDE DEF read, shown
<1>8. CASE read = shown
  <2>1. read = S
    <3> SUFFICES ASSUME Cardinality(read) = PageLimit + 1 PROVE FALSE BY <1>3
    <3> QED BY <1>5, <1>7, <1>8
  <2> QED BY <1>1, <1>5, <1>8, <2>1
<1>9. CASE read # shown
  <2>1. shown # {} BY <1>5, <1>9, FS_EmptySet
  <2> DEFINE keys == {r.key : r \in shown}
  <2>2. \A r \in shown : r.key \in 0..Horizon /\ r.key < mark BY <1>2, <1>4, <1>6
  <2>3. keys \subseteq Nat /\ keys # {} BY <2>1, <2>2
  <2>4. Min(keys) \in keys /\ \A k \in keys : Min(keys) <= k BY <2>3, LeastKey
  <2>5. mark' = Min(keys) BY <1>1, <1>9
  <2>6. PICK last \in shown : last.key = mark' BY <2>4, <2>5
  <2>7. \A r \in shown : mark' <= r.key BY <2>4, <2>5
  <2>8. \A r \in S \ shown : r.key < mark'
    <3> SUFFICES ASSUME NEW r \in S \ shown PROVE r.key < mark' OBVIOUS
    <3>1. r.key <= last.key
      <4>1. CASE r \in read BY <4>1, <2>6, <1>5 DEF IsFirst
      <4>2. CASE r \notin read BY <4>2, <2>6, <1>3, <1>6 DEF IsFirst
      <4> QED BY <4>1, <4>2
    <3>2. r.key # last.key
      <4> SUFFICES ASSUME r.key = last.key PROVE FALSE OBVIOUS
      <4>1. last \in S BY <2>6, <1>4, <1>6
      <4>2. r = last BY <4>1, <1>2
      <4> QED BY <4>2, <2>6
    <3>3. r.key \in Nat /\ last.key \in Nat BY <1>2, <2>2, <2>6
    <3> QED BY <3>1, <3>2, <3>3, <2>6
  <2>9. mark' \in 0..Horizon /\ mark' < mark BY <2>2, <2>6
  <2> QED BY <1>1, <1>4, <1>5, <1>6, <1>9, <2>7, <2>8, <2>9
<1> QED BY <1>8, <1>9

LEMMA PagesKeep == ListInv /\ SelectPage => ListInv'
<1> SUFFICES ASSUME ListInv, SelectPage PROVE ListInv' OBVIOUS
<1> USE ListConstants
<1> DEFINE first == mark > Horizon
           S == PastMark(Asked(first))
<1>1. /\ Paged(S) /\ owed' = (IF first THEN Asked(first) ELSE owed) \ items'
      /\ at = "select" /\ at' = "exists" /\ UNCHANGED <<instant, table, ask, adds>>
  BY DEF SelectPage
<1>2. first \in BOOLEAN /\ mark \in 0..(Horizon + 1) BY DEF ListInv, ListTypeOK
<1>3. /\ items' \subseteq S /\ Cardinality(items') <= PageLimit /\ over' \in BOOLEAN
      /\ over' => items' = S /\ mark' = mark
      /\ ~over' => /\ mark' \in 0..Horizon /\ mark' < mark
                   /\ \A r \in items' : mark' <= r.key
                   /\ \A r \in S \ items' : r.key < mark'
  BY <1>1, <1>2, PageGives
<1>4. S \subseteq Asked(first) BY DEF PastMark
<1>5. /\ Asked(TRUE) \subseteq Asked(FALSE) /\ Asked(first) \subseteq table[ask.kind]
      /\ \A r \in Asked(first) : r.key \in 0..Horizon
  BY <1>2, AskedRows
<1>6. owed' \subseteq S \ items'
  <2>1. CASE first
    <3>1. Asked(first) \subseteq S BY <1>2, <1>5, <2>1 DEF PastMark
    <3> QED BY <1>1, <2>1, <3>1
  <2>2. CASE ~first
    <3>1. mark <= Horizon /\ first = FALSE BY <1>2, <2>2
    <3>2. owed \subseteq S BY <3>1 DEF ListInv
    <3> QED BY <1>1, <2>2, <3>2
  <2> QED BY <2>1, <2>2
<1>7. over' => owed' = {} BY <1>3, <1>6
<1>8. Asked(FALSE)' = Asked(FALSE) BY <1>1 DEF Asked, OfCurrency, LowerBound
<1>9. ~over' => owed' \subseteq PastMark(Asked(FALSE))'
  <2> SUFFICES ASSUME ~over', NEW r \in owed' PROVE r \in Asked(FALSE) /\ r.key < mark'
    BY <1>8 DEF PastMark
  <2>1. r \in S \ items' BY <1>6
  <2> QED BY <2>1, <1>3, <1>4, <1>5, <1>2
<1>10. ListTypeOK'
  <2>1. instant' \in Instants /\ \A k \in Kinds : table'[k] \subseteq Row(k) BY <1>1 DEF ListInv, ListTypeOK
  <2>2. mark' \in 0..(Horizon + 1) BY <1>2, <1>3
  <2>3. items' \subseteq table'[ask'.kind] /\ owed' \subseteq table'[ask'.kind] BY <1>1, <1>3, <1>4, <1>5, <1>6
  <2>4. adds' \in 0..MaxAdds BY <1>1 DEF ListInv, ListTypeOK
  <2> QED BY <1>1, <1>3, <2>1, <2>2, <2>3, <2>4 DEF ListTypeOK
<1>11. ask'.kind \in Kinds /\ table' = [k \in Kinds |-> table'[k]] BY <1>1 DEF ListInv
<1> QED BY <1>1, <1>7, <1>9, <1>10, <1>11 DEF ListInv, WindowIsServed

LEMMA WritesKeep == ListInv /\ AddRow(ask.kind) => ListInv'
<1> SUFFICES ASSUME ListInv, AddRow(ask.kind) PROVE ListInv' OBVIOUS
<1> USE ListConstants
<1>1. PICK r \in Row(ask.kind) : table' = [table EXCEPT ![ask.kind] = @ \cup {r}] BY DEF AddRow
<1>2. UNCHANGED <<instant, ask, at, mark, items, over, owed>> /\ adds < MaxAdds /\ adds' = adds + 1
  BY DEF AddRow
<1>3. \A k \in Kinds : table[k] \subseteq table'[k] /\ table'[k] \subseteq Row(k)
  BY <1>1 DEF ListInv, ListTypeOK
<1>4. table' = [k \in Kinds |-> table'[k]] /\ ask.kind \in Kinds BY <1>1 DEF ListInv
<1>5. ListTypeOK'
  <2>1. adds' \in 0..MaxAdds BY <1>2 DEF ListInv, ListTypeOK
  <2>2. items' \subseteq table'[ask'.kind] /\ owed' \subseteq table'[ask'.kind]
    BY <1>2, <1>3, <1>4 DEF ListInv, ListTypeOK
  <2> QED BY <1>2, <1>3, <2>1, <2>2 DEF ListInv, ListTypeOK
<1>6. mark' <= Horizon => owed' \subseteq PastMark(Asked(FALSE))'
  <2>1. Asked(FALSE) \subseteq Asked(FALSE)'
    BY <1>2, <1>3, <1>4 DEF Asked, OfCurrency, LowerBound
  <2> QED BY <2>1, <1>2 DEF ListInv, PastMark
<1> QED BY <1>2, <1>4, <1>5, <1>6 DEF ListInv, WindowIsServed

LEMMA OthersKeep == ListInv /\ (Exists \/ Later \/ UNCHANGED listVars) => ListInv'
<1> SUFFICES ASSUME ListInv, Exists \/ Later \/ UNCHANGED listVars PROVE ListInv' OBVIOUS
<1> USE ListConstants
<1>1. /\ UNCHANGED <<table, ask, mark, items, over, owed, adds>>
      /\ at' \in {"exists", "select"} /\ (at' = "select" => ~over) /\ instant' \in Instants
  <2>1. CASE Exists BY <2>1 DEF Exists, ListInv, ListTypeOK
  <2>2. CASE Later
    <3>1. instant \in 0..Horizon BY DEF ListInv, ListTypeOK, Instants
    <3>2. instant' \in 0..Horizon BY <2>2, <3>1 DEF Later
    <3> QED BY <2>2, <3>2 DEF Later, ListInv, ListTypeOK, Instants
  <2>3. CASE UNCHANGED listVars BY <2>3 DEF listVars, ListInv, ListTypeOK
  <2> QED BY <2>1, <2>2, <2>3
<1>2. Asked(FALSE)' = Asked(FALSE) BY <1>1 DEF Asked, OfCurrency, LowerBound
<1>3. mark' <= Horizon => owed' \subseteq PastMark(Asked(FALSE))' BY <1>1, <1>2 DEF ListInv, PastMark
<1>4. ListTypeOK' BY <1>1 DEF ListInv, ListTypeOK
<1> QED BY <1>1, <1>3, <1>4 DEF ListInv, WindowIsServed

\* The readers of the current quote look at the same rows.
LEMMA ReadersAgree == ListInv => OneCurrentQuote
<1> SUFFICES ASSUME ListInv PROVE OneCurrentQuote OBVIOUS
<1> USE ListConstants
<1> DEFINE Fresh(c) == {r \in table["quotes"] : r.cur = c /\ r.key >= FreshSince}
           Quotes(c) == {r.key : r \in Fresh(c)}
           Older(c, n) == {r \in table["quotes"] : r.cur = c /\ r.key >= instant - Day /\ r.key < n}
           Of(c) == OfCurrency("market", c)
           Keys(c) == {r.key : r \in Of(c)}
           Back(n) == {Horizon - k : k \in n}
<1>1. /\ \A r \in table["quotes"] : r.key \in 0..Horizon
      /\ \A r \in table["market"] : r.key \in 0..Horizon
  <2>1. table["quotes"] \subseteq Row("quotes") /\ table["market"] \subseteq Row("market")
    BY DEF ListInv, ListTypeOK, Kinds
  <2> QED BY <2>1 DEF Row, Instants
<1> SUFFICES ASSUME NEW c \in Currencies
    PROVE  /\ OverviewQuote(c).now = LatestQuote(c)
           /\ LatestQuote(c) = (IF Quotes(c) = {} THEN Unset ELSE Max(Quotes(c)))
           /\ LatestSnapshot(c) = (IF Keys(c) = {} THEN Unset ELSE Max(Keys(c)))
           /\ OverviewQuote(c).open = Unset \/ OverviewQuote(c).open < LatestQuote(c)
  <2>1. \A c : {r.key : r \in {q \in table["quotes"] : q.cur = c /\ q.key >= LowerBound("quotes", Unset, Unset, TRUE)}} = Quotes(c)
    BY DEF LowerBound, FreshSince
  <2>2. \A c : {r.key : r \in {q \in table["market"] : q.cur = c /\ q.key >= LowerBound("market", Unset, Unset, TRUE)}} = Keys(c)
    <3>1. LowerBound("market", Unset, Unset, TRUE) = 0 BY DEF LowerBound
    <3>2. \A q \in table["market"] : q.key >= 0 BY <1>1
    <3> QED BY <3>1, <3>2 DEF OfCurrency
  <2> HIDE DEF Quotes, Keys
  <2> QED BY <2>1, <2>2 DEF OneCurrentQuote
<1>2. LatestQuote(c) = (IF Quotes(c) = {} THEN Unset ELSE Max(Quotes(c)))
  BY DEF LatestQuote
<1>3. /\ OverviewQuote(c).now = LatestQuote(c)
      /\ OverviewQuote(c).open = Unset \/ OverviewQuote(c).open < LatestQuote(c)
  <2>1. CASE Fresh(c) = {} BY <2>1 DEF OverviewQuote, LatestQuote, FreshSince
  <2>2. CASE Fresh(c) # {}
    <3> DEFINE newest == Max(Quotes(c))
               older == Older(c, newest)
    <3>1. LatestQuote(c) = newest BY <2>2, <1>2
    <3>2. OverviewQuote(c) = [now |-> newest, open |-> IF older = {} THEN Unset ELSE Min({r.key : r \in older})]
      BY <2>2 DEF OverviewQuote, FreshSince
    <3>3. older # {} => Min({r.key : r \in older}) < newest
      <4> SUFFICES ASSUME older # {} PROVE Min({r.key : r \in older}) < newest OBVIOUS
      <4> DEFINE opens == {r.key : r \in older}
      <4>1. \A r \in older : r \in table["quotes"] /\ r.key < newest OBVIOUS
      <4> HIDE DEF newest, older
      <4>2. opens \subseteq Nat /\ opens # {} BY <4>1, <1>1
      <4> HIDE DEF opens
      <4>3. Min(opens) \in opens BY <4>2, LeastKey
      <4> USE DEF opens
      <4> QED BY <4>1, <4>3
    <3> HIDE DEF newest, older
    <3> QED BY <3>1, <3>2, <3>3
  <2> QED BY <2>1, <2>2
<1>4. LatestSnapshot(c) = (IF Keys(c) = {} THEN Unset ELSE Max(Keys(c)))
  <2>1. CASE Of(c) = {} BY <2>1 DEF LatestSnapshot
  <2>2. CASE Of(c) # {}
    <3> DEFINE last == CHOOSE r \in Of(c) : \A q \in Of(c) : q.key <= r.key
    <3>1. \A r \in Of(c) : r.key \in 0..Horizon BY <1>1 DEF OfCurrency
    <3>2. \E r \in Of(c) : \A q \in Of(c) : q.key <= r.key
      <4> DEFINE f == [r \in Of(c) |-> r.key]
      <4>1. f \in [Of(c) -> 0..Horizon] BY <3>1
      <4> HIDE DEF f
      <4>2. \E r \in Of(c) : \A q \in Of(c) : f[q] <= f[r] BY <2>2, <4>1, Greatest
      <4> QED BY <4>2 DEF f
    <3>3. last \in Of(c) /\ \A q \in Of(c) : q.key <= last.key BY <3>2
    <3>4. LatestSnapshot(c) = last.key BY <2>2 DEF LatestSnapshot
    <3> HIDE DEF last
    <3>5. last.key \in Keys(c) /\ \A k \in Keys(c) : last.key >= k BY <3>1, <3>3
    <3>6. Keys(c) \subseteq Int BY <3>1
    <3>7. Max(Keys(c)) = last.key
      <4> HIDE DEF Keys
      <4>1. \A x, y \in Keys(c) : x >= y /\ y >= x => x = y BY <3>6
      <4> QED BY <3>5, <4>1 DEF Max
    <3> QED BY <2>2, <3>4, <3>7
  <2> QED BY <2>1, <2>2
<1> HIDE DEF Quotes, Keys
<1> QED BY <1>2, <1>3, <1>4

LEMMA ListStep == ListInv /\ [ListNext]_listVars => ListInv'
BY PagesKeep, WritesKeep, OthersKeep DEF ListNext

LEMMA ListAlways == ListSpec => []ListInv
BY ListInitially, ListStep, PTL DEF ListSpec

\* Whoever follows the cursors of a listing to its end was given every row of its window,
\* and all readers of the current quote, and of the current snapshot, agree.
THEOREM ListingsHold == ListSpec => []ListingsAreWhole
<1>1. ListInv => ListingsAreWhole BY ReadersAgree DEF ListInv, ListingsAreWhole
<1> QED BY <1>1, ListAlways, PTL

\* A step of a listing is a page of the keyset walk, or nothing the client sees.
LEMMA ListStepsWalk ==
  ListInv /\ [ListNext]_listVars => [ListWalk!Next]_<<{r.key : r \in items}, mark, over>>
<1> SUFFICES ASSUME ListInv, [ListNext]_listVars
    PROVE  \/ ListWalk!Page
           \/ UNCHANGED <<{r.key : r \in items}, mark, over>>
  BY DEF ListWalk!Next
<1> USE ListConstants
<1>1. CASE SelectPage
  <2> DEFINE first == mark > Horizon
             S == PastMark(Asked(first))
  <2>1. Paged(S) /\ at = "select" BY <1>1 DEF SelectPage
  <2>2. first \in BOOLEAN /\ mark \in 0..(Horizon + 1) /\ over = FALSE BY <2>1 DEF ListInv, ListTypeOK
  <2>3. /\ items' \subseteq S /\ over' \in BOOLEAN
        /\ over' => mark' = mark
        /\ ~over' => /\ mark' \in 0..Horizon /\ mark' < mark
                     /\ \A r \in items' : mark' <= r.key
    BY <2>1, <2>2, PageGives
  <2>4. \A r \in S : r.key \in 0..(mark - 1)
    <3>1. \A r \in S : r \in Asked(first) /\ r.key < mark BY DEF PastMark
    <3>2. \A r \in Asked(first) : r.key \in 0..Horizon BY <2>2, AskedRows
    <3> QED BY <3>1, <3>2, <2>2
  <2>5. {r.key : r \in items'} \subseteq ListWalk!Keys(mark) BY <2>3, <2>4 DEF ListWalk!Keys
  <2>6. ~over' => mark' \in ListWalk!Keys(mark) /\ \A k \in {r.key : r \in items'} : mark' <= k
    BY <2>2, <2>3 DEF ListWalk!Keys
  <2> QED BY <2>2, <2>3, <2>5, <2>6 DEF ListWalk!Page
<1>2. CASE Exists BY <1>2 DEF Exists
<1>3. CASE AddRow(ask.kind) BY <1>3 DEF AddRow
<1>4. CASE Later BY <1>4 DEF Later
<1>5. CASE UNCHANGED listVars BY <1>5 DEF listVars
<1> QED BY <1>1, <1>2, <1>3, <1>4, <1>5 DEF ListNext

\* A listing is a keyset walk: its keys fall, none comes twice, whatever is written meanwhile.
THEOREM ListingsWalk == ListSpec => ListRefinesWalk
<1>1. ListInit => ListWalk!Init
  <2>1. ListInit => items = {} /\ mark = Horizon + 1 /\ over = FALSE BY DEF ListInit
  <2> QED BY <2>1 DEF ListWalk!Init
<1> QED BY <1>1, ListStepsWalk, ListAlways, PTL DEF ListSpec, ListRefinesWalk, ListWalk!Spec

-----------------------------------------------------------------------------
(* The candles.  Buckets are aligned, so a cursor cuts between two of them *)
(* and what lies past it was given, skipped, or is not complete.           *)

Dealt(b) == b \in given \cup skipped \/ (~done /\ b < cursor)

\* What a walk needs to know between two statements.
Stores ==
  /\ series \in [Sources -> SUBSET (0..LastSlot)] /\ native \subseteq Buckets
  /\ now \in 0..LastSlot /\ now + 1 >= LastSlot
  /\ \A s \in Sources : \A t \in series[s] : t % s = 0
  /\ \A s \in Sources : \A b \in whole[s] : b \in Buckets /\ Has(b, series[s], s)
Between ==
  /\ pc # "probe" => ~done
  /\ pc = "fold" => source \in Sources /\ clock + 1 >= LastSlot
  /\ pc \in {"cover", "fold"} => standing = {}
  /\ cursor \in Buckets \cup {LastSlot + 1}
  /\ standing \subseteq native
Met ==
  /\ paths \subseteq {Target} => \A b \in standing : InWindow(b) => b \in given \/ (~done /\ b < cursor)
  /\ Target \notin paths /\ (done => paths # {}) =>
       \A b \in Buckets : InWindow(b) /\ (\A s \in paths : b \in whole[s]) => Dealt(b)
ReadsInv == ReadsTypeOK /\ Stores /\ Between /\ Met /\ FoldsWhole

LEMMA ReadsConstants ==
  /\ LastSlot \in Nat /\ Target \in Nat /\ Limit \in Nat /\ MaxSourceRows \in Nat /\ MaxWrites \in Nat
  /\ LastSlot >= 1 /\ Target >= 1 /\ Limit >= 1 /\ MaxSourceRows >= Target + 1
  /\ \A s \in Sources : s \in Nat /\ s >= 1 /\ s < Target /\ Target % s = 0
<1>1. \A n \in {LastSlot, Target, Limit, MaxSourceRows, MaxWrites} : n \in Nat BY ReadsAssumption
<1>2. LastSlot \in Nat /\ Target \in Nat /\ Limit \in Nat /\ MaxSourceRows \in Nat /\ MaxWrites \in Nat BY <1>1
<1> QED BY <1>2, ReadsAssumption, CapAssumption

LEMMA Quotient ==
  ASSUME NEW a \in Nat, NEW n \in Nat \ {0}
  PROVE  /\ a \div n \in Nat /\ a % n \in Nat
         /\ a = n * (a \div n) + (a % n) /\ a % n < n
OBVIOUS

LEMMA Multiples ==
  ASSUME NEW n \in Nat, NEW a \in Int, NEW b \in Int, a <= b
  PROVE  n * a \in Int /\ n * b \in Int /\ n * a <= n * b
<1>1. PICK d \in Nat : b = a + d
  <2>1. b - a \in Nat /\ b = a + (b - a) OBVIOUS
  <2> QED BY <2>1
<1>2. n * b = n * a + n * d BY <1>1
<1>3. n * d \in Nat OBVIOUS
<1> QED BY <1>2, <1>3

\* The bucket of a slot, and the slots of a bucket.
LEMMA BucketIs ==
  ASSUME NEW t \in 0..LastSlot
  PROVE  /\ Bucket(t) \in Nat /\ Bucket(t) <= t /\ t < Bucket(t) + Target
         /\ Bucket(t) \in Buckets /\ Bucket(t) = Target * (t \div Target)
<1> USE ReadsConstants
<1>1. t \in Nat /\ Target \in Nat \ {0} OBVIOUS
<1>2. /\ t \div Target \in Nat /\ t % Target \in Nat
      /\ t = Target * (t \div Target) + (t % Target) /\ t % Target < Target
  BY <1>1, Quotient
<1>3. Bucket(t) = t - (t % Target) BY DEF Bucket
<1>4. Target * (t \div Target) \in Nat BY <1>2
<1>5. Bucket(t) \in Buckets BY DEF Buckets
<1> QED BY <1>1, <1>2, <1>3, <1>4, <1>5

LEMMA BucketsAre ==
  ASSUME NEW b \in Buckets
  PROVE  b \in 0..LastSlot /\ \E q \in Nat : b = Target * q
<1> USE ReadsConstants
<1>1. PICK t \in 0..LastSlot : b = Bucket(t) BY DEF Buckets
<1>2. b \in Nat /\ b <= t /\ b = Target * (t \div Target) BY <1>1, BucketIs
<1>3. t \div Target \in Nat
  <2>1. t \in Nat /\ Target \in Nat \ {0} OBVIOUS
  <2> QED BY <2>1, Quotient
<1>4. b \in 0..LastSlot BY <1>2
<1> QED BY <1>2, <1>3, <1>4

LEMMA NextBucket ==
  ASSUME NEW b \in Buckets, NEW c \in Buckets, b < c
  PROVE  b + Target <= c
<1> USE ReadsConstants
<1>1. PICK q \in Nat : b = Target * q BY BucketsAre
<1>2. PICK r \in Nat : c = Target * r BY BucketsAre
<1>3. q < r
  <2> SUFFICES ASSUME r <= q PROVE FALSE OBVIOUS
  <2>1. Target * r <= Target * q BY Multiples
  <2> QED BY <1>1, <1>2, <2>1
<1>4. Target * (q + 1) <= Target * r BY <1>3, Multiples
<1>5. Target * (q + 1) = b + Target BY <1>1
<1> QED BY <1>2, <1>4, <1>5

LEMMA SlotOfBucket ==
  ASSUME NEW b \in Buckets, NEW t \in 0..LastSlot, t \in Slots(b)
  PROVE  Bucket(t) = b
<1> USE ReadsConstants
<1>1. b \in Nat /\ b <= t /\ t < b + Target BY BucketsAre DEF Slots
<1>2. Bucket(t) \in Nat /\ Bucket(t) <= t /\ t < Bucket(t) + Target /\ Bucket(t) \in Buckets BY BucketIs
<1>3. ~(Bucket(t) < b)
  <2> SUFFICES ASSUME Bucket(t) < b PROVE FALSE OBVIOUS
  <2>1. Bucket(t) + Target <= b BY <1>2, NextBucket
  <2> QED BY <1>1, <1>2, <2>1
<1>4. ~(b < Bucket(t))
  <2> SUFFICES ASSUME b < Bucket(t) PROVE FALSE OBVIOUS
  <2>1. b + Target <= Bucket(t) BY <1>2, NextBucket
  <2> QED BY <1>1, <1>2, <2>1
<1> QED BY <1>1, <1>2, <1>3, <1>4

\* Below a cursor a bucket is with all its slots.
LEMMA BelowCursor ==
  ASSUME NEW b \in Buckets, cursor \in Buckets \cup {LastSlot + 1}, b < cursor,
         NEW t \in Slots(b), t \in 0..LastSlot
  PROVE  t < cursor
<1> USE ReadsConstants
<1>1. b \in Nat /\ t < b + Target BY BucketsAre DEF Slots
<1>2. CASE cursor = LastSlot + 1 BY <1>2
<1>3. CASE cursor \in Buckets
  <2>1. b + Target <= cursor BY <1>3, NextBucket
  <2>2. cursor \in Nat BY <1>3, BucketsAre
  <2> QED BY <1>1, <2>1, <2>2
<1> QED BY <1>2, <1>3

\* A bucket has at most one row of each of its source's slots.
LEMMA RowsOfBucket ==
  ASSUME NEW s \in Sources, NEW b \in Buckets, NEW S, S \subseteq 0..LastSlot, \A t \in S : t % s = 0
  PROVE  /\ IsFiniteSet(Slots(b) \cap S) /\ Cardinality(Slots(b) \cap S) \in Nat
         /\ Cardinality(Slots(b) \cap S) <= Target \div s
<1> USE ReadsConstants
<1> DEFINE m == Target \div s
           In == Slots(b) \cap S
<1>1. s \in Nat \ {0} /\ Target = s * m /\ m \in Nat BY Quotient
<1>2. PICK q \in Nat : b = Target * q BY BucketsAre
<1>3. m * q \in Nat /\ b = s * (m * q) BY <1>1, <1>2
<1> DEFINE base == m * q
           f == [t \in In |-> t \div s]
<1>4. \A t \in In : t \in Nat /\ t = s * (t \div s) /\ t \div s \in Nat /\ b <= t /\ t < b + Target
  <2> TAKE t \in In
  <2>1. t \in Nat /\ t % s = 0
    <3>1. t \in S /\ t \in 0..LastSlot OBVIOUS
    <3> QED BY <3>1
  <2>2. t \div s \in Nat /\ t = s * (t \div s) + (t % s) BY <1>1, <2>1, Quotient
  <2>3. b \in Nat /\ b <= t /\ t < b + Target BY <1>2 DEF Slots
  <2>4. s * (t \div s) \in Nat BY <1>1, <2>2
  <2> QED BY <2>1, <2>2, <2>3, <2>4
<1>5. \A t \in In : t \div s \in base..(base + m - 1)
  <2> TAKE t \in In
  <2> DEFINE u == t \div s
  <2>1. u \in Nat /\ t = s * u /\ s * base <= s * u /\ s * u < s * base + s * m
    BY <1>1, <1>3, <1>4
  <2> HIDE DEF u, base, m
  <2>2. base \in Nat /\ m \in Nat BY <1>1, <1>3 DEF base
  <2>3. base <= u
    <3> SUFFICES ASSUME u + 1 <= base PROVE FALSE BY <2>1, <2>2
    <3>1. s * (u + 1) <= s * base BY <2>1, <2>2, <1>1, Multiples
    <3>2. s * (u + 1) = s * u + s /\ s * u \in Nat /\ s * base \in Nat BY <2>1, <2>2, <1>1
    <3> QED BY <2>1, <3>1, <3>2, <1>1
  <2>4. u < base + m
    <3> SUFFICES ASSUME base + m <= u PROVE FALSE BY <2>1, <2>2
    <3>1. s * (base + m) <= s * u BY <2>1, <2>2, <1>1, Multiples
    <3>2. s * (base + m) = s * base + s * m /\ s * u \in Nat /\ s * base \in Nat /\ s * m \in Nat BY <2>1, <2>2, <1>1
    <3> QED BY <2>1, <3>1, <3>2
  <2>5. u \in base..(base + m - 1) BY <2>1, <2>2, <2>3, <2>4
  <2> QED BY <2>5 DEF u
<1> HIDE DEF m, base
<1>6. base \in Nat BY <1>3 DEF base
<1>7. IsFiniteSet(base..(base + m - 1)) /\ Cardinality(base..(base + m - 1)) = m
  <2>1. base \in Int /\ base + m - 1 \in Int BY <1>1, <1>6
  <2>2. Cardinality(base..(base + m - 1)) = IF base > base + m - 1 THEN 0 ELSE (base + m - 1) - base + 1
    BY <2>1, FS_Interval, Zenon
  <2>3. IsFiniteSet(base..(base + m - 1)) BY <1>6, <2>1, FS_Interval
  <2> QED BY <1>1, <1>6, <2>1, <2>2, <2>3
<1>8. f \in Injection(In, base..(base + m - 1))
  <2>1. f \in [In -> base..(base + m - 1)] BY <1>5
  <2>2. \A t, u \in In : f[t] = f[u] => t = u BY <1>4
  <2> HIDE DEF f
  <2> QED BY <2>1, <2>2 DEF Injection, IsInjective
<1> HIDE DEF f, In
<1>9. IsFiniteSet(In) /\ Cardinality(In) <= m BY <1>7, <1>8, FS_Injection
<1>10. Cardinality(In) \in Nat BY <1>9, FS_CardinalityType
<1> QED BY <1>9, <1>10 DEF In, m

-----------------------------------------------------------------------------
\* The k newest of a set are k, if it has that many, and newer than the others.
LEMMA NewestAre ==
  ASSUME NEW S, S \subseteq 0..LastSlot, NEW k \in Nat
  PROVE  /\ Newest(k, S) \subseteq S /\ IsFiniteSet(Newest(k, S)) /\ IsFiniteSet(S)
         /\ \A x \in Newest(k, S), y \in S \ Newest(k, S) : y < x
         /\ Cardinality(Newest(k, S)) <= k /\ Cardinality(Newest(k, S)) \in Nat
         /\ Newest(k, S) = S \/ Cardinality(Newest(k, S)) = k
<1> USE ReadsConstants
<1> DEFINE f == [x \in S |-> x]
           Above(x) == {y \in S : y > x}
<1>1. IsFiniteSet(S)
  <2>1. IsFiniteSet(0..LastSlot) BY FS_Interval
  <2> QED BY <2>1, FS_Subset
<1>2. \A x \in S : IsFiniteSet(Above(x)) /\ Cardinality(Above(x)) \in Nat
  BY <1>1, FS_Subset, FS_CardinalityType
<1>3. Cardinality(S) \in Nat BY <1>1, FS_CardinalityType
<1>4. \E N : /\ N = Newest(k, S) /\ N \subseteq S /\ \A x \in N, y \in S \ N : y < x
             /\ Cardinality(N) <= k /\ (N = S \/ Cardinality(N) = k)
  <2>1. CASE Cardinality(S) < k
    <3>1. \A x \in S : Cardinality(Above(x)) < k
      <4> TAKE x \in S
      <4>1. Cardinality(Above(x)) <= Cardinality(S) BY <1>1, FS_Subset
      <4> QED BY <4>1, <1>2, <1>3, <2>1
    <3>2. Newest(k, S) = S BY <3>1 DEF Newest
    <3> QED BY <3>2, <2>1, <1>3
  <2>2. CASE ~(Cardinality(S) < k)
    <3>1. f \in [S -> 0..LastSlot] OBVIOUS
    <3>2. k \in 0..Cardinality(S) BY <2>2, <1>3
    <3>3. PICK T : Highest(T, S, f) /\ Cardinality(T) = k
      <4> HIDE DEF f
      <4>1. LastSlot \in Nat OBVIOUS
      <4>2. \A j \in 0..Cardinality(S) : \E T : Highest(T, S, f) /\ Cardinality(T) = j
        BY ONLY <1>1, <3>1, <4>1, HighestExist
      <4> QED BY <3>2, <4>2, Zenon
    <3>4. T \subseteq S /\ \A x \in T, y \in S \ T : y < x
      <4>1. T \subseteq S /\ \A x \in T, y \in S \ T : f[y] <= f[x] BY <3>3 DEF Highest
      <4>2. \A x \in S : f[x] = x /\ x \in Nat OBVIOUS
      <4> HIDE DEF f
      <4>3. \A x \in T, y \in S \ T : y <= x /\ y # x /\ x \in Nat /\ y \in Nat BY <4>1, <4>2
      <4> QED BY <4>1, <4>3
    <3>5. IsFiniteSet(T) BY <3>4, <1>1, FS_Subset
    <3>6. \A x \in T : Cardinality(Above(x)) < k
      <4> TAKE x \in T
      <4>1. Above(x) \subseteq T \ {x}
        <5> SUFFICES ASSUME NEW y \in S, y > x PROVE y \in T /\ y # x OBVIOUS
        <5>1. x \in Nat /\ y \in Nat BY <3>4
        <5> QED BY <5>1, <3>4
      <4>2. IsFiniteSet(T \ {x}) /\ Cardinality(T \ {x}) = Cardinality(T) - 1 BY <3>5, FS_RemoveElement
      <4>3. Cardinality(Above(x)) <= Cardinality(T \ {x}) BY <4>1, <4>2, FS_Subset
      <4>4. x \in S BY <3>4
      <4>5. Cardinality(Above(x)) \in Nat BY <4>4, <1>2
      <4>6. Cardinality(Above(x)) <= k - 1 BY <3>3, <4>2, <4>3
      <4> QED BY <4>5, <4>6
    <3>7. \A x \in S \ T : ~(Cardinality(Above(x)) < k)
      <4> TAKE x \in S \ T
      <4>1. T \subseteq Above(x) BY <3>4
      <4>2. Cardinality(T) <= Cardinality(Above(x)) BY <4>1, <1>2, FS_Subset
      <4> QED BY <3>3, <4>2, <1>2
    <3>8. Newest(k, S) = T BY <3>4, <3>6, <3>7 DEF Newest
    <3>9. Cardinality(T) <= k BY <3>3
    <3> QED BY <3>3, <3>4, <3>8, <3>9
  <2> QED BY <2>1, <2>2
<1>5. Newest(k, S) \subseteq S BY DEF Newest
<1>6. IsFiniteSet(Newest(k, S)) /\ Cardinality(Newest(k, S)) \in Nat
  BY <1>1, <1>5, FS_Subset, FS_CardinalityType
<1> QED BY <1>1, <1>4, <1>5, <1>6

\* What every page of the walk is: buckets below the cursor, and the next cursor no newer.
Fits(p) ==
  /\ p.items \subseteq Buckets /\ p.more \in BOOLEAN
  /\ \A b \in p.items : b < cursor
  /\ p.more => /\ p.next \in Buckets /\ p.next < cursor
               /\ \A b \in p.items : p.next <= b

\* What it leaves out is older than its cursor.
LEMMA PaginateIs ==
  ASSUME NEW S, S \subseteq Buckets, \A b \in S : b < cursor
  PROVE  LET p == Paginate(S) IN
         /\ Fits(p) /\ p.items \subseteq S /\ (~p.more => p.items = S)
         /\ Cardinality(S) > Limit => p.more
         /\ p.more => p.next \in S /\ \A b \in S \ p.items : b < p.next
<1> USE ReadsConstants
<1> DEFINE p == Paginate(S)
           N == Newest(Limit, S)
<1>1. S \subseteq 0..LastSlot BY BucketsAre
<1>2. /\ N \subseteq S /\ IsFiniteSet(N) /\ IsFiniteSet(S) /\ \A x \in N, y \in S \ N : y < x
      /\ Cardinality(N) <= Limit /\ (N = S \/ Cardinality(N) = Limit)
  BY <1>1, NewestAre
<1> HIDE DEF N
<1>3. CASE Cardinality(S) > Limit
  <2>1. N # {}
    <3> SUFFICES ASSUME N = {} PROVE FALSE OBVIOUS
    <3>1. Cardinality(N) = 0 BY FS_EmptySet
    <3> QED BY <3>1, <1>2, <1>3
  <2>2. N \subseteq Nat BY <1>1, <1>2
  <2>3. Min(N) \in N /\ \A y \in N : Min(N) <= y BY <2>1, <2>2, LeastKey
  <2>4. p.items = N /\ p.more = TRUE /\ p.next = Min(N) BY <1>3 DEF Paginate, N
  <2> HIDE DEF p
  <2>5. Fits(p) BY <2>3, <2>4, <1>2 DEF Fits
  <2> QED BY <2>1, <2>3, <2>4, <2>5, <1>2 DEF p
<1>4. CASE ~(Cardinality(S) > Limit)
  <2>1. p.items = S /\ p.more = FALSE BY <1>4 DEF Paginate
  <2> HIDE DEF p
  <2>2. Fits(p) BY <2>1 DEF Fits
  <2> QED BY <2>1, <2>2, <1>4 DEF p
<1> QED BY <1>3, <1>4

LEMMA RowCapIs ==
  ASSUME NEW s \in Sources
  PROVE  Target \div s \in Nat /\ Target \div s >= 1 /\ RowCap(s) \in Nat /\ RowCap(s) >= (Target \div s) + 1
<1> USE ReadsConstants
<1> DEFINE m == Target \div s
<1>1. s \in Nat \ {0} /\ m \in Nat /\ Target = s * m
  <2>1. s \in Nat \ {0} /\ Target \in Nat /\ Target % s = 0 OBVIOUS
  <2>2. m \in Nat /\ Target = s * m + (Target % s) BY ONLY <2>1, Quotient
  <2>3. s * m \in Nat BY ONLY <2>1, <2>2
  <2> HIDE DEF m
  <2> QED BY ONLY <2>1, <2>2, <2>3
<1>2. RowCap(s) = Min({(Limit + 1) * m, MaxSourceRows}) BY DEF RowCap
<1> HIDE DEF m
<1>3. m >= 1
  <2> SUFFICES ASSUME m = 0 PROVE FALSE BY <1>1
  <2> QED BY <1>1
<1>4. m * 1 <= m * s BY <1>1, Multiples
<1>5. m * 2 <= m * (Limit + 1) BY <1>1, Multiples
<1>6. (Limit + 1) * m = m * (Limit + 1) /\ m * (Limit + 1) \in Nat BY <1>1
<1>7. m * 1 = m /\ m * 2 = m + m /\ m * s = Target BY <1>1
<1>8. (Limit + 1) * m >= m + 1 /\ MaxSourceRows >= m + 1 /\ (Limit + 1) * m \in Nat
  BY <1>1, <1>3, <1>4, <1>5, <1>6, <1>7
<1> DEFINE cap == (Limit + 1) * m
<1> HIDE DEF cap
<1>9. {cap, MaxSourceRows} \subseteq Nat BY <1>8 DEF cap
<1>10. Min({cap, MaxSourceRows}) \in {cap, MaxSourceRows} BY <1>9, LeastKey
<1>11. RowCap(s) \in {cap, MaxSourceRows} BY <1>2, <1>10 DEF cap
<1>12. cap \in Nat /\ cap >= m + 1 BY <1>8 DEF cap
<1>13. RowCap(s) \in Nat /\ RowCap(s) >= m + 1 BY <1>8, <1>11, <1>12
<1> QED BY <1>1, <1>3, <1>13 DEF m

\* What the select may read, and what its LIMIT leaves of it.
InReach(s) == {t \in series[s] : Below(t) /\ t >= SourceStart /\ t < SourceEnd}

LEMMA RowsReadAre ==
  ASSUME Stores, NEW s \in Sources
  PROVE  /\ RowsRead(s) \subseteq InReach(s) /\ InReach(s) \subseteq series[s] /\ series[s] \subseteq 0..LastSlot
         /\ IsFiniteSet(RowsRead(s)) /\ Cardinality(RowsRead(s)) \in Nat
         /\ RowsRead(s) = InReach(s) \/ Cardinality(RowsRead(s)) = RowCap(s)
         /\ \A x \in RowsRead(s), y \in InReach(s) \ RowsRead(s) : y < x
<1>1. InReach(s) \subseteq series[s] /\ series[s] \subseteq 0..LastSlot BY DEF InReach, Stores
<1>2. RowsRead(s) = Newest(RowCap(s), InReach(s)) BY DEF RowsRead, InReach
<1>3. InReach(s) \subseteq 0..LastSlot /\ RowCap(s) \in Nat BY <1>1, RowCapIs
<1>4. /\ Newest(RowCap(s), InReach(s)) \subseteq InReach(s) /\ IsFiniteSet(Newest(RowCap(s), InReach(s)))
      /\ \A x \in Newest(RowCap(s), InReach(s)), y \in InReach(s) \ Newest(RowCap(s), InReach(s)) : y < x
      /\ Cardinality(Newest(RowCap(s), InReach(s))) \in Nat
      /\ \/ Newest(RowCap(s), InReach(s)) = InReach(s)
         \/ Cardinality(Newest(RowCap(s), InReach(s))) = RowCap(s)
  BY <1>3, NewestAre
<1> QED BY <1>1, <1>2, <1>4

LEMMA WindowIs ==
  ASSUME window \in Windows
  PROVE  WindowStart \in Int /\ WindowEnd \in Int
<1> USE ReadsConstants
<1>1. \A x \in {window.start, window.end} : x \in Int \cup {Unbounded} BY ReadsAssumption
<1> QED BY <1>1 DEF WindowStart, WindowEnd

\* All rows of a bucket of the window are within the margins.
LEMMA MarginsSuffice ==
  ASSUME Stores, window \in Windows, cursor \in Buckets \cup {LastSlot + 1}, NEW s \in Sources,
         NEW b \in Buckets, InWindow(b), b < cursor
  PROVE  Slots(b) \cap series[s] \subseteq InReach(s)
<1> USE ReadsConstants
<1> SUFFICES ASSUME NEW t \in Slots(b), t \in series[s] PROVE t \in InReach(s) OBVIOUS
<1>1. t \in 0..LastSlot BY DEF Stores
<1>2. t < cursor BY <1>1, BelowCursor
<1>3. b \in Nat /\ b <= t /\ t < b + Target BY BucketsAre DEF Slots
<1>4. WindowStart \in Int /\ WindowEnd \in Int /\ WindowStart <= b /\ b <= WindowEnd BY WindowIs DEF InWindow
<1>5. t >= WindowStart - Target /\ t < WindowEnd + Target BY <1>1, <1>3, <1>4
<1> QED BY <1>2, <1>5 DEF InReach, Below, SourceStart, SourceEnd

LEMMA FoldIs ==
  ASSUME Stores, cursor \in Buckets \cup {LastSlot + 1}, NEW s \in Sources, NEW b \in Fold(RowsRead(s), s)
  PROVE  /\ b \in Buckets /\ b < cursor /\ (Closed(b, clock) => Has(b, RowsRead(s), s))
         /\ \E t \in RowsRead(s) : b = Bucket(t) /\ t \in 0..LastSlot /\ t < b + Target /\ b <= t
<1> USE ReadsConstants
<1>1. PICK t \in RowsRead(s) : b = Bucket(t) BY DEF Fold
<1>2. t \in InReach(s) /\ t \in 0..LastSlot BY RowsReadAre
<1>3. b \in Nat /\ b <= t /\ t < b + Target /\ b \in Buckets BY <1>1, <1>2, BucketIs
<1>4. t < cursor BY <1>2 DEF InReach, Below
<1>5. cursor \in Nat BY BucketsAre
<1>6. b < cursor BY <1>2, <1>3, <1>4, <1>5
<1>7. Closed(b, clock) => Has(b, RowsRead(s), s) BY DEF Fold
<1> QED BY <1>1, <1>2, <1>3, <1>6, <1>7

\* An item is folded from all rows of its bucket: a closed one because it is complete, the
\* one still open because nothing but a row more is as new.
LEMMA ItemsAreWhole ==
  ASSUME ReadsInv, NEW s \in Sources, clock + 1 >= LastSlot,
         NEW b \in Fold(RowsRead(s), s), InWindow(b)
  PROVE  RowsRead(s) \cap Slots(b) = series[s] \cap Slots(b)
<1> USE ReadsConstants
<1> DEFINE R == RowsRead(s)
           all == Slots(b) \cap series[s]
           m == Target \div s
<1>1. /\ Stores /\ cursor \in Buckets \cup {LastSlot + 1} /\ window \in Windows /\ clock \in 0..LastSlot
  BY DEF ReadsInv, Between, ReadsTypeOK
<1>2. b \in Buckets /\ b < cursor /\ (Closed(b, clock) => Has(b, R, s)) BY <1>1, FoldIs
<1>3. /\ R \subseteq InReach(s) /\ InReach(s) \subseteq series[s] /\ series[s] \subseteq 0..LastSlot
      /\ IsFiniteSet(R) /\ Cardinality(R) \in Nat
      /\ R = InReach(s) \/ Cardinality(R) = RowCap(s)
      /\ \A x \in R, y \in InReach(s) \ R : y < x
  BY <1>1, RowsReadAre
<1>4. all \subseteq InReach(s) BY <1>1, <1>2, MarginsSuffice
<1>5. \A t \in series[s] : t % s = 0 BY <1>1 DEF Stores
<1>6. IsFiniteSet(all) /\ Cardinality(all) \in Nat /\ Cardinality(all) <= m BY <1>2, <1>3, <1>5, RowsOfBucket
<1>7. Slots(b) \cap R \subseteq all BY <1>3
<1>8. m \in Nat /\ m >= 1 /\ RowCap(s) \in Nat /\ RowCap(s) >= m + 1 BY RowCapIs
<1>9. b \in 0..LastSlot BY <1>2, BucketsAre
<1> HIDE DEF m, R
<1>10. CASE Closed(b, clock)
  <2>1. Cardinality(Slots(b) \cap R) >= m BY <1>2, <1>10 DEF Has, m
  <2>2. /\ IsFiniteSet(Slots(b) \cap R)
        /\ Cardinality(Slots(b) \cap R) <= Cardinality(all)
        /\ Cardinality(Slots(b) \cap R) = Cardinality(all) => Slots(b) \cap R = all
    BY <1>6, <1>7, FS_Subset
  <2>3. Cardinality(Slots(b) \cap R) \in Nat BY <2>2, FS_CardinalityType
  <2>4. Cardinality(Slots(b) \cap R) = Cardinality(all) BY <2>1, <2>2, <2>3, <1>6, <1>8
  <2> QED BY <2>2, <2>4 DEF R
<1>11. CASE ~Closed(b, clock)
  <2>1. b + Target >= LastSlot
    <3>1. ~(b + Target <= clock) BY <1>11 DEF Closed
    <3> QED BY <3>1, <1>1, <1>9
  <2> SUFFICES ASSUME NEW t \in all, t \notin R PROVE FALSE BY <1>7 DEF R
  <2>2. t \in InReach(s) \ R BY <1>4
  <2>3. Cardinality(R) = RowCap(s) /\ \A x \in R : t < x BY <1>3, <2>2
  <2>4. t \in 0..LastSlot /\ b <= t BY <1>3, <1>9 DEF Slots
  <2>5. R \subseteq (all \ {t}) \cup {LastSlot}
    <3> SUFFICES ASSUME NEW x \in R, x # LastSlot PROVE x \in all /\ x # t OBVIOUS
    <3>1. x \in series[s] /\ x \in 0..LastSlot /\ t < x BY <1>3, <2>3
    <3>2. b <= x /\ x < b + Target BY <3>1, <2>1, <2>4, <1>9
    <3> QED BY <3>1, <3>2, <2>4, <1>9 DEF Slots
  <2>6. IsFiniteSet(all \ {t}) /\ Cardinality(all \ {t}) = Cardinality(all) - 1
    BY <1>6, FS_RemoveElement
  <2>7. IsFiniteSet((all \ {t}) \cup {LastSlot}) /\ Cardinality((all \ {t}) \cup {LastSlot}) <= Cardinality(all)
    <3>1. /\ IsFiniteSet((all \ {t}) \cup {LastSlot})
          /\ Cardinality((all \ {t}) \cup {LastSlot})
               = IF LastSlot \in all \ {t} THEN Cardinality(all \ {t}) ELSE Cardinality(all \ {t}) + 1
      BY <2>6, FS_AddElement, Zenon
    <3> QED BY <3>1, <2>6, <1>6
  <2>8. Cardinality(R) <= Cardinality((all \ {t}) \cup {LastSlot}) BY <2>5, <2>7, FS_Subset
  <2>9. Cardinality((all \ {t}) \cup {LastSlot}) \in Nat BY <2>7, FS_CardinalityType
  <2> QED BY <2>3, <2>7, <2>8, <2>9, <1>3, <1>6, <1>8
<1> QED BY <1>10, <1>11

\* A page leaves out no complete bucket but behind its cursor, or by stepping on it.
LEMMA FoldedPageIs ==
  ASSUME ReadsInv, NEW s \in Sources
  PROVE  LET p == FoldedPage(RowsRead(s), s) IN
         /\ Fits(p) /\ p.items \subseteq {b \in Fold(RowsRead(s), s) : InWindow(b)}
         /\ \A b \in Buckets : InWindow(b) /\ b < cursor /\ Has(b, series[s], s) =>
              b \in p.items \/ (p.more /\ (b < p.next \/ (b = p.next /\ p.items = {})))
<1> USE ReadsConstants
<1> DEFINE R == RowsRead(s)
           agg == {b \in Fold(R, s) : InWindow(b)}
           p == FoldedPage(R, s)
           full == Cardinality(R) >= RowCap(s) /\ Cardinality(agg) <= Limit
<1>1. Stores /\ cursor \in Buckets \cup {LastSlot + 1} /\ window \in Windows
  BY DEF ReadsInv, Between, ReadsTypeOK
<1>2. /\ R \subseteq InReach(s) /\ InReach(s) \subseteq series[s] /\ series[s] \subseteq 0..LastSlot
      /\ IsFiniteSet(R) /\ Cardinality(R) \in Nat
      /\ R = InReach(s) \/ Cardinality(R) = RowCap(s)
      /\ \A x \in R, y \in InReach(s) \ R : y < x
  BY <1>1, RowsReadAre
<1>3. \A b \in agg : /\ b \in Buckets /\ b < cursor /\ b \in 0..LastSlot
                     /\ \E t \in R : b = Bucket(t) /\ t \in 0..LastSlot /\ t < b + Target /\ b <= t
  BY <1>1, FoldIs, BucketsAre
<1>4. RowCap(s) \in Nat /\ RowCap(s) >= 1 /\ Target \div s >= 1 /\ Target \div s \in Nat BY RowCapIs
<1>5. cursor \in Nat BY <1>1, BucketsAre
<1>6. agg \subseteq Buckets /\ \A b \in agg : b < cursor BY <1>3
<1>7. ~full => p = Paginate(agg) BY DEF FoldedPage
<1>8. full => /\ p.items = agg /\ p.more = TRUE
              /\ p.next = IF agg # {} THEN Min(agg) ELSE Bucket(Min(R))
  BY DEF FoldedPage
<1> HIDE DEF p, agg, R
<1>9. ~full => /\ Fits(p) /\ p.items \subseteq agg /\ (~p.more => p.items = agg)
               /\ Cardinality(agg) > Limit => p.more
               /\ p.more => p.next \in agg /\ \A b \in agg \ p.items : b < p.next
  <2> DEFINE q == Paginate(agg)
  <2>1. /\ Fits(q) /\ q.items \subseteq agg /\ (~q.more => q.items = agg)
        /\ Cardinality(agg) > Limit => q.more
        /\ q.more => q.next \in agg /\ \A b \in agg \ q.items : b < q.next
    BY <1>6, PaginateIs
  <2> HIDE DEF q
  <2>2. ~full => p = q BY <1>7 DEF q
  <2> QED BY <2>1, <2>2
<1>10. full /\ agg # {} => Min(agg) \in agg /\ \A b \in agg : Min(agg) <= b
  <2>1. agg \subseteq Nat BY <1>3
  <2> QED BY <2>1, LeastKey
<1>11. full => Min(R) \in R /\ \A x \in R : Min(R) <= x
  <2> SUFFICES ASSUME full PROVE Min(R) \in R /\ \A x \in R : Min(R) <= x OBVIOUS
  <2>1. R # {}
    <3> SUFFICES ASSUME R = {} PROVE FALSE OBVIOUS
    <3>1. Cardinality(R) = 0 BY FS_EmptySet
    <3> QED BY <3>1, <1>4
  <2>2. R \subseteq Nat BY <1>2
  <2> QED BY <2>1, <2>2, LeastKey
<1>12. full => /\ Bucket(Min(R)) \in Buckets /\ Bucket(Min(R)) < cursor /\ Bucket(Min(R)) \in Nat
               /\ Min(R) \in 0..LastSlot /\ Min(R) < Bucket(Min(R)) + Target
  <2> SUFFICES ASSUME full
      PROVE  /\ Bucket(Min(R)) \in Buckets /\ Bucket(Min(R)) < cursor /\ Bucket(Min(R)) \in Nat
             /\ Min(R) \in 0..LastSlot /\ Min(R) < Bucket(Min(R)) + Target
    OBVIOUS
  <2>1. Min(R) \in 0..LastSlot /\ Min(R) < cursor BY <1>2, <1>11 DEF InReach, Below
  <2>2. /\ Bucket(Min(R)) \in Buckets /\ Bucket(Min(R)) \in Nat /\ Bucket(Min(R)) <= Min(R)
        /\ Min(R) < Bucket(Min(R)) + Target
    BY <2>1, BucketIs
  <2> QED BY <2>1, <2>2, <1>5
<1>13. Fits(p)
  <2>1. CASE full
    <3>1. p.next \in Buckets /\ p.next < cursor /\ \A b \in agg : p.next <= b
      <4>1. CASE agg # {} BY <4>1, <2>1, <1>3, <1>8, <1>10
      <4>2. CASE agg = {} BY <4>2, <2>1, <1>8, <1>12
      <4> QED BY <4>1, <4>2
    <3> QED BY <3>1, <2>1, <1>3, <1>8 DEF Fits
  <2>2. CASE ~full BY <2>2, <1>9
  <2> QED BY <2>1, <2>2
<1>14. p.items \subseteq agg BY <1>8, <1>9
<1>15. ASSUME NEW b \in Buckets, InWindow(b), b < cursor, Has(b, series[s], s)
       PROVE  b \in p.items \/ (p.more /\ (b < p.next \/ (b = p.next /\ p.items = {})))
  <2>0. b \in 0..LastSlot BY BucketsAre
  <2>1. CASE b \in agg BY <2>1, <1>8, <1>9
  <2>2. CASE b \notin agg
    <3>1. PICK t \in Slots(b) \cap InReach(s) : t \notin R
      <4> SUFFICES ASSUME Slots(b) \cap InReach(s) \subseteq R PROVE FALSE OBVIOUS
      <4>1. Slots(b) \cap series[s] \subseteq InReach(s) BY <1>1, <1>15, MarginsSuffice
      <4>2. Slots(b) \cap R = Slots(b) \cap series[s] BY <4>1, <1>2
      <4>3. Has(b, R, s) BY <4>2, <1>15 DEF Has
      <4>4. Slots(b) \cap R # {}
        <5> SUFFICES ASSUME Slots(b) \cap R = {} PROVE FALSE OBVIOUS
        <5>1. Cardinality(Slots(b) \cap R) = 0 BY FS_EmptySet
        <5> QED BY <5>1, <4>3, <1>4 DEF Has
      <4>5. PICK r \in R : r \in Slots(b) BY <4>4
      <4>6. r \in 0..LastSlot BY <1>2, <4>5
      <4>7. Bucket(r) = b BY <4>5, <4>6, SlotOfBucket
      <4>8. b \in Fold(R, s) BY <4>3, <4>5, <4>7 DEF Fold
      <4> QED BY <4>8, <1>15, <2>2 DEF agg
    <3>2. Cardinality(R) = RowCap(s) /\ \A x \in R : t < x BY <1>2, <3>1
    <3>3. b <= t /\ t \in 0..LastSlot BY <1>2, <3>1, <2>0 DEF Slots
    <3>4. \A a \in agg : b < a
      <4> TAKE a \in agg
      <4>1. a \in Buckets /\ a \in 0..LastSlot /\ a # b BY <1>3, <2>2
      <4>2. PICK x \in R : x \in 0..LastSlot /\ x < a + Target BY <1>3
      <4>3. ~(a < b)
        <5> SUFFICES ASSUME a < b PROVE FALSE OBVIOUS
        <5>1. a + Target <= b BY <4>1, NextBucket
        <5> QED BY <5>1, <4>1, <4>2, <3>2, <3>3, <2>0
      <4> QED BY <4>1, <4>3, <2>0
    <3>5. CASE full
      <4>1. CASE agg # {} BY <4>1, <3>4, <3>5, <1>8, <1>10
      <4>2. CASE agg = {}
        <5>1. p.next = Bucket(Min(R)) /\ p.items = {} /\ p.more = TRUE BY <4>2, <3>5, <1>8
        <5>2. t < Min(R) BY <3>2, <3>5, <1>11
        <5>3. ~(Bucket(Min(R)) < b)
          <6> SUFFICES ASSUME Bucket(Min(R)) < b PROVE FALSE OBVIOUS
          <6>1. Bucket(Min(R)) + Target <= b BY <3>5, <1>12, NextBucket
          <6> QED BY <6>1, <5>2, <3>3, <3>5, <1>12, <2>0
        <5>4. b < Bucket(Min(R)) \/ b = Bucket(Min(R)) BY <5>3, <3>5, <1>12, <2>0
        <5> QED BY <5>1, <5>4
      <4> QED BY <4>1, <4>2
    <3>6. CASE ~full
      <4>1. Cardinality(agg) > Limit
        <5>1. Cardinality(R) >= RowCap(s) BY <3>2, <1>4
        <5>2. ~(Cardinality(agg) <= Limit) BY <5>1, <3>6
        <5>3. IsFiniteSet(agg)
          <6>1. agg \subseteq 0..LastSlot BY <1>3
          <6>2. IsFiniteSet(0..LastSlot) BY FS_Interval
          <6> QED BY <6>1, <6>2, FS_Subset
        <5>4. Cardinality(agg) \in Nat BY <5>3, FS_CardinalityType
        <5> QED BY <5>2, <5>4
      <4> QED BY <4>1, <3>4, <3>6, <1>9
    <3> QED BY <3>5, <3>6
  <2> QED BY <2>1, <2>2
<1> QED BY <1>13, <1>14, <1>15 DEF p, agg, R

-----------------------------------------------------------------------------
\* The source that select_source_interval chooses is one that has candles.
LEMMA NoLessThanZero ==
  ASSUME NEW a \in Int
  PROVE  Max({a, 0}) \in Nat
<1>1. CASE a >= 0
  <2>1. \E x \in {a, 0} : \A y \in {a, 0} : x >= y BY <1>1
  <2>2. Max({a, 0}) \in {a, 0} BY <2>1 DEF Max
  <2> QED BY <2>2, <1>1
<1>2. CASE ~(a >= 0)
  <2>1. \E x \in {a, 0} : \A y \in {a, 0} : x >= y BY <1>2
  <2>2. Max({a, 0}) \in {a, 0} /\ \A y \in {a, 0} : Max({a, 0}) >= y BY <2>1 DEF Max
  <2> QED BY <2>2, <1>2
<1> QED BY <1>1, <1>2

LEMMA MissIs ==
  ASSUME Stores, window \in Windows, NEW s \in Stored
  PROVE  Miss(s) \in Nat
<1> USE ReadsConstants
<1>1. \A r \in Stored : r \in Sources /\ series[r] # {} /\ series[r] \subseteq 0..LastSlot BY DEF Stored, Stores
<1>2. \A r \in Stored : Min(series[r]) \in Nat
  <2> TAKE r \in Stored
  <2>1. series[r] # {} /\ series[r] \subseteq Nat BY <1>1
  <2>2. Min(series[r]) \in series[r] BY <2>1, LeastKey
  <2> QED BY <2>1, <2>2
<1>3. Max(series[s]) \in Int
  <2> DEFINE S == series[s]
             f == [x \in S |-> x]
  <2>1. S # {} /\ S \subseteq 0..LastSlot /\ LastSlot \in Nat BY <1>1
  <2>2. f \in [S -> 0..LastSlot] BY <2>1
  <2>3. \A x \in S : f[x] = x OBVIOUS
  <2> HIDE DEF f, S
  <2>4. PICK x \in S : \A y \in S : f[y] <= f[x] BY <2>1, <2>2, Greatest
  <2>5. \E z \in S : \A y \in S : z >= y BY <2>1, <2>3, <2>4
  <2>6. Max(S) \in S BY <2>5 DEF Max
  <2> QED BY <2>1, <2>6 DEF S
<1>4. Floor \in Int
  <2>1. CASE window.start # Unbounded
    <3>1. \A x \in {window.start, window.end} : x \in Int \cup {Unbounded} BY ReadsAssumption
    <3> QED BY <3>1, <2>1 DEF Floor
  <2>2. CASE window.start = Unbounded
    <3> DEFINE mins == {Min(series[r]) : r \in Stored}
    <3>1. mins \subseteq Nat /\ mins # {} BY <1>2
    <3>2. Min(mins) \in Nat BY <3>1, LeastKey
    <3>3. Floor = Min(mins) BY <2>2 DEF Floor
    <3> QED BY <3>2, <3>3
  <2> QED BY <2>1, <2>2
<1>5. now \in Int BY DEF Stores
<1>6. Min(series[s]) - Floor \in Int /\ now - Max(series[s]) \in Int BY <1>2, <1>3, <1>4, <1>5
<1>7. Max({Min(series[s]) - Floor, 0}) \in Nat /\ Max({now - Max(series[s]), 0}) \in Nat BY <1>6, NoLessThanZero
<1> QED BY <1>7 DEF Miss

LEMMA SourceIs ==
  ASSUME Stores, window \in Windows
  PROVE  /\ Stored = {} => SelectSource = 0
         /\ Stored # {} => SelectSource \in Stored /\ SelectSource \in Sources /\ SelectSource # 0
<1> USE ReadsConstants
<1>1. CASE Stored = {} BY <1>1 DEF SelectSource
<1>2. CASE Stored # {}
  <2> DEFINE misses == {Miss(s) : s \in Stored}
  <2>1. misses \subseteq Nat /\ misses # {} BY <1>2, MissIs
  <2>2. PICK m \in misses : \A n \in misses : m <= n BY <2>1, NatOrder
  <2> DEFINE best == {s \in Stored : Miss(s) = m}
             f == [s \in best |-> s]
  <2>3. best # {} BY <2>2
  <2>4. Stored \subseteq Sources BY DEF Stored
  <2>5. \A s \in best : s \in 0..Target /\ s \in Stored /\ Miss(s) = m BY <2>4
  <2>6. f \in [best -> 0..Target] /\ Target \in Nat BY <2>5
  <2>7. \A s \in best : f[s] = s OBVIOUS
  <2>8. \A s \in Stored : Miss(s) \in Nat /\ m <= Miss(s) /\ (Miss(s) = m => s \in best) BY <2>2, MissIs
  <2> HIDE DEF misses, best, f
  <2>9. PICK s \in best : \A r \in best : f[r] <= f[s] BY <2>3, <2>6, Greatest
  <2>10. \A r \in best : r <= s BY <2>7, <2>9
  <2>11. m \in Nat BY <2>1, <2>2
  <2>12. \A r \in Stored : Miss(s) < Miss(r) \/ (Miss(s) = Miss(r) /\ s >= r)
    <3> TAKE r \in Stored
    <3>1. CASE Miss(r) = m BY <3>1, <2>5, <2>8, <2>10
    <3>2. CASE Miss(r) # m BY <3>2, <2>5, <2>8, <2>11
    <3> QED BY <3>1, <3>2
  <2>13. \E q \in Stored : \A r \in Stored : Miss(q) < Miss(r) \/ (Miss(q) = Miss(r) /\ q >= r)
    BY <2>5, <2>12
  <2>14. SelectSource = CHOOSE q \in Stored : \A r \in Stored : Miss(q) < Miss(r) \/ (Miss(q) = Miss(r) /\ q >= r)
    BY <1>2 DEF SelectSource
  <2>15. SelectSource \in Stored BY <2>13, <2>14
  <2> QED BY <1>2, <2>4, <2>15
<1> QED BY <1>1, <1>2

LEMMA ReadsInitially == ReadsInit => ReadsInv
<1> SUFFICES ASSUME ReadsInit PROVE ReadsInv OBVIOUS
<1> USE ReadsConstants
<1>1. /\ series \in Histories /\ native = {} /\ now \in {LastSlot - 1, LastSlot} /\ window \in Windows
      /\ pc = "probe" /\ source = 0 /\ clock = 0 /\ cursor = LastSlot + 1 /\ page = {} /\ given = {} /\ done = FALSE
      /\ standing = {} /\ paths = {} /\ skipped = {} /\ cut = FALSE /\ writes = 0
  BY DEF ReadsInit
<1>2. whole = [s \in Sources |-> {b \in Buckets : Closed(b, now) /\ Has(b, series[s], s)}] BY DEF ReadsInit
<1>3. series \in [Sources -> SUBSET (0..LastSlot)] /\ \A s \in Sources : \A t \in series[s] : t % s = 0
  BY <1>1, ReadsAssumption
<1>4. now \in 0..LastSlot /\ now + 1 >= LastSlot BY <1>1
<1>5. \A s \in Sources : \A b \in whole[s] : b \in Buckets /\ Has(b, series[s], s) BY <1>2
<1>6. Stores BY <1>1, <1>3, <1>4, <1>5 DEF Stores
<1>7. whole \in [Sources -> SUBSET Buckets] BY <1>2
<1>8. cursor \in 0..(LastSlot + 1) /\ clock \in 0..LastSlot /\ writes \in 0..MaxWrites BY <1>1
<1>9. ReadsTypeOK BY <1>1, <1>3, <1>4, <1>7, <1>8 DEF ReadsTypeOK
<1>10. Between BY <1>1 DEF Between
<1>11. \A b \in Buckets : b < cursor BY <1>1, BucketsAre
<1>12. Met BY <1>1, <1>11 DEF Met, Dealt
<1> QED BY <1>1, <1>6, <1>9, <1>10, <1>12 DEF ReadsInv, FoldsWhole

-----------------------------------------------------------------------------
(* The steps.                                                              *)

LEMMA GiveIs ==
  ASSUME ReadsTypeOK, Between, NEW p, Fits(p), Give(p)
  PROVE  /\ page' = p.items /\ page' \subseteq Buckets /\ given' \subseteq Buckets /\ given \subseteq given'
         /\ p.items \subseteq given' /\ skipped \subseteq skipped' /\ skipped' \subseteq Buckets
         /\ done' = ~p.more /\ done' \in BOOLEAN
         /\ cursor' \in Buckets \cup {LastSlot + 1} /\ cursor' \in 0..(LastSlot + 1)
         /\ p.more => cursor' = p.next /\ (p.items = {} => p.next \in skipped')
<1> USE ReadsConstants
<1>1. /\ page' = p.items /\ given' = given \cup p.items /\ done' = ~p.more
      /\ cursor' = IF p.more THEN p.next ELSE cursor
      /\ skipped' = IF p.more /\ p.items = {} THEN skipped \cup {p.next} ELSE skipped
  BY DEF Give
<1>2. cursor' \in Buckets \cup {LastSlot + 1} BY <1>1 DEF Fits, Between
<1>3. cursor' \in 0..(LastSlot + 1) BY <1>2, BucketsAre
<1> QED BY <1>1, <1>2, <1>3 DEF Fits, ReadsTypeOK

\* A page that gives, passes, or leaves behind its cursor what was due.
LEMMA FoldKeeps == ReadsInv /\ FoldPage => ReadsInv'
<1> SUFFICES ASSUME ReadsInv, FoldPage PROVE ReadsInv' OBVIOUS
<1> USE ReadsConstants
<1> DEFINE s == source
           R == RowsRead(s)
           p == FoldedPage(R, s)
<1>1. /\ pc = "fold" /\ pc' = "probe" /\ Give(p) /\ paths' = paths \cup {s} /\ source' = 0
      /\ cut' = (cut \/ \E b \in p.items : R \cap Slots(b) # series[s] \cap Slots(b))
      /\ UNCHANGED <<series, native, now, window, clock, whole, standing, writes>>
  BY DEF FoldPage, store, history
<1>2. ReadsTypeOK /\ Stores /\ Between /\ Met /\ cut = FALSE BY DEF ReadsInv, FoldsWhole, ReadsTypeOK
<1>3. s \in Sources /\ clock + 1 >= LastSlot /\ ~done /\ standing = {} BY <1>1, <1>2 DEF Between
<1>4. /\ Fits(p) /\ p.items \subseteq {b \in Fold(R, s) : InWindow(b)}
      /\ \A b \in Buckets : InWindow(b) /\ b < cursor /\ Has(b, series[s], s) =>
           b \in p.items \/ (p.more /\ (b < p.next \/ (b = p.next /\ p.items = {})))
  BY <1>3, FoldedPageIs
<1>5. \A b \in p.items : R \cap Slots(b) = series[s] \cap Slots(b)
  BY <1>3, <1>4, ItemsAreWhole
<1>6. cut' = FALSE BY <1>1, <1>2, <1>5
<1> HIDE DEF R, p
<1>7. /\ page' = p.items /\ page' \subseteq Buckets /\ given' \subseteq Buckets /\ given \subseteq given'
      /\ p.items \subseteq given' /\ skipped \subseteq skipped' /\ skipped' \subseteq Buckets
      /\ done' = ~p.more /\ done' \in BOOLEAN
      /\ cursor' \in Buckets \cup {LastSlot + 1} /\ cursor' \in 0..(LastSlot + 1)
      /\ p.more => cursor' = p.next /\ (p.items = {} => p.next \in skipped')
  BY <1>1, <1>2, <1>4, GiveIs
<1>8. paths' \subseteq Sources \cup {Target} BY <1>1, <1>2, <1>3 DEF ReadsTypeOK
<1>9. ReadsTypeOK' BY <1>1, <1>2, <1>6, <1>7, <1>8 DEF ReadsTypeOK
<1>10. Stores' BY <1>1, <1>2 DEF Stores, Has, Slots
<1>11. Between' BY <1>1, <1>2, <1>7 DEF Between
<1>12. Met'
  <2>1. ~(paths' \subseteq {Target})
    <3>1. s \in Nat /\ s < Target BY <1>3
    <3>2. s # Target BY <3>1
    <3>3. s \in paths' BY <1>1
    <3> QED BY <3>2, <3>3
  <2>2. ASSUME Target \notin paths', NEW b \in Buckets, InWindow(b), \A r \in paths' : b \in whole[r]
        PROVE  Dealt(b)'
    <3>1. Target \notin paths /\ (\A r \in paths : b \in whole[r]) /\ b \in whole[s] BY <1>1, <2>2
    <3>2. Dealt(b) BY <3>1, <2>2, <1>2, <1>3 DEF Met
    <3>3. CASE b \in given \cup skipped BY <3>3, <1>7 DEF Dealt
    <3>4. CASE b < cursor
      <4>1. Has(b, series[s], s) BY <3>1, <1>2, <1>3 DEF Stores
      <4>2. b \in p.items \/ (p.more /\ (b < p.next \/ (b = p.next /\ p.items = {})))
        BY <4>1, <3>4, <2>2, <1>4
      <4> QED BY <4>2, <1>7 DEF Dealt
    <3> QED BY <3>2, <3>3, <3>4 DEF Dealt
  <2>3. \A b : InWindow(b)' = InWindow(b) BY <1>1 DEF InWindow, WindowStart, WindowEnd
  <2> QED BY <2>1, <2>2, <2>3, <1>1 DEF Met
<1> QED BY <1>6, <1>9, <1>10, <1>11, <1>12 DEF ReadsInv, FoldsWhole

LEMMA NativeKeeps == ReadsInv /\ NativePage => ReadsInv' /\ \E p : Fits(p) /\ Give(p)
<1> SUFFICES ASSUME ReadsInv, NativePage PROVE ReadsInv' /\ \E p : Fits(p) /\ Give(p) OBVIOUS
<1> USE ReadsConstants
<1> DEFINE all == {b \in native : Below(b) /\ InWindow(b)}
           N == Newest(Limit + 1, all)
           p == Paginate(N)
<1>1. /\ pc = "native" /\ pc' = "probe" /\ Give(p) /\ paths' = paths \cup {Target}
      /\ UNCHANGED <<series, native, now, window, source, clock, whole, standing, cut, writes>>
  BY DEF NativePage, store, history
<1>2. ReadsTypeOK /\ Stores /\ Between /\ Met /\ cut = FALSE BY DEF ReadsInv, FoldsWhole, ReadsTypeOK
<1>3. ~done /\ standing \subseteq native BY <1>1, <1>2 DEF Between
<1>4. all \subseteq Buckets /\ \A b \in all : b < cursor /\ b \in 0..LastSlot
  BY <1>2, BucketsAre DEF Stores, Below
<1> HIDE DEF all
<1>5. /\ N \subseteq all /\ Cardinality(N) \in Nat /\ \A x \in N, y \in all \ N : y < x
      /\ N = all \/ Cardinality(N) = Limit + 1
  <2>1. all \subseteq 0..LastSlot /\ Limit + 1 \in Nat BY <1>4
  <2> QED BY ONLY <2>1, NewestAre
<1> HIDE DEF N
<1>6. /\ Fits(p) /\ p.items \subseteq N /\ (~p.more => p.items = N)
      /\ Cardinality(N) > Limit => p.more
      /\ p.more => p.next \in N /\ \A b \in N \ p.items : b < p.next
  <2>1. N \subseteq Buckets /\ \A b \in N : b < cursor BY <1>4, <1>5
  <2> QED BY <2>1, PaginateIs
<1> HIDE DEF p
<1>7. /\ page' = p.items /\ page' \subseteq Buckets /\ given' \subseteq Buckets /\ given \subseteq given'
      /\ p.items \subseteq given' /\ skipped \subseteq skipped' /\ skipped' \subseteq Buckets
      /\ done' = ~p.more /\ done' \in BOOLEAN
      /\ cursor' \in Buckets \cup {LastSlot + 1} /\ cursor' \in 0..(LastSlot + 1)
      /\ p.more => cursor' = p.next /\ (p.items = {} => p.next \in skipped')
  BY <1>1, <1>2, <1>6, GiveIs
<1>8. ReadsTypeOK' BY <1>1, <1>2, <1>7 DEF ReadsTypeOK
<1>9. Stores' BY <1>1, <1>2 DEF Stores, Has, Slots
<1>10. Between' BY <1>1, <1>2, <1>7 DEF Between
<1>11. Met'
  <2>1. ASSUME paths' \subseteq {Target}, NEW b \in standing, InWindow(b)
        PROVE  b \in given' \/ (~done' /\ b < cursor')
    <3>1. b \in given \/ b < cursor BY <2>1, <1>1, <1>2, <1>3 DEF Met
    <3>2. CASE b \in given BY <3>2, <1>7
    <3>3. CASE b < cursor
      <4>1. b \in all BY <3>3, <2>1, <1>3 DEF all, Below
      <4>2. CASE b \in N BY <4>2, <1>6, <1>7
      <4>3. CASE b \notin N
        <5>1. Cardinality(N) > Limit BY <4>1, <4>3, <1>5
        <5>2. p.more /\ b < p.next BY <5>1, <4>1, <4>3, <1>5, <1>6
        <5> QED BY <5>2, <1>7
      <4> QED BY <4>2, <4>3
    <3> QED BY <3>1, <3>2, <3>3
  <2>2. Target \in paths' BY <1>1
  <2>3. \A b : InWindow(b)' = InWindow(b) BY <1>1 DEF InWindow, WindowStart, WindowEnd
  <2> QED BY <2>1, <2>2, <2>3, <1>1 DEF Met
<1>12. cut' = FALSE BY <1>1, <1>2
<1> QED BY <1>1, <1>6, <1>8, <1>9, <1>10, <1>11, <1>12 DEF ReadsInv, FoldsWhole

LEMMA ProbeKeeps == ReadsInv /\ ProbeNative => ReadsInv'
<1> SUFFICES ASSUME ReadsInv, ProbeNative PROVE ReadsInv' OBVIOUS
<1> USE ReadsConstants
<1>1. /\ ~done /\ pc = "probe" /\ pc' = IF native # {} THEN "native" ELSE "cover"
      /\ standing' = IF cursor > LastSlot THEN native ELSE standing
      /\ UNCHANGED <<series, native, now, window, source, clock, cursor, page, given, done, whole, paths, skipped, cut, writes>>
  BY DEF ProbeNative, store
<1>2. ReadsTypeOK /\ Stores /\ Between /\ Met /\ cut = FALSE BY DEF ReadsInv, FoldsWhole, ReadsTypeOK
<1>3. standing' \subseteq native /\ native \subseteq Buckets BY <1>1, <1>2 DEF Between, Stores
<1>4. ReadsTypeOK' BY <1>1, <1>2, <1>3 DEF ReadsTypeOK
<1>5. Stores' BY <1>1, <1>2 DEF Stores, Has, Slots
<1>6. Between' BY <1>1, <1>2, <1>3 DEF Between
<1>7. Met'
  <2>1. \A b : InWindow(b)' = InWindow(b) BY <1>1 DEF InWindow, WindowStart, WindowEnd
  <2>2. ASSUME paths \subseteq {Target}, NEW b \in standing', InWindow(b) PROVE b \in given \/ b < cursor
    <3>1. CASE cursor > LastSlot
      <4>1. b \in 0..LastSlot BY <2>2, <1>3, BucketsAre
      <4>2. cursor \in 0..(LastSlot + 1) BY <1>2 DEF ReadsTypeOK
      <4> QED BY <3>1, <4>1, <4>2
    <3>2. CASE ~(cursor > LastSlot) BY <3>2, <2>2, <1>1, <1>2 DEF Met
    <3> QED BY <3>1, <3>2
  <2>3. paths' \subseteq {Target} => \A b \in standing' : InWindow(b)' => b \in given' \/ (~done' /\ b < cursor')
    BY <2>1, <2>2, <1>1
  <2>4. Target \notin paths' /\ (done' => paths' # {}) =>
          \A b \in Buckets : InWindow(b)' /\ (\A s \in paths' : b \in whole'[s]) => Dealt(b)'
    BY <2>1, <1>1, <1>2 DEF Met, Dealt
  <2> QED BY <2>3, <2>4 DEF Met
<1> QED BY <1>1, <1>2, <1>4, <1>5, <1>6, <1>7 DEF ReadsInv, FoldsWhole

LEMMA NullFits == Fits(Null)
BY DEF Fits, Null

\* Without a source the walk ends: there was none all along.
LEMMA CoverKeeps == ReadsInv /\ Cover => ReadsInv'
<1> SUFFICES ASSUME ReadsInv, Cover PROVE ReadsInv' OBVIOUS
<1> USE ReadsConstants
<1>1. /\ pc = "cover" /\ clock' = now /\ source' = SelectSource
      /\ UNCHANGED <<series, native, now, window, whole, standing, paths, cut, writes>>
  BY DEF Cover, store, history
<1>2. ReadsTypeOK /\ Stores /\ Between /\ Met /\ cut = FALSE BY DEF ReadsInv, FoldsWhole, ReadsTypeOK
<1>3. ~done /\ standing = {} BY <1>1, <1>2 DEF Between
<1>4. Stores' BY <1>1, <1>2 DEF Stores, Has, Slots
<1>5. now \in 0..LastSlot /\ now + 1 >= LastSlot /\ window \in Windows BY <1>2 DEF Stores, ReadsTypeOK
<1>6. /\ Stored = {} => SelectSource = 0
      /\ Stored # {} => SelectSource \in Sources /\ SelectSource # 0
  BY <1>2, <1>5, SourceIs
<1>7. \A b : InWindow(b)' = InWindow(b) BY <1>1 DEF InWindow, WindowStart, WindowEnd
<1>8. CASE SelectSource = 0
  <2>1. pc' = "probe" /\ Give(Null) BY <1>8 DEF Cover
  <2>2. Null.items = {} /\ Null.more = FALSE BY DEF Null
  <2>3. /\ page' = {} /\ given' \subseteq Buckets /\ given \subseteq given' /\ skipped \subseteq skipped'
        /\ skipped' \subseteq Buckets /\ done' = TRUE
        /\ cursor' \in Buckets \cup {LastSlot + 1} /\ cursor' \in 0..(LastSlot + 1)
    BY <1>2, <2>1, <2>2, NullFits, GiveIs
  <2>4. ReadsTypeOK' BY <1>1, <1>2, <1>5, <1>8, <2>1, <2>3 DEF ReadsTypeOK
  <2>5. Between' BY <1>1, <1>2, <2>1, <2>3 DEF Between
  <2>6. Met'
    <3>1. ASSUME NEW s \in paths, Target \notin paths, NEW b \in whole[s] PROVE FALSE
      <4>1. s \in Sources BY <3>1, <1>2 DEF ReadsTypeOK
      <4>2. series[s] = {} BY <4>1, <1>6, <1>8 DEF Stored
      <4>3. Has(b, series[s], s) BY <4>1, <3>1, <1>2 DEF Stores
      <4>4. Cardinality(Slots(b) \cap series[s]) = 0 BY <4>2, FS_EmptySet
      <4> QED BY <4>1, <4>3, <4>4, RowCapIs DEF Has
    <3> QED BY <3>1, <1>1, <1>3, <2>3 DEF Met
  <2> QED BY <1>1, <1>2, <1>4, <2>4, <2>5, <2>6 DEF ReadsInv, FoldsWhole
<1>9. CASE SelectSource # 0
  <2>1. pc' = "fold" /\ UNCHANGED <<cursor, page, given, done, skipped>> BY <1>9 DEF Cover
  <2>2. SelectSource \in Sources BY <1>6, <1>9
  <2>3. ReadsTypeOK' BY <1>1, <1>2, <1>5, <2>1, <2>2 DEF ReadsTypeOK
  <2>4. Between' BY <1>1, <1>2, <1>3, <1>5, <2>1, <2>2 DEF Between
  <2>5. Met' BY <1>1, <1>2, <1>7, <2>1 DEF Met, Dealt
  <2> QED BY <1>1, <1>2, <1>4, <2>3, <2>4, <2>5 DEF ReadsInv, FoldsWhole
<1> QED BY <1>8, <1>9

LEMMA OutsideKeeps ==
  ASSUME ReadsInv,
         \/ \E s \in Sources, t \in 0..LastSlot : StoreCandle(s, t)
         \/ \E b \in Buckets : StoreNative(b) \/ DropNative(b)
         \/ Tick \/ UNCHANGED readsVars
  PROVE  ReadsInv'
<1> USE ReadsConstants
<1>1. /\ UNCHANGED <<window, pc, source, clock, cursor, page, given, done, whole, paths, skipped, cut>>
      /\ standing' \subseteq standing
  BY DEF StoreCandle, StoreNative, DropNative, Tick, readsVars, store, history
<1>2. ReadsTypeOK /\ Stores /\ Between /\ Met /\ cut = FALSE BY DEF ReadsInv, FoldsWhole, ReadsTypeOK
<1>3. standing' \subseteq native' /\ native' \subseteq Buckets
  <2>1. standing \subseteq native /\ native \subseteq Buckets BY <1>2 DEF Between, Stores
  <2> QED BY <2>1 DEF StoreCandle, StoreNative, DropNative, Tick, readsVars, store, history
<1>4. now' \in 0..LastSlot /\ now' + 1 >= LastSlot /\ writes' \in 0..MaxWrites
  <2>1. now \in 0..LastSlot /\ now + 1 >= LastSlot /\ writes \in 0..MaxWrites BY <1>2 DEF Stores, ReadsTypeOK
  <2>2. CASE \E s \in Sources, t \in 0..LastSlot : StoreCandle(s, t) BY <2>1, <2>2 DEF StoreCandle, Write
  <2>3. CASE \E b \in Buckets : StoreNative(b) \/ DropNative(b) BY <2>1, <2>3 DEF StoreNative, DropNative, Write
  <2>4. CASE Tick BY <2>1, <2>4 DEF Tick
  <2>5. CASE UNCHANGED readsVars BY <2>1, <2>5 DEF readsVars, store
  <2> QED BY <2>2, <2>3, <2>4, <2>5
<1>5. /\ series' \in [Sources -> SUBSET (0..LastSlot)] /\ \A s \in Sources : \A t \in series'[s] : t % s = 0
      /\ \A s \in Sources : series[s] \subseteq series'[s]
  <2>1. series \in [Sources -> SUBSET (0..LastSlot)] /\ \A s \in Sources : \A t \in series[s] : t % s = 0
    BY <1>2 DEF Stores
  <2>2. CASE \E s \in Sources, t \in 0..LastSlot : StoreCandle(s, t)
    <3>1. PICK s \in Sources, t \in 0..LastSlot :
            t % s = 0 /\ series' = [series EXCEPT ![s] = @ \cup {t}]
      BY <2>2 DEF StoreCandle
    <3>2. \A r \in Sources : series'[r] = IF r = s THEN series[s] \cup {t} ELSE series[r] BY <2>1, <3>1
    <3>3. series' \in [Sources -> SUBSET (0..LastSlot)] BY <2>1, <3>1
    <3> QED BY <2>1, <3>1, <3>2, <3>3
  <2>3. CASE series' = series BY <2>1, <2>3
  <2>4. (\E s \in Sources, t \in 0..LastSlot : StoreCandle(s, t)) \/ series' = series
    BY DEF StoreNative, DropNative, Tick, readsVars, store
  <2> QED BY <2>2, <2>3, <2>4
<1>6. ASSUME NEW s \in Sources, NEW b \in whole[s] PROVE b \in Buckets /\ Has(b, series'[s], s)
  <2>1. b \in Buckets /\ Cardinality(Slots(b) \cap series[s]) >= Target \div s BY <1>2, <1>6 DEF Stores, Has
  <2>2. Slots(b) \cap series[s] \subseteq Slots(b) \cap series'[s] BY <1>5
  <2>3. series'[s] \subseteq 0..LastSlot /\ series[s] \subseteq 0..LastSlot /\ (\A t \in series'[s] : t % s = 0)
        /\ (\A t \in series[s] : t % s = 0)
    BY <1>2, <1>5 DEF Stores
  <2>4. IsFiniteSet(Slots(b) \cap series'[s]) /\ Cardinality(Slots(b) \cap series'[s]) \in Nat
    BY <2>1, <2>3, RowsOfBucket
  <2>5. Cardinality(Slots(b) \cap series[s]) \in Nat BY <2>1, <2>3, RowsOfBucket
  <2>6. Cardinality(Slots(b) \cap series[s]) <= Cardinality(Slots(b) \cap series'[s]) BY <2>2, <2>4, FS_Subset
  <2> QED BY <2>1, <2>4, <2>5, <2>6, RowCapIs DEF Has
<1>7. Stores' BY <1>1, <1>3, <1>4, <1>5, <1>6 DEF Stores, Has, Slots
<1>8. ReadsTypeOK' BY <1>1, <1>2, <1>3, <1>4, <1>5 DEF ReadsTypeOK
<1>9. Between' BY <1>1, <1>2, <1>3 DEF Between
<1>10. Met'
  <2>1. \A b : InWindow(b)' = InWindow(b) BY <1>1 DEF InWindow, WindowStart, WindowEnd
  <2> QED BY <2>1, <1>1, <1>2 DEF Met, Dealt
<1> QED BY <1>1, <1>2, <1>7, <1>8, <1>9, <1>10 DEF ReadsInv, FoldsWhole

LEMMA ReadsStep == ReadsInv /\ [ReadsNext]_readsVars => ReadsInv'
BY FoldKeeps, NativeKeeps, ProbeKeeps, CoverKeeps, OutsideKeeps DEF ReadsNext, Serve

LEMMA ReadsAlways == ReadsSpec => []ReadsInv
BY ReadsInitially, ReadsStep, PTL DEF ReadsSpec

\* However the rows change between two statements, an item is folded from all its rows, and
\* whoever follows the cursors of the candles meets every bucket that could be given from the
\* start, unless an empty page steps on it.
THEOREM PagesHold == ReadsSpec => []PagesAreWhole
<1>1. ReadsInv => PagesAreWhole
  <2> SUFFICES ASSUME ReadsInv PROVE EveryBucketIsMet BY DEF ReadsInv, PagesAreWhole
  <2>1. Met BY DEF ReadsInv
  <2>2. ASSUME Target \notin paths, paths # {} PROVE paths # {Target} BY <2>2
  <2> QED BY <2>1 DEF EveryBucketIsMet, Met, Dealt
<1> QED BY <1>1, ReadsAlways, PTL

LEMMA ReadsStepsWalk ==
  ReadsInv /\ [ReadsNext]_readsVars => [Walk!Next]_<<page, cursor, done>>
<1> SUFFICES ASSUME ReadsInv, [ReadsNext]_readsVars
    PROVE  Walk!Page \/ UNCHANGED <<page, cursor, done>>
  BY DEF Walk!Next
<1> USE ReadsConstants
<1>1. ReadsTypeOK /\ Between BY DEF ReadsInv
<1>2. ASSUME NEW p, Fits(p), Give(p), ~done PROVE Walk!Page
  <2>1. page' = p.items /\ done' = ~p.more /\ done' \in BOOLEAN BY <1>1, <1>2, GiveIs
  <2>2. cursor' = IF p.more THEN p.next ELSE cursor BY <1>2 DEF Give
  <2>3. cursor \in Nat BY <1>1 DEF ReadsTypeOK
  <2>4. \A b \in Buckets : b \in Nat BY BucketsAre
  <2>5. page' \subseteq Walk!Keys(cursor) BY <1>2, <2>1, <2>3, <2>4 DEF Fits, Walk!Keys
  <2>6. p.more => cursor' \in Walk!Keys(cursor) /\ \A b \in page' : cursor' <= b
    BY <1>2, <2>1, <2>2, <2>3, <2>4 DEF Fits, Walk!Keys
  <2> QED BY <1>2, <2>1, <2>2, <2>5, <2>6 DEF Walk!Page
<1>3. CASE FoldPage
  <2>1. Give(FoldedPage(RowsRead(source), source)) /\ pc = "fold" BY <1>3 DEF FoldPage
  <2>2. source \in Sources /\ ~done BY <1>1, <2>1 DEF Between
  <2>3. Fits(FoldedPage(RowsRead(source), source)) BY <2>2, FoldedPageIs
  <2> QED BY <1>2, <2>1, <2>2, <2>3
<1>4. CASE NativePage
  <2>1. ~done BY <1>1, <1>4 DEF NativePage, Between
  <2> QED BY <1>2, <1>4, <2>1, NativeKeeps
<1>5. CASE Cover
  <2>1. ~done BY <1>1, <1>5 DEF Cover, Between
  <2>2. CASE SelectSource = 0 BY <1>2, <1>5, <2>1, <2>2, NullFits DEF Cover
  <2>3. CASE SelectSource # 0 BY <1>5, <2>3 DEF Cover
  <2> QED BY <2>2, <2>3
<1>6. CASE ProbeNative BY <1>6 DEF ProbeNative
<1>7. CASE \E s \in Sources, t \in 0..LastSlot : StoreCandle(s, t) BY <1>7 DEF StoreCandle
<1>8. CASE \E b \in Buckets : StoreNative(b) \/ DropNative(b) BY <1>8 DEF StoreNative, DropNative
<1>9. CASE Tick BY <1>9 DEF Tick
<1>10. CASE UNCHANGED readsVars BY <1>10 DEF readsVars
<1> QED BY <1>3, <1>4, <1>5, <1>6, <1>7, <1>8, <1>9, <1>10 DEF ReadsNext, Serve

\* The pages of candles are a keyset walk: buckets fall, none comes twice, although the
\* series they are read from changes.
THEOREM CandlesWalk == ReadsSpec => RefinesWalk
<1>1. ReadsInit => Walk!Init
  <2>1. ReadsInit => page = {} /\ cursor = LastSlot + 1 /\ done = FALSE BY DEF ReadsInit
  <2> QED BY <2>1 DEF Walk!Init
<1> QED BY <1>1, ReadsStepsWalk, ReadsAlways, PTL DEF ReadsSpec, RefinesWalk, Walk!Spec
=============================================================================
