-------------------------- MODULE LivePollerProofs --------------------------
(***************************************************************************)
(* Proofs about live values.                                               *)
(*                                                                         *)
(* LivePoller: the claim markers exclude; two replicas work on one coin    *)
(* only after a claim outlived its marker, for any number of replicas and  *)
(* coins.                                                                  *)
(*                                                                         *)
(* Answers, for any calls at once and answers of any length: what is       *)
(* stored and chosen is what the upstream said, and a 429 is heeded.       *)
(***************************************************************************)
EXTENDS LivePoller, Answers, FiniteSetTheorems, WellFoundedInduction, TLAPS

\* The part of TypeOK the argument needs.
Types ==
  /\ lapsed \subseteq Coins
  /\ until \in [Coins -> Nat]
  /\ pc \in [Replicas -> Steps]
  /\ batch \in [Replicas -> SUBSET Coins]
  /\ coin \in [Replicas -> Coins \cup {NoCoin}]

\* A coin is in hand only between NextCoin and the write that ends it, and then
\* it is no longer in the rest of the batch.
InHand ==
  \A r \in Replicas :
    /\ pc[r] \in {"idle", "next", "stopped"} => coin[r] = NoCoin
    /\ coin[r] \notin batch[r]

\* Whoever holds a coin without a lapse holds it under a running marker.
Marked == \A c \in Coins : Held(c) /\ c \notin lapsed => until[c] > 0

IInv == Types /\ InHand /\ Marked /\ SoleUnlessLapsed

-----------------------------------------------------------------------------
LEMMA InitIInv == Init => IInv
BY PollerAssumption
   DEF Init, IInv, Types, InHand, Marked, SoleUnlessLapsed, Held, Holds, Steps

\* What every write that ends a coin leaves of the holders: r lets its coin go.
LEMMA DoneHolders ==
  ASSUME IInv, NEW r \in Replicas, Done(r)
  PROVE  /\ \A q \in Replicas, c \in Coins : Holds(q, c)' => Holds(q, c)
         /\ \A c \in Coins : coin[r] = c => ~Holds(r, c)'
         /\ InHand'
         /\ lapsed' = {c \in lapsed : Held(c)'}
         /\ pc' \in [Replicas -> Steps]
         /\ coin' \in [Replicas -> Coins \cup {NoCoin}]
         /\ batch' = batch
<1> USE PollerAssumption
<1>1. \A q \in Replicas, c \in Coins : Holds(q, c)' => Holds(q, c)
  BY DEF IInv, Types, Done, Holds
<1>2. \A c \in Coins : coin[r] = c => ~Holds(r, c)'
  BY DEF IInv, Types, InHand, Done, Holds
<1>3. InHand'
  BY DEF IInv, Types, InHand, Done, Goto
<1>4. lapsed' = {c \in lapsed : Held(c)'}
  BY DEF Done, Lapse
<1>5. /\ pc' \in [Replicas -> Steps]
      /\ coin' \in [Replicas -> Coins \cup {NoCoin}]
      /\ batch' = batch
  BY DEF IInv, Types, Done, Goto, Steps
<1> QED BY <1>1, <1>2, <1>3, <1>4, <1>5

\* Such a write may do what it likes to the marker of the coin it ends: if
\* another replica holds the coin as well, it has lapsed.
LEMMA DoneKeeps ==
  ASSUME IInv, NEW r \in Replicas, Done(r), until' \in [Coins -> Nat],
         \A c \in Coins : c # coin[r] => until'[c] = until[c]
  PROVE  IInv'
<1>1. Types' BY DoneHolders DEF IInv, Types
<1>2. InHand' BY DoneHolders DEF IInv
<1>3. SoleUnlessLapsed'
  <2> SUFFICES ASSUME NEW c \in Coins, NEW p \in Replicas, NEW q \in Replicas,
                      p # q, Holds(p, c)', Holds(q, c)'
               PROVE  c \in lapsed'
    BY DEF SoleUnlessLapsed
  <2>1. c \in lapsed BY DoneHolders DEF IInv, SoleUnlessLapsed
  <2>2. Held(c)' BY DEF Held
  <2> QED BY <2>1, <2>2, DoneHolders
<1>4. Marked'
  <2> SUFFICES ASSUME NEW c \in Coins, NEW q \in Replicas, Holds(q, c)', c \notin lapsed'
               PROVE  until'[c] > 0
    BY DEF Marked, Held
  <2>1. Held(c)' BY DEF Held
  <2>2. c \notin lapsed BY <2>1, DoneHolders
  <2>3. Holds(q, c) BY DoneHolders
  <2>4. until[c] > 0 BY <2>2, <2>3 DEF IInv, Marked, Held
  <2>5. CASE c = coin[r]
    <3>1. q # r BY <2>5, DoneHolders
    <3>2. Holds(r, c) BY <2>5 DEF Holds
    <3> QED BY <2>2, <2>3, <3>1, <3>2 DEF IInv, SoleUnlessLapsed
  <2>6. CASE c # coin[r] BY <2>4, <2>6
  <2> QED BY <2>5, <2>6
<1> QED BY <1>1, <1>2, <1>3, <1>4 DEF IInv

-----------------------------------------------------------------------------
\* Steps that leave the markers alone, give nobody a coin and forget no lapse
\* of a coin somebody holds.
LEMMA QuietKeeps ==
  ASSUME IInv, Types', InHand', until' = until,
         \A q \in Replicas, c \in Coins : Holds(q, c)' => Holds(q, c),
         \A c \in Coins : c \in lapsed /\ Held(c)' => c \in lapsed'
  PROVE  IInv'
<1>1. SoleUnlessLapsed'
  <2> SUFFICES ASSUME NEW c \in Coins, NEW p \in Replicas, NEW q \in Replicas,
                      p # q, Holds(p, c)', Holds(q, c)'
               PROVE  c \in lapsed'
    BY DEF SoleUnlessLapsed
  <2>1. c \in lapsed BY DEF IInv, SoleUnlessLapsed
  <2> QED BY <2>1 DEF Held
<1>2. Marked'
  <2> SUFFICES ASSUME NEW c \in Coins, NEW q \in Replicas, Holds(q, c)', c \notin lapsed'
               PROVE  until'[c] > 0
    BY DEF Marked, Held
  <2>1. c \notin lapsed /\ Held(c) BY DEF Held
  <2> QED BY <2>1 DEF IInv, Marked
<1> QED BY <1>1, <1>2 DEF IInv

\* Markers that go are recorded as lapses of the coins still held.
LEMMA LapseKeeps ==
  ASSUME IInv, Types', UNCHANGED <<pc, batch, coin>>, NEW gone, Lapse(gone),
         \A c \in Coins : c \in gone \/ (until[c] > 0 => until'[c] > 0)
  PROVE  IInv'
<1>1. \A q \in Replicas, c \in Coins : Holds(q, c)' <=> Holds(q, c) BY DEF Holds
<1>2. \A c \in Coins : Held(c)' <=> Held(c) BY <1>1 DEF Held
<1>3. \A c \in Coins : c \in lapsed' <=> c \in lapsed \cup gone /\ Held(c)'
  BY <1>2 DEF IInv, Types, Lapse
<1>4. InHand' BY DEF IInv, InHand
<1>5. SoleUnlessLapsed'
  BY <1>1, <1>3 DEF IInv, SoleUnlessLapsed, Held
<1>6. Marked'
  BY <1>2, <1>3 DEF IInv, Marked
<1> QED BY <1>4, <1>5, <1>6 DEF IInv

LEMMA WorkerStep ==
  ASSUME IInv, NEW r \in Replicas, Worker(r) \/ ClaimLost(r) \/ WriteFails(r) \/ Crash(r)
  PROVE  IInv'
<1> USE PollerAssumption
<1>1. CASE Claim(r)
  <2>1. PICK S \in Batches :
          /\ batch' = [batch EXCEPT ![r] = S]
          /\ until' = [c \in Coins |-> IF c \in S THEN ClaimTtl ELSE until[c]]
    BY <1>1 DEF Claim
  <2>2. S \subseteq Coins /\ \A c \in S : until[c] = 0 BY DEF Batches, Due
  <2>3. coin' = coin /\ lapsed' = lapsed /\ pc[r] = "idle" /\ pc' = [pc EXCEPT ![r] = "next"]
    BY <1>1 DEF Claim, Goto
  <2>4. Types' BY <2>1, <2>2, <2>3 DEF IInv, Types, Steps
  <2>5. coin[r] = NoCoin BY <2>3 DEF IInv, InHand
  <2>6. InHand' BY <2>1, <2>2, <2>3, <2>5 DEF IInv, Types, InHand
  <2>7. \A q \in Replicas, c \in Coins :
          Holds(q, c)' => (q = r /\ c \in S) \/ (q # r /\ Holds(q, c))
    BY <2>1, <2>3, <2>5 DEF IInv, Types, Holds
  <2>8. \A q \in Replicas, c \in Coins : c \in S /\ Holds(q, c) => c \in lapsed
    BY <2>2 DEF IInv, Marked, Held
  <2>9. SoleUnlessLapsed'
    BY <2>3, <2>7, <2>8 DEF IInv, SoleUnlessLapsed
  <2>10. Marked'
    BY <2>1, <2>3, <2>7 DEF IInv, Types, Marked, Held
  <2> QED BY <2>4, <2>6, <2>9, <2>10 DEF IInv
<1>2. CASE ClaimLost(r)
  <2>1. PICK S \in Batches : until' = [c \in Coins |-> IF c \in S THEN ClaimTtl ELSE until[c]]
    BY <1>2 DEF ClaimLost
  <2>2. UNCHANGED <<pc, batch, coin, lapsed>> BY <1>2 DEF ClaimLost, workers
  <2>3. Types' BY <2>1, <2>2 DEF IInv, Types
  <2>4. \A q \in Replicas, c \in Coins : Holds(q, c)' <=> Holds(q, c) BY <2>2 DEF Holds
  <2>5. InHand' /\ SoleUnlessLapsed' BY <2>2, <2>4 DEF IInv, InHand, SoleUnlessLapsed
  <2>6. Marked' BY <2>1, <2>2, <2>4 DEF IInv, Marked, Held
  <2> QED BY <2>3, <2>5, <2>6 DEF IInv
<1>3. CASE NextCoin(r)
  <2>1. PICK c \in batch[r] :
          /\ coin' = [coin EXCEPT ![r] = c]
          /\ batch' = [batch EXCEPT ![r] = @ \ {c}]
    BY <1>3 DEF NextCoin
  <2>2. until' = until /\ lapsed' = lapsed /\ pc' = [pc EXCEPT ![r] = "fetch"]
    BY <1>3 DEF NextCoin, Goto, rows
  <2>3. Types' /\ InHand' BY <2>1, <2>2 DEF IInv, Types, InHand, Steps
  <2>4. \A q \in Replicas, d \in Coins : Holds(q, d)' => Holds(q, d)
    BY <2>1 DEF IInv, Types, Holds
  <2> QED BY <2>2, <2>3, <2>4, QuietKeeps
<1>4. CASE EndBatch(r) \/ Crash(r)
  <2>1. /\ batch' = [batch EXCEPT ![r] = {}]
        /\ coin' = coin \/ coin' = [coin EXCEPT ![r] = NoCoin]
        /\ pc' = [pc EXCEPT ![r] = "idle"]
        /\ until' = until
        /\ Lapse({})
    BY <1>4 DEF EndBatch, Crash, Goto, rows
  <2>2. EndBatch(r) => pc[r] = "next" BY DEF EndBatch
  <2>3. coin'[r] = NoCoin
    BY <1>4, <2>2 DEF IInv, Types, InHand, Crash, EndBatch
  <2>4. lapsed' = {d \in lapsed : Held(d)'} BY <2>1 DEF Lapse
  <2>5. Types' /\ InHand' BY <2>1, <2>3, <2>4 DEF IInv, Types, InHand, Steps
  <2>6. \A q \in Replicas, d \in Coins : Holds(q, d)' => Holds(q, d)
    BY <2>1, <2>3 DEF IInv, Types, Holds
  <2> QED BY <2>1, <2>4, <2>5, <2>6, QuietKeeps
<1>5. CASE Stop(r)
  <2>1. /\ UNCHANGED <<batch, coin, until, lapsed>>
        /\ pc' = [pc EXCEPT ![r] = "stopped"]
        /\ pc[r] = "idle"
    BY <1>5 DEF Stop, Goto, rows
  <2>2. Types' /\ InHand' BY <2>1 DEF IInv, Types, InHand, Steps
  <2>3. \A q \in Replicas, d \in Coins : Holds(q, d)' => Holds(q, d) BY <2>1 DEF Holds
  <2> QED BY <2>1, <2>2, <2>3, QuietKeeps
<1>6. CASE Mark(r) \/ Clear(r) \/ Defer(r) \/ WriteFails(r)
  <2>1. Done(r) BY <1>6 DEF Mark, Clear, Defer, WriteFails
  <2>2. /\ until' \in [Coins -> Nat]
        /\ \A c \in Coins : c # coin[r] => until'[c] = until[c]
    BY <1>6 DEF Mark, Clear, Defer, WriteFails, IInv, Types,
           mark_coin_poll_success, clear_coin_poll_marker, defer_coin_poll
  <2> QED BY <2>1, <2>2, DoneKeeps
<1> QED BY <1>1, <1>2, <1>3, <1>4, <1>5, <1>6 DEF Worker

LEMMA Inductive == IInv /\ [Next]_vars => IInv'
<1> SUFFICES ASSUME IInv, [Next]_vars PROVE IInv' OBVIOUS
<1> USE PollerAssumption
<1>1. CASE UNCHANGED vars
  BY <1>1 DEF vars, rows, workers, IInv, Types, InHand, Marked, SoleUnlessLapsed, Held, Holds
<1>2. ASSUME NEW r \in Replicas, Worker(r) \/ ClaimLost(r) \/ WriteFails(r) \/ Crash(r)
      PROVE  IInv'
  BY <1>2, WorkerStep
<1>3. ASSUME NEW r \in Replicas, Shutdown(r) PROVE IInv'
  <2>1. UNCHANGED <<until, pc, batch, coin, lapsed>> BY <1>3 DEF Shutdown, rows
  <2>2. Types' /\ InHand' BY <2>1 DEF IInv, Types, InHand
  <2> QED BY <2>1, <2>2, QuietKeeps DEF Holds
<1>4. ASSUME NEW c \in Coins, Pause(c) \/ Resume(c) PROVE IInv'
  <2>1. UNCHANGED <<until, pc, batch, coin, lapsed>> BY <1>4 DEF Pause, Resume, workers
  <2>2. Types' /\ InHand' BY <2>1 DEF IInv, Types, InHand
  <2> QED BY <2>1, <2>2, QuietKeeps DEF Holds
<1>5. ASSUME NEW c \in Coins, ResetInterval(c) PROVE IInv'
  <2>1. /\ UNCHANGED <<pc, batch, coin>>
        /\ until' = [until EXCEPT ![c] = 0]
        /\ Lapse({c})
    BY <1>5 DEF ResetInterval, workers
  <2>2. Types' BY <2>1 DEF IInv, Types, Lapse
  <2>3. \A d \in Coins : d \in {c} \/ (until[d] > 0 => until'[d] > 0)
    BY <2>1 DEF IInv, Types
  <2> QED BY <2>1, <2>2, <2>3, LapseKeeps
<1>6. CASE Tick
  <2> DEFINE gone == {c \in Coins : until[c] > 0 /\ until'[c] = 0}
  <2>1. /\ UNCHANGED <<pc, batch, coin>>
        /\ until' = [c \in Coins |-> Elapse(until[c])]
        /\ Lapse(gone)
    BY <1>6 DEF Tick, workers
  <2>2. until' \in [Coins -> Nat] BY <2>1 DEF IInv, Types, Elapse
  <2>3. lapsed' \subseteq Coins BY <2>1 DEF IInv, Types, Lapse
  <2>4. Types' BY <2>1, <2>2, <2>3 DEF IInv, Types
  <2>5. \A c \in Coins : c \in gone \/ (until[c] > 0 => until'[c] > 0)
    BY <2>2 DEF IInv, Types
  <2> HIDE DEF gone
  <2> QED BY <2>1, <2>4, <2>5, LapseKeeps
<1> QED BY <1>1, <1>2, <1>3, <1>4, <1>5, <1>6 DEF Next

\* Two replicas work on one coin only after a claim outlived its marker or an
\* operator took the marker away (claim_due_coins and the unfenced writes).
THEOREM ClaimsExclude == Spec => []SoleUnlessLapsed
<1>1. IInv => SoleUnlessLapsed BY DEF IInv
<1> QED BY InitIInv, Inductive, <1>1, PTL DEF Spec

\* Whoever holds a coin without a lapse holds it under a running marker.
THEOREM HoldersAreMarked == Spec => []Marked
<1>1. IInv => Marked BY DEF IInv
<1> QED BY InitIInv, Inductive, <1>1, PTL DEF Spec

-----------------------------------------------------------------------------
(* Answers.                                                                *)

\* Interest counts what cannot be read as nothing.
LEMMA InterestIs ==
  ASSUME NEW row \in DerivItem
  PROVE  Interest(row) = IF row.interest = -1 THEN 0 ELSE row.interest
<1>1. row.interest \in {-1, 0, 1}
  BY DEF DerivItem
<1> QED
  BY <1>1 DEF Interest, Max

\* The order of the naturals as the relation whose descents are finite.
LEMMA LeastNat ==
  ASSUME NEW S, S \subseteq Nat, S # {}
  PROVE  \E n \in S : \A m \in S : n <= m
<1>1. PICK n \in S : \A m \in S : ~(<<m, n>> \in OpToRel(<, Nat))
  BY ONLY S \subseteq Nat, S # {}, WFMin, NatLessThanWellFounded, Zenon
<1>2. OpToRel(<, Nat) = {ss \in Nat \X Nat : ss[1] < ss[2]}
  BY DEF OpToRel
<1>3. ASSUME NEW m \in S PROVE n <= m
  <2>1. ~(<<m, n>> \in {ss \in Nat \X Nat : ss[1] < ss[2]})
    BY <1>1, <1>2, Zenon
  <2>2. ~(m < n)
    BY <2>1
  <2> QED
    BY <2>2
<1> QED
  BY <1>3

\* Of some rows of an answer one is the last.
LEMMA LastRow ==
  ASSUME NEW k \in Nat, NEW S, S \subseteq 1..k, S # {}
  PROVE  \E n \in S : \A m \in S : m <= n
<1> DEFINE T == {k - n : n \in S}
<1>1. T \subseteq Nat /\ T # {}
  <2>1. ASSUME NEW n \in S PROVE k - n \in Nat
    <3>1. n \in 1..k
      OBVIOUS
    <3> QED
      BY <3>1
  <2> QED
    BY <2>1
<1>2. PICK t \in T : \A u \in T : t <= u
  BY <1>1, LeastNat
<1>3. PICK n \in S : t = k - n
  OBVIOUS
<1>4. ASSUME NEW m \in S PROVE m <= n
  <2>1. k - n <= k - m
    BY <1>2, <1>3
  <2>2. m \in 1..k /\ n \in 1..k
    OBVIOUS
  <2> QED
    BY <2>1, <2>2
<1> QED
  BY <1>4

\* Whatever rows select_deriv_ticker looks at, one has the most interest and of those the
\* last symbol: one step for the interest, one for the symbol, one for the place.
LEMMA MostIsThere ==
  ASSUME NEW k \in Nat, NEW items \in [1..k -> DerivItem], NEW S, S \subseteq 1..k, S # {}
  PROVE  \E n \in S : \A m \in S \ {n} :
           LET Key(x) == <<Interest(items[x]), items[x].symbol, x>> IN
           \/ Key(m)[1] < Key(n)[1]
           \/ Key(m)[1] = Key(n)[1] /\ (Key(m)[2] < Key(n)[2] \/ (Key(m)[2] = Key(n)[2] /\ m < n))
<1> DEFINE I(n) == Interest(items[n])
           Y(n) == items[n].symbol
<1>1. \A n \in S : I(n) \in 0..1 /\ Y(n) \in 1..3 /\ n \in Nat
  <2>1. ASSUME NEW n \in S PROVE I(n) \in 0..1 /\ Y(n) \in 1..3 /\ n \in Nat
    <3>1. items[n] \in DerivItem /\ n \in Nat
      OBVIOUS
    <3>2. items[n].interest \in {-1, 0, 1} /\ items[n].symbol \in 1..3
      BY <3>1 DEF DerivItem
    <3> QED
      BY <3>1, <3>2, InterestIs
  <2> QED
    BY <2>1
<1> HIDE DEF I, Y
<1>2. PICK i \in S : \A m \in S : I(m) <= I(i)
  <2>1. CASE \E m \in S : I(m) = 1
    BY <2>1, <1>1
  <2>2. CASE \A m \in S : I(m) # 1
    <3>1. \A m \in S : I(m) = 0
      <4>1. ASSUME NEW m \in S PROVE I(m) = 0
        BY <1>1, <2>2
      <4> QED
        BY <4>1
    <3>2. PICK x \in S : TRUE
      OBVIOUS
    <3>3. \A m \in S : I(m) <= I(x)
      BY <3>1
    <3> QED
      BY <3>2, <3>3
  <2> QED
    BY <2>1, <2>2
<1> DEFINE A == {m \in S : I(m) = I(i)}
<1>3. i \in A
  OBVIOUS
<1>4. \E y \in A : \A m \in A : Y(m) <= Y(y)
  <2>1. \A m \in A : Y(m) = 1 \/ Y(m) = 2 \/ Y(m) = 3
    BY <1>1
  <2> HIDE DEF A
  <2>2. CASE \E m \in A : Y(m) = 3
    BY <2>1, <2>2
  <2>3. CASE (\A m \in A : Y(m) # 3) /\ \E m \in A : Y(m) = 2
    BY <2>1, <2>3
  <2>4. CASE \A m \in A : Y(m) = 1
    BY <1>3, <2>4
  <2> QED
    BY <2>1, <2>2, <2>3, <2>4
<1>5. PICK y \in A : \A m \in A : Y(m) <= Y(y)
  BY <1>4
<1> DEFINE B == {m \in A : Y(m) = Y(y)}
<1>6. PICK n \in B : \A m \in B : m <= n
  <2>1. B \subseteq 1..k /\ B # {}
    OBVIOUS
  <2> QED
    BY <2>1, LastRow
<1>7. ASSUME NEW m \in S, m # n
      PROVE  \/ I(m) < I(n)
             \/ I(m) = I(n) /\ (Y(m) < Y(n) \/ (Y(m) = Y(n) /\ m < n))
  <2>1. n \in S /\ I(n) = I(i) /\ Y(n) = Y(y)
    OBVIOUS
  <2>2. CASE I(m) # I(i)
    BY <2>1, <2>2, <1>1, <1>2
  <2>3. CASE I(m) = I(i) /\ Y(m) # Y(y)
    <3>1. Y(m) <= Y(y)
      BY <2>3, <1>5
    <3> QED
      BY <2>1, <2>3, <3>1, <1>1
  <2>4. CASE I(m) = I(i) /\ Y(m) = Y(y)
    <3>1. m <= n
      BY <2>4, <1>6
    <3>2. m \in Nat /\ n \in Nat
      BY <1>1, <2>1
    <3>3. m < n
      BY <1>7, <3>1, <3>2
    <3> QED
      BY <2>1, <2>4, <3>3
  <2> QED
    BY <2>2, <2>3, <2>4
<1> QED
  BY <1>7 DEF I, Y

\* What the derivative of one answer is.
OfBase(items, one) ==
  LET fits == {n \in DOMAIN items : items[n].symbol # 2} IN
  /\ one.symbol # 2
  /\ \A n \in fits : items[n].venue = Venue => one.venue = Venue
  /\ \A n \in fits : items[n].venue = one.venue \/ one.venue = OtherVenue =>
       \/ one.interest > Interest(items[n])
       \/ one.interest = Interest(items[n]) /\ one.symbol >= items[n].symbol

LEMMA DerivativeIs ==
  ASSUME NEW k \in Nat, NEW items \in [1..k -> DerivItem], DerivativeOf(items).ok
  PROVE  OfBase(items, DerivativeOf(items).made[1])
<1> DEFINE fits  == {n \in DOMAIN items : Denotes(items[n].symbol)}
           there == {n \in fits : items[n].venue = Venue}
           those == IF there = {} THEN fits ELSE there
           n == Chosen(items)
           one == items[n]
<1>1. fits # {} /\ DerivativeOf(items).made = <<one>> /\ one.interest >= 0
  BY DEF DerivativeOf
<1>2. those \subseteq 1..k /\ those # {}
  BY <1>1
<1>3. /\ n \in those
      /\ \A m \in those \ {n} :
           \/ Interest(items[m]) < Interest(items[n])
           \/ Interest(items[m]) = Interest(items[n]) /\
                (items[m].symbol < items[n].symbol \/ (items[m].symbol = items[n].symbol /\ m < n))
  <2> DEFINE T == those
  <2> HIDE DEF T
  <2>1. \E x \in T : \A m \in T \ {x} :
          LET Key(z) == <<Interest(items[z]), items[z].symbol, z>> IN
          \/ Key(m)[1] < Key(x)[1]
          \/ Key(m)[1] = Key(x)[1] /\ (Key(m)[2] < Key(x)[2] \/ (Key(m)[2] = Key(x)[2] /\ m < x))
    <3>1. T \subseteq 1..k /\ T # {}
      BY <1>2 DEF T
    <3> QED
      BY <3>1, MostIsThere
  <2>2. n = CHOOSE x \in T : \A m \in T \ {x} :
          LET Key(z) == <<Interest(items[z]), items[z].symbol, z>> IN
          \/ Key(m)[1] < Key(x)[1]
          \/ Key(m)[1] = Key(x)[1] /\ (Key(m)[2] < Key(x)[2] \/ (Key(m)[2] = Key(x)[2] /\ m < x))
    BY Zenon DEF Chosen, T
  <2> QED
    BY <2>1, <2>2 DEF T
<1>4. one \in DerivItem
  BY <1>2, <1>3
<1>5. one.interest \in 0..1 /\ one.symbol \in 1..3 /\ Interest(one) = one.interest
  <2>1. one.interest \in {-1, 0, 1} /\ one.symbol \in 1..3
    BY <1>4 DEF DerivItem
  <2> QED
    BY <1>1, <1>4, <2>1, InterestIs
<1>6. ASSUME NEW m \in those
      PROVE  \/ one.interest > Interest(items[m])
             \/ one.interest = Interest(items[m]) /\ one.symbol >= items[m].symbol
  <2> HIDE DEF n
  <2>1. items[m] \in DerivItem
    BY <1>2
  <2>2. Interest(items[m]) \in Int /\ items[m].symbol \in Int
    BY <2>1, InterestIs DEF DerivItem
  <2>3. CASE m = n
    BY <2>3, <1>5
  <2>4. CASE m # n
    BY <2>4, <1>3, <1>5, <2>2
  <2> QED
    BY <2>3, <2>4
<1>7. one.symbol # 2 /\ n \in fits
  BY <1>3 DEF Denotes
<1>8. \A m \in fits : items[m].venue = Venue => one.venue = Venue
  BY <1>3
<1>9. ASSUME NEW m \in fits, items[m].venue = one.venue \/ one.venue = OtherVenue
      PROVE  m \in those
  <2> HIDE DEF n
  <2>1. CASE there = {}
    BY <2>1
  <2>2. CASE there # {}
    <3>1. one.venue = Venue
      BY <2>2, <1>3
    <3>2. items[m] \in DerivItem
      OBVIOUS
    <3>3. items[m].venue \in {Venue, OtherVenue}
      BY <3>2 DEF DerivItem
    <3>4. items[m].venue = Venue
      BY <3>1, <3>3, <1>9
    <3> QED
      BY <3>4, <2>2
  <2> QED
    BY <2>1, <2>2
<1>10. DerivativeOf(items).made[1] = one
  BY <1>1
<1>11. fits = {m \in DOMAIN items : items[m].symbol # 2}
  BY DEF Denotes
<1> HIDE DEF n, fits, there, those
<1>12. \A m \in fits : items[m].venue = one.venue \/ one.venue = OtherVenue =>
         \/ one.interest > Interest(items[m])
         \/ one.interest = Interest(items[m]) /\ one.symbol >= items[m].symbol
  BY <1>5, <1>6, <1>9
<1> QED
  BY <1>7, <1>8, <1>10, <1>11, <1>12 DEF OfBase

\* The pairs of an answer that fit, and those of them that come before one.
FitRows(items) == {n \in DOMAIN items : items[n].fit}
Ahead(items, n) ==
  {m \in FitRows(items) : items[m].volume > items[n].volume \/ (items[m].volume = items[n].volume /\ m < n)}
Rank(items, n) == Cardinality(Ahead(items, n))

\* The fit pairs stand in a row: each has its rank, no rank is free, and of two the one with
\* more volume ranks first.
LEMMA RanksAre ==
  ASSUME NEW k \in Nat, NEW items \in [1..k -> TickerItem]
  PROVE  /\ IsFiniteSet(FitRows(items)) /\ Cardinality(FitRows(items)) \in Nat
         /\ \A n \in FitRows(items) : Rank(items, n) \in 0..(Cardinality(FitRows(items)) - 1)
         /\ \A m, n \in FitRows(items) : m # n => Rank(items, m) # Rank(items, n)
         /\ \A m, n \in FitRows(items) : Rank(items, m) < Rank(items, n) => items[m].volume >= items[n].volume
         /\ \A r \in 0..(Cardinality(FitRows(items)) - 1) : \E n \in FitRows(items) : Rank(items, n) = r
<1> DEFINE F == FitRows(items)
           A(n) == Ahead(items, n)
           R(n) == Rank(items, n)
           V(n) == items[n].volume
           K == Cardinality(F)
<1>1. F \subseteq 1..k /\ \A n \in F : V(n) \in Int /\ n \in Int
  <2>1. \A n \in 1..k : items[n] \in TickerItem
    OBVIOUS
  <2>2. \A n \in 1..k : V(n) \in Int
    BY <2>1 DEF TickerItem
  <2> QED
    BY <2>2 DEF FitRows
<1>2. IsFiniteSet(F)
  <2>1. IsFiniteSet(1..k)
    BY FS_Interval
  <2> HIDE DEF F
  <2> QED
    BY <1>1, <2>1, FS_Subset
<1>3. K \in Nat
  BY <1>2, FS_CardinalityType
<1>4. \A m, n \in F : m \in A(n) <=> V(m) > V(n) \/ (V(m) = V(n) /\ m < n)
  BY Zenon DEF Ahead
<1>5. \A n \in F : A(n) \subseteq F /\ n \notin A(n)
  <2>1. ASSUME NEW n \in F PROVE A(n) \subseteq F
    BY Zenon DEF Ahead
  <2> HIDE DEF A, V, F
  <2> QED
    BY <2>1, <1>1, <1>4
<1>6. \A m, n \in F : m \in A(n) => A(m) \subseteq A(n)
  <2> SUFFICES ASSUME NEW m \in F, NEW n \in F, m \in A(n), NEW x \in A(m) PROVE x \in A(n)
    BY Zenon
  <2> HIDE DEF A, V, F
  <2>1. x \in F
    BY <1>5
  <2> QED
    BY <2>1, <1>1, <1>4
<1>7. \A n \in F : IsFiniteSet(A(n)) /\ R(n) \in Nat /\ R(n) < K
  <2>1. ASSUME NEW n \in F PROVE IsFiniteSet(A(n)) /\ R(n) \in Nat /\ R(n) < K
    <3>1. IsFiniteSet(A(n))
      BY <1>2, <1>5, FS_Subset
    <3>2. R(n) \in Nat /\ R(n) = Cardinality(A(n))
      BY <3>1, FS_CardinalityType DEF Rank
    <3>3. A(n) # F /\ A(n) \subseteq F
      BY <1>5
    <3> HIDE DEF F, A, R
    <3>4. Cardinality(A(n)) <= Cardinality(F) /\ Cardinality(F) # Cardinality(A(n))
      BY <1>2, <3>3, FS_Subset, Zenon
    <3>5. R(n) <= K /\ R(n) # K
      BY <3>2, <3>4, Zenon
    <3> HIDE DEF K
    <3> QED
      BY <1>3, <3>1, <3>2, <3>5
  <2> QED
    BY <2>1
<1>8. \A m, n \in F : m \in A(n) => R(m) < R(n)
  <2>1. ASSUME NEW m \in F, NEW n \in F, m \in A(n) PROVE R(m) < R(n)
    <3>1. A(m) \subseteq A(n) /\ A(m) # A(n)
      BY <1>5, <1>6, <2>1
    <3>2. R(m) = Cardinality(A(m)) /\ R(n) = Cardinality(A(n))
      BY DEF Rank
    <3>3. R(m) \in Nat /\ R(n) \in Nat /\ IsFiniteSet(A(n))
      BY <1>7
    <3> HIDE DEF F, A, R
    <3>4. Cardinality(A(m)) <= Cardinality(A(n)) /\ Cardinality(A(n)) # Cardinality(A(m))
      BY <3>1, <3>3, FS_Subset, Zenon
    <3> QED
      BY <3>2, <3>3, <3>4
  <2> QED
    BY <2>1
<1>9. \A m, n \in F : m # n => m \in A(n) \/ n \in A(m)
  <2> HIDE DEF A, V, F
  <2> QED
    BY <1>1, <1>4
<1>10. \A m, n \in F : m # n => R(m) # R(n)
  <2> HIDE DEF A, V, F, R
  <2> QED
    BY <1>7, <1>8, <1>9
<1>11. \A m, n \in F : R(m) < R(n) => V(m) >= V(n)
  <2> HIDE DEF A, V, F, R
  <2>1. ASSUME NEW m \in F, NEW n \in F, R(m) < R(n) PROVE V(m) >= V(n)
    <3>1. m # n /\ n \notin A(m)
      BY <2>1, <1>7, <1>8
    <3>2. m \in A(n)
      BY <3>1, <1>9
    <3> QED
      BY <3>2, <1>1, <1>4
  <2> QED
    BY <2>1
<1>12. \A r \in 0..(K - 1) : \E n \in F : R(n) = r
  <2> DEFINE f == [n \in F |-> R(n)]
             T == 0..(K - 1)
  <2> HIDE DEF F, R, K
  <2>1. f \in [F -> T]
    BY <1>3, <1>7
  <2>2. f \in Injection(F, T)
    <3>1. \A m, n \in F : f[m] = f[n] => m = n
      BY <1>10
    <3> QED
      BY <2>1, <3>1 DEF Injection, IsInjective
  <2>3. IsFiniteSet(T) /\ Cardinality(T) = K
    <3>1. K - 1 \in Int /\ (IF 0 > K - 1 THEN 0 ELSE (K - 1) - 0 + 1) = K
      BY <1>3
    <3>2. IsFiniteSet(T) /\ Cardinality(T) = IF 0 > K - 1 THEN 0 ELSE (K - 1) - 0 + 1
      BY <3>1, FS_Interval
    <3> HIDE DEF T
    <3> QED
      BY <3>1, <3>2
  <2> HIDE DEF f, T
  <2>4. f \in Surjection(F, T)
    BY <1>2, <2>2, <2>3, FS_Injection DEF K
  <2>5. \A t \in T : \E n \in F : f[n] = t
    BY <2>4, Zenon DEF Surjection
  <2> QED
    BY <2>5 DEF f, T
<1>13. \A n \in F : R(n) \in 0..(K - 1)
  <2> HIDE DEF R, F, K
  <2> QED
    BY <1>3, <1>7
<1> QED
  BY <1>2, <1>3, <1>10, <1>11, <1>12, <1>13, Zenon

\* What is shown of the pairs of an answer.
OfMost(items, made) ==
  LET shown == ToSet(made)
      fit   == {n \in DOMAIN items : items[n].fit}
  IN /\ shown \subseteq fit /\ Cardinality(shown) = Min({ResultCap, Cardinality(fit)})
     /\ \A m \in shown, n \in fit \ shown : items[m].volume >= items[n].volume
     /\ \A m, n \in DOMAIN made : m < n => items[made[m]].volume >= items[made[n]].volume

\* The least of two numbers.
LEMMA LeastOf ==
  ASSUME NEW i \in Nat, NEW j \in Nat
  PROVE  Min({i, j}) = IF i <= j THEN i ELSE j
BY DEF Min

\* Of the pairs of an answer the first by volume are shown, as many as may be.
LEMMA TickersAre ==
  ASSUME NEW k \in Nat, NEW items \in [1..k -> TickerItem]
  PROVE  OfMost(items, TickersOf(items))
<1> DEFINE F == FitRows(items)
           R(n) == Rank(items, n)
           K == Cardinality(F)
           L == Min({ResultCap, K})
           made == TickersOf(items)
<1>1. /\ IsFiniteSet(F) /\ K \in Nat
      /\ \A n \in F : R(n) \in 0..(K - 1)
      /\ \A m, n \in F : m # n => R(m) # R(n)
      /\ \A m, n \in F : R(m) < R(n) => items[m].volume >= items[n].volume
      /\ \A r \in 0..(K - 1) : \E n \in F : R(n) = r
  BY RanksAre, Zenon
<1>2. made = [i \in 1..L |-> CHOOSE n \in F : R(n) = i - 1]
  BY Zenon DEF TickersOf, Rank, Ahead, FitRows
<1>3. L \in Nat /\ L <= K
  <2> HIDE DEF F, K
  <2>1. ResultCap \in Nat
    BY AnswersAssumption
  <2>2. L = IF ResultCap <= K THEN ResultCap ELSE K
    BY <1>1, <2>1, LeastOf
  <2> QED
    BY <1>1, <2>1, <2>2
<1> HIDE DEF F, R, K, L, made
<1>4. DOMAIN made = 1..L
  BY <1>2
<1>5. \A i \in 1..L : made[i] \in F /\ R(made[i]) = i - 1
  <2>1. ASSUME NEW i \in 1..L PROVE made[i] \in F /\ R(made[i]) = i - 1
    <3>1. \E n \in F : R(n) = i - 1
      <4>1. i - 1 \in 0..(K - 1)
        BY <1>1, <1>3
      <4> QED
        BY <1>1, <4>1
    <3>2. made[i] = CHOOSE n \in F : R(n) = i - 1
      BY <1>2
    <3> QED
      BY <3>1, <3>2
  <2> QED
    BY <2>1
<1> DEFINE shown == ToSet(made)
<1>6. shown = {made[i] : i \in 1..L}
  BY <1>4, Zenon DEF ToSet
<1>7. shown \subseteq F
  BY <1>5, <1>6
<1>8. \A n \in F : n \in shown <=> R(n) < L
  <2>1. ASSUME NEW n \in F, n \in shown PROVE R(n) < L
    <3>1. PICK i \in 1..L : n = made[i]
      BY <2>1, <1>6
    <3> QED
      BY <3>1, <1>3, <1>5
  <2>2. ASSUME NEW n \in F, R(n) < L PROVE n \in shown
    <3>1. R(n) \in Nat /\ R(n) + 1 \in 1..L
      BY <2>2, <1>1, <1>3
    <3>2. made[R(n) + 1] \in F /\ R(made[R(n) + 1]) = R(n)
      BY <3>1, <1>5
    <3>3. made[R(n) + 1] = n
      BY <3>2, <1>1
    <3> QED
      BY <3>1, <3>3, <1>6
  <2> QED
    BY <2>1, <2>2
<1>9. Cardinality(shown) = L
  <2> HIDE DEF shown
  <2>1. made \in [1..L -> shown]
    BY <1>2, <1>6
  <2>2. made \in Surjection(1..L, shown)
    BY <2>1, <1>6 DEF Surjection
  <2>3. \A i, j \in 1..L : made[i] = made[j] => i = j
    <3>1. ASSUME NEW i \in 1..L, NEW j \in 1..L, made[i] = made[j] PROVE i = j
      <4>1. i - 1 = j - 1
        BY <3>1, <1>5
      <4> QED
        BY <4>1, <1>3
    <3> QED
      BY <3>1
  <2>4. made \in Injection(1..L, shown)
    BY <2>1, <2>3 DEF Injection, IsInjective
  <2>5. IsFiniteSet(1..L) /\ Cardinality(1..L) = L
    BY <1>3, FS_Interval
  <2> QED
    BY <2>2, <2>4, <2>5, FS_Surjection
<1>10. \A m \in shown, n \in F \ shown : items[m].volume >= items[n].volume
  <2>1. ASSUME NEW m \in shown, NEW n \in F \ shown PROVE items[m].volume >= items[n].volume
    <3>1. m \in F /\ n \in F /\ R(m) < L /\ ~(R(n) < L)
      BY <1>7, <1>8
    <3>2. R(m) < R(n)
      BY <3>1, <1>1, <1>3
    <3> QED
      BY <3>1, <3>2, <1>1
  <2> QED
    BY <2>1
<1>11. \A m, n \in DOMAIN made : m < n => items[made[m]].volume >= items[made[n]].volume
  <2>1. ASSUME NEW m \in 1..L, NEW n \in 1..L, m < n PROVE items[made[m]].volume >= items[made[n]].volume
    <3>1. R(made[m]) = m - 1 /\ R(made[n]) = n - 1 /\ made[m] \in F /\ made[n] \in F
      BY <1>5
    <3>2. R(made[m]) < R(made[n])
      BY <3>1, <2>1, <1>3
    <3> QED
      BY <3>1, <3>2, <1>1
  <2> QED
    BY <2>1, <1>4
<1>12. F = {n \in DOMAIN items : items[n].fit}
  BY Zenon DEF F, FitRows
<1> QED
  BY <1>7, <1>9, <1>10, <1>11, <1>12, Zenon DEF OfMost, made, L, K

\* The inductive invariant: beside what is told, a provider that said 429 and was not waited
\* for is closed.
AnsInv ==
  /\ AnsTypeOK
  /\ call = [c \in Lanes |-> call[c]]
  /\ given \in [{"spot", "market"} -> SUBSET Int]
  /\ limited \subseteq closed
  /\ PriceHasItsTime
  /\ OneFieldOneLoss
  /\ PageIsWhole
  /\ TickersAreBest
  /\ DerivativeIsOfBase

\* An upsert keeps one row for an instant, and loses none.
LEMMA KeepIs ==
  ASSUME NEW table, NEW row, \A q, r \in table : q.ts = r.ts => q = r
  PROVE  /\ \A q, r \in Keep(table, row) : q.ts = r.ts => q = r
         /\ \A q \in table : \E r \in Keep(table, row) : r.ts = q.ts
         /\ row \in Keep(table, row)
         /\ \A q \in Keep(table, row) : q \in table \/ q = row
BY DEF Keep

\* What the kinds of answers and those who are asked for them come to.
LEMMA KindsServed ==
  ASSUME NEW p \in Names, NEW kind \in Serves[p]
  PROVE  /\ kind \in {"spot", "market", "metadata", "page", "search", "tickers", "derivatives"}
         /\ kind = "spot" => p \in {"coingecko", "binance"}
         /\ kind \in {"market", "metadata", "derivatives"} => p = "coingecko"
BY DEF Names, Serves, CoinGeckoServes, BinanceServes, BitstampServes

\* A value is kept only with a price that the upstream gave.
LEMMA PricedIs ==
  ASSUME NEW p, NEW kind, NEW status \in Statuses, NEW w,
         kind \in {"spot", "market"}, p # "bitstamp", Outcome(p, kind, status, w).ok
  PROVE  status = 200 /\ Priced(p, w)
<1>1. Body(p, kind, w) = [ok |-> Priced(p, w), made |-> <<>>]
  BY DEF Body
<1>2. CASE status = 200
  <2>1. Outcome(p, kind, status, w) = [ok |-> Priced(p, w), made |-> <<>>]
    BY <1>1, <1>2 DEF Outcome
  <2> QED
    BY <1>2, <2>1
<1>3. CASE status # 200
  BY <1>3 DEF Outcome
<1> QED
  BY <1>2, <1>3

\* The answers that are no prices.
LEMMA OutcomeIs ==
  ASSUME NEW p \in Names, NEW kind \in Serves[p], NEW w
  PROVE  /\ kind = "metadata" => Outcome(p, kind, 200, w).ok
         /\ kind = "page" => Outcome(p, kind, 200, w).made = w
         /\ kind = "tickers" => Outcome(p, kind, 200, w).made = TickersOf(w)
         /\ kind = "derivatives" => Outcome(p, kind, 200, w) = DerivativeOf(w)
BY KindsServed DEF Outcome, Body, PageOf

LEMMA AnsInitHolds == AnsInit => AnsInv
BY AnswersAssumption
   DEF AnsInit, AnsInv, AnsTypeOK, Silence, PriceHasItsTime, OneFieldOneLoss, PageIsWhole,
       TickersAreBest, DerivativeIsOfBase

\* What is made of the answer: only of a price that came with its instant, or is given
\* the one of the call.
LEMMA ReplyKeeps ==
  ASSUME AnsInv, NEW c \in Lanes, NEW status \in Statuses, call[c] # Unasked, NEW of \in 0..clock,
         NEW w, status = 200 => w \in Wires(call[c].kind), Reply(c, status, w, of)
  PROVE  AnsInv'
<1> DEFINE p == call[c].to
           kind == call[c].kind
           priced == kind \in {"spot", "market"}
           out == Outcome(p, kind, status, w)
<1>1. p \in Names /\ kind \in Serves[p]
  BY DEF AnsInv, AnsTypeOK
<1>2. PICK stored \in BOOLEAN :
        /\ ~stored => out.ok /\ priced
        /\ last' = [to |-> p, kind |-> kind, status |-> status, wire |-> w, made |-> out.made, ok |-> out.ok]
        /\ QuoteItem(kind, out.ok /\ stored, w, of) /\ MarketItem(p, kind, out.ok /\ stored, w, of)
        /\ guessed' = IF priced /\ out.ok /\ stored /\ ~w.dated THEN guessed \cup {Stamp(w, of)} ELSE guessed
        /\ given' = IF priced /\ stored /\ Readable(p, status, w) THEN [given EXCEPT ![kind] = @ \cup {of}] ELSE given
  BY DEF Reply
<1>3. /\ call' = [call EXCEPT ![c] = Unasked]
      /\ \/ closed' = closed \cup {p} /\ limited' = limited \cup {p}
         \/ closed' = closed /\ limited' = limited
      /\ clock' = clock /\ calls' = calls
  BY DEF Reply, Heard
<1>4. of \in 0..LastInstant /\ of <= clock /\ Stamp(w, of) \in 0..LastInstant /\ of <= Stamp(w, of)
      /\ (w.dated => Stamp(w, of) = of)
  BY AnswersAssumption DEF AnsInv, AnsTypeOK, Stamp
<1>5. ASSUME out.ok, priced PROVE status = 200 /\ Priced(p, w) /\ w \in PricedItem
  <2>1. status = 200 /\ Priced(p, w)
    BY <1>1, <1>5, KindsServed, PricedIs
  <2> QED
    BY <2>1, <1>5 DEF Wires
<1>6. ASSUME priced, Readable(p, status, w) PROVE out.ok /\ w.dated
  BY <1>6 DEF Readable, Outcome, Body, Priced, Reads, NeedsExtra, ReadsNumber
<1> DEFINE quoted == kind = "spot" /\ out.ok /\ stored
           valued == kind = "market" /\ out.ok /\ stored
<1>7. /\ quoted => quotes' = Keep(quotes, QuoteOf(w, of))
      /\ ~quoted => quotes' = quotes
      /\ valued => snapshots' = Keep(snapshots, SnapshotOf(p, w, of))
      /\ ~valued => snapshots' = snapshots
  BY <1>2 DEF QuoteItem, MarketItem
<1> HIDE DEF p, kind, out
<1>8. QuoteOf(w, of) \in QuoteRow /\ SnapshotOf(p, w, of) \in SnapshotRow
  <2>1. Reads(p, w.extra) \in BOOLEAN
    <3>1. ReadsNumber(w.extra) \in BOOLEAN
      BY DEF ReadsNumber
    <3>2. ReadsString(w.extra) \in BOOLEAN
      BY DEF ReadsString
    <3> QED
      BY <3>1, <3>2, Zenon DEF Reads
  <2> QED
    BY <1>4, <2>1 DEF QuoteOf, SnapshotOf, QuoteRow, SnapshotRow
<1>9. guessed \subseteq guessed' /\ ((quoted \/ valued) => w.dated \/ Stamp(w, of) \in guessed')
  BY <1>2
<1>10. \A q, r \in quotes : q.ts = r.ts => q = r
  BY DEF AnsInv, AnsTypeOK
<1>11. /\ \A q \in quotes' : q \in quotes \/ (quoted /\ q = QuoteOf(w, of))
       /\ \A q \in snapshots' : q \in snapshots \/ (valued /\ q = SnapshotOf(p, w, of))
       /\ \A q \in quotes : \E r \in quotes' : r.ts = q.ts
       /\ \A q \in snapshots : \E r \in snapshots' : r.ts = q.ts
       /\ quoted => QuoteOf(w, of) \in quotes'
       /\ valued => SnapshotOf(p, w, of) \in snapshots'
  BY <1>7 DEF Keep
<1>12. AnsTypeOK'
  <2>1. \A q, r \in quotes' : q.ts = r.ts => q = r
    BY <1>7, <1>10 DEF Keep
  <2>2. quotes' \subseteq QuoteRow /\ snapshots' \subseteq SnapshotRow
    BY <1>8, <1>11 DEF AnsInv, AnsTypeOK
  <2>3. \A d \in Lanes : call'[d] = IF d = c THEN Unasked ELSE call[d]
    BY <1>3 DEF AnsInv
  <2>4. closed' \subseteq Names /\ limited' \subseteq Names
    BY <1>1, <1>3 DEF AnsInv, AnsTypeOK
  <2> QED
    BY <1>3, <2>1, <2>2, <2>3, <2>4 DEF AnsInv, AnsTypeOK
<1>13. (call = [d \in Lanes |-> call[d]])' /\ limited' \subseteq closed'
  BY <1>3 DEF AnsInv
<1>14. given' \in [{"spot", "market"} -> SUBSET Int]
  <2>1. of \in Int
    BY <1>4
  <2> QED
    BY <1>2, <2>1 DEF AnsInv
<1>15. PriceHasItsTime'
  <2>1. ASSUME NEW q \in quotes' \cup snapshots'
        PROVE  q.price <= q.ts /\ (q.price = q.ts \/ q.ts \in guessed')
    <3>1. CASE q \in quotes \cup snapshots
      BY <3>1, <1>9 DEF AnsInv, PriceHasItsTime
    <3>2. CASE q \notin quotes \cup snapshots
      <4>1. (quoted \/ valued) /\ q.price = of /\ q.ts = Stamp(w, of)
        BY <3>2, <1>11 DEF QuoteOf, SnapshotOf
      <4> QED
        BY <4>1, <1>4, <1>9
    <3> QED
      BY <3>1, <3>2
  <2> QED
    BY <2>1 DEF PriceHasItsTime
<1>16. OneFieldOneLoss'
  <2>1. ASSUME NEW t \in given["spot"]' PROVE \E q \in quotes' : q.ts = t
    <3>1. CASE t \in given["spot"]
      BY <3>1, <1>11 DEF AnsInv, OneFieldOneLoss
    <3>2. CASE t \notin given["spot"]
      <4>1. kind = "spot" /\ stored /\ Readable(p, status, w) /\ t = of
        BY <3>2, <1>2 DEF AnsInv
      <4>2. quoted /\ QuoteOf(w, of).ts = t
        BY <4>1, <1>4, <1>6 DEF QuoteOf
      <4> QED
        BY <4>2, <1>11
    <3> QED
      BY <3>1, <3>2
  <2>2. ASSUME NEW t \in given["market"]' PROVE \E s \in snapshots' : s.ts = t
    <3>1. CASE t \in given["market"]
      BY <3>1, <1>11 DEF AnsInv, OneFieldOneLoss
    <3>2. CASE t \notin given["market"]
      <4>1. kind = "market" /\ stored /\ Readable(p, status, w) /\ t = of
        BY <3>2, <1>2 DEF AnsInv
      <4>2. valued /\ SnapshotOf(p, w, of).ts = t
        BY <4>1, <1>4, <1>6 DEF SnapshotOf
      <4> QED
        BY <4>2, <1>11
    <3> QED
      BY <3>1, <3>2
  <2>3. kind = "metadata" /\ status = 200 => out.ok
    BY <1>1, OutcomeIs DEF out
  <2> QED
    BY <1>2, <2>1, <2>2, <2>3 DEF OneFieldOneLoss
<1>17. PageIsWhole'
  <2>1. kind = "page" /\ status = 200 => out.made = w
    BY <1>1, OutcomeIs DEF out
  <2> QED
    BY <1>2, <2>1 DEF PageIsWhole
<1>18. DerivativeIsOfBase'
  <2>1. ASSUME kind = "derivatives", out.ok PROVE OfBase(w, out.made[1])
    <3>1. status = 200
      <4>1. p = "coingecko"
        BY <1>1, <2>1, KindsServed
      <4>2. ASSUME status # 200 PROVE ~out.ok
        BY <2>1, <4>1, <4>2 DEF out, Outcome
      <4> QED
        BY <2>1, <4>2
    <3>2. out = DerivativeOf(w)
      BY <1>1, <2>1, <3>1, OutcomeIs DEF out
    <3>3. w \in BoundedSeq(DerivItem, MaxRows)
      BY <2>1, <3>1 DEF Wires, Items, kind
    <3>4. PICK k \in 0..MaxRows : w \in [1..k -> DerivItem]
      BY <3>3 DEF BoundedSeq, SeqOf
    <3>5. k \in Nat
      OBVIOUS
    <3> QED
      BY <2>1, <3>2, <3>4, <3>5, DerivativeIs
  <2> QED
    BY <1>2, <2>1 DEF DerivativeIsOfBase, OfBase
<1>19. TickersAreBest'
  <2>1. ASSUME kind = "tickers", status = 200 PROVE OfMost(w, out.made)
    <3>1. out.made = TickersOf(w)
      BY <1>1, <2>1, OutcomeIs DEF out
    <3>2. w \in BoundedSeq(TickerItem, MaxRows)
      BY <2>1 DEF Wires, Items, kind
    <3>3. PICK k \in 0..MaxRows : w \in [1..k -> TickerItem]
      BY <3>2 DEF BoundedSeq, SeqOf
    <3>4. k \in Nat
      OBVIOUS
    <3> QED
      BY <3>1, <3>3, <3>4, TickersAre
  <2>2. /\ last'.kind = kind /\ last'.status = status
        /\ last'.wire = w /\ last'.made = out.made
    BY <1>2
  <2>3. ASSUME last'.kind = "tickers", last'.status = 200 PROVE OfMost(last'.wire, last'.made)
    BY <2>1, <2>2, <2>3
  <2> QED
    BY <2>3, Zenon DEF TickersAreBest, OfMost
<1> QED
  BY <1>12, <1>13, <1>14, <1>15, <1>16, <1>17, <1>18, <1>19 DEF AnsInv

\* What has no answer changes no row.
LEMMA AskKeeps ==
  ASSUME AnsInv, NEW c \in Lanes, NEW p \in Names, NEW kind \in Serves[p], Ask(c, p, kind)
  PROVE  AnsInv'
<1>1. AnsTypeOK' /\ (call = [d \in Lanes |-> call[d]])'
  BY AnswersAssumption DEF AnsInv, AnsTypeOK, Ask
<1>2. PriceHasItsTime' /\ OneFieldOneLoss' /\ PageIsWhole' /\ TickersAreBest' /\ DerivativeIsOfBase'
  BY DEF AnsInv, Ask, PriceHasItsTime, OneFieldOneLoss, PageIsWhole, TickersAreBest, DerivativeIsOfBase, Silence
<1> QED
  BY <1>1, <1>2 DEF AnsInv, Ask

LEMMA QuietAnswers ==
  ASSUME AnsInv,
         \/ \E c \in Lanes : Fail(c)
         \/ \E p \in Names : Reopened(p)
         \/ Passes
         \/ UNCHANGED ansVars
  PROVE  AnsInv'
<1>1. UNCHANGED <<quotes, snapshots, last, guessed, given>>
  BY DEF Fail, Reopened, Passes, ansVars
<1>2. PriceHasItsTime' /\ OneFieldOneLoss' /\ PageIsWhole' /\ TickersAreBest' /\ DerivativeIsOfBase'
  BY <1>1 DEF AnsInv, PriceHasItsTime, OneFieldOneLoss, PageIsWhole, TickersAreBest,
              DerivativeIsOfBase
<1>3. AnsTypeOK' /\ (call = [d \in Lanes |-> call[d]])' /\ limited' \subseteq closed'
  BY AnswersAssumption DEF AnsInv, AnsTypeOK, Fail, Reopened, Passes, ansVars
<1> QED
  BY <1>1, <1>2, <1>3 DEF AnsInv

LEMMA AnswersStep == AnsInv /\ [AnsNext]_ansVars => AnsInv'
<1> SUFFICES ASSUME AnsInv, [AnsNext]_ansVars PROVE AnsInv'
  OBVIOUS
<1>1. ASSUME NEW c \in Lanes, call[c] # Unasked, Answered(c) PROVE AnsInv'
  <2>1. PICK status \in Statuses, of \in 0..clock :
          \E w : (status = 200 => w \in Wires(call[c].kind)) /\ Reply(c, status, w, of)
    BY <1>1 DEF Answered, AnsInv, AnsTypeOK
  <2>2. PICK w : (status = 200 => w \in Wires(call[c].kind)) /\ Reply(c, status, w, of)
    BY <2>1
  <2> QED
    BY <1>1, <2>2, ReplyKeeps
<1>2. ASSUME NEW c \in Lanes, NEW p \in Names, NEW kind \in Serves[p], Ask(c, p, kind) PROVE AnsInv'
  BY <1>2, AskKeeps
<1> QED
  BY <1>1, <1>2, QuietAnswers DEF AnsNext

LEMMA AnswersInductive == AnsSpec => []AnsInv
BY AnsInitHolds, AnswersStep, PTL DEF AnsSpec

\* A provider that said 429 is not asked again before its cooldown is over (paced): whoever
\* asks looks at what closes it.
LEMMA QuietHolds == AnsSpec => QuietAfter429
<1>1. AnsInv /\ [AnsNext]_ansVars =>
        [\A c \in Lanes : call[c] = Unasked /\ call'[c] # Unasked => call'[c].to \notin limited]_ansVars
  <2> SUFFICES ASSUME AnsInv, AnsNext, NEW c \in Lanes, call[c] = Unasked, call'[c] # Unasked
               PROVE  call'[c].to \notin limited
    OBVIOUS
  <2>1. call = [d \in Lanes |-> call[d]] /\ limited \subseteq closed
    BY DEF AnsInv
  <2>2. ASSUME NEW d \in Lanes, Fail(d) \/ (call[d] # Unasked /\ Answered(d)) PROVE FALSE
    <3>1. call' = [call EXCEPT ![d] = Unasked]
      BY <2>2 DEF Fail, Answered, Reply
    <3> QED
      BY <3>1, <2>1
  <2>3. ASSUME NEW d \in Lanes, NEW p \in Names, NEW kind \in Serves[p], Ask(d, p, kind)
        PROVE  call'[c].to \notin limited
    <3>1. p \notin closed /\ call' = [call EXCEPT ![d] = [to |-> p, kind |-> kind]]
      BY <2>3 DEF Ask
    <3> QED
      BY <3>1, <2>1
  <2>4. ASSUME (\E p \in Names : Reopened(p)) \/ Passes PROVE FALSE
    BY <2>4 DEF Reopened, Passes
  <2> QED
    BY <2>2, <2>3, <2>4 DEF AnsNext
<1> QED
  BY <1>1, AnswersInductive, PTL DEF AnsSpec, QuietAfter429

\* What is stored is what the upstream said, for any calls at once and answers of any length:
\* a row is dated by its price or by the call, a readable price is stored, a page is whole,
\* the pairs are those with the most volume, the derivative is of its base, and a provider
\* that said 429 is not asked before its cooldown is over.
THEOREM AnswersHold == AnsSpec => AnswersTell
<1>1. AnsInv =>
        AnsTypeOK /\ PriceHasItsTime /\ OneFieldOneLoss /\ PageIsWhole /\ TickersAreBest /\ DerivativeIsOfBase
  BY DEF AnsInv
<1> QED
  BY <1>1, AnswersInductive, QuietHolds, PTL DEF AnswersTell
=============================================================================
