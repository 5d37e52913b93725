---------------------------- MODULE EgressProofs ----------------------------
(***************************************************************************)
(* Proofs about what leaves a replica for the providers.                   *)
(*                                                                         *)
(* Pacer, for any number of callers and replicas, and any gap, budget and  *)
(* cooldowns: slots, credits, cooldown and backlog of one provider's row.  *)
(*                                                                         *)
(* ProviderChain, for every chain, every assignment of capabilities and    *)
(* any number of workers.  What one worker holds (kind, step, position,    *)
(* answers, result) is Sound; no step of anything else touches it.         *)
(***************************************************************************)
EXTENDS Pacer, ProviderChain, FiniteSetTheorems, WellFoundedInduction, TLAPS

-----------------------------------------------------------------------------
(* The types of Pacer.                                                     *)

LEMMA ElapseFacts ==
  ASSUME NEW t \in Nat
  PROVE  Elapse(t) \in Nat /\ Elapse(t) <= t /\ (t > 0 => Elapse(t) = t - 1)
BY DEF Elapse

LEMMA InitTypes == Init => TypeOK
<1>1. Never \in Int BY PacerAssumption DEF Never
<1> QED BY <1>1, PacerAssumption DEF Init, TypeOK, Steps, Verdicts

\* last_request never lies further back than Never remembers.
Stamps == \A h \in Replicas : last[h] >= Never

LEMMA ThrottleSleepNat ==
  ASSUME TypeOK, Stamps, NEW h \in Replicas PROVE ThrottleSleep(h) \in Nat
<1>1. last[h] \in Int /\ last[h] >= -MinGap BY DEF TypeOK, Stamps, Never
<1> QED BY <1>1, PacerAssumption DEF ThrottleSleep, Larger

LEMMA StepTypes == TypeOK /\ Stamps /\ [Next]_vars => (TypeOK /\ Stamps)'
<1> SUFFICES ASSUME TypeOK, Stamps, [Next]_vars PROVE (TypeOK /\ Stamps)' OBVIOUS
<1> USE DEF TypeOK, Stamps, Goto, row, Steps, Verdicts
<1>1. ASSUME NEW c \in Callers, Throttle(c) PROVE (TypeOK /\ Stamps)'
  <2>1. Home[c] \in Replicas BY PacerAssumption
  <2>2. ThrottleSleep(Home[c]) \in Nat BY <2>1, ThrottleSleepNat
  <2>3. Never <= 0 /\ Never \in Int BY PacerAssumption DEF Never
  <2>4. ThrottleSleep(Home[c]) >= Never BY <2>2, <2>3
  <2> HIDE DEF Steps, Verdicts
  <2>5. TypeOK' BY <1>1, <2>1, <2>2 DEF Throttle, Steps, Verdicts
  <2>6. Stamps' BY <1>1, <2>1, <2>4 DEF Throttle
  <2> QED BY <2>5, <2>6
<1>2. ASSUME NEW c \in Callers,
             EnterGovernor(c) \/ Blocked(c) \/ Diagnose(c) \/ Fire(c) \/ DbError(c) \/ Drop(c)
      PROVE  (TypeOK /\ Stamps)'
  BY <1>2 DEF EnterGovernor, Blocked, Diagnose, Fire, DbError, Drop
<1>3. ASSUME NEW c \in Callers, ResetWindow(c) PROVE (TypeOK /\ Stamps)'
  BY <1>3, PacerAssumption DEF ResetWindow
<1>4. ASSUME NEW c \in Callers, Reserve(c) PROVE (TypeOK /\ Stamps)'
  <2>1. NextSlot \in Nat BY PacerAssumption DEF NextSlot
  <2> QED BY <1>4, <2>1 DEF Reserve
<1>5. ASSUME NEW c \in Callers, Answer(c) PROVE (TypeOK /\ Stamps)'
  <2>1. CooldownLen[Home[c]] \in Nat BY PacerAssumption
  <2> QED BY <1>5, <2>1 DEF Answer
<1>6. ASSUME NEW c \in Callers, SignalCooldown(c) PROVE (TypeOK /\ Stamps)'
  <2>1. Cooled(c) \in Nat BY DEF Cooled, Larger
  <2> QED BY <1>6, <2>1 DEF SignalCooldown
<1>7. CASE Tick
  <2>1. \A h \in Replicas : Larger(Never, last[h] - 1) \in Int /\ Larger(Never, last[h] - 1) >= Never
    BY PacerAssumption DEF Larger, Never
  <2>2. next' \in Nat /\ cooldown' \in Nat /\ window' \in Nat BY <1>7, ElapseFacts DEF Tick
  <2>3. wait' \in [Callers -> Nat] BY <1>7, ElapseFacts DEF Tick
  <2>4. last' \in [Replicas -> Int] /\ Stamps' BY <1>7, <2>1 DEF Tick, Never
  <2> QED BY <1>7, <2>2, <2>3, <2>4 DEF Tick
<1>8. CASE UNCHANGED vars BY <1>8 DEF vars
<1> QED BY <1>1, <1>2, <1>3, <1>4, <1>5, <1>6, <1>7, <1>8 DEF Next, Advance

\* Waits, budgets and distances stay natural numbers: the throttle never owes a
\* negative sleep and the row never remembers the past.
THEOREM TypeCorrect == Spec => []TypeOK
<1>1. Init => TypeOK /\ Stamps
  BY InitTypes, PacerAssumption DEF Init, Stamps, Never
<1> QED BY <1>1, StepTypes, PTL DEF Spec

-----------------------------------------------------------------------------
(* Slots, budget and cooldown.                                             *)

Typed == TypeOK /\ Stamps

\* Every slot still waited for was reserved from the row, so it lies at or
\* before next_allowed_at; what is reserved from there on comes a gap later.
Reserved == \A c \in Callers : Waiting(c) => wait[c] <= next

Slots == Reserved /\ SlotsSpaced

LEMMA SlotsStep ==
  ASSUME Typed, Slots, [Next]_vars
  PROVE  Slots'
<1> USE DEF Typed, TypeOK, Slots, Reserved, SlotsSpaced, Waiting, Goto
<1>1. CASE Tick
  <2>1. ASSUME NEW c \in Callers, Waiting(c)'
        PROVE  Waiting(c) /\ wait'[c] = wait[c] - 1 /\ wait'[c] <= next'
    <3>1. pc[c] = "sleeping" /\ wait'[c] = Elapse(wait[c]) /\ next' = Elapse(next)
      BY <1>1, <2>1 DEF Tick
    <3>2. wait[c] > 0 BY <2>1, <3>1, ElapseFacts
    <3> QED BY <3>1, <3>2, ElapseFacts
  <2> QED BY <2>1, PacerAssumption
<1>2. ASSUME NEW c \in Callers, Reserve(c) PROVE Slots'
  <2>1. next' = next + Gap /\ wait'[c] = next' BY <1>2 DEF Reserve, NextSlot
  <2>2. ASSUME NEW d \in Callers, d # c, Waiting(d)'
        PROVE  Waiting(d) /\ wait'[d] = wait[d] /\ wait[d] <= next
    BY <1>2, <2>2 DEF Reserve
  <2>3. \A d \in Callers : Waiting(d)' => wait'[d] <= next'
    BY <2>1, <2>2, PacerAssumption
  <2>4. ASSUME NEW d \in Callers, NEW e \in Callers, d # e, Waiting(d)', Waiting(e)'
        PROVE  wait'[d] >= wait'[e] + Gap \/ wait'[e] >= wait'[d] + Gap
    <3>1. CASE d = c BY <2>1, <2>2, <2>4, <3>1, PacerAssumption
    <3>2. CASE e = c BY <2>1, <2>2, <2>4, <3>2, PacerAssumption
    <3>3. CASE d # c /\ e # c BY <2>2, <2>4, <3>3
    <3> QED BY <3>1, <3>2, <3>3
  <2> QED BY <2>3, <2>4
<1>3. ASSUME next' = next,
             \A c \in Callers : Waiting(c)' => Waiting(c) /\ wait'[c] = wait[c]
      PROVE  Slots'
  BY <1>3
<1>4. ASSUME NEW c \in Callers,
             \/ Throttle(c) \/ EnterGovernor(c) \/ ResetWindow(c) \/ Blocked(c) \/ Diagnose(c)
             \/ Fire(c) \/ Answer(c) \/ SignalCooldown(c) \/ DbError(c) \/ Drop(c)
      PROVE  Slots'
  <2>1. next' = next
    BY <1>4 DEF row, Throttle, EnterGovernor, ResetWindow, Blocked, Diagnose, Fire, Answer,
                SignalCooldown, DbError, Drop
  <2>2. ASSUME NEW d \in Callers, Waiting(d)' PROVE Waiting(d) /\ wait'[d] = wait[d]
    BY <1>4, <2>2 DEF Throttle, EnterGovernor, ResetWindow, Blocked, Diagnose, Fire, Answer,
                SignalCooldown, DbError, Drop
  <2> QED BY <1>3, <2>1, <2>2
<1>5. CASE UNCHANGED vars BY <1>5 DEF vars, row
<1> QED BY <1>1, <1>2, <1>4, <1>5 DEF Next, Advance

LEMMA InitTyped == Init => Typed
BY InitTypes, PacerAssumption DEF Init, Typed, Stamps, Never

\* The fleet-wide gap: two requests that wait for their slots are min_gap_ms
\* apart, whoever reserved them.
THEOREM GapHolds == Spec => []SlotsSpaced
<1>1. Init => Typed /\ Slots
  BY InitTyped DEF Init, Slots, Reserved, SlotsSpaced, Waiting
<1>2. Typed /\ Slots /\ [Next]_vars => (Typed /\ Slots)'
  BY StepTypes, SlotsStep DEF Typed
<1>3. Slots => SlotsSpaced BY DEF Slots
<1> QED BY <1>1, <1>2, <1>3, PTL DEF Spec

LEMMA CreditStep ==
  ASSUME Typed, CreditCap, [Next]_vars
  PROVE  CreditCap'
<1> USE PacerAssumption DEF Typed, TypeOK, CreditCap
<1>1. ASSUME NEW c \in Callers, Reserve(c) PROVE CreditCap'
  BY <1>1 DEF Reserve, OutOfCredit
<1>2. ASSUME NEW c \in Callers, ResetWindow(c) PROVE CreditCap'
  BY <1>2 DEF ResetWindow
<1>3. ASSUME NEW c \in Callers,
             \/ Throttle(c) \/ EnterGovernor(c) \/ Blocked(c) \/ Diagnose(c)
             \/ Fire(c) \/ Answer(c) \/ SignalCooldown(c) \/ DbError(c) \/ Drop(c)
      PROVE  CreditCap'
  BY <1>3 DEF row, Throttle, EnterGovernor, Blocked, Diagnose, Fire, Answer, SignalCooldown,
              DbError, Drop
<1>4. CASE Tick BY <1>4 DEF Tick
<1>5. CASE UNCHANGED vars BY <1>5 DEF vars, row
<1> QED BY <1>1, <1>2, <1>3, <1>4, <1>5 DEF Next, Advance

\* The monthly budget is never overdrawn, however many replicas race for the
\* last credit and however they interleave with the reset.
THEOREM BudgetHolds == Spec => []CreditCap
<1>1. Init => Typed /\ CreditCap BY InitTyped, PacerAssumption DEF Init, CreditCap
<1>2. Typed /\ CreditCap /\ [Next]_vars => (Typed /\ CreditCap)'
  BY StepTypes, CreditStep DEF Typed
<1> QED BY <1>1, <1>2, PTL DEF Spec

\* A cooldown ends by time alone: signals of any length, in any order, from any
\* replica only ever prolong it.
THEOREM CooldownMonotonic == Spec => CooldownNeverShortened
<1> DEFINE A == cooldown' < cooldown =>
                  cooldown' = cooldown - 1 /\ window' = Elapse(window) /\ pc' = pc
<1>1. ASSUME Typed, [Next]_vars PROVE A
  <2>0. cooldown \in Nat /\ \A c \in Callers : wait[c] \in Nat BY <1>1 DEF Typed, TypeOK
  <2>1. CASE Tick
    <3>1. cooldown' < cooldown => cooldown' = cooldown - 1 BY <2>0, <2>1, ElapseFacts DEF Tick
    <3> QED BY <2>1, <3>1 DEF Tick
  <2>2. ASSUME NEW c \in Callers, SignalCooldown(c) PROVE A
    BY <2>0, <2>2 DEF SignalCooldown, Cooled, Larger
  <2>3. ASSUME NEW c \in Callers,
               \/ Throttle(c) \/ EnterGovernor(c) \/ ResetWindow(c) \/ Reserve(c) \/ Blocked(c)
               \/ Diagnose(c) \/ Fire(c) \/ Answer(c) \/ DbError(c) \/ Drop(c)
        PROVE  A
    <3>1. cooldown' = cooldown
      BY <2>3 DEF row, Throttle, EnterGovernor, ResetWindow, Reserve, Blocked, Diagnose, Fire,
                  Answer, DbError, Drop
    <3> QED BY <2>0, <3>1
  <2>4. CASE UNCHANGED vars BY <2>0, <2>4 DEF vars, row
  <2> QED BY <1>1, <2>1, <2>2, <2>3, <2>4 DEF Next, Advance
<1>2. Spec => []Typed
  <2>1. Typed /\ [Next]_vars => Typed' BY StepTypes DEF Typed
  <2> QED BY InitTyped, <2>1, PTL DEF Spec
<1>3. Spec => [][A]_vars BY <1>1, <1>2, PTL DEF Spec
<1> QED BY <1>3 DEF CooldownNeverShortened

\* The gap and the budget hold together, for any number of replicas.
THEOREM BothGatesHold == Spec => []GatesHold
BY GapHolds, BudgetHolds, PTL DEF GatesHold


-----------------------------------------------------------------------------
(* The backlog of the row.                                                 *)

Sleepers == {c \in Callers : Waiting(c)}

\* Slots are handed out a gap apart, so a waiting one lies a number of gaps before next.
OnGrid == \A c \in Sleepers : \E k \in Nat : next = wait[c] + k * Gap

Backlog == Typed /\ Slots /\ OnGrid /\ BacklogBounded

LEMMA SleepersFinite ==
  IsFiniteSet(Sleepers) /\ Cardinality(Sleepers) \in Nat
<1>1. Sleepers \subseteq Callers
  BY DEF Sleepers
<1>2. IsFiniteSet(Sleepers)
  BY <1>1, PacerAssumption, FS_Subset
<1>3. QED
  BY <1>2, FS_CardinalityType

LEMMA ProductOrder ==
  ASSUME NEW g \in Nat, NEW m \in Nat, NEW n \in Nat, NEW t \in Nat, t <= g * m, m <= n
  PROVE  t <= g * n
<1>1. g * m <= g * n /\ g * m \in Nat /\ g * n \in Nat
  OBVIOUS
<1>2. QED
  BY <1>1

\* One gap more.
LEMMA ProductMore ==
  ASSUME NEW g \in Nat, NEW m \in Nat, NEW t \in Nat, t <= g * m
  PROVE  t + g <= g * (m + 1)
<1>1. g * (m + 1) = g * m + g /\ g * m \in Nat
  OBVIOUS
<1>2. QED
  BY <1>1

\* One past a number of gaps is within one gap more only if one gap less holds them.
LEMMA ProductLess ==
  ASSUME NEW g \in Nat \ {0}, NEW m \in Nat, NEW k \in Nat, 1 + k * g <= g * m
  PROVE  m - 1 \in Nat /\ k * g <= g * (m - 1)
<1>1. k < m
  <2>1. SUFFICES ASSUME k >= m PROVE FALSE
    OBVIOUS
  <2>2. k * g >= m * g /\ m * g = g * m /\ k * g \in Nat /\ m * g \in Nat
    BY <2>1
  <2>3. QED
    BY <2>2
<1>2. m - 1 \in Nat /\ k <= m - 1
  BY <1>1
<1>3. k * g <= (m - 1) * g /\ (m - 1) * g = g * (m - 1)
  BY <1>2
<1>4. QED
  BY <1>2, <1>3

\* Shown by what becomes of the slots when no slot is reserved and no time passes.
LEMMA BacklogKept ==
  ASSUME Backlog, (Typed /\ Slots)', next' = next,
         \A c \in Callers : Waiting(c)' => Waiting(c) /\ wait'[c] = wait[c],
         \/ faults' = faults /\ Sleepers' = Sleepers
         \/ faults' = faults + 1 /\ \E c \in Callers : Sleepers \ {c} \subseteq Sleepers'
  PROVE  Backlog'
<1>1. OnGrid'
  BY DEF Backlog, OnGrid, Sleepers
<1>2. /\ next \in Nat /\ faults \in Nat /\ Gap \in Nat
      /\ next <= Gap * (Cardinality(Sleepers) + faults)
  BY PacerAssumption DEF Backlog, Typed, TypeOK, BacklogBounded, Sleepers
<1>3. Cardinality(Sleepers') + faults' \in Nat
      /\ Cardinality(Sleepers') + faults' >= Cardinality(Sleepers) + faults
  <2>1. IsFiniteSet(Sleepers) /\ Cardinality(Sleepers) \in Nat
    BY SleepersFinite
  <2>2. CASE faults' = faults /\ Sleepers' = Sleepers
    BY <1>2, <2>1, <2>2
  <2>3. CASE faults' = faults + 1 /\ \E c \in Callers : Sleepers \ {c} \subseteq Sleepers'
    <3>1. PICK c \in Callers : Sleepers \ {c} \subseteq Sleepers'
      BY <2>3
    <3>2. Sleepers' \subseteq Sleepers
      BY DEF Sleepers
    <3>3. IsFiniteSet(Sleepers') /\ Cardinality(Sleepers') \in Nat
      BY <2>1, <3>2, FS_Subset, FS_CardinalityType
    <3>4. IsFiniteSet(Sleepers \ {c}) /\ Cardinality(Sleepers \ {c}) <= Cardinality(Sleepers')
          /\ Cardinality(Sleepers \ {c}) \in Nat
      BY <3>1, <3>3, FS_Subset, FS_CardinalityType
    <3>5. Cardinality(Sleepers \ {c}) >= Cardinality(Sleepers) - 1
      BY <2>1, FS_RemoveElement
    <3>6. QED
      BY <1>2, <2>1, <2>3, <3>3, <3>4, <3>5
  <2>4. QED
    BY <2>2, <2>3
<1>4. next' <= Gap * (Cardinality(Sleepers') + faults')
  BY <1>2, <1>3, SleepersFinite, ProductOrder
<1>5. BacklogBounded'
  BY <1>4 DEF BacklogBounded, Sleepers
<1>6. QED
  BY <1>1, <1>5 DEF Backlog

\* A slot is handed out behind the last one.
LEMMA BacklogGrows ==
  ASSUME Backlog, (Typed /\ Slots)', NEW c \in Callers, Reserve(c)
  PROVE  Backlog'
<1> USE PacerAssumption
<1>1. /\ next' = next + Gap /\ wait'[c] = next + Gap /\ faults' = faults
      /\ pc[c] = "reserve" /\ pc'[c] = "sleeping"
      /\ \A d \in Callers \ {c} : pc'[d] = pc[d] /\ wait'[d] = wait[d]
  BY DEF Reserve, NextSlot, Goto, Backlog, Typed, TypeOK
<1>2. next \in Nat /\ Gap \in Nat \ {0} /\ faults \in Nat
  BY DEF Backlog, Typed, TypeOK
<1>3. Sleepers' = Sleepers \cup {c} /\ c \notin Sleepers
  BY <1>1, <1>2 DEF Sleepers, Waiting
<1>4. OnGrid'
  <2> SUFFICES ASSUME NEW d \in Sleepers' PROVE \E k \in Nat : next' = wait'[d] + k * Gap
    BY DEF OnGrid
  <2>1. CASE d = c
    <3>1. next' = wait'[d] + 0 * Gap
      BY <1>1, <1>2, <2>1
    <3>2. QED
      BY <3>1
  <2>2. CASE d # c
    <3>1. d \in Sleepers /\ wait'[d] = wait[d] /\ wait[d] \in Nat
      BY <1>1, <1>3, <2>2 DEF Sleepers, Backlog, Typed, TypeOK
    <3>2. PICK k \in Nat : next = wait[d] + k * Gap
      BY <3>1 DEF Backlog, OnGrid
    <3>3. (k + 1) * Gap = k * Gap + Gap /\ k * Gap \in Nat /\ k + 1 \in Nat
      BY <1>2
    <3>4. next' = wait'[d] + (k + 1) * Gap
      BY <1>1, <1>2, <3>1, <3>2, <3>3
    <3>5. QED
      BY <3>3, <3>4
  <2>3. QED
    BY <2>1, <2>2
<1>5. Cardinality(Sleepers') = Cardinality(Sleepers) + 1 /\ Cardinality(Sleepers) \in Nat
  BY <1>3, SleepersFinite, FS_AddElement
<1>6. next <= Gap * (Cardinality(Sleepers) + faults)
  BY DEF Backlog, BacklogBounded, Sleepers
<1>7. next + Gap <= Gap * (Cardinality(Sleepers) + faults + 1)
  BY <1>2, <1>5, <1>6, ProductMore
<1>8. Cardinality(Sleepers') + faults' = Cardinality(Sleepers) + faults + 1
  BY <1>1, <1>2, <1>5
<1>9. next' <= Gap * (Cardinality(Sleepers') + faults')
  BY <1>1, <1>7, <1>8
<1>10. QED
  BY <1>4, <1>9 DEF Backlog, BacklogBounded, Sleepers

\* Time takes a unit off the backlog, and a sleeper when its slot has come.
LEMMA BacklogRuns ==
  ASSUME Backlog, (Typed /\ Slots)', Tick
  PROVE  Backlog'
<1> USE PacerAssumption
<1>1. /\ next' = Elapse(next) /\ faults' = faults /\ pc' = pc
      /\ \A c \in Callers : wait'[c] = Elapse(wait[c])
  BY DEF Tick
<1>2. /\ next \in Nat /\ Gap \in Nat \ {0} /\ faults \in Nat
      /\ \A c \in Callers : wait[c] \in Nat
      /\ next <= Gap * (Cardinality(Sleepers) + faults)
  BY DEF Backlog, Typed, TypeOK, BacklogBounded, Sleepers
<1>3. \A c \in Sleepers : /\ c \in Callers /\ wait[c] > 0 /\ wait[c] <= next /\ next > 0
                          /\ wait'[c] = wait[c] - 1 /\ next' = next - 1
  BY <1>1, <1>2, ElapseFacts DEF Sleepers, Waiting, Backlog, Slots, Reserved
<1>4. \A c \in Callers : c \in Sleepers' <=> c \in Sleepers /\ wait[c] # 1
  BY <1>1, <1>2, <1>3, ElapseFacts DEF Sleepers, Waiting
<1>5. OnGrid'
  <2> SUFFICES ASSUME NEW c \in Sleepers' PROVE \E k \in Nat : next' = wait'[c] + k * Gap
    BY DEF OnGrid
  <2>1. c \in Sleepers
    BY <1>4 DEF Sleepers
  <2>2. PICK k \in Nat : next = wait[c] + k * Gap
    BY <2>1 DEF Backlog, OnGrid
  <2>3. k * Gap \in Nat /\ wait[c] \in Nat
    BY <1>2, <1>3, <2>1
  <2>4. next' = wait'[c] + k * Gap
    BY <1>2, <1>3, <2>1, <2>2, <2>3
  <2>5. QED
    BY <2>4
<1>6. next' \in Nat /\ next' <= next
  BY <1>1, <1>2, ElapseFacts
<1>7. next' <= Gap * (Cardinality(Sleepers') + faults)
  <2>1. CASE \A c \in Sleepers : wait[c] # 1
    <3>1. Sleepers' = Sleepers
      BY <1>4, <2>1 DEF Sleepers
    <3>2. QED
      BY <1>2, <1>6, <3>1, SleepersFinite
  <2>2. CASE \E c \in Sleepers : wait[c] = 1
    <3>1. PICK c \in Sleepers : wait[c] = 1
      BY <2>2
    <3>2. ASSUME NEW d \in Sleepers, d # c PROVE wait[d] # 1
      <4>1. wait[c] >= wait[d] + Gap \/ wait[d] >= wait[c] + Gap
        BY <3>2 DEF Backlog, Slots, SlotsSpaced, Sleepers
      <4>2. QED
        BY <1>2, <1>3, <3>1, <4>1
    <3>3. Sleepers' = Sleepers \ {c}
      BY <1>4, <3>1, <3>2 DEF Sleepers
    <3>4. Cardinality(Sleepers') = Cardinality(Sleepers) - 1
      BY <3>3, SleepersFinite, FS_RemoveElement
    <3>5. PICK k \in Nat : next = 1 + k * Gap
      BY <3>1 DEF Backlog, OnGrid
    <3> DEFINE m == Cardinality(Sleepers) + faults
    <3>6. m \in Nat /\ k * Gap \in Nat /\ Gap \in Nat \ {0} /\ k \in Nat
      BY <1>2, SleepersFinite
    <3>7. k * Gap <= Gap * (m - 1)
      <4>1. 1 + k * Gap <= Gap * m
        BY <1>2, <3>5
      <4> HIDE DEF m
      <4>2. QED
        BY <3>6, <4>1, ProductLess
    <3>8. next' = k * Gap
      BY <1>3, <3>1, <3>5, <3>6
    <3>9. Cardinality(Sleepers') + faults = m - 1
      BY <1>2, <3>4, SleepersFinite
    <3> HIDE DEF m
    <3>10. QED
      BY <3>7, <3>8, <3>9
  <2>3. QED
    BY <2>1, <2>2
<1>8. QED
  BY <1>1, <1>5, <1>7 DEF Backlog, BacklogBounded, Sleepers

LEMMA BacklogNext ==
  ASSUME Backlog, [Next]_vars
  PROVE  Backlog'
<1>1. (Typed /\ Slots)'
  BY StepTypes, SlotsStep DEF Backlog, Typed
<1>2. faults \in Nat
  BY DEF Backlog, Typed, TypeOK
<1>3. CASE Tick
  BY <1>1, <1>3, BacklogRuns
<1>4. ASSUME NEW c \in Callers, Reserve(c) PROVE Backlog'
  BY <1>1, <1>4, BacklogGrows
<1>5. ASSUME NEW c \in Callers,
             \/ Throttle(c) \/ EnterGovernor(c) \/ ResetWindow(c) \/ Blocked(c) \/ Diagnose(c)
             \/ Fire(c) \/ Answer(c) \/ SignalCooldown(c) \/ DbError(c)
      PROVE  Backlog'
  <2>1. next' = next
    BY <1>5 DEF row, Throttle, EnterGovernor, ResetWindow, Blocked, Diagnose, Fire, Answer,
                SignalCooldown, DbError
  <2>2. \A d \in Callers : (Waiting(d)' <=> Waiting(d)) /\ (Waiting(d)' => wait'[d] = wait[d])
    BY <1>5 DEF Throttle, EnterGovernor, ResetWindow, Blocked, Diagnose, Fire, Answer,
                SignalCooldown, DbError, Goto, Waiting, Slept, Backlog, Typed, TypeOK
  <2>3. Sleepers' = Sleepers
    BY <2>2 DEF Sleepers
  <2>4. faults' = faults \/ faults' = faults + 1
    BY <1>5 DEF Throttle, EnterGovernor, ResetWindow, Blocked, Diagnose, Fire, Answer,
                SignalCooldown, DbError
  <2>5. QED
    BY <1>1, <2>1, <2>2, <2>3, <2>4, BacklogKept
<1>6. ASSUME NEW c \in Callers, Drop(c) PROVE Backlog'
  <2>1. next' = next /\ wait' = wait /\ faults' = faults + 1
        /\ \A d \in Callers : pc'[d] = IF d = c THEN "idle" ELSE pc[d]
    BY <1>6 DEF Drop, row, Goto, Backlog, Typed, TypeOK
  <2>2. \A d \in Callers : Waiting(d)' <=> Waiting(d) /\ d # c
    BY <2>1 DEF Waiting
  <2>3. Sleepers \ {c} \subseteq Sleepers'
    BY <2>2 DEF Sleepers
  <2>4. QED
    BY <1>1, <2>1, <2>2, <2>3, BacklogKept
<1>7. CASE UNCHANGED vars
  BY <1>1, <1>7 DEF vars, row, Backlog, OnGrid, BacklogBounded, Sleepers, Waiting
<1>8. QED
  BY <1>3, <1>4, <1>5, <1>6, <1>7 DEF Next, Advance

LEMMA BacklogInit == Init => Backlog
<1> SUFFICES ASSUME Init PROVE Backlog
  OBVIOUS
<1>1. Sleepers = {} /\ next = 0 /\ faults = 0
  BY DEF Init, Sleepers, Waiting
<1>2. Cardinality(Sleepers) = 0
  BY <1>1, FS_EmptySet
<1>3. next <= Gap * (Cardinality(Sleepers) + faults)
  BY <1>1, <1>2, PacerAssumption
<1>4. Typed /\ Slots
  BY InitTyped DEF Init, Slots, Reserved, SlotsSpaced, Waiting
<1>5. QED
  BY <1>1, <1>3, <1>4 DEF Backlog, OnGrid, BacklogBounded, Sleepers

\* next_allowed_at never runs further ahead than one gap for each caller that waits and for
\* each slot that was paid for and not used.
THEOREM BacklogHolds == Spec => []BacklogBounded
<1>1. Backlog => BacklogBounded
  BY DEF Backlog
<1> QED
  BY BacklogInit, BacklogNext, <1>1, PTL DEF Spec



-----------------------------------------------------------------------------
(* ProviderChain: what a worker holds.                                     *)

\* The answers of a walk of kind k that stands at n of the chain.
Walked(k, n, s) ==
  /\ n \in Capable(k)
  /\ \A m \in Capable(k) : m < n => s[Chain[m]] \notin {"none", "data"}
  /\ \A i \in Positions : i >= n => s[Chain[i]] = "none"

\* What a caller holds fits together.
Sound(k, st, n, s, r) ==
  /\ st = "outer" => ~Tried(k)
  /\ st = "gate" => Tried(k)
  /\ \A p \in Providers : s[p] \notin IF Tried(k) THEN {"empty"} ELSE {"refused", "unpaced"}
  /\ \A m, i \in Positions :
       m < i /\ m \in Capable(k) /\ s[Chain[i]] # "none" => s[Chain[m]] \notin {"none", "data"}
  /\ st # "idle" => r = "none" /\ Walked(k, n, s)
  /\ r = "empty" => \A p \in Supports[OhlcRange] : s[p] = "empty"
  /\ Tried(k) /\ r \in {"skip", "transient"} => \A m \in Capable(k) : s[Chain[m]] # "none"
  /\ Tried(k) /\ r = "transient" => Cause(s)

Holds(w) == Sound(kind[w], step[w], at[w], said[w], result[w])

ChainInv == ChainTypeOK /\ \A w \in Workers : Holds(w)

-----------------------------------------------------------------------------
(* The chain.                                                              *)

\* Positions are numbers and the chain names providers at them.
LEMMA ChainFacts ==
  /\ Len(Chain) \in Nat /\ Positions \subseteq Nat
  /\ \A n \in Positions : Chain[n] \in Providers
  /\ \A p \in Providers : \E n \in Positions : p = Chain[n]
  /\ \A k \in Kinds : Capable(k) \subseteq Positions
<1>1. Chain \in Seq(Providers)
  BY ChainAssumption
<1>2. Len(Chain) \in Nat
  BY <1>1
<1> QED
  BY <1>2 DEF Positions, Providers, Capable

\* The order of the naturals as the relation whose descents are finite.
LEMMA NatOrder ==
  ASSUME NEW S, S \subseteq Nat, S # {}
  PROVE  \E n \in S : \A m \in S : n <= m
<1>1. PICK n \in S : \A m \in S : ~(<<m, n>> \in OpToRel(<, Nat))
  BY WFMin, NatLessThanWellFounded
<1>2. OpToRel(<, Nat) = {ss \in Nat \X Nat : ss[1] < ss[2]}
  BY DEF OpToRel
<1>3. ASSUME NEW m \in S PROVE n <= m
  <2>1. ~(<<m, n>> \in {ss \in Nat \X Nat : ss[1] < ss[2]})
    BY <1>1, <1>2, Zenon
  <2>2. ~(m < n)
    BY <2>1
  <2> QED
    BY <2>2
<1> QED
  BY <1>3

\* A set of positions has a least one: where the walk goes first and next.
LEMMA LeastIs ==
  ASSUME NEW S, S \subseteq Positions, S # {}
  PROVE  Least(S) \in S /\ \A m \in S : Least(S) <= m
<1>1. \E n \in S : \A m \in S : n <= m
  BY NatOrder, ChainFacts
<1> QED
  BY <1>1 DEF Least

\* And a greatest one: whose error decides.
LEMMA GreatestIs ==
  ASSUME NEW S, S \subseteq Positions, S # {}
  PROVE  \E n \in S : \A m \in S : m <= n
<1> DEFINE T == {Len(Chain) - n : n \in S}
<1>1. T \subseteq Nat /\ T # {}
  <2>1. ASSUME NEW n \in S PROVE Len(Chain) - n \in Nat
    <3>1. n \in 1..Len(Chain)
      BY DEF Positions
    <3> QED
      BY <3>1, ChainFacts
  <2> QED
    BY <2>1
<1>2. PICK t \in T : \A u \in T : t <= u
  BY <1>1, NatOrder
<1>4. PICK n \in S : t = Len(Chain) - n
  OBVIOUS
<1>5. ASSUME NEW m \in S PROVE m <= n
  <2>1. t <= Len(Chain) - m
    BY <1>2
  <2> QED
    BY <2>1, <1>4, ChainFacts
<1> QED
  BY <1>5

\* LastOf tells whether anybody said one of A, and then gives one that was said.
LEMMA LastOfIs ==
  ASSUME NEW s \in [Providers -> Answers], NEW A, "none" \notin A
  PROVE  /\ Heard(s, A) => LastOf(s, A) \in A /\ \E p \in Providers : s[p] = LastOf(s, A)
         /\ ~Heard(s, A) => LastOf(s, A) = "none"
<1> DEFINE N == {n \in Positions : s[Chain[n]] \in A}
<1>1. ASSUME Heard(s, A)
      PROVE  LastOf(s, A) \in A /\ \E p \in Providers : s[p] = LastOf(s, A)
  <2>1. N # {}
    BY <1>1, ChainFacts DEF Heard
  <2>2. \E n \in N : \A m \in N : m <= n
    BY <2>1, GreatestIs
  <2> DEFINE n == CHOOSE i \in N : \A m \in N : m <= i
  <2>3. n \in N
    BY <2>2
  <2>4. LastOf(s, A) = s[Chain[n]]
    BY <2>1 DEF LastOf
  <2> HIDE DEF n
  <2> QED
    BY <2>3, <2>4, ChainFacts
<1>2. ASSUME ~Heard(s, A) PROVE LastOf(s, A) = "none"
  <2>1. N = {}
    BY <1>2, ChainFacts DEF Heard
  <2> QED
    BY <2>1 DEF LastOf
<1> QED
  BY <1>1, <1>2
-----------------------------------------------------------------------------
(* What a walk comes to.                                                   *)

\* The alphabet, with its classes apart.
LEMMA AnswerFacts ==
  /\ "none" \notin FetchErrors \cup Successes \cup {"refused", "unpaced"}
  /\ FetchErrors \cup Successes \cup {"refused", "unpaced"} \subseteq Answers
BY DEF FetchErrors, Successes, Answers

\* A worker makes one of five things of a walk; empty, only of a range request that
\* met no data and no error; an attempt, only of one whose error has a cause.
LEMMA VerdictIs ==
  ASSUME NEW k \in Kinds, NEW s \in [Providers -> Answers]
  PROVE  /\ Verdict(k, s) \in Results \ {"none", "permanent"}
         /\ Verdict(k, s) # "done" => ~Answered(k, s)
         /\ Verdict(k, s) = "empty" => k = OhlcRange /\ ~Heard(s, FetchErrors)
         /\ /\ Verdict(k, s) = "transient" /\ Tried(k)
            /\ Heard(s, FetchErrors \cup {"refused", "unpaced"})
            => Cause(s)
<1> DEFINE G == {"refused", "unpaced"}
<1>1. /\ Heard(s, FetchErrors) => /\ LastOf(s, FetchErrors) \in FetchErrors
                                  /\ \E p \in Providers : s[p] = LastOf(s, FetchErrors)
      /\ ~Heard(s, FetchErrors) => LastOf(s, FetchErrors) = "none"
  BY LastOfIs, AnswerFacts
<1>2. /\ Heard(s, G) => LastOf(s, G) \in G /\ \E p \in Providers : s[p] = LastOf(s, G)
      /\ ~Heard(s, G) => LastOf(s, G) = "none"
  BY LastOfIs
<1>3. /\ Verdict(k, s) \in Results \ {"none", "permanent"}
      /\ Verdict(k, s) # "done" => ~Answered(k, s)
  BY DEF Verdict, Results
<1>4. Verdict(k, s) = "empty" => k = OhlcRange /\ ~Heard(s, FetchErrors)
  BY <1>1, AnswerFacts DEF Verdict
<1>5. ASSUME Verdict(k, s) = "transient", Tried(k), Heard(s, FetchErrors \cup G)
      PROVE  Cause(s)
  <2>1. CASE Heard(s, FetchErrors)
    <3>1. LastOf(s, FetchErrors) \in FetchErrors \ {"cooled"}
      BY <1>5, <1>1, <2>1, AnswerFacts DEF Verdict
    <3> QED
      BY <3>1, <1>1, <2>1 DEF Cause, Heard
  <2>2. CASE ~Heard(s, FetchErrors)
    <3>1. Heard(s, G)
      BY <1>5, <2>2 DEF Heard
    <3>2. LastOf(s, G) # "refused"
      BY <1>5, <1>1, <2>2 DEF Verdict, Tried
    <3>3. LastOf(s, G) = "unpaced"
      BY <3>1, <3>2, <1>2
    <3> QED
      BY <3>1, <3>3, <1>2 DEF Cause, Heard
  <2> QED
    BY <2>1, <2>2
<1> QED
  BY <1>3, <1>4, <1>5

\* The answer a of the provider at n, added to what a walk of kind k has heard.
Admissible(k, a) ==
  /\ a \in FetchErrors \cup Successes \cup {"refused", "unpaced"}
  /\ a \notin IF Tried(k) THEN {"empty"} ELSE {"refused", "unpaced"}

\* A walk of kind k whose last answer is a, at n.
After(k, n, a, t) ==
  /\ t \in [Providers -> Answers] /\ t[Chain[n]] = a /\ n \in Capable(k)
  /\ \A p \in Providers : t[p] \notin IF Tried(k) THEN {"empty"} ELSE {"refused", "unpaced"}
  /\ \A m, i \in Positions :
       m < i /\ m \in Capable(k) /\ t[Chain[i]] # "none" => t[Chain[m]] \notin {"none", "data"}
  /\ \A m \in Capable(k) : m <= n => t[Chain[m]] # "none"
  /\ \A i \in Positions : i > n => t[Chain[i]] = "none"

\* With one more answer the order is kept, and everything up to n has answered.
LEMMA HearsInOrder ==
  ASSUME NEW k \in Kinds, NEW n \in Positions, NEW s \in [Providers -> Answers],
         NEW st \in {"gate", "fetch"}, NEW r, Sound(k, st, n, s, r),
         NEW a, Admissible(k, a),
         NEW t, t = [s EXCEPT ![Chain[n]] = a]
  PROVE  After(k, n, a, t) /\ r = "none"
<1>1. /\ n \in Capable(k) /\ r = "none"
      /\ \A m \in Capable(k) : m < n => s[Chain[m]] \notin {"none", "data"}
      /\ \A i \in Positions : i >= n => s[Chain[i]] = "none"
  BY DEF Sound, Walked
<1>2. a \in Answers \ {"none"}
  BY AnswerFacts DEF Admissible
<1>3. Chain[n] \in Providers /\ t \in [Providers -> Answers] /\ t[Chain[n]] = a
  BY <1>2, ChainFacts
<1>4. \A m \in Positions : m # n => t[Chain[m]] = s[Chain[m]]
  BY <1>3, ChainFacts, ChainAssumption
<1>5. \A p \in Providers : t[p] \notin IF Tried(k) THEN {"empty"} ELSE {"refused", "unpaced"}
  <2>1. \A p \in Providers : t[p] = a \/ t[p] = s[p]
    OBVIOUS
  <2> QED
    BY <2>1 DEF Sound, Admissible
<1>6. n \in Nat /\ Positions \subseteq Nat /\ Capable(k) \subseteq Positions
  BY ChainFacts
<1>7. \A m \in Capable(k) : m < n => t[Chain[m]] \notin {"none", "data"}
  BY <1>1, <1>4, <1>6
<1>8. \A i \in Positions : i > n => t[Chain[i]] = "none"
  BY <1>1, <1>4, <1>6
<1>9. ASSUME NEW m \in Capable(k), m <= n PROVE t[Chain[m]] # "none"
  <2> m \in Nat /\ n \in Nat
    BY <1>6
  <2>1. CASE m < n
    BY <2>1, <1>7
  <2>2. CASE m = n
    BY <2>2, <1>2, <1>3
  <2> QED
    BY <2>1, <2>2, <1>9
<1>10. \A m, i \in Positions :
         m < i /\ m \in Capable(k) /\ t[Chain[i]] # "none" => t[Chain[m]] \notin {"none", "data"}
  BY <1>6, <1>7, <1>8
<1> QED
  BY <1>1, <1>3, <1>5, <1>8, <1>9, <1>10 DEF After

\* The walk that ends with that answer leaves a sound result.
LEMMA EndIsSound ==
  ASSUME NEW k \in Kinds, NEW n \in Positions, NEW s \in [Providers -> Answers],
         NEW st \in {"gate", "fetch"}, NEW r, Sound(k, st, n, s, r),
         NEW a, Admissible(k, a),
         NEW t, t = [s EXCEPT ![Chain[n]] = a],
         Answered(k, t) \/ Later(k, n) = {}
  PROVE  Sound(k, "idle", n, t, Verdict(k, t))
<1> DEFINE v == Verdict(k, t)
<1> After(k, n, a, t)
  BY HearsInOrder
<1>1. /\ t \in [Providers -> Answers] /\ t[Chain[n]] = a /\ n \in Capable(k)
      /\ \A p \in Providers : t[p] \notin IF Tried(k) THEN {"empty"} ELSE {"refused", "unpaced"}
      /\ \A m, i \in Positions :
           m < i /\ m \in Capable(k) /\ t[Chain[i]] # "none" => t[Chain[m]] \notin {"none", "data"}
      /\ \A m \in Capable(k) : m <= n => t[Chain[m]] # "none"
      /\ \A i \in Positions : i > n => t[Chain[i]] = "none"
  BY DEF After
<1>2. Capable(k) \subseteq Positions /\ Positions \subseteq Nat /\ Chain[n] \in Providers
  BY ChainFacts
<1>3. /\ v # "done" => ~Answered(k, t)
      /\ v = "empty" => k = OhlcRange /\ ~Heard(t, FetchErrors)
      /\ v = "transient" /\ Tried(k) /\ Heard(t, FetchErrors \cup {"refused", "unpaced"}) => Cause(t)
  BY <1>1, VerdictIs
<1>4. v # "done" => \A m \in Capable(k) : t[Chain[m]] # "none"
  BY <1>1, <1>2, <1>3 DEF Later
<1>5. ASSUME v = "empty", NEW p \in Supports[OhlcRange] PROVE t[p] = "empty"
  <2>1. k = OhlcRange /\ ~Tried(k)
    BY <1>3, <1>5 DEF Tried
  <2>2. p \in Providers /\ t[p] \in Answers
    BY <1>1, ChainAssumption
  <2>3. PICK m \in Positions : p = Chain[m]
    BY <2>2, ChainFacts
  <2>4. t[p] # "none"
    BY <1>4, <1>5, <2>1, <2>3 DEF Capable
  <2>5. t[p] \notin FetchErrors /\ t[p] # "data"
    BY <1>3, <1>5, <2>2 DEF Heard, Answered
  <2>6. t[p] \notin {"refused", "unpaced"}
    BY <1>1, <2>1, <2>2
  <2> QED
    BY <2>2, <2>4, <2>5, <2>6 DEF Answers, FetchErrors
<1>6. ASSUME v = "transient", Tried(k) PROVE Cause(t)
  <2>1. a \notin Successes
    <3>1. a # "data"
      BY <1>1, <1>2, <1>3, <1>6 DEF Answered, Heard
    <3> QED
      BY <3>1, <1>6 DEF Admissible, Successes
  <2>2. a \in FetchErrors \cup {"refused", "unpaced"}
    BY <2>1 DEF Admissible
  <2>3. Heard(t, FetchErrors \cup {"refused", "unpaced"})
    BY <2>2, <1>1, <1>2 DEF Heard
  <2> QED
    BY <2>3, <1>3, <1>6
<1>7. v \in {"skip", "transient"} => v # "done"
  OBVIOUS
<1>8. v = Verdict(k, t)
  OBVIOUS
<1> HIDE DEF v
<1>9. Sound(k, "idle", n, t, v)
  BY <1>1, <1>4, <1>5, <1>6, <1>7 DEF Sound
<1> QED
  BY <1>8, <1>9

\* The walk that goes on stands at the next capable provider.
LEMMA NextIsSound ==
  ASSUME NEW k \in Kinds, NEW n \in Positions, NEW s \in [Providers -> Answers],
         NEW st \in {"gate", "fetch"}, NEW r, Sound(k, st, n, s, r),
         NEW a, Admissible(k, a),
         NEW t, t = [s EXCEPT ![Chain[n]] = a],
         ~Answered(k, t), Later(k, n) # {}
  PROVE  Sound(k, IF Tried(k) THEN "gate" ELSE "fetch", Least(Later(k, n)), t, r)
<1> DEFINE l == Least(Later(k, n))
<1> After(k, n, a, t) /\ r = "none"
  BY HearsInOrder
<1>1. /\ t \in [Providers -> Answers] /\ n \in Capable(k)
      /\ \A p \in Providers : t[p] \notin IF Tried(k) THEN {"empty"} ELSE {"refused", "unpaced"}
      /\ \A m, i \in Positions :
           m < i /\ m \in Capable(k) /\ t[Chain[i]] # "none" => t[Chain[m]] \notin {"none", "data"}
      /\ \A m \in Capable(k) : m <= n => t[Chain[m]] # "none"
      /\ \A i \in Positions : i > n => t[Chain[i]] = "none"
  BY DEF After
<1>2. Capable(k) \subseteq Positions /\ Positions \subseteq Nat /\ \A i \in Positions : Chain[i] \in Providers
  BY ChainFacts
<1>3. l \in Later(k, n) /\ \A m \in Later(k, n) : l <= m
  <2>1. Later(k, n) \subseteq Positions
    BY <1>2 DEF Later
  <2> QED
    BY <2>1, LeastIs
<1>4. l \in Capable(k) /\ l > n /\ \A m \in Capable(k) : m > n => l <= m
  BY <1>3 DEF Later
<1> HIDE DEF l
<1>5. ASSUME NEW m \in Capable(k), m < l PROVE t[Chain[m]] \notin {"none", "data"}
  <2>1. m \in Nat /\ n \in Nat /\ l \in Nat
    BY <1>2, <1>4
  <2>2. m <= n
    BY <2>1, <1>4, <1>5
  <2> QED
    BY <2>2, <1>1, <1>2 DEF Answered, Heard
<1>6. \A i \in Positions : i >= l => t[Chain[i]] = "none"
  BY <1>1, <1>2, <1>4
<1>7. Walked(k, l, t)
  BY <1>4, <1>5, <1>6 DEF Walked
<1>8. l = Least(Later(k, n))
  BY DEF l
<1> QED
  BY <1>1, <1>7, <1>8 DEF Sound

-----------------------------------------------------------------------------
(* The steps.                                                              *)

\* The part of the type a call writes.
CallTyped ==
  /\ step \in [Workers -> {"idle", "outer", "gate", "fetch"}]
  /\ kind \in [Workers -> Kinds] /\ at \in [Workers -> Positions \cup {1}]
  /\ said \in [Workers -> [Providers -> Answers]] /\ result \in [Workers -> Results]
  /\ alldown \in BOOLEAN

\* A work item starts a walk at the first capable provider, or fails for good.
LEMMA BeginKeeps ==
  ASSUME ChainInv, NEW w \in Workers, NEW k \in Kinds, Begin(w, k)
  PROVE  ChainInv'
<1> USE DEF Begin, Put
<1>1. CallTyped' /\ ChainTypeOK'
  <2>1. Unasked \in [Providers -> Answers]
    BY DEF Unasked, Answers
  <2>2. Capable(k) # {} => Least(Capable(k)) \in Positions
    BY LeastIs, ChainFacts
  <2> QED
    BY <2>1, <2>2 DEF ChainInv, ChainTypeOK, CallTyped, Results, outside, registry
<1>2. ASSUME NEW v \in Workers, v # w PROVE Holds(v)'
  BY <1>2 DEF ChainInv, Holds, ChainTypeOK
<1>3. Holds(w)'
  <2>1. kind'[w] = k /\ said'[w] = Unasked
    BY DEF ChainInv, ChainTypeOK
  <2>2. \A p \in Providers : Unasked[p] = "none"
    BY DEF Unasked
  <2>3. CASE Capable(k) = {}
    <3>1. step'[w] = "idle" /\ result'[w] = "permanent" /\ at'[w] = at[w]
      BY <2>3 DEF ChainInv, ChainTypeOK
    <3> QED
      BY <3>1, <2>1, <2>2, ChainFacts DEF Holds, Sound
  <2>4. CASE Capable(k) # {}
    <3> DEFINE l == Least(Capable(k))
    <3>1. l \in Capable(k) /\ \A m \in Capable(k) : l <= m
      BY <2>4, LeastIs, ChainFacts
    <3>2. step'[w] = (IF Tried(k) THEN "gate" ELSE "outer") /\ result'[w] = "none" /\ at'[w] = l
      BY <2>4 DEF ChainInv, ChainTypeOK
    <3> HIDE DEF l
    <3>3. Capable(k) \subseteq Nat
      BY ChainFacts
    <3>4. Walked(k, l, Unasked)
      BY <3>1, <3>3, <2>2, ChainFacts DEF Walked
    <3>5. Sound(k, IF Tried(k) THEN "gate" ELSE "outer", l, Unasked, "none")
      BY <3>4, <2>2, ChainFacts DEF Sound
    <3> QED
      BY <3>2, <3>5, <2>1 DEF Holds
  <2> QED
    BY <2>3, <2>4
<1> QED
  BY <1>1, <1>2, <1>3 DEF ChainInv

\* An answer: the walk goes on or ends.
LEMMA HearKeeps ==
  ASSUME ChainInv, NEW w \in Workers, NEW a, Admissible(kind[w], a),
         step[w] \in {"gate", "fetch"}, Hear(w, a), kind' = kind
  PROVE  CallTyped' /\ \A v \in Workers : Holds(v)'
<1> DEFINE k == kind[w]
           n == at[w]
           s == said[w]
           t == [s EXCEPT ![Chain[n]] = a]
<1>1. /\ k \in Kinds /\ s \in [Providers -> Answers] /\ step \in [Workers -> {"idle", "outer", "gate", "fetch"}]
      /\ at \in [Workers -> Positions \cup {1}] /\ said \in [Workers -> [Providers -> Answers]]
      /\ result \in [Workers -> Results] /\ kind \in [Workers -> Kinds] /\ alldown \in BOOLEAN
  BY DEF ChainInv, ChainTypeOK
<1>2. Sound(k, step[w], n, s, result[w])
  BY DEF ChainInv, Holds
<1>3. n \in Positions
  BY <1>1, <1>2, ChainFacts DEF Sound, Walked
<1>4. t \in [Providers -> Answers]
  BY <1>1, AnswerFacts DEF Admissible
<1>5. said' = [said EXCEPT ![w] = t]
  BY DEF Hear, Put
<1> HIDE DEF t
<1>6. CASE Answered(k, t) \/ Later(k, n) = {}
  <2>1. /\ step' = [step EXCEPT ![w] = "idle"] /\ result' = [result EXCEPT ![w] = Verdict(k, t)]
        /\ alldown' = Evidence(t) /\ at' = at
    BY <1>6 DEF Hear, End, Put, t
  <2>2. Verdict(k, t) \in Results
    BY <1>1, <1>4, VerdictIs
  <2>3. Sound(k, "idle", n, t, Verdict(k, t))
    BY <1>1, <1>2, <1>3, <1>6, EndIsSound DEF t
  <2>4. Evidence(t) \in BOOLEAN
    BY <1>1 DEF Evidence
  <2>5. CallTyped'
    BY <1>1, <1>4, <1>5, <2>1, <2>2, <2>4 DEF CallTyped
  <2>6. Holds(w)'
    BY <1>1, <1>5, <2>1, <2>3 DEF Holds
  <2>7. ASSUME NEW v \in Workers, v # w PROVE Holds(v)'
    BY <1>1, <1>5, <2>1, <2>7 DEF ChainInv, Holds
  <2> QED
    BY <2>5, <2>6, <2>7
<1>7. CASE ~(Answered(k, t) \/ Later(k, n) = {})
  <2> DEFINE l == Least(Later(k, n))
             st == IF Tried(k) THEN "gate" ELSE "fetch"
  <2>1. /\ at' = [at EXCEPT ![w] = l] /\ step' = [step EXCEPT ![w] = st]
        /\ result' = result /\ alldown' = alldown
    BY <1>7 DEF Hear, Put, t
  <2>2. l \in Positions
    BY <1>1, <1>7, LeastIs, ChainFacts DEF Later
  <2>3. Sound(k, st, l, t, result[w])
    BY <1>1, <1>2, <1>3, <1>7, NextIsSound DEF t
  <2> st \in {"gate", "fetch"}
    OBVIOUS
  <2> HIDE DEF l, st
  <2>4. CallTyped'
    BY <1>1, <1>4, <1>5, <2>1, <2>2 DEF CallTyped
  <2>5. Holds(w)'
    BY <1>1, <1>5, <2>1, <2>3 DEF Holds
  <2>6. ASSUME NEW v \in Workers, v # w PROVE Holds(v)'
    BY <1>1, <1>5, <2>1, <2>6 DEF ChainInv, Holds
  <2> QED
    BY <2>4, <2>5, <2>6
<1> QED
  BY <1>6, <1>7

\* The outer slot of the OHLC chains: refused, lost, or the walk begins.
LEMMA OuterKeeps ==
  ASSUME ChainInv, NEW w \in Workers, Outer(w)
  PROVE  ChainInv'
<1>1. step[w] = "outer" /\ Holds(w) /\ kind' = kind /\ at' = at /\ said' = said
  BY DEF Outer, ChainInv
<1>2. ChainTypeOK'
  <2>1. upsets' \in 0..MaxUpsets
    BY ChainAssumption DEF Outer, Upset, ChainInv, ChainTypeOK
  <2>2. step' \in [Workers -> {"idle", "outer", "gate", "fetch"}] /\ result' \in [Workers -> Results]
    BY DEF Outer, End, Put, Results, ChainInv, ChainTypeOK
  <2> QED
    BY <1>1, <2>1, <2>2 DEF Outer, outside, registry, ChainInv, ChainTypeOK
<1>3. ASSUME NEW v \in Workers, v # w PROVE Holds(v)'
  BY <1>3 DEF ChainInv, ChainTypeOK, Holds, Outer, End, Put
<1>4. Holds(w)'
  <2>1. \/ step'[w] = "idle" /\ result'[w] \in {"skip", "transient"}
        \/ step'[w] = "fetch" /\ result'[w] = result[w]
    BY DEF ChainInv, ChainTypeOK, Outer, End, Put
  <2> QED
    BY <1>1, <2>1 DEF Holds, Sound
<1> QED
  BY <1>2, <1>3, <1>4 DEF ChainInv

\* The gate of chain_try: an answer if it refuses or fails.
LEMMA GateKeeps ==
  ASSUME ChainInv, NEW w \in Workers, Gate(w)
  PROVE  ChainInv'
<1>1. step[w] = "gate" /\ Holds(w) /\ kind' = kind /\ failing' = failing /\ quiet' = quiet
      /\ refused' = refused /\ down' = down
  BY DEF Gate, ChainInv, outside
<1>2. Tried(kind[w])
  BY <1>1 DEF Holds, Sound
<1>3. upsets' \in 0..MaxUpsets
  BY ChainAssumption DEF Gate, ChainInv, ChainTypeOK, Upset
<1>4. CASE Hear(w, "refused") \/ Hear(w, "unpaced")
  <2>1. \A a \in {"refused", "unpaced"} : Admissible(kind[w], a)
    BY <1>2 DEF Admissible
  <2>2. CallTyped' /\ \A v \in Workers : Holds(v)'
    BY <1>1, <1>4, <2>1, HearKeeps
  <2> QED
    BY <1>1, <1>3, <2>2 DEF ChainInv, ChainTypeOK, CallTyped
<1>5. CASE step' = Put(step, w, "fetch") /\ UNCHANGED <<at, said, result, alldown>>
  <2>1. ChainTypeOK'
    BY <1>1, <1>3, <1>5 DEF ChainInv, ChainTypeOK, Put
  <2>2. \A v \in Workers : Holds(v)'
    BY <1>1, <1>2, <1>5 DEF ChainInv, ChainTypeOK, Holds, Sound, Put
  <2> QED
    BY <2>1, <2>2 DEF ChainInv
<1> QED
  BY <1>4, <1>5 DEF Gate

\* A request: always an answer.
LEMMA FetchKeeps ==
  ASSUME ChainInv, NEW w \in Workers, Fetch(w)
  PROVE  ChainInv'
<1> DEFINE p == Chain[at[w]]
<1>1. step[w] = "fetch" /\ Holds(w) /\ kind' = kind /\ down' = down
  BY DEF Fetch, ChainInv
<1>2. at[w] \in Positions /\ p \in Providers
  BY <1>1, ChainFacts DEF Holds, Sound, Walked, ChainInv, ChainTypeOK
<1> HIDE DEF p
<1>3. PICK a \in FetchErrors \cup Successes : Hear(w, a) /\ Record(p, a) /\ (a = "empty" => ~Tried(kind[w]))
  BY DEF Fetch, FetchErrors, p
<1>4. Admissible(kind[w], a)
  BY <1>3 DEF Admissible, FetchErrors, Successes
<1>5. CallTyped' /\ \A v \in Workers : Holds(v)'
  BY <1>1, <1>3, <1>4, HearKeeps
<1>6. failing' \subseteq Providers
  BY <1>2, <1>3 DEF Record, ChainInv, ChainTypeOK
<1>7. quiet' \in [Providers -> 0..Threshold]
  <2>1. quiet' = [quiet EXCEPT ![p] = 0] \/ quiet' = quiet
    BY <1>3 DEF Record
  <2>2. 0 \in 0..Threshold /\ quiet \in [Providers -> 0..Threshold]
    BY ChainAssumption DEF ChainInv, ChainTypeOK
  <2> QED
    BY <2>1, <2>2
<1>8. refused' \subseteq Providers /\ upsets' \in 0..MaxUpsets
  BY <1>2, ChainAssumption DEF Fetch, Upset, ChainInv, ChainTypeOK, p
<1> QED
  BY <1>1, <1>5, <1>6, <1>7, <1>8 DEF ChainInv, ChainTypeOK, CallTyped

\* The upstreams, the fleet and time touch no call.
LEMMA OthersKeep ==
  ASSUME ChainInv,
         \/ \E p \in Providers : Refuse(p) \/ Reopen(p) \/ Outage(p) \/ Return(p)
         \/ ChainTick \/ UNCHANGED chainVars
  PROVE  ChainInv'
<1>1. UNCHANGED call /\ alldown' = alldown /\ failing' = failing
  BY DEF Refuse, Reopen, Outage, Return, ChainTick, chainVars, call, registry
<1>2. refused' \subseteq Providers /\ down' \subseteq Providers
  BY DEF Refuse, Reopen, Outage, Return, ChainTick, chainVars, outside, ChainInv, ChainTypeOK
<1>3. upsets' \in 0..MaxUpsets
  BY ChainAssumption DEF Refuse, Reopen, Outage, Return, ChainTick, chainVars, Upset, ChainInv, ChainTypeOK
<1>4. quiet' \in [Providers -> 0..Threshold]
  <2>1. CASE quiet' = quiet
    BY <2>1 DEF ChainInv, ChainTypeOK
  <2>2. CASE ChainTick
    BY <2>2, ChainAssumption DEF ChainTick, Aged, ChainInv, ChainTypeOK
  <2> QED
    BY <2>1, <2>2 DEF Refuse, Reopen, Outage, Return, chainVars, registry
<1>5. ChainTypeOK'
  BY <1>1, <1>2, <1>3, <1>4 DEF ChainInv, ChainTypeOK, call
<1>6. \A v \in Workers : Holds(v)'
  BY <1>1 DEF ChainInv, Holds, call
<1> QED
  BY <1>5, <1>6 DEF ChainInv

\* The registry is empty and nobody has called.
LEMMA InitHolds == ChainInit => ChainInv
<1> SUFFICES ASSUME ChainInit PROVE ChainInv
  OBVIOUS
<1>1. Unasked \in [Providers -> Answers] /\ \A p \in Providers : Unasked[p] = "none"
  BY DEF Unasked, Answers
<1>2. ChainTypeOK
  <2>1. 0 \in 0..MaxUpsets /\ quiet \in [Providers -> 0..Threshold]
    BY ChainAssumption DEF ChainInit
  <2> QED
    BY <1>1, <2>1, ChainAssumption DEF ChainInit, ChainTypeOK, Results
<1>3. ASSUME NEW w \in Workers PROVE Holds(w)
  BY <1>1, ChainFacts DEF ChainInit, Holds, Sound
<1> QED
  BY <1>2, <1>3 DEF ChainInv

\* Every step keeps what every caller holds sound.
LEMMA StepKeeps == ChainInv /\ [ChainNext]_chainVars => ChainInv'
BY BeginKeeps, OuterKeeps, GateKeeps, FetchKeeps, OthersKeep DEF ChainNext, Step

-----------------------------------------------------------------------------
(* The theorems.                                                           *)

\* The invariant of the chain and of the registry, for every chain and any callers.
THEOREM CallsAreSound == ChainSpec => []ChainInv
BY InitHolds, StepKeeps, PTL DEF ChainSpec

\* ProviderChain is type correct.
THEOREM ChainTypeCorrect == ChainSpec => []ChainTypeOK
<1>1. ChainInv => ChainTypeOK
  BY DEF ChainInv
<1> QED
  BY <1>1, CallsAreSound, PTL

\* An empty answer of chain_fetch_ohlc_range means that every capable provider said so.
THEOREM EmptyHolds == ChainSpec => []EmptyIsProven
<1>1. ChainInv => EmptyIsProven
  BY DEF ChainInv, Holds, Sound, EmptyIsProven
<1> QED
  BY <1>1, CallsAreSound, PTL

\* No capable provider of the chain is passed over.
THEOREM OrderHolds == ChainSpec => []InOrder
<1>1. ChainInv => InOrder
  BY DEF ChainInv, Holds, Sound, InOrder
<1> QED
  BY <1>1, CallsAreSound, PTL

\* chain_try's callers are charged only for a failure of a provider or of the pacer.
THEOREM ChargeHolds == ChainSpec => []ChargedForCause
<1>1. ChainInv => ChargedForCause
  BY DEF ChainInv, Holds, Sound, ChargedForCause
<1> QED
  BY <1>1, CallsAreSound, PTL

\* Nobody is passed over and nothing found means that everybody looked.
THEOREM AnswersHold == ChainSpec => []AnswersAreEarned
BY EmptyHolds, OrderHolds, PTL DEF AnswersAreEarned
=============================================================================
