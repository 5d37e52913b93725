----------------------------- MODULE AlarmProofs -----------------------------
(***************************************************************************)
(* Proofs about the alarm center: that an alarm outlives one upset under   *)
(* the replica that keeps seeing its condition, whatever the interval and  *)
(* however many replicas there are (AlarmReconciler), and that conditions  *)
(* are told by what they are derived from (AlarmConditions).               *)
(***************************************************************************)
EXTENDS AlarmReconciler, AlarmConditions, FiniteSetTheorems, SequenceTheorems, TLAPS

-----------------------------------------------------------------------------
(* The sweeps: the type of the state.                                      *)

\* Two intervals and a little more fit into the time to live.
LEMMA TtlCovers == Ttl \in Nat /\ Ttl > 2 * Interval
BY AlarmAssumption DEF Ttl

\* A time that runs down stays in its range.
LEMMA DownIn ==
  ASSUME NEW n \in Nat, NEW t \in 0..n
  PROVE  Down(t) \in 0..n
BY DEF Down

\* The markers of a sweep are markers.
LEMMA MarkerType ==
  ASSUME TypeOK, NEW r \in Replicas
  PROVE  Marker(r) \in [Sustained -> -1..Sustain]
BY AlarmAssumption DEF TypeOK, Marker

\* What a sweep can find is reported.
LEMMA SignalType ==
  ASSUME TypeOK, NEW r \in Replicas
  PROVE  Signal(r) \subseteq Reported
BY AlarmAssumption DEF TypeOK, Signal

\* An upset is one more, within the bound.
LEMMA PaidType ==
  ASSUME TypeOK, NEW S, Paid(S)
  PROVE  upsets' \in 0..MaxUpsets /\ upsets' >= upsets
BY AlarmAssumption DEF TypeOK, Paid, Upset

LEMMA TypeInit == Init => TypeOK
BY AlarmAssumption, TtlCovers DEF Init, TypeOK, Reported

LEMMA TypeNext == TypeOK /\ [Next]_vars => TypeOK'
<1> SUFFICES ASSUME TypeOK, [Next]_vars PROVE TypeOK'
  OBVIOUS
<1> USE AlarmAssumption, TtlCovers
<1>1. CASE UNCHANGED vars
  BY <1>1 DEF vars, world, sweeper, TypeOK
<1>2. ASSUME NEW r \in Replicas, Read(r) PROVE TypeOK'
  <2>1. PICK failed \in SUBSET Queried :
          /\ Paid(failed)
          /\ desired' = [desired EXCEPT ![r] = Found(r, failed)]
          /\ kept' = [kept EXCEPT ![r] = @ \ failed]
    BY <1>2 DEF Read
  <2>2. Found(r, failed) \subseteq Reported
    BY SignalType DEF Found
  <2>3. desired' \in [Replicas -> SUBSET Reported] /\ kept' \in [Replicas -> SUBSET Reported]
    BY <2>1, <2>2 DEF TypeOK
  <2>4. since' \in [Replicas -> [Sustained -> -1..Sustain]]
    BY <1>2, MarkerType DEF Read, TypeOK
  <2>5. left' \in [Conditions -> 0..Ttl]
    BY <1>2 DEF Read, TypeOK
  <2>6. upsets' \in 0..MaxUpsets
    BY <2>1, PaidType
  <2>7. QED
    BY <1>2, <2>3, <2>4, <2>5, <2>6 DEF Read, TypeOK, world
<1>3. ASSUME NEW r \in Replicas, Deliver(r) PROVE TypeOK'
  <2>1. PICK lost \in SUBSET desired[r], cleared \in SUBSET FastClear(r) :
          /\ Paid(lost)
          /\ left' = [c \in Conditions |->
                        IF c \in desired[r] \ lost THEN Ttl
                        ELSE IF c \in cleared THEN 0 ELSE left[c]]
          /\ kept' = [q \in Replicas |->
                        (kept[q] \cup IF q = r THEN (desired[r] \ lost) \cap Signal(r) ELSE {})
                          \ cleared]
    BY <1>3 DEF Deliver
  <2>2. left' \in [Conditions -> 0..Ttl]
    BY <2>1 DEF TypeOK
  <2>3. kept' \in [Replicas -> SUBSET Reported]
    BY <2>1, SignalType DEF TypeOK
  <2>4. upsets' \in 0..MaxUpsets
    BY <2>1, PaidType
  <2>5. QED
    BY <1>3, <2>2, <2>3, <2>4 DEF Deliver, TypeOK, world
<1>4. ASSUME NEW r \in Replicas, Stall(r) PROVE TypeOK'
  BY <1>4 DEF Stall, Upset, TypeOK, world
<1>5. ASSUME NEW r \in Replicas, Exit(r) PROVE TypeOK'
  BY <1>5 DEF Exit, Upset, TypeOK
<1>6. ASSUME NEW r \in Replicas, StartFails(r) PROVE TypeOK'
  BY <1>6 DEF StartFails, TypeOK, world, sweeper
<1>7. ASSUME NEW r \in Replicas, Start(r) PROVE TypeOK'
  BY <1>7 DEF Start, TypeOK, world
<1>8. ASSUME NEW c \in Queried, FleetChanges(c) PROVE TypeOK'
  BY <1>8 DEF FleetChanges, Differ, TypeOK, sweeper
<1>9. ASSUME NEW r \in Replicas, NEW c \in Reported \ Queried, OwnChanges(r, c) PROVE TypeOK'
  BY <1>9 DEF OwnChanges, Differ, TypeOK, sweeper
<1>10. CASE Tick
  <2>1. due' \in [Replicas -> 0..Interval] /\ left' \in [Conditions -> 0..Ttl]
    BY <1>10, DownIn DEF Tick, TypeOK
  <2>2. since' \in [Replicas -> [Sustained -> -1..Sustain]]
    BY <1>10 DEF Tick, TypeOK
  <2>3. QED
    BY <1>10, <2>1, <2>2 DEF Tick, TypeOK, world
<1>11. QED
  BY <1>1, <1>2, <1>3, <1>4, <1>5, <1>6, <1>7, <1>8, <1>9, <1>10 DEF Next

\* The state of the sweeps keeps its type (the columns and maps of Reconciler).
THEOREM SweepsTypeCorrect == Spec => []TypeOK
BY TypeInit, TypeNext, PTL DEF Spec

-----------------------------------------------------------------------------
(* The sweeps: alarms stand.  What is left of an alarm covers the rest of  *)
(* the interval and, until the upset is used up, one interval more.        *)

\* What an upset may already have cost.
Slack == IF upsets = 0 THEN 0 ELSE Interval

\* A sweep stalls for an upset, and one that does not is over by the next unit.
SweepsAreShort ==
  \A r \in Replicas :
    /\ r \in stalled => pc[r] = "sweep" /\ upsets > 0
    /\ pc[r] = "sweep" /\ r \notin stalled => due[r] = Interval

\* What a sweep found has been there for long enough.
FoundIsSustained ==
  \A r \in Replicas : \A c \in desired[r] \cap Sustained : since[r][c] >= Sustain

\* A replica that keeps an alarm runs, sees the condition, and raises it in this sweep.
KeptIsSeen ==
  \A r \in Replicas : \A c \in kept[r] :
    /\ pc[r] # "off" /\ c \in Signal(r)
    /\ c \in Sustained => since[r][c] >= Sustain
    /\ pc[r] = "sweep" => c \in desired[r]

\* The next sweep comes in time, with due units to go or, when it has begun, none.
LeftCovers ==
  \A r \in Replicas : \A c \in kept[r] :
    /\ left[c] + Interval + Slack >= Ttl
    /\ pc[r] = "idle" \/ r \in stalled => left[c] + Interval + Slack >= Ttl + due[r]

StandInv == TypeOK /\ SweepsAreShort /\ FoundIsSustained /\ KeptIsSeen /\ LeftCovers

\* With one upset at most, what is covered is not used up.
LEMMA CoveredStands ==
  ASSUME MaxUpsets \in {0, 1}, StandInv
  PROVE  KeptAlarmsStand
<1> SUFFICES ASSUME NEW r \in Replicas, NEW c \in kept[r] PROVE left[c] > 0
  BY DEF KeptAlarmsStand
<1>1. left[c] + Interval + Slack >= Ttl
  BY DEF StandInv, LeftCovers
<1>2. left[c] \in Nat /\ Slack \in {0, Interval} /\ Interval \in Nat
  BY AlarmAssumption, TtlCovers DEF StandInv, TypeOK, Slack, Reported
<1>3. QED
  BY <1>1, <1>2, TtlCovers

\* An upset costs what it may, and only once.
LEMMA SlackGrows ==
  ASSUME MaxUpsets \in {0, 1}, TypeOK, NEW S, Paid(S)
  PROVE  /\ Slack' >= Slack /\ Slack \in Nat /\ Slack' \in Nat
         /\ S # {} => upsets = 0 /\ Slack = 0 /\ Slack' = Interval
BY AlarmAssumption DEF TypeOK, Paid, Upset, Slack

LEMMA StandInit == Init => StandInv
BY TypeInit DEF Init, StandInv, SweepsAreShort, FoundIsSustained, KeptIsSeen, LeftCovers

LEMMA StandRead ==
  ASSUME MaxUpsets \in {0, 1}, StandInv, TypeOK', NEW r \in Replicas, Read(r)
  PROVE  StandInv'
<1> USE AlarmAssumption DEF StandInv
<1>1. PICK failed \in SUBSET Queried :
        /\ Paid(failed)
        /\ desired' = [desired EXCEPT ![r] = Found(r, failed)]
        /\ kept' = [kept EXCEPT ![r] = @ \ failed]
  BY DEF Read
<1>2. /\ pc[r] = "idle" /\ due[r] = 0 /\ due' = [due EXCEPT ![r] = Interval]
      /\ pc' = [pc EXCEPT ![r] = "sweep"] /\ since' = [since EXCEPT ![r] = Marker(r)]
      /\ stalled' = stalled /\ fleet' = fleet /\ own' = own
      /\ \A c \in Reported : left'[c] = left[c]
  BY DEF Read, world, TypeOK, Reported
<1>3. upsets' >= upsets /\ upsets \in Nat /\ upsets' \in Nat /\ r \notin stalled
  BY <1>1, <1>2, PaidType DEF TypeOK, SweepsAreShort
<1>4. SweepsAreShort'
  BY <1>2, <1>3 DEF SweepsAreShort, TypeOK
<1>5. \A c \in Found(r, failed) : c \in Signal(r) /\ c \notin failed
                                  /\ (c \in Sustained => Marker(r)[c] >= Sustain)
  BY DEF Found
<1>6. FoundIsSustained'
  BY <1>1, <1>2, <1>5 DEF FoundIsSustained, TypeOK
<1>7. ASSUME NEW c \in kept[r], c \notin failed
      PROVE  c \in Found(r, failed) /\ (c \in Sustained => Marker(r)[c] >= Sustain)
  BY <1>7 DEF KeptIsSeen, Found, Marker, TypeOK
<1>8. KeptIsSeen'
  <2> SUFFICES ASSUME NEW q \in Replicas, NEW c \in kept'[q]
               PROVE  /\ pc'[q] # "off" /\ c \in Signal(q)'
                      /\ c \in Sustained => since'[q][c] >= Sustain
                      /\ pc'[q] = "sweep" => c \in desired'[q]
    BY DEF KeptIsSeen
  <2>1. c \in kept[q] /\ (q = r => c \notin failed)
    BY <1>1 DEF TypeOK
  <2>2. c \in Signal(q)'
    BY <1>2, <2>1 DEF KeptIsSeen, Signal
  <2>3. CASE q = r
    BY <1>1, <1>2, <1>7, <2>1, <2>2, <2>3 DEF TypeOK
  <2>4. CASE q # r
    BY <1>1, <1>2, <2>1, <2>2, <2>4 DEF TypeOK, KeptIsSeen
  <2>5. QED
    BY <2>3, <2>4
<1>9. LeftCovers'
  <2> SUFFICES ASSUME NEW q \in Replicas, NEW c \in kept'[q]
               PROVE  /\ left'[c] + Interval + Slack' >= Ttl
                      /\ pc'[q] = "idle" \/ q \in stalled'
                           => left'[c] + Interval + Slack' >= Ttl + due'[q]
    BY DEF LeftCovers
  <2>1. c \in kept[q] /\ c \in Reported /\ left'[c] = left[c] /\ left[c] \in Nat
    BY <1>1, <1>2 DEF TypeOK, Reported
  <2>2. Slack' >= Slack /\ Slack \in Nat /\ Slack' \in Nat
    BY <1>1, SlackGrows
  <2>3. due \in [Replicas -> Nat] /\ Ttl \in Nat /\ Interval \in Nat
    BY TtlCovers DEF TypeOK
  <2>4. q # r => due'[q] = due[q] /\ pc'[q] = pc[q]
    BY <1>2 DEF TypeOK
  <2>5. q = r => pc'[q] # "idle" /\ q \notin stalled'
    BY <1>2, <1>3 DEF TypeOK
  <2>6. QED
    BY <1>2, <2>1, <2>2, <2>3, <2>4, <2>5 DEF LeftCovers
<1>10. QED
  BY <1>4, <1>6, <1>8, <1>9

LEMMA StandDeliver ==
  ASSUME MaxUpsets \in {0, 1}, StandInv, TypeOK', NEW r \in Replicas, Deliver(r)
  PROVE  StandInv'
<1> USE AlarmAssumption DEF StandInv
<1>1. PICK lost \in SUBSET desired[r], cleared \in SUBSET FastClear(r) :
        /\ Paid(lost)
        /\ left' = [c \in Conditions |->
                      IF c \in desired[r] \ lost THEN Ttl
                      ELSE IF c \in cleared THEN 0 ELSE left[c]]
        /\ kept' = [q \in Replicas |->
                      (kept[q] \cup IF q = r THEN (desired[r] \ lost) \cap Signal(r) ELSE {})
                        \ cleared]
  BY DEF Deliver
<1>2. /\ pc[r] = "sweep" /\ pc' = [pc EXCEPT ![r] = "idle"]
      /\ desired' = [desired EXCEPT ![r] = {}] /\ stalled' = stalled \ {r}
      /\ UNCHANGED <<fleet, own, due, since>>
  BY DEF Deliver, world
<1>3. upsets' >= upsets /\ upsets \in Nat /\ upsets' \in Nat
  BY <1>1, PaidType DEF TypeOK
<1>4. SweepsAreShort'
  BY <1>2, <1>3 DEF SweepsAreShort, TypeOK
<1>5. FoundIsSustained'
  BY <1>2 DEF FoundIsSustained, TypeOK
<1>6. \A q \in Replicas : \A c \in kept'[q] :
        /\ c \notin cleared
        /\ c \in kept[q] \/ (q = r /\ c \in desired[r] \ lost /\ c \in Signal(r))
  BY <1>1
<1>7. \A q \in Replicas : Signal(q)' = Signal(q)
  BY <1>2 DEF Signal
<1>8. KeptIsSeen'
  <2> SUFFICES ASSUME NEW q \in Replicas, NEW c \in kept'[q]
               PROVE  /\ pc'[q] # "off" /\ c \in Signal(q)
                      /\ c \in Sustained => since[q][c] >= Sustain
                      /\ pc'[q] = "sweep" => c \in desired'[q]
    BY <1>2, <1>7 DEF KeptIsSeen
  <2>1. CASE c \in kept[q]
    BY <1>2, <2>1 DEF KeptIsSeen, TypeOK
  <2>2. CASE q = r /\ c \in desired[r] \ lost /\ c \in Signal(r)
    BY <1>2, <2>2 DEF FoundIsSustained, TypeOK
  <2>3. QED
    BY <1>6, <2>1, <2>2
<1>9. LeftCovers'
  <2> SUFFICES ASSUME NEW q \in Replicas, NEW c \in kept'[q]
               PROVE  /\ left'[c] + Interval + Slack' >= Ttl
                      /\ pc'[q] = "idle" \/ q \in stalled'
                           => left'[c] + Interval + Slack' >= Ttl + due'[q]
    BY DEF LeftCovers
  <2>1. /\ Slack' >= Slack /\ Slack \in Nat /\ Slack' \in Nat
        /\ lost # {} => upsets = 0 /\ Slack = 0 /\ Slack' = Interval
    BY <1>1, SlackGrows
  <2>2. /\ due[q] \in 0..Interval /\ due'[q] = due[q] /\ Ttl \in Nat /\ Interval \in Nat
        /\ c \in Reported /\ c \in Conditions /\ left[c] \in Nat
    BY <1>2, TtlCovers DEF TypeOK, Reported
  <2>3. CASE c \in desired[r] \ lost
    <3>1. left'[c] = Ttl
      BY <1>1, <2>2, <2>3
    <3>2. QED
      BY <2>1, <2>2, <3>1
  <2>4. CASE c \notin desired[r] \ lost
    <3>1. c \in kept[q] /\ left'[c] = left[c]
      BY <1>1, <1>6, <2>2, <2>4
    <3>2. left[c] + Interval + Slack >= Ttl
          /\ (pc[q] = "idle" \/ q \in stalled => left[c] + Interval + Slack >= Ttl + due[q])
      BY <3>1 DEF LeftCovers
    <3>3. CASE q # r
      <4>1. (pc'[q] = "idle" \/ q \in stalled') => (pc[q] = "idle" \/ q \in stalled)
        BY <1>2, <3>3 DEF TypeOK
      <4>2. QED
        BY <2>1, <2>2, <3>1, <3>2, <4>1
    <3>4. CASE q = r
      <4>1. c \in desired[r]
        BY <1>2, <3>1, <3>4 DEF KeptIsSeen
      <4>2. lost # {}
        BY <2>4, <4>1
      <4>3. QED
        BY <2>1, <2>2, <3>1, <3>2, <4>2
    <3>5. QED
      BY <3>3, <3>4
  <2>5. QED
    BY <2>3, <2>4
<1>10. QED
  BY <1>4, <1>5, <1>8, <1>9

LEMMA StandTick ==
  ASSUME MaxUpsets \in {0, 1}, StandInv, TypeOK', Tick
  PROVE  StandInv'
<1> USE AlarmAssumption DEF StandInv
<1>1. /\ UNCHANGED <<fleet, own, pc, desired, stalled, kept, upsets>>
      /\ \A r \in Replicas : Timely(r) /\ due'[r] = Down(due[r])
      /\ \A r \in Replicas : \A c \in Sustained :
           since'[r][c] = IF since[r][c] \in 0..(Sustain - 1) THEN since[r][c] + 1 ELSE since[r][c]
      /\ \A c \in Conditions : left'[c] = Down(left[c])
  BY DEF Tick, world
<1>2. SweepsAreShort'
  BY <1>1 DEF SweepsAreShort, Timely, TypeOK
<1>3. \A r \in Replicas : \A c \in Sustained : since[r][c] >= Sustain => since'[r][c] >= Sustain
  BY <1>1 DEF TypeOK
<1>4. FoundIsSustained'
  BY <1>1, <1>3 DEF FoundIsSustained
<1>5. KeptIsSeen'
  BY <1>1, <1>3 DEF KeptIsSeen, Signal
<1>6. LeftCovers'
  <2> SUFFICES ASSUME NEW q \in Replicas, NEW c \in kept[q]
               PROVE  /\ left'[c] + Interval + Slack >= Ttl
                      /\ left'[c] + Interval + Slack >= Ttl + due'[q]
    BY <1>1 DEF LeftCovers, Slack
  <2>1. /\ c \in Conditions /\ left[c] \in Nat /\ due[q] \in Nat /\ Ttl \in Nat
        /\ Interval \in Nat /\ Slack \in Nat
    BY TtlCovers DEF TypeOK, Reported, Slack
  <2>2. due[q] > 0 /\ (pc[q] = "idle" \/ q \in stalled)
    BY <1>1 DEF Timely, KeptIsSeen
  <2>3. left[c] + Interval + Slack >= Ttl + due[q]
    BY <2>2 DEF LeftCovers
  <2>4. left[c] > 0
    BY CoveredStands DEF KeptAlarmsStand
  <2>5. left'[c] = left[c] - 1 /\ due'[q] = due[q] - 1
    BY <1>1, <2>1, <2>2, <2>4 DEF Down
  <2>6. QED
    BY <2>1, <2>2, <2>3, <2>5
<1>7. QED
  BY <1>2, <1>4, <1>5, <1>6

\* Steps at which a replica's sweep does not move and at which no alarm gets shorter.
LEMMA StandOther ==
  ASSUME MaxUpsets \in {0, 1}, StandInv, [Next]_vars, TypeOK',
         ~Tick, \A r \in Replicas : ~Read(r) /\ ~Deliver(r)
  PROVE  StandInv'
<1> USE AlarmAssumption DEF StandInv
<1>1. CASE UNCHANGED vars
  BY <1>1 DEF vars, world, sweeper, SweepsAreShort, FoundIsSustained, KeptIsSeen, LeftCovers,
              Signal, Slack
<1>2. ASSUME NEW r \in Replicas, Stall(r) PROVE StandInv'
  <2>1. /\ pc[r] = "sweep" /\ r \notin stalled /\ stalled' = stalled \cup {r}
        /\ UNCHANGED <<fleet, own, pc, due, since, desired, left, kept>>
        /\ upsets = 0 /\ upsets' = 1
    BY <1>2 DEF Stall, world, Upset, TypeOK
  <2>2. SweepsAreShort' /\ FoundIsSustained' /\ KeptIsSeen'
    BY <2>1 DEF SweepsAreShort, FoundIsSustained, KeptIsSeen, Signal
  <2>3. Slack = 0 /\ Slack' = Interval /\ Interval \in Nat /\ Ttl \in Nat
    BY <2>1, TtlCovers DEF Slack
  <2>4. ASSUME NEW q \in Replicas, NEW c \in kept[q]
        PROVE  /\ left[c] + Interval + Slack' >= Ttl
               /\ left[c] + Interval + Slack' >= Ttl + due[q]
    <3>1. left[c] + Interval >= Ttl /\ left[c] \in Nat /\ due[q] \in 0..Interval
      BY <2>3 DEF LeftCovers, TypeOK, Reported
    <3>2. QED
      BY <2>3, <3>1
  <2>5. LeftCovers'
    BY <2>1, <2>4 DEF LeftCovers
  <2>6. QED
    BY <2>2, <2>5
<1>3. ASSUME NEW r \in Replicas, Exit(r) PROVE StandInv'
  <2>1. /\ pc[r] # "off" /\ pc' = [pc EXCEPT ![r] = "off"]
        /\ own' = [own EXCEPT ![r] = {}] /\ desired' = [desired EXCEPT ![r] = {}]
        /\ due' = [due EXCEPT ![r] = 0] /\ stalled' = stalled \ {r}
        /\ since' = [since EXCEPT ![r] = [c \in Sustained |-> -1]]
        /\ kept' = [kept EXCEPT ![r] = {}] /\ UNCHANGED <<fleet, left>>
        /\ upsets = 0 /\ upsets' = 1
    BY <1>3 DEF Exit, Upset, TypeOK
  <2>2. SweepsAreShort'
    BY <2>1 DEF SweepsAreShort, TypeOK
  <2>3. FoundIsSustained'
    BY <2>1 DEF FoundIsSustained, TypeOK
  <2>4. KeptIsSeen'
    BY <2>1 DEF KeptIsSeen, Signal, TypeOK
  <2>5. Slack = 0 /\ Slack' = Interval /\ Interval \in Nat /\ Ttl \in Nat
    BY <2>1, TtlCovers DEF Slack
  <2>6. ASSUME NEW q \in Replicas, NEW c \in kept'[q]
        PROVE  /\ left'[c] + Interval + Slack' >= Ttl
               /\ left'[c] + Interval + Slack' >= Ttl + due'[q]
    <3>1. q # r /\ c \in kept[q] /\ left'[c] = left[c] /\ due'[q] = due[q]
      BY <2>1 DEF TypeOK
    <3>2. left[c] + Interval >= Ttl /\ left[c] \in Nat /\ due[q] \in 0..Interval
      BY <2>5, <3>1 DEF LeftCovers, TypeOK, Reported
    <3>3. QED
      BY <2>5, <3>1, <3>2
  <2>7. LeftCovers'
    BY <2>6 DEF LeftCovers
  <2>8. QED
    BY <2>2, <2>3, <2>4, <2>7
<1>4. ASSUME NEW r \in Replicas, StartFails(r) PROVE StandInv'
  <2>1. \A c \in Reported : left'[c] = left[c]
    BY <1>4 DEF StartFails, TypeOK, Reported
  <2>2. \A q \in Replicas : \A c \in kept[q] : left'[c] = left[c]
    BY <2>1 DEF TypeOK
  <2>3. QED
    BY <1>4, <2>2 DEF StartFails, world, sweeper, SweepsAreShort, FoundIsSustained, KeptIsSeen,
                      LeftCovers, Signal, Slack
<1>5. ASSUME NEW r \in Replicas, Start(r) PROVE StandInv'
  <2>1. kept[r] = {} /\ r \notin stalled
    BY <1>5 DEF Start, KeptIsSeen, SweepsAreShort
  <2>2. /\ pc[r] = "off" /\ pc' = [pc EXCEPT ![r] = "idle"]
        /\ UNCHANGED <<fleet, own, due, since, desired, stalled, left, kept, upsets>>
    BY <1>5 DEF Start, world
  <2>3. SweepsAreShort' /\ FoundIsSustained'
    BY <2>1, <2>2 DEF SweepsAreShort, FoundIsSustained, TypeOK
  <2>4. KeptIsSeen' /\ LeftCovers'
    BY <2>1, <2>2 DEF KeptIsSeen, LeftCovers, Signal, Slack, TypeOK
  <2>5. QED
    BY <2>3, <2>4
<1>6. ASSUME NEW c \in Queried, FleetChanges(c) PROVE StandInv'
  <2>1. /\ fleet' = Differ(fleet, {c}) /\ \A r \in Replicas : kept'[r] = kept[r] \ {c}
        /\ UNCHANGED <<own, pc, due, since, desired, stalled, left, upsets>>
    BY <1>6 DEF FleetChanges, sweeper
  <2>2. SweepsAreShort' /\ FoundIsSustained' /\ LeftCovers'
    BY <2>1 DEF SweepsAreShort, FoundIsSustained, LeftCovers, Slack
  <2>3. KeptIsSeen'
    BY <2>1 DEF KeptIsSeen, Signal, Differ
  <2>4. QED
    BY <2>2, <2>3
<1>7. ASSUME NEW r \in Replicas, NEW c \in Reported \ Queried, OwnChanges(r, c) PROVE StandInv'
  <2>1. /\ own' = [own EXCEPT ![r] = Differ(@, {c})] /\ kept' = [kept EXCEPT ![r] = @ \ {c}]
        /\ UNCHANGED <<fleet, pc, due, since, desired, stalled, left, upsets>>
    BY <1>7 DEF OwnChanges, sweeper
  <2>2. \A q \in Replicas : kept'[q] \subseteq kept[q]
    BY <2>1 DEF TypeOK
  <2>3. SweepsAreShort' /\ FoundIsSustained' /\ LeftCovers'
    BY <2>1, <2>2 DEF SweepsAreShort, FoundIsSustained, LeftCovers, Slack
  <2>4. KeptIsSeen'
    BY <2>1, <2>2 DEF KeptIsSeen, Signal, Differ, TypeOK
  <2>5. QED
    BY <2>3, <2>4
<1>8. QED
  BY <1>1, <1>2, <1>3, <1>4, <1>5, <1>6, <1>7 DEF Next

LEMMA StandNext ==
  ASSUME MaxUpsets \in {0, 1}, StandInv, [Next]_vars
  PROVE  StandInv'
<1>1. TypeOK'
  BY TypeNext DEF StandInv
<1>2. QED
  BY <1>1, StandRead, StandDeliver, StandTick, StandOther

\* An alarm outlives one lost raise, one stalled sweep or one failed query under every
\* replica that goes on seeing its condition, whatever the interval (alarm_ttl_secs).
THEOREM KeptHold ==
  ASSUME MaxUpsets \in {0, 1}
  PROVE  Spec => []KeptAlarmsStand
<1>1. Init => StandInv
  BY StandInit
<1>2. StandInv /\ [Next]_vars => StandInv'
  BY StandNext
<1>3. StandInv => KeptAlarmsStand
  BY CoveredStands
<1>4. QED
  BY <1>1, <1>2, <1>3, PTL DEF Spec

\* The two together, as the run checks them.
THEOREM AlarmsHold ==
  ASSUME MaxUpsets \in {0, 1}
  PROVE  Spec => []AlarmsStand
BY SweepsTypeCorrect, KeptHold, PTL DEF AlarmsStand

-----------------------------------------------------------------------------
(* Restarts.                                                               *)

\* The longest a run of a crash loop takes, its sleep included.
Slowest == MaxBackoff + HealthyRun

CrashTypeOK ==
  /\ uptime \in 0..HealthyRun /\ asleep \in 0..MaxBackoff /\ backoff \in 0..MaxBackoff
  /\ restarts \in Seq(Nat) /\ Len(restarts) <= CrashCount
  /\ quick \in Nat /\ quick <= Len(restarts)

\* The i-th last restart of a loop is i runs ago at most; of the first of them there is
\* what the worker has still to sleep and to run.
LoopIsRecent ==
  /\ asleep > 0 => uptime = 0
  /\ uptime < HealthyRun =>
       \A i \in 1..quick : restarts[i] + asleep + (HealthyRun - uptime) <= i * Slowest

CrashInv == CrashTypeOK /\ LoopIsRecent

LEMMA CountsAreNat ==
  /\ FirstBackoff \in Nat /\ MaxBackoff \in Nat /\ HealthyRun \in Nat \ {0} /\ Slowest \in Nat
  /\ CrashCount \in Nat \ {0} /\ BeatEvery \in Nat \ {0} /\ MaxLostBeats \in Nat
  /\ MaxRetries \in Nat /\ FirstBackoff <= MaxBackoff
  /\ CrashWindow \in Nat /\ StallTime \in Nat
BY ConditionsAssumption DEF Slowest

LEMMA LeastOf ==
  ASSUME NEW x \in Int, NEW y \in Int
  PROVE  Least(x, y) \in {x, y} /\ Least(x, y) <= x /\ Least(x, y) <= y
BY DEF Least

\* What is left to sleep and to run is at most a whole round.
LEMMA RoundIsSlowest ==
  ASSUME NEW a \in 0..MaxBackoff
  PROVE  a + (HealthyRun - 0) <= Slowest
BY CountsAreNat DEF Slowest

\* A round more, for an age that belonged to the round before.
LEMMA RoundMore ==
  ASSUME NEW x \in Int, NEW a \in Int, NEW b \in Int, NEW p \in Int, NEW q \in Int, NEW m \in Int,
         x <= p, a + b <= m, p + m = q
  PROVE  x + a + b <= q
OBVIOUS

\* A unit passes from what is left to the age.
LEMMA UnitMoves ==
  ASSUME NEW x \in Int, NEW a \in Int, NEW b \in Int, NEW y \in Int, NEW c \in Int, NEW d \in Int,
         NEW p \in Int,
         x <= y + 1, a + b + 1 = c + d, y + c + d <= p
  PROVE  x + a + b <= p
OBVIOUS

LEMMA ProductGrows ==
  ASSUME NEW m \in Nat, NEW n \in Nat, NEW k \in Nat, m <= n
  PROVE  m * k <= n * k /\ m * k \in Nat /\ n * k \in Nat
OBVIOUS

LEMMA ProductStep ==
  ASSUME NEW m \in Nat, NEW k \in Nat
  PROVE  (m + 1) * k = m * k + k /\ m * k \in Nat
OBVIOUS

\* The newest restart comes first, and the oldest may drop out.
LEMMA RecordingOf ==
  ASSUME NEW ages \in Seq(Nat), Len(ages) <= CrashCount
  PROVE  /\ Recording(ages) \in Seq(Nat)
         /\ Len(Recording(ages)) = Least(Len(ages) + 1, CrashCount)
         /\ \A i \in 1..Len(Recording(ages)) :
              Recording(ages)[i] = IF i = 1 THEN 0 ELSE ages[i - 1]
<1> DEFINE n == Least(Len(ages) + 1, CrashCount)
           all == <<0>> \o ages
<1>1. /\ Len(ages) \in Nat /\ CrashCount \in Nat \ {0} /\ <<0>> \in Seq(Nat) /\ Len(<<0>>) = 1
      /\ <<0>>[1] = 0
  BY CountsAreNat
<1>2. n \in Nat /\ n >= 1 /\ n <= Len(ages) + 1
  BY <1>1 DEF Least
<1>3. all \in Seq(Nat) /\ Len(all) = 1 + Len(ages)
      /\ \A i \in 1..(1 + Len(ages)) : all[i] = IF i <= 1 THEN <<0>>[i] ELSE ages[i - 1]
  BY <1>1, ConcatProperties
<1>4. \A i \in 1..n : all[i] \in Nat
  BY <1>2, <1>3
<1>5. /\ SubSeq(all, 1, n) \in Seq(Nat) /\ Len(SubSeq(all, 1, n)) = n
      /\ \A i \in 1..n : SubSeq(all, 1, n)[i] = all[i]
  <2> HIDE DEF all, n
  <2>1. /\ SubSeq(all, 1, n) \in Seq(Nat)
        /\ Len(SubSeq(all, 1, n)) = IF 1 <= n THEN n - 1 + 1 ELSE 0
        /\ \A i \in 1..(n - 1 + 1) : SubSeq(all, 1, n)[i] = all[1 + i - 1]
    BY <1>2, <1>4, SubSeqProperties
  <2>2. QED
    BY <1>2, <2>1
<1>6. Recording(ages) = SubSeq(all, 1, n)
  BY DEF Recording
<1>7. \A i \in 1..n : all[i] = IF i = 1 THEN 0 ELSE ages[i - 1]
  BY <1>1, <1>2, <1>3
<1>8. QED
  BY <1>5, <1>6, <1>7

LEMMA CrashInitOK == ConditionsInit => CrashInv
BY CountsAreNat DEF ConditionsInit, CrashInv, CrashTypeOK, LoopIsRecent

LEMMA CrashStep ==
  ASSUME CrashInv, Crash
  PROVE  CrashInv'
<1> USE CountsAreNat
<1>1. /\ asleep = 0 /\ restarts' = Recording(restarts) /\ asleep' = Delay
      /\ backoff' = NextBackoff(Delay) /\ uptime' = 0
      /\ quick' = IF uptime < HealthyRun THEN Least(quick + 1, CrashCount) ELSE 0
  BY DEF Crash
<1>2. Delay \in 0..MaxBackoff /\ NextBackoff(Delay) \in 0..MaxBackoff
  BY DEF CrashInv, CrashTypeOK, Delay, NextBackoff, Least
<1>3. /\ restarts' \in Seq(Nat) /\ Len(restarts') = Least(Len(restarts) + 1, CrashCount)
      /\ \A i \in 1..Len(restarts') : restarts'[i] = IF i = 1 THEN 0 ELSE restarts[i - 1]
  BY <1>1, RecordingOf DEF CrashInv, CrashTypeOK
<1>4. Len(restarts) \in Nat /\ Len(restarts) <= CrashCount /\ quick \in Nat /\ quick <= Len(restarts)
  BY DEF CrashInv, CrashTypeOK
<1>5. quick' \in Nat /\ quick' <= Len(restarts') /\ Len(restarts') <= CrashCount
  BY <1>1, <1>3, <1>4 DEF Least
<1>6. CrashTypeOK'
  BY <1>1, <1>2, <1>3, <1>5 DEF CrashTypeOK
<1>7. ASSUME NEW i \in 1..quick'
      PROVE  restarts'[i] + asleep' + (HealthyRun - uptime') <= i * Slowest
  <2>1. i \in Nat /\ i >= 1 /\ i <= Len(restarts') /\ uptime' = 0 /\ asleep' \in 0..MaxBackoff
    BY <1>1, <1>2, <1>3, <1>4, <1>5
  <2>2. CASE i = 1
    BY <1>3, <2>1, <2>2 DEF Slowest
  <2>3. CASE i > 1
    <3>1. uptime < HealthyRun /\ i - 1 \in 1..quick
      BY <1>1, <1>4, <2>1, <2>3 DEF Least
    <3>2. restarts[i - 1] + asleep + (HealthyRun - uptime) <= (i - 1) * Slowest
      BY <3>1 DEF CrashInv, LoopIsRecent
    <3>3. restarts'[i] = restarts[i - 1] /\ restarts[i - 1] \in Nat
      BY <1>3, <1>4, <2>1, <2>3, <3>1, ElementOfSeq DEF CrashInv, CrashTypeOK
    <3>4. (i - 1) * Slowest + Slowest = i * Slowest /\ (i - 1) * Slowest \in Int
      BY <2>1
    <3>5. restarts[i - 1] <= (i - 1) * Slowest
      BY <1>1, <3>1, <3>2, <3>3, <3>4 DEF CrashInv, CrashTypeOK
    <3>6. asleep' + (HealthyRun - uptime') <= Slowest
      BY <2>1, RoundIsSlowest
    <3>7. asleep' \in Int /\ HealthyRun - uptime' \in Int /\ i * Slowest \in Int
      BY <2>1, <3>4
    <3>8. restarts[i - 1] + asleep' + (HealthyRun - uptime') <= i * Slowest
      BY <3>3, <3>4, <3>5, <3>6, <3>7, RoundMore
    <3>9. QED
      BY <3>3, <3>8
  <2>4. QED
    BY <2>1, <2>2, <2>3
<1>8. LoopIsRecent'
  BY <1>1, <1>7 DEF LoopIsRecent
<1>9. QED
  BY <1>6, <1>8 DEF CrashInv

LEMMA SecondsStep ==
  ASSUME CrashInv, Seconds
  PROVE  CrashInv'
<1> USE CountsAreNat
<1>1. /\ asleep' = IF asleep > 0 THEN asleep - 1 ELSE 0
      /\ uptime' = IF asleep > 0 THEN 0 ELSE Least(uptime + 1, HealthyRun)
      /\ restarts' = [i \in DOMAIN restarts |-> Least(restarts[i] + 1, CrashWindow)]
      /\ backoff' = backoff /\ quick' = quick
  BY DEF Seconds
<1>2. /\ restarts \in Seq(Nat) /\ Len(restarts) \in Nat /\ DOMAIN restarts = 1..Len(restarts)
      /\ \A i \in 1..Len(restarts) : restarts[i] \in Nat
      /\ uptime \in 0..HealthyRun /\ asleep \in 0..MaxBackoff
      /\ quick \in Nat /\ quick <= Len(restarts) /\ Len(restarts) <= CrashCount
  BY ElementOfSeq, LenProperties DEF CrashInv, CrashTypeOK
<1>3. CrashWindow \in Nat
  BY ConditionsAssumption
<1>4. \A i \in 1..Len(restarts) : restarts'[i] \in Nat /\ restarts'[i] <= restarts[i] + 1
  BY <1>1, <1>2, <1>3 DEF Least
<1>5. restarts' \in Seq(Nat) /\ Len(restarts') = Len(restarts)
  BY <1>1, <1>2, <1>4
<1>6. asleep' \in 0..MaxBackoff /\ uptime' \in 0..HealthyRun /\ (asleep' > 0 => uptime' = 0)
  BY <1>1, <1>2 DEF Least
<1>7. CrashTypeOK'
  BY <1>1, <1>2, <1>5, <1>6 DEF CrashInv, CrashTypeOK
<1>8. ASSUME uptime' < HealthyRun, NEW i \in 1..quick
      PROVE  restarts'[i] + asleep' + (HealthyRun - uptime') <= i * Slowest
  <2>1. uptime < HealthyRun /\ asleep' + (HealthyRun - uptime') + 1 = asleep + (HealthyRun - uptime)
    BY <1>1, <1>2, <1>8 DEF Least, CrashInv, LoopIsRecent
  <2>2. restarts[i] + asleep + (HealthyRun - uptime) <= i * Slowest
    BY <2>1 DEF CrashInv, LoopIsRecent
  <2>3. restarts'[i] \in Nat /\ restarts[i] \in Nat /\ restarts'[i] <= restarts[i] + 1
    BY <1>2, <1>4
  <2>4. i * Slowest \in Int /\ HealthyRun - uptime \in Int /\ asleep \in Int
        /\ HealthyRun - uptime' \in Int /\ asleep' \in Int
    BY <1>2, <1>6
  <2>5. QED
    BY <2>1, <2>2, <2>3, <2>4, UnitMoves
<1>9. QED
  BY <1>1, <1>6, <1>7, <1>8 DEF CrashInv, LoopIsRecent

\* A loop whose runs are all recent has a restart of each within the window.
LEMMA LoopShows == CrashInv => CrashLooperShows
<1> SUFFICES ASSUME CrashInv, quick >= CrashCount, uptime < HealthyRun PROVE CrashLooping
  BY DEF CrashLooperShows
<1> USE CountsAreNat
<1>1. /\ restarts \in Seq(Nat) /\ Len(restarts) = CrashCount /\ quick = CrashCount
      /\ DOMAIN restarts = 1..CrashCount /\ \A i \in 1..CrashCount : restarts[i] \in Nat
      /\ uptime \in Nat /\ asleep \in Nat
  BY ElementOfSeq, LenProperties DEF CrashInv, CrashTypeOK
<1>2. ASSUME NEW i \in 1..CrashCount PROVE restarts[i] < CrashWindow
  <2>1. restarts[i] + asleep + (HealthyRun - uptime) <= i * Slowest
    BY <1>1 DEF CrashInv, LoopIsRecent
  <2>2. i * Slowest <= CrashCount * Slowest /\ i * Slowest \in Nat /\ CrashCount * Slowest \in Nat
    BY ProductGrows
  <2>3. CrashCount * Slowest < CrashWindow
    BY ConditionsAssumption DEF Slowest
  <2>4. restarts[i] \in Nat /\ asleep \in Nat /\ HealthyRun - uptime \in Nat
    BY <1>1
  <2>5. restarts[i] <= i * Slowest
    BY <2>1, <2>2, <2>4
  <2>6. QED
    BY <2>2, <2>3, <2>4, <2>5
<1>3. {i \in DOMAIN restarts : restarts[i] < CrashWindow} = 1..CrashCount
  BY <1>1, <1>2
<1>4. Cardinality(1..CrashCount) = CrashCount
  BY FS_Interval
<1>5. Cardinality({i \in DOMAIN restarts : restarts[i] < CrashWindow}) = CrashCount
  BY <1>3, <1>4
<1>6. QED
  BY <1>5 DEF CrashLooping

-----------------------------------------------------------------------------
(* Rows: what a chunk's age and its next beat come to.                     *)

BeatInv ==
  /\ chunk \in [held : BOOLEAN, age : Nat, beat : Nat] /\ beatsLost \in 0..MaxLostBeats
  /\ chunk.held => chunk.age + chunk.beat <= (beatsLost + 1) * BeatEvery

LEMMA BeatInitOK == ConditionsInit => BeatInv
BY CountsAreNat DEF ConditionsInit, BeatInv

LEMMA BeatStep ==
  ASSUME BeatInv, ConditionsNext
  PROVE  BeatInv'
<1> USE CountsAreNat
<1>1. CASE Claimed
  <2>1. beatsLost' = beatsLost /\ chunk' = [held |-> TRUE, age |-> 0, beat |-> BeatEvery]
    BY <1>1 DEF Claimed
  <2>2. BeatEvery <= (beatsLost + 1) * BeatEvery
    BY DEF BeatInv
  <2>3. QED
    BY <2>1, <2>2 DEF BeatInv
<1>2. CASE LetGo
  BY <1>2 DEF LetGo, BeatInv
<1>3. CASE Beat
  <2>1. chunk.held /\ chunk.beat = 0 /\ chunk.age \in Nat /\ beatsLost \in 0..MaxLostBeats
        /\ chunk.age + 0 <= (beatsLost + 1) * BeatEvery
    BY <1>3 DEF Beat, BeatInv
  <2>2. CASE chunk' = [chunk EXCEPT !.age = Touched, !.beat = BeatEvery] /\ beatsLost' = beatsLost
    <3>1. 0 + BeatEvery <= (beatsLost + 1) * BeatEvery
      BY <2>1
    <3>2. chunk' \in [held : BOOLEAN, age : Nat, beat : Nat]
          /\ chunk'.age = 0 /\ chunk'.beat = BeatEvery
      BY <2>2 DEF BeatInv, Touched
    <3>3. QED
      BY <2>1, <2>2, <3>1, <3>2 DEF BeatInv
  <2>3. CASE /\ beatsLost < MaxLostBeats /\ beatsLost' = beatsLost + 1
             /\ chunk' = [chunk EXCEPT !.beat = BeatEvery]
    <3>1. (beatsLost + 1 + 1) * BeatEvery = (beatsLost + 1) * BeatEvery + BeatEvery
          /\ (beatsLost + 1) * BeatEvery \in Nat
      BY <2>1
    <3>2. chunk.age + BeatEvery <= (beatsLost + 1 + 1) * BeatEvery
      BY <2>1, <3>1
    <3>3. QED
      BY <2>1, <2>3, <3>2 DEF BeatInv
  <2>4. QED
    BY <1>3, <2>2, <2>3 DEF Beat
<1>4. CASE Minutes
  <2>1. /\ chunk' = [chunk EXCEPT !.age = Least(@ + 1, StallTime + 1),
                                  !.beat = IF chunk.held THEN @ - 1 ELSE 0]
        /\ beatsLost' = beatsLost /\ (chunk.held => chunk.beat > 0)
    BY <1>4 DEF Minutes
  <2>2. StallTime \in Int /\ StallTime >= 0
    <3>1. (MaxLostBeats + 1) * BeatEvery \in Nat
      OBVIOUS
    <3>2. QED
      BY <3>1, ConditionsAssumption
  <2>3. Least(chunk.age + 1, StallTime + 1) \in Nat
        /\ Least(chunk.age + 1, StallTime + 1) <= chunk.age + 1
    BY <2>2 DEF Least, BeatInv
  <2>4. (beatsLost + 1) * BeatEvery \in Nat
    BY DEF BeatInv
  <2>5. /\ chunk' \in [held : BOOLEAN, age : Nat, beat : Nat] /\ chunk'.held = chunk.held
        /\ chunk'.age = Least(chunk.age + 1, StallTime + 1)
        /\ chunk.held => chunk'.beat = chunk.beat - 1
    <3>1. (IF chunk.held THEN chunk.beat - 1 ELSE 0) \in Nat
      BY <2>1 DEF BeatInv
    <3>2. QED
      BY <2>1, <2>3, <3>1 DEF BeatInv
  <2>6. QED
    BY <2>1, <2>3, <2>4, <2>5 DEF BeatInv
<1>5. CASE UNCHANGED <<chunk, beatsLost>>
  BY <1>5 DEF BeatInv
<1>6. QED
  BY <1>1, <1>2, <1>3, <1>4, <1>5
  DEF ConditionsNext, Crash, Seconds, RowFails, Upsert, UpsertNothing, RecordOutcome,
      TablesChange, RowsChange, SweepRows, Expires, ledger

LEMMA BeatsCover == BeatInv => WorkedOnIsNotStalled
<1> SUFFICES ASSUME BeatInv, chunk.held PROVE ~Stalled
  BY DEF WorkedOnIsNotStalled
<1> USE CountsAreNat
<1>1. /\ chunk.age + chunk.beat <= (beatsLost + 1) * BeatEvery
      /\ chunk.age \in Nat /\ chunk.beat \in Nat /\ beatsLost \in 0..MaxLostBeats
  BY DEF BeatInv
<1>2. (beatsLost + 1) * BeatEvery <= (MaxLostBeats + 1) * BeatEvery
      /\ (beatsLost + 1) * BeatEvery \in Nat /\ (MaxLostBeats + 1) * BeatEvery \in Nat
  BY <1>1
<1>3. QED
  BY <1>1, <1>2, ConditionsAssumption DEF Stalled

-----------------------------------------------------------------------------
(* The catalogue: what the pacer rows give rise to, each by its name.      *)

PacerKinds == {"provider-rate-limited", "provider-credit-exhausted", "missing-pacer-row"}
Tellable   == [kind : PacerKinds, of : Names]

\* What stands is the alarm of some condition; what was found stands.
CenterInv ==
  /\ rows \in PacerRows /\ found \subseteq Tellable
  /\ center \subseteq {Alarm(c) : c \in Tellable}
  /\ RetriesCover

LEMMA PartsOf ==
  ASSUME NEW f, NEW k, NEW o, f = [kind |-> k, of |-> o]
  PROVE  f.kind = k /\ f.of = o
OBVIOUS

\* Two conditions have two fingerprints.
LEMMA FingerprintsDiffer ==
  ASSUME NEW c \in Tellable, NEW d \in Tellable, Fingerprint(c) = Fingerprint(d)
  PROVE  c = d
<1>1. c.kind \in Named /\ d.kind \in Named
  BY DEF Tellable, PacerKinds, Named
<1>2. Fingerprint(c) = [kind |-> c.kind, of |-> c.of]
      /\ Fingerprint(d) = [kind |-> d.kind, of |-> d.of]
  BY <1>1 DEF Fingerprint
<1>3. Fingerprint(c).kind = c.kind /\ Fingerprint(d).kind = d.kind
      /\ Fingerprint(c).of = c.of /\ Fingerprint(d).of = d.of
  BY <1>2, PartsOf
<1>4. c.kind = d.kind /\ c.of = d.of
  BY <1>3
<1>5. QED
  BY <1>4 DEF Tellable

LEMMA AlarmOf ==
  ASSUME NEW c
  PROVE  Alarm(c).fingerprint = Fingerprint(c)
BY DEF Alarm

LEMMA ConditionsAreTellable ==
  ASSUME rows \in PacerRows
  PROVE  PacerConditions \subseteq Tellable
<1>1. DOMAIN rows \subseteq Names
  BY DEF PacerRows
<1>2. QED
  BY <1>1 DEF PacerConditions, Tellable, PacerKinds

LEMMA OwnAlarms == CenterInv => EachHasItsOwn
<1> SUFFICES ASSUME CenterInv, NEW c \in found, NEW a \in center, a.fingerprint = Fingerprint(c)
             PROVE  a = Alarm(c)
  BY DEF EachHasItsOwn
<1>1. PICK d \in Tellable : a = Alarm(d)
  BY DEF CenterInv
<1>2. c \in Tellable /\ Fingerprint(d) = Fingerprint(c)
  BY <1>1, AlarmOf DEF CenterInv
<1>3. QED
  BY <1>1, <1>2, FingerprintsDiffer

LEMMA CenterInitOK == ConditionsInit => CenterInv
<1> SUFFICES ASSUME ConditionsInit PROVE CenterInv
  OBVIOUS
<1>1. rows \in [Names -> SUBSET {"cooling", "spent"}]
  BY DEF ConditionsInit
<1>2. rows \in PacerRows
  BY <1>1 DEF PacerRows
<1>3. QED
  BY <1>2 DEF ConditionsInit, CenterInv, RetriesCover

LEMMA SweepStep ==
  ASSUME CenterInv, SweepRows
  PROVE  CenterInv'
<1> DEFINE prints(S) == {a.fingerprint : a \in S}
           stays(S, gone) == {a \in center : /\ a.fingerprint \notin gone
                                             /\ \A b \in S : b.fingerprint # a.fingerprint}
           picked(S) == {CHOOSE a \in S : a.fingerprint = f : f \in prints(S)}
<1>1. PICK lost \in [PacerConditions -> 0..MaxRetries] :
        \E gone :
          center' = stays({Alarm(c) : c \in {d \in PacerConditions : lost[d] < Attempts}}, gone)
                      \cup picked({Alarm(c) : c \in {d \in PacerConditions : lost[d] < Attempts}})
  BY DEF SweepRows
<1> DEFINE shown == {Alarm(c) : c \in {d \in PacerConditions : lost[d] < Attempts}}
<1>2. found' = PacerConditions /\ rows' = rows
  BY DEF SweepRows
<1>3. {d \in PacerConditions : lost[d] < Attempts} = PacerConditions
  BY CountsAreNat DEF Attempts
<1>4. shown = {Alarm(c) : c \in PacerConditions} /\ PacerConditions \subseteq Tellable
  BY <1>3, ConditionsAreTellable DEF CenterInv
<1>5. PICK gone : center' = stays(shown, gone) \cup picked(shown)
  BY <1>1
<1>6. ASSUME NEW f \in prints(shown)
      PROVE  /\ (CHOOSE a \in shown : a.fingerprint = f) \in shown
             /\ (CHOOSE a \in shown : a.fingerprint = f).fingerprint = f
  OBVIOUS
<1>7. picked(shown) \subseteq shown /\ \A f \in prints(shown) : \E a \in picked(shown) : a.fingerprint = f
  BY <1>6
<1>8. center' \subseteq {Alarm(c) : c \in Tellable}
  BY <1>4, <1>5, <1>7 DEF CenterInv
<1>9. ASSUME NEW c \in found' PROVE \E a \in center' : a.fingerprint = Fingerprint(c)
  <2>1. Alarm(c) \in shown /\ Alarm(c).fingerprint = Fingerprint(c)
    BY <1>2, <1>4, AlarmOf
  <2>2. Fingerprint(c) \in prints(shown)
    BY <2>1
  <2>3. QED
    BY <1>5, <1>7, <2>2
<1>10. RetriesCover'
  BY <1>9 DEF RetriesCover, Fingerprint
<1>11. QED
  BY <1>2, <1>4, <1>8, <1>10 DEF CenterInv, Tellable, PacerRows, Alarm

LEMMA CenterStep ==
  ASSUME CenterInv, ConditionsNext
  PROVE  CenterInv'
<1>1. CASE SweepRows
  BY <1>1, SweepStep
<1>2. CASE RowsChange
  BY <1>2 DEF RowsChange, CenterInv, RetriesCover, PacerRows
<1>3. CASE Expires
  <2>1. PICK a \in center : /\ \A c \in found : a.fingerprint # Fingerprint(c)
                            /\ center' = center \ {a}
    BY <1>3 DEF Expires
  <2>2. rows' = rows /\ found' = found
    BY <1>3 DEF Expires
  <2>3. ASSUME NEW c \in found PROVE \E b \in center' : b.fingerprint = Fingerprint(c)
    BY <2>1 DEF CenterInv, RetriesCover
  <2>4. QED
    BY <2>1, <2>2, <2>3 DEF CenterInv, RetriesCover
<1>4. CASE UNCHANGED fleetRows
  BY <1>4 DEF fleetRows, CenterInv, RetriesCover
<1>5. QED
  BY <1>1, <1>2, <1>3, <1>4
  DEF ConditionsNext, Crash, Seconds, RowFails, Claimed, LetGo, Beat, Minutes, Upsert,
      UpsertNothing, RecordOutcome, TablesChange

-----------------------------------------------------------------------------
(* The three together.                                                     *)

TellInv == CrashInv /\ BeatInv /\ CenterInv

LEMMA TellNext == TellInv /\ [ConditionsNext]_conditionVars => TellInv'
<1> SUFFICES ASSUME TellInv, [ConditionsNext]_conditionVars PROVE TellInv'
  OBVIOUS
<1>1. CASE UNCHANGED conditionVars
  BY <1>1 DEF conditionVars, crashes, ledger, fleetRows, TellInv, CrashInv, CrashTypeOK,
              LoopIsRecent, BeatInv, CenterInv, RetriesCover
<1>2. CASE ConditionsNext
  <2>1. BeatInv' /\ CenterInv'
    BY <1>2, BeatStep, CenterStep DEF TellInv
  <2>2. CASE Crash
    BY <2>1, <2>2, CrashStep DEF TellInv
  <2>3. CASE Seconds
    BY <2>1, <2>3, SecondsStep DEF TellInv
  <2>4. CASE UNCHANGED crashes
    BY <2>1, <2>4 DEF crashes, TellInv, CrashInv, CrashTypeOK, LoopIsRecent
  <2>5. QED
    BY <1>2, <2>2, <2>3, <2>4
    DEF ConditionsNext, RowFails, Claimed, LetGo, Beat, Minutes, Upsert, UpsertNothing,
        RecordOutcome, TablesChange, RowsChange, SweepRows, Expires
<1>3. QED
  BY <1>1, <1>2

\* What is wrong is told by its own name, for every backoff, window, stall time and
\* number of retries the assumption allows: crash loops (worker_crash_looping), providers
\* (fingerprint, raise_with_retries), and a chunk at work is not called stalled
\* (backfill_stalled_active).
THEOREM ConditionsHold == ConditionsSpec => []ConditionsTell
<1>1. ConditionsInit => TellInv
  BY CrashInitOK, BeatInitOK, CenterInitOK DEF TellInv
<1>2. TellInv /\ [ConditionsNext]_conditionVars => TellInv'
  BY TellNext
<1>3. TellInv => ConditionsTell
  <2>1. CenterInv => RetriesCover
    BY DEF CenterInv
  <2>2. QED
    BY <2>1, LoopShows, BeatsCover, OwnAlarms DEF TellInv, ConditionsTell
<1>4. QED
  BY <1>1, <1>2, <1>3, PTL DEF ConditionsSpec
=============================================================================
