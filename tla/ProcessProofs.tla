--------------------------- MODULE ProcessProofs ----------------------------
(***************************************************************************)
(* Start, supervision and shutdown of one process, for any set of tasks    *)
(* and probes, any lengths of the timers the assumptions of Process admit, *)
(* and any number of crashes and outages.                                  *)
(*                                                                         *)
(* Then what its handlers tell a client who pages through the overlay of   *)
(* halving cycles while its workers rebuild it, and at the end what the    *)
(* process and its clients make of one setting, whatever the environment.  *)
(***************************************************************************)
EXTENDS Process, CycleOverlay, Settings, FiniteSetTheorems, SequenceTheorems, WellFoundedInduction, TLAPS

\* Where main is tells what tasks, probes, requests and timers may be.
Stages ==
  /\ at \in {"migrating", "checking", "spawning", "unwinding"} => \A t \in Tasks : task[t] = "unborn"
  /\ at \in {"binding", "serving", "draining"} => \A t \in Joined : task[t] # "unborn"
  /\ at \in {"unwinding", "draining", "closing", "exited"} => Sent
  /\ at \in {"draining", "closing", "exited"} => \A p \in Probes : probe[p] = "none"
  /\ pool = "open" <=> at \notin {"closing", "exited"}
  /\ at \notin {"serving", "draining", "closing", "exited"} => requests = "none"
  /\ at \in {"draining", "closing", "exited"} => requests # "some"
  /\ at \notin {"draining", "closing", "exited"} => patience = Drain
  /\ Sent => calm = 0

\* A supervisor asleep in the drain wakes before the drain runs out.
Naps == at = "draining" => \A t \in Tasks : task[t] = "asleep" => nap[t] <= patience

\* The cached ping knows how long ago the database answered.
Lapses ==
  /\ db => lapse = 0
  /\ cache.ok /\ cache.age < CacheTtl => lapse <= cache.age

\* The backoff is twice the last sleep.
Backoffs == \A t \in Tasks : slept[t] > 0 => delay[t] = Least(2 * slept[t], MaxBackoff)

\* A ping under way was asked for before the process was leaving.
NoneLate == late = {}

Strengthened == TypeOK /\ Stages /\ Naps /\ Lapses /\ Backoffs /\ NoneLate
IInv == Strengthened /\ NoYesAfterLeaving /\ YesIsRecent /\ DrainLostToWork /\ PoolOutlivesWorkers

-----------------------------------------------------------------------------
LEMMA InitIInv == Init => IInv
<1> SUFFICES ASSUME Init PROVE IInv OBVIOUS
<1> USE ProcessAssumption, DrainAssumption DEF Init
<1>1. TypeOK
  <2>1. cache \in [ok : BOOLEAN, age : 0..CacheTtl] OBVIOUS
  <2>2. lapse \in 0..(CacheTtl + 1) /\ db \in BOOLEAN
    <3>1. CASE db BY <3>1
    <3>2. CASE ~db BY <3>2
    <3> QED BY <3>1, <3>2
  <2>3. /\ delay \in [Tasks -> 1..MaxBackoff] /\ nap \in [Tasks -> 0..MaxBackoff]
        /\ up \in [Tasks -> 0..Healthy] /\ slept \in [Tasks -> 0..MaxBackoff]
        /\ patience \in 0..Drain /\ calm \in 0..Grace
        /\ crashes \in 0..MaxCrashes /\ outages \in 0..MaxOutages
    OBVIOUS
  <2>4. /\ task \in [Tasks -> Running \cup {"unborn", "asleep", "done"}]
        /\ probe \in [Probes -> {"none", "ping"}]
        /\ ready \in BOOLEAN /\ leaving \in BOOLEAN
    OBVIOUS
  <2> QED BY <2>1, <2>2, <2>3, <2>4 DEF TypeOK
<1>2. Stages BY DEF Stages, Sent
<1>3. Naps /\ Lapses /\ Backoffs /\ NoneLate BY DEF Naps, Lapses, Backoffs, NoneLate
<1>4. NoYesAfterLeaving /\ YesIsRecent /\ DrainLostToWork /\ PoolOutlivesWorkers
  BY DEF NoYesAfterLeaving, YesIsRecent, DrainLostToWork, PoolOutlivesWorkers
<1> QED BY <1>1, <1>2, <1>3, <1>4 DEF IInv, Strengthened

\* The delays of a supervisor stay between the first and the cap.
LEMMA Delays ==
  ASSUME TypeOK, NEW t \in Tasks
  PROVE  DelayNow(t) \in 1..MaxBackoff /\ NextBackoff(DelayNow(t)) \in 1..MaxBackoff
BY ProcessAssumption DEF TypeOK, DelayNow, NextBackoff, Least

\* Nothing that counts down is at zero when the clock goes on.
LEMMA TimersRun ==
  ASSUME TypeOK, Timely
  PROVE  /\ orch = "grace" => calm > 0
         /\ \A t \in Tasks : task[t] = "asleep" => nap[t] > 0
         /\ at = "draining" => patience > 0
<1>1. \A t \in Tasks : task[t] = "asleep" => nap[t] > 0 BY DEF TypeOK, Timely, Due
<1>2. \A t \in Joined : ~Due(t) BY ProcessAssumption DEF Timely
<1> QED BY <1>1, <1>2, ProcessAssumption DEF TypeOK, Timely, GraceOver, DrainEnds

\* Type correctness is inductive by itself.
LEMMA TypesStay == ASSUME TypeOK, [Next]_vars PROVE TypeOK'
<1> USE ProcessAssumption DEF TypeOK, Running, AtWork, main, stop, api, sup, health, store
<1>1. ASSUME Main PROVE TypeOK'
  <2>1. CASE Migrate BY <2>1 DEF Migrate
  <2>2. CASE Check BY <2>2 DEF Check
  <2>3. CASE SpawnWorkers BY <2>3 DEF SpawnWorkers, Born
  <2>4. CASE BindApi
    <3>1. ready' \in BOOLEAN BY <2>4, Zenon DEF BindApi
    <3>2. at' \in {"serving", "failed"} /\ task' \in [Tasks -> Running \cup {"unborn", "asleep", "done"}]
      BY <2>4 DEF BindApi, Born
    <3>3. UNCHANGED <<pool, patience, stop, delay, nap, up, slept, crashes, api, health, store, strays>>
      BY <2>4 DEF BindApi, Born
    <3> QED BY <3>1, <3>2, <3>3
  <2>5. CASE ServersReturn BY <2>5 DEF ServersReturn
  <2>6. CASE Close BY <2>6 DEF Close
  <2>7. CASE Exit BY <2>7 DEF Exit
  <2> QED BY <1>1, <2>1, <2>2, <2>3, <2>4, <2>5, <2>6, <2>7 DEF Main
<1>2. ASSUME NEW t \in Joined, TakeUnit(t) \/ EndUnit(t) \/ Store(t) \/ Stored(t) PROVE TypeOK'
  BY <1>2 DEF TakeUnit, EndUnit, Store, Stored
<1>3. ASSUME NEW t \in Tasks, Quit(t) \/ Wake(t) PROVE TypeOK'
  BY <1>3 DEF Quit, Wake, Awake
<1>4. ASSUME NEW t \in Tasks, Crash(t) PROVE TypeOK'
  <2>1. CASE Sent BY <1>4, <2>1 DEF Crash
  <2>2. CASE ~Sent BY <1>4, <2>2, Delays DEF Crash
  <2> QED BY <2>1, <2>2
<1>5. ASSUME NEW p \in Probes, Probe(p) PROVE TypeOK'
  BY <1>5 DEF Probe, Verdict
<1>6. ASSUME NEW p \in Probes, Pinged(p) PROVE TypeOK'
  BY <1>6 DEF Pinged, Verdict
<1>7. ASSUME Signal \/ Broadcast \/ Request \/ Respond \/ ApiStops \/ DbFails \/ DbReturns PROVE TypeOK'
  <2>1. CASE Signal \/ Broadcast
    <3>1. leaving' \in BOOLEAN BY <2>1, Zenon DEF Signal, Broadcast
    <3>2. orch' \in {"grace", "sent"} /\ UNCHANGED <<main, ready, sup, api, health, store, strays, calm>>
      BY <2>1 DEF Signal, Broadcast
    <3> QED BY <3>1, <3>2
  <2>2. CASE Request \/ Respond \/ ApiStops BY <2>2 DEF Request, Respond, ApiStops
  <2>3. CASE DbFails \/ DbReturns
    <3>1. db' \in BOOLEAN BY <2>3, Zenon DEF DbFails, DbReturns
    <3>2. lapse' = 0 /\ outages' \in 0..MaxOutages /\ UNCHANGED <<main, stop, ready, sup, api, health, strays>>
      BY <2>3 DEF DbFails, DbReturns
    <3> QED BY <3>1, <3>2
  <2> QED BY <1>7, <2>1, <2>2, <2>3
<1>8. ASSUME Tick PROVE TypeOK'
  <2>1. /\ calm' \in 0..Grace /\ patience' \in 0..Drain
        /\ nap' \in [Tasks -> 0..MaxBackoff] /\ up' \in [Tasks -> 0..Healthy]
    BY <1>8, TimersRun DEF Tick, Least
  <2>2. cache' \in [ok : BOOLEAN, age : 0..CacheTtl] /\ lapse' \in 0..(CacheTtl + 1)
    BY <1>8 DEF Tick, Least
  <2> QED BY <1>8, <2>1, <2>2 DEF Tick
<1>9. CASE UNCHANGED vars BY <1>9 DEF vars
<1> QED BY <1>1, <1>2, <1>3, <1>4, <1>5, <1>6, <1>7, <1>8, <1>9 DEF Next

\* The stages of main, and what may not happen behind each.
LEMMA StagesStay == ASSUME TypeOK, Stages, [Next]_vars PROVE Stages'
<1> USE ProcessAssumption DEF TypeOK, Stages, Sent, main, stop, api, sup, health, store
<1>1. ASSUME Main PROVE Stages'
  <2>1. CASE Migrate BY <2>1 DEF Migrate
  <2>2. CASE Check BY <2>2 DEF Check
  <2>3. CASE SpawnWorkers BY <2>3 DEF SpawnWorkers, Born
  <2>4. CASE BindApi BY <2>4 DEF BindApi, Born
  <2>5. CASE ServersReturn BY <2>5 DEF ServersReturn, HealthStopped
  <2>6. CASE Close BY <2>6 DEF Close, HealthStopped
  <2>7. CASE Exit BY <2>7 DEF Exit
  <2> QED BY <1>1, <2>1, <2>2, <2>3, <2>4, <2>5, <2>6, <2>7 DEF Main
<1>2. ASSUME NEW t \in Joined, TakeUnit(t) \/ EndUnit(t) \/ Store(t) \/ Stored(t) PROVE Stages'
  BY <1>2 DEF TakeUnit, EndUnit, Store, Stored
<1>3. ASSUME NEW t \in Tasks, Quit(t) \/ Wake(t) \/ Crash(t) PROVE Stages'
  BY <1>3 DEF Quit, Wake, Awake, Crash, Running, AtWork
<1>4. ASSUME NEW p \in Probes, Probe(p) PROVE Stages'
  BY <1>4 DEF Probe
<1>5. ASSUME NEW p \in Probes, Pinged(p) PROVE Stages'
  BY <1>5 DEF Pinged
<1>6. ASSUME Signal \/ Broadcast PROVE Stages'
  BY <1>6 DEF Signal, Broadcast, GraceOver, Alive
<1>7. ASSUME Request \/ Respond \/ ApiStops \/ DbFails \/ DbReturns PROVE Stages'
  BY <1>7 DEF Request, Respond, ApiStops, DbFails, DbReturns
<1>8. ASSUME Tick PROVE Stages'
  BY <1>8 DEF Tick
<1>9. CASE UNCHANGED vars BY <1>9 DEF vars
<1> QED BY <1>1, <1>2, <1>3, <1>4, <1>5, <1>6, <1>7, <1>8, <1>9 DEF Next

\* Nobody falls asleep in the drain, and naps and drain count down together.
LEMMA NapsStay == ASSUME TypeOK, Stages, Naps, [Next]_vars PROVE Naps'
<1> USE ProcessAssumption, DrainAssumption DEF TypeOK, Stages, Naps, Sent, main, stop, api, sup, health, store
<1>1. ASSUME Main PROVE Naps'
  BY <1>1 DEF Main, Migrate, Check, SpawnWorkers, BindApi, ServersReturn, Close, Exit
<1>2. ASSUME NEW t \in Joined, TakeUnit(t) \/ EndUnit(t) \/ Store(t) \/ Stored(t) PROVE Naps'
  BY <1>2 DEF TakeUnit, EndUnit, Store, Stored
<1>3. ASSUME NEW t \in Tasks, Quit(t) \/ Wake(t) \/ Crash(t) PROVE Naps'
  BY <1>3 DEF Quit, Wake, Awake, Crash
<1>4. ASSUME NEW p \in Probes, Probe(p) \/ Pinged(p) PROVE Naps'
  BY <1>4 DEF Probe, Pinged
<1>5. ASSUME Signal \/ Broadcast \/ Request \/ Respond \/ ApiStops \/ DbFails \/ DbReturns PROVE Naps'
  BY <1>5 DEF Signal, Broadcast, Request, Respond, ApiStops, DbFails, DbReturns
<1>6. ASSUME Tick PROVE Naps'
  BY <1>6 DEF Tick
<1>7. CASE UNCHANGED vars BY <1>7 DEF vars
<1> QED BY <1>1, <1>2, <1>3, <1>4, <1>5, <1>6, <1>7 DEF Next

\* The age of a good ping bounds the time since the database answered.
LEMMA LapsesStay == ASSUME TypeOK, Lapses, [Next]_vars PROVE Lapses'
<1> USE ProcessAssumption DEF TypeOK, Lapses, main, stop, api, sup, health, store
<1>1. ASSUME Main PROVE Lapses'
  BY <1>1 DEF Main, Migrate, Check, SpawnWorkers, BindApi, ServersReturn, Close, Exit
<1>2. ASSUME NEW t \in Joined, TakeUnit(t) \/ EndUnit(t) \/ Store(t) \/ Stored(t) PROVE Lapses'
  BY <1>2 DEF TakeUnit, EndUnit, Store, Stored
<1>3. ASSUME NEW t \in Tasks, Quit(t) \/ Wake(t) \/ Crash(t) PROVE Lapses'
  BY <1>3 DEF Quit, Wake, Crash
<1>4. ASSUME NEW p \in Probes, Probe(p) PROVE Lapses'
  BY <1>4 DEF Probe
<1>5. ASSUME NEW p \in Probes, Pinged(p) PROVE Lapses'
  BY <1>5 DEF Pinged
<1>6. ASSUME Signal \/ Broadcast \/ Request \/ Respond \/ ApiStops PROVE Lapses'
  BY <1>6 DEF Signal, Broadcast, Request, Respond, ApiStops
<1>7. ASSUME DbFails \/ DbReturns PROVE Lapses'
  BY <1>7 DEF DbFails, DbReturns
<1>8. ASSUME Tick PROVE Lapses'
  BY <1>8 DEF Tick, Least
<1>9. CASE UNCHANGED vars BY <1>9 DEF vars
<1> QED BY <1>1, <1>2, <1>3, <1>4, <1>5, <1>6, <1>7, <1>8, <1>9 DEF Next

\* Only a crash sets the backoff, together with the sleep.
LEMMA BackoffsStay == ASSUME TypeOK, Backoffs, [Next]_vars PROVE Backoffs'
<1> USE ProcessAssumption DEF TypeOK, Backoffs, main, stop, api, sup, health, store
<1>1. ASSUME Main PROVE Backoffs'
  BY <1>1 DEF Main, Migrate, Check, SpawnWorkers, BindApi, Born, ServersReturn, Close, Exit
<1>2. ASSUME NEW t \in Joined, TakeUnit(t) \/ EndUnit(t) \/ Store(t) \/ Stored(t) PROVE Backoffs'
  BY <1>2 DEF TakeUnit, EndUnit, Store, Stored
<1>3. ASSUME NEW t \in Tasks, Quit(t) \/ Wake(t) PROVE Backoffs'
  BY <1>3 DEF Quit, Wake
<1>4. ASSUME NEW t \in Tasks, Crash(t) PROVE Backoffs'
  BY <1>4 DEF Crash, NextBackoff
<1>5. ASSUME NEW p \in Probes, Probe(p) \/ Pinged(p) PROVE Backoffs'
  BY <1>5 DEF Probe, Pinged
<1>6. ASSUME Signal \/ Broadcast \/ Request \/ Respond \/ ApiStops \/ DbFails \/ DbReturns \/ Tick PROVE Backoffs'
  BY <1>6 DEF Signal, Broadcast, Request, Respond, ApiStops, DbFails, DbReturns, Tick
<1>7. CASE UNCHANGED vars BY <1>7 DEF vars
<1> QED BY <1>1, <1>2, <1>3, <1>4, <1>5, <1>6, <1>7 DEF Next

\* A probe is answered at once only while nobody leaves, and pings begin then.
LEMMA ProbesStay ==
  ASSUME TypeOK, Lapses, NoneLate, NoYesAfterLeaving, YesIsRecent, [Next]_vars
  PROVE  NoneLate' /\ NoYesAfterLeaving' /\ YesIsRecent'
<1> USE ProcessAssumption DEF NoneLate, NoYesAfterLeaving, YesIsRecent, main, stop, api, sup, health, store
<1>1. ASSUME NEW p \in Probes, Probe(p) PROVE NoneLate' /\ NoYesAfterLeaving' /\ YesIsRecent'
  <2>1. CASE Barred
    <3>1. AnswerAtOnce = [now |-> TRUE, ok |-> FALSE] BY <2>1 DEF AnswerAtOnce
    <3>2. AnswerAtOnce.now /\ ~AnswerAtOnce.ok BY <3>1
    <3> QED BY <1>1, <3>2 DEF Probe, Verdict
  <2>2. CASE ~Barred
    <3>1. AnswerAtOnce = [now |-> cache.age < CacheTtl, ok |-> cache.ok] BY <2>2 DEF AnswerAtOnce
    <3>2. (AnswerAtOnce.now <=> cache.age < CacheTtl) /\ (AnswerAtOnce.ok <=> cache.ok) BY <3>1
    <3>3. ~leaving BY <2>2 DEF Barred
    <3>4. AnswerAtOnce.now /\ AnswerAtOnce.ok => ~(lapse > CacheTtl)
      BY <3>2 DEF TypeOK, Lapses
    <3> QED BY <1>1, <3>3, <3>4 DEF Probe, Verdict
  <2> QED BY <2>1, <2>2
<1>2. ASSUME NEW p \in Probes, Pinged(p) PROVE NoneLate' /\ NoYesAfterLeaving' /\ YesIsRecent'
  BY <1>2 DEF Pinged, Verdict, TypeOK, Lapses
<1>3. ASSUME UNCHANGED <<late, yes>> PROVE NoneLate' /\ NoYesAfterLeaving' /\ YesIsRecent'
  BY <1>3
<1>4. CASE Main BY <1>4, <1>3 DEF Main, Migrate, Check, SpawnWorkers, BindApi, ServersReturn, Close, Exit
<1>5. ASSUME NEW t \in Joined, TakeUnit(t) \/ EndUnit(t) \/ Store(t) \/ Stored(t) PROVE UNCHANGED <<late, yes>>
  BY <1>5 DEF TakeUnit, EndUnit, Store, Stored
<1>6. ASSUME NEW t \in Tasks, Quit(t) \/ Wake(t) \/ Crash(t) PROVE UNCHANGED <<late, yes>>
  BY <1>6 DEF Quit, Wake, Crash
<1>7. CASE Signal \/ Broadcast \/ Request \/ Respond \/ ApiStops \/ DbFails \/ DbReturns \/ Tick
  BY <1>7, <1>3 DEF Signal, Broadcast, Request, Respond, ApiStops, DbFails, DbReturns, Tick
<1>8. CASE UNCHANGED vars BY <1>8, <1>3 DEF vars
<1> QED BY <1>1, <1>2, <1>3, <1>4, <1>5, <1>6, <1>7, <1>8 DEF Next

\* The drain runs out on work alone, and what it left behind had all of it.
LEMMA DrainStays ==
  ASSUME TypeOK, Stages, Naps, DrainLostToWork, PoolOutlivesWorkers, [Next]_vars
  PROVE  DrainLostToWork' /\ PoolOutlivesWorkers'
<1> USE ProcessAssumption DEF DrainLostToWork, PoolOutlivesWorkers, main, stop, api, sup, health, store
<1>1. ASSUME Close PROVE DrainLostToWork' /\ PoolOutlivesWorkers'
  <2>1. CASE at = "draining"
    <3>1. Sent /\ \A t \in Joined : task[t] # "unborn" BY <2>1 DEF Stages
    <3>2. ASSUME NEW t \in Joined, task[t] # "done", task[t] \notin AtWork PROVE FALSE
      <4>1. t \notin Done BY <3>2 DEF Done
      <4>2. patience = 0 /\ ~Due(t) BY <1>1, <2>1, <4>1 DEF Close, DrainEnds
      <4>3. task[t] = "asleep" BY <3>1, <3>2, <4>2 DEF TypeOK, Running, AtWork, Due
      <4>4. nap[t] = 0 BY <2>1, <4>2, <4>3 DEF Naps, TypeOK
      <4> QED BY <4>2, <4>3, <4>4 DEF Due
    <3>3. \A t \in Joined : task[t] = "done" \/ patience = 0 BY <1>1, <2>1 DEF Close, DrainEnds, Done
    <3> QED BY <1>1, <2>1, <3>2, <3>3 DEF Close, Done
  <2>2. CASE at = "unwinding" BY <1>1, <2>2 DEF Close, Stages
  <2> QED BY <1>1, <2>1, <2>2 DEF Close
<1>2. CASE Migrate \/ Check \/ SpawnWorkers \/ BindApi \/ ServersReturn \/ Exit
  BY <1>2 DEF Migrate, Check, SpawnWorkers, BindApi, ServersReturn, Exit, Stages
<1>3. ASSUME NEW t \in Joined, TakeUnit(t) \/ EndUnit(t) \/ Store(t) \/ Stored(t)
      PROVE  DrainLostToWork' /\ PoolOutlivesWorkers'
  BY <1>3 DEF TakeUnit, EndUnit, Store, Stored, TypeOK
<1>4. ASSUME NEW t \in Tasks, Quit(t) \/ Wake(t) \/ Crash(t) PROVE DrainLostToWork' /\ PoolOutlivesWorkers'
  BY <1>4 DEF Quit, Wake, Crash, Running, AtWork, TypeOK
<1>5. ASSUME NEW p \in Probes, Probe(p) \/ Pinged(p) PROVE DrainLostToWork' /\ PoolOutlivesWorkers'
  BY <1>5 DEF Probe, Pinged
<1>6. CASE Signal \/ Broadcast \/ Request \/ Respond \/ ApiStops \/ DbFails \/ DbReturns
  BY <1>6 DEF Signal, Broadcast, Request, Respond, ApiStops, DbFails, DbReturns
<1>7. CASE Tick BY <1>7 DEF Tick, Stages
<1>8. CASE UNCHANGED vars BY <1>8 DEF vars
<1> QED BY <1>1, <1>2, <1>3, <1>4, <1>5, <1>6, <1>7, <1>8 DEF Next, Main

\* The invariant of the process.
THEOREM InvHolds == Spec => []IInv
<1>1. IInv /\ [Next]_vars => IInv'
  BY TypesStay, StagesStay, NapsStay, LapsesStay, BackoffsStay, ProbesStay, DrainStays DEF IInv, Strengthened
<1> QED BY InitIInv, <1>1, PTL DEF Spec

\* The state keeps its type.
THEOREM TypeCorrect == Spec => []TypeOK
BY InvHolds, PTL DEF IInv, Strengthened

\* A probe that comes after the 503 began is not told 200.
THEOREM NoYesHolds == Spec => []NoYesAfterLeaving
BY InvHolds, PTL DEF IInv

\* A 200 means that the database answered within the time a ping may be cached.
THEOREM RecentHolds == Spec => []YesIsRecent
BY InvHolds, PTL DEF IInv

\* Nobody is told to stop before the grace is over, and no request or probe
\* meets a pool that closes.
THEOREM TrafficHolds == Spec => []TrafficFirst
<1>1. IInv => TrafficFirst
  BY DEF IInv, Strengthened, TypeOK, Stages, TrafficFirst
<1> QED BY InvHolds, <1>1, PTL

\* The drain runs out on work alone; it needs MaxBackoff <= Drain.
THEOREM DrainHolds == Spec => []DrainLostToWork
BY InvHolds, PTL DEF IInv

\* The pool closes on a worker at work only after the whole drain.
THEOREM PoolHolds == Spec => []PoolOutlivesWorkers
BY InvHolds, PTL DEF IInv

\* No task runs anew once the broadcast is out.
THEOREM StopHolds == Spec => StopIsFinal
<1> DEFINE Final == \A t \in Tasks : Sent /\ task[t] \in {"unborn", "asleep", "done"} => task'[t] \notin Running
<1>1. ASSUME TypeOK, Next PROVE Final
  <2> USE ProcessAssumption DEF TypeOK, Running, AtWork, main, stop, api, sup, health, store
  <2>1. CASE Main
    BY <2>1 DEF Main, Migrate, Check, SpawnWorkers, BindApi, Born, ServersReturn, Close, Exit
  <2>2. ASSUME NEW t \in Joined, TakeUnit(t) \/ EndUnit(t) \/ Store(t) \/ Stored(t) PROVE Final
    <3>1. PICK v : task' = [task EXCEPT ![t] = v] BY <2>2 DEF TakeUnit, EndUnit, Store, Stored
    <3>2. task[t] \in Running BY <2>2 DEF TakeUnit, EndUnit, Store, Stored
    <3> QED BY <3>1, <3>2
  <2>3. ASSUME NEW t \in Tasks, Quit(t) \/ Wake(t) \/ Crash(t) PROVE Final
    <3>1. PICK v : task' = [task EXCEPT ![t] = v] /\ (Sent => v = "done")
      BY <2>3 DEF Quit, Wake, Awake, Crash
    <3> QED BY <3>1
  <2>4. ASSUME NEW p \in Probes, Probe(p) \/ Pinged(p) PROVE Final
    BY <2>4 DEF Probe, Pinged
  <2>5. CASE Signal \/ Broadcast \/ Request \/ Respond \/ ApiStops \/ DbFails \/ DbReturns \/ Tick
    BY <2>5 DEF Signal, Broadcast, Request, Respond, ApiStops, DbFails, DbReturns, Tick
  <2> QED BY <1>1, <2>1, <2>2, <2>3, <2>4, <2>5 DEF Next
<1>2. TypeOK /\ [Next]_vars => [Final]_vars BY <1>1
<1> QED BY TypeCorrect, <1>2, PTL DEF Spec, StopIsFinal

\* The sleep after a short run is twice the one before, up to the cap.
THEOREM BackoffHolds == Spec => StormsBackOff
<1> DEFINE Doubled == \A t \in Tasks :
      task[t] # "asleep" /\ task'[t] = "asleep" /\ up[t] < Healthy /\ slept[t] > 0
        => nap'[t] = Least(2 * slept[t], MaxBackoff)
<1>1. ASSUME IInv, Next PROVE Doubled
  <2> USE ProcessAssumption DEF IInv, Strengthened, TypeOK, Running, AtWork, Backoffs, main, stop, api, sup, health, store
  <2>1. CASE Main
    BY <2>1 DEF Main, Migrate, Check, SpawnWorkers, BindApi, Born, ServersReturn, Close, Exit
  <2>2. ASSUME NEW t \in Joined, TakeUnit(t) \/ EndUnit(t) \/ Store(t) \/ Stored(t) PROVE Doubled
    <3>1. PICK v \in AtWork \cup {"idle"} : task' = [task EXCEPT ![t] = v]
      BY <2>2 DEF TakeUnit, EndUnit, Store, Stored
    <3> QED BY <3>1
  <2>3. ASSUME NEW t \in Tasks, Quit(t) \/ Wake(t) PROVE Doubled
    <3>1. PICK v \in {"idle", "done"} : task' = [task EXCEPT ![t] = v] BY <2>3 DEF Quit, Wake, Awake
    <3> QED BY <3>1
  <2>4. ASSUME NEW t \in Tasks, Crash(t) PROVE Doubled
    <3>1. CASE Sent
      <4>1. task' = [task EXCEPT ![t] = "done"] BY <2>4, <3>1 DEF Crash
      <4> QED BY <4>1
    <3>2. CASE ~Sent
      <4>1. task' = [task EXCEPT ![t] = "asleep"] /\ nap' = [nap EXCEPT ![t] = DelayNow(t)]
        BY <2>4, <3>2 DEF Crash
      <4>2. up[t] < Healthy => DelayNow(t) = delay[t] BY <1>1 DEF DelayNow
      <4> QED BY <1>1, <4>1, <4>2
    <3> QED BY <3>1, <3>2
  <2>5. ASSUME NEW p \in Probes, Probe(p) \/ Pinged(p) PROVE Doubled
    BY <2>5 DEF Probe, Pinged
  <2>6. CASE Signal \/ Broadcast \/ Request \/ Respond \/ ApiStops \/ DbFails \/ DbReturns \/ Tick
    BY <2>6 DEF Signal, Broadcast, Request, Respond, ApiStops, DbFails, DbReturns, Tick
  <2> QED BY <1>1, <2>1, <2>2, <2>3, <2>4, <2>5, <2>6 DEF Next
<1>2. IInv /\ [Next]_vars => [Doubled]_vars BY <1>1
<1> QED BY InvHolds, <1>2, PTL DEF Spec, StormsBackOff

\* What a readiness probe is told is so.
THEOREM TruthHolds == Spec => []ProbesTellTruth
BY NoYesHolds, RecentHolds, PTL DEF ProbesTellTruth

\* The process is taken down in the order that main gives it.
THEOREM ShutdownHolds == Spec => []ShutdownInOrder
BY TrafficHolds, DrainHolds, PoolHolds, PTL DEF ShutdownInOrder

-----------------------------------------------------------------------------
\* The order of the naturals has no infinite descent.
LEMMA NatOrder ==
  ASSUME NEW S, S \subseteq Nat, S # {}
  PROVE  \E n \in S : \A m \in S : n <= m
<1>1. PICK n \in S : \A m \in S : ~(<<m, n>> \in OpToRel(<, Nat))
  BY WFMin, NatLessThanWellFounded
<1>2. OpToRel(<, Nat) = {ss \in Nat \X Nat : ss[1] < ss[2]}
  BY DEF OpToRel
<1>3. ASSUME NEW m \in S PROVE n <= m
  <2>1. ~(<<m, n>> \in {ss \in Nat \X Nat : ss[1] < ss[2]})
    BY <1>1, <1>2, Zenon
  <2>2. ~(m < n)
    BY <2>1
  <2> QED
    BY <2>2
<1> QED
  BY <1>3

-----------------------------------------------------------------------------
(* Pages of the overlay.  Keys are pairs of numbers, so a finite set of    *)
(* points can be counted off along them.                                   *)

IsKey(k) == k \in Int \X Int

\* Points a page can be cut from.
Countable(points) == IsFiniteSet(points) /\ \A p \in points : IsKey(p.at)

LEMMA KeysAreOrdered ==
  /\ \A k, l, m : IsKey(k) /\ IsKey(l) /\ IsKey(m) /\ Before(k, l) /\ Before(l, m) => Before(k, m)
  /\ \A k : IsKey(k) => ~Before(k, k)
  /\ \A k, l : IsKey(k) /\ IsKey(l) => Before(k, l) \/ Before(l, k) \/ k = l
BY DEF IsKey, Before

\* The points before one, and how many they are.
Earlier(points, k) == {q \in points : Before(q.at, k)}

LEMMA EarlierAreFewer ==
  ASSUME NEW R, Countable(R), NEW p \in R, NEW k, IsKey(k), Before(p.at, k)
  PROVE  /\ Cardinality(Earlier(R, p.at)) \in Nat /\ Cardinality(Earlier(R, k)) \in Nat
         /\ Cardinality(Earlier(R, p.at)) < Cardinality(Earlier(R, k))
<1>1. Earlier(R, k) \subseteq R BY DEF Earlier
<1>2. IsFiniteSet(Earlier(R, k)) BY <1>1, FS_Subset DEF Countable
<1>3. Earlier(R, p.at) \subseteq Earlier(R, k) BY KeysAreOrdered DEF Earlier, Countable
<1>4. p \in Earlier(R, k) /\ p \notin Earlier(R, p.at) BY KeysAreOrdered DEF Earlier, Countable
<1>5. /\ IsFiniteSet(Earlier(R, p.at))
      /\ Cardinality(Earlier(R, p.at)) <= Cardinality(Earlier(R, k))
      /\ Cardinality(Earlier(R, p.at)) # Cardinality(Earlier(R, k))
  BY <1>2, <1>3, <1>4, FS_Subset
<1>6. Cardinality(Earlier(R, p.at)) \in Nat /\ Cardinality(Earlier(R, k)) \in Nat
  BY <1>2, <1>5, FS_CardinalityType
<1> QED BY <1>5, <1>6

\* A page has a point, if there is one, and a last one, and nothing of the rest lies
\* before that.
LEMMA PageHasLast ==
  ASSUME NEW R, Countable(R), R # {}
  PROVE  \E p \in FirstOf(R) : /\ \A q \in FirstOf(R) : ~Before(p.at, q.at)
                               /\ \A r \in R \ FirstOf(R) : Before(p.at, r.at)
<1> DEFINE rank(p) == Cardinality(Earlier(R, p.at))
<1>0. Limit \in Nat /\ Limit >= 1 BY OverlayAssumption
<1>1. \A p \in R : rank(p) \in Nat
  <2> TAKE p \in R
  <2>1. Earlier(R, p.at) \subseteq R BY DEF Earlier
  <2>2. IsFiniteSet(Earlier(R, p.at)) BY <2>1, FS_Subset DEF Countable
  <2> QED BY <2>2, FS_CardinalityType
<1>2. \A p, q \in R : Before(p.at, q.at) => rank(p) < rank(q) BY EarlierAreFewer DEF Countable
<1>3. FirstOf(R) = {p \in R : rank(p) < Limit} BY DEF FirstOf, Earlier
<1>4. \A p \in R : rank(p) # 0 => \E q \in R : Before(q.at, p.at)
  <2> SUFFICES ASSUME NEW p \in R, rank(p) # 0 PROVE Earlier(R, p.at) # {} BY DEF Earlier
  <2> QED BY FS_EmptySet
<1> HIDE DEF rank
<1> DEFINE F == {p \in R : rank(p) < Limit}
<1>5. F # {}
  <2> DEFINE ranks == {rank(p) : p \in R}
  <2>1. ranks \subseteq Nat /\ ranks # {} BY <1>1
  <2>2. PICK n \in ranks : \A m \in ranks : n <= m BY <2>1, NatOrder
  <2>3. PICK p \in R : n = rank(p) OBVIOUS
  <2>4. \A q \in R : rank(p) <= rank(q) BY <2>2, <2>3
  <2>5. rank(p) = 0 BY <1>1, <1>2, <1>4, <2>4
  <2> QED BY <1>0, <2>5
<1>6. PICK p \in F : \A q \in F : rank(q) <= rank(p)
  <2> DEFINE gaps == {Limit - rank(q) : q \in F}
  <2>1. gaps \subseteq Nat /\ gaps # {} BY <1>0, <1>1, <1>5
  <2>2. PICK n \in gaps : \A m \in gaps : n <= m BY <2>1, NatOrder
  <2>3. PICK q \in F : n = Limit - rank(q) OBVIOUS
  <2>4. \A r \in F : Limit - rank(q) <= Limit - rank(r) BY <2>2, <2>3
  <2>5. \A r \in F : rank(r) <= rank(q) BY <1>0, <1>1, <2>4
  <2> QED BY <2>5
<1>7. \A q \in F : ~Before(p.at, q.at) BY <1>1, <1>2, <1>6
<1>8. ASSUME NEW r \in R \ F PROVE Before(p.at, r.at)
  <2>1. rank(p) < rank(r) BY <1>0, <1>1
  <2>2. IsKey(p.at) /\ IsKey(r.at) BY DEF Countable
  <2>3. p.at # r.at BY <2>1, <1>1 DEF rank
  <2>4. ~Before(r.at, p.at) BY <2>1, <1>1, <1>2
  <2> QED BY <2>2, <2>3, <2>4, KeysAreOrdered
<1> QED BY <1>3, <1>7, <1>8

-----------------------------------------------------------------------------
(* The points a series gives.                                              *)

IsSeries(s) == IsFiniteSet(DOMAIN s) /\ DOMAIN s \subseteq Int

LEMMA ImageIsFinite ==
  ASSUME NEW S, IsFiniteSet(S), NEW f
  PROVE  IsFiniteSet({f[x] : x \in S})
<1> DEFINE T == {f[x] : x \in S}
<1> DEFINE g == [x \in S |-> f[x]]
<1>1. g \in Surjection(S, T) BY DEF Surjection
<1> HIDE DEF g, T
<1>2. IsFiniteSet(T) BY <1>1, FS_Surjection
<1> QED BY <1>2 DEF T

\* A finite set of numbers has a greatest.
LEMMA MaxIs ==
  ASSUME NEW S, IsFiniteSet(S), S \subseteq Int, S # {}
  PROVE  Max(S) \in S /\ \A y \in S : Max(S) >= y
<1> DEFINE Above(x) == {y \in S : x < y}
<1> DEFINE ranks == {Cardinality(Above(x)) : x \in S}
<1>1. \A x \in S : IsFiniteSet(Above(x)) /\ Cardinality(Above(x)) \in Nat
  <2> TAKE x \in S
  <2>1. Above(x) \subseteq S OBVIOUS
  <2>2. IsFiniteSet(Above(x)) BY <2>1, FS_Subset
  <2> QED BY <2>2, FS_CardinalityType
<1>2. PICK n \in ranks : \A m \in ranks : n <= m
  <2>1. ranks \subseteq Nat /\ ranks # {} BY <1>1
  <2> QED BY <2>1, NatOrder
<1>3. PICK x \in S : n = Cardinality(Above(x)) OBVIOUS
<1>4. \A y \in S : x >= y
  <2> SUFFICES ASSUME NEW y \in S, x < y PROVE FALSE OBVIOUS
  <2>0. \A z \in S : z \in Int OBVIOUS
  <2>1. Above(y) \subseteq Above(x) /\ y \in Above(x) /\ y \notin Above(y)
    <3>1. \A z \in S : y < z => x < z BY <2>0
    <3>2. ~(y < y) BY <2>0
    <3> QED BY <3>1, <3>2
  <2>2. Above(y) # Above(x) BY <2>1
  <2>3. Cardinality(Above(y)) <= Cardinality(Above(x)) /\ Cardinality(Above(y)) # Cardinality(Above(x))
    <3> HIDE DEF Above
    <3> QED BY <1>1, <2>1, <2>2, FS_Subset
  <2>4. n <= Cardinality(Above(y)) BY <1>2
  <2> HIDE DEF Above
  <2> QED BY <1>1, <1>3, <2>3, <2>4
<1> QED BY <1>4 DEF Max

\* A day has a key, by either list of halvings.
LEMMA KeyIs ==
  ASSUME NEW day \in Int, NEW dates \in Seq(Int), dates # <<>>
  PROVE  IsKey(Key(day, dates))
<1> DEFINE before == {i \in 1..Len(dates) : dates[i] <= day}
<1> DEFINE n == Cardinality(before)
<1>1. Len(dates) \in Nat /\ Len(dates) >= 1 OBVIOUS
<1>2. n \in 0..Len(dates)
  <2>1. before \subseteq 1..Len(dates) OBVIOUS
  <2>2. IsFiniteSet(1..Len(dates)) /\ Cardinality(1..Len(dates)) = Len(dates) BY <1>1, FS_Interval
  <2> HIDE DEF before
  <2>3. IsFiniteSet(before) /\ Cardinality(before) <= Len(dates) BY <2>1, <2>2, FS_Subset
  <2> QED BY <1>1, <2>3, FS_CardinalityType
<1>3. CycleOf(day, dates) = n BY DEF CycleOf
<1> HIDE DEF n
<1>4. Max({1, n}) \in 1..Len(dates)
  <2>1. IsFiniteSet({1} \cup {n}) BY FS_AddElement, FS_Singleton
  <2>2. {1, n} = {1} \cup {n} OBVIOUS
  <2>3. {1, n} \subseteq Int /\ {1, n} # {} BY <1>1, <1>2
  <2>4. Max({1, n}) \in {1, n} /\ \A y \in {1, n} : Max({1, n}) >= y BY <2>1, <2>2, <2>3, MaxIs
  <2> QED BY <1>1, <1>2, <2>4
<1>5. dates[Max({1, n})] \in Int BY <1>4
<1> QED BY <1>3, <1>4, <1>5 DEF Key, IsKey

LEMMA DatesAre ==
  /\ Halvings \in Seq(Int) /\ Halvings # <<>>
  /\ Extended \in Seq(Int) /\ Extended # <<>>
BY OverlayAssumption DEF Extended

LEMMA RealPoints ==
  ASSUME NEW s, IsSeries(s)
  PROVE  Countable(Overlay(s)) /\ {p.at : p \in Overlay(s)} = {Key(d, Halvings) : d \in Charted(s)}
<1> DEFINE f == [d \in Charted(s) |->
      LET c == CycleOf(d, Halvings) IN
        Point(Key(d, Halvings), d, <<s[d], 1>>, <<s[d], s[Min(DaysIn(s, c))]>>,
              <<s[d], Min({s[e] : e \in DaysIn(s, c)})>>, Halvings[c] \notin DOMAIN s, FALSE)]
<1>1. Overlay(s) = {f[d] : d \in Charted(s)} BY DEF Overlay
<1>2. \A d \in Charted(s) : f[d].at = Key(d, Halvings) BY DEF Point
<1>3. Charted(s) \subseteq DOMAIN s BY DEF Charted
<1>4. IsFiniteSet(Charted(s)) BY <1>3, FS_Subset DEF IsSeries
<1> HIDE DEF f
<1>5. IsFiniteSet(Overlay(s)) BY <1>1, <1>4, ImageIsFinite
<1>6. \A d \in Charted(s) : IsKey(Key(d, Halvings)) BY <1>3, KeyIs, DatesAre DEF IsSeries
<1> QED BY <1>1, <1>2, <1>5, <1>6 DEF Countable

LEMMA ProjectedPoints ==
  ASSUME NEW s, IsSeries(s), NEW model
  PROVE  Countable(Scaled(Raw(model, s), Overlay(s)))
<1> DEFINE f == [k \in Horizon(model, s) |->
      [at |-> Key(Today(s) + k, Extended), day |-> Today(s) + k,
       price |-> IF model = "replay" THEN Replayed(s, k) ELSE Path([d \in Positive(s) |-> s[d]], k)]]
<1> DEFINE R == Raw(model, s)
<1>1. R = {f[k] : k \in Horizon(model, s)} BY DEF Raw
<1>2. Horizon(model, s) \subseteq 1..CycleDays /\ (Horizon(model, s) # {} => DOMAIN s # {})
  BY DEF Horizon, DeepEnough
<1>3. CycleDays \in Nat BY OverlayAssumption
<1>4. IsFiniteSet(Horizon(model, s))
  <2>1. IsFiniteSet(1..CycleDays) BY <1>3, FS_Interval
  <2> QED BY <1>2, <2>1, FS_Subset
<1>5. \A k \in Horizon(model, s) : IsKey(Key(Today(s) + k, Extended))
  <2> TAKE k \in Horizon(model, s)
  <2>1. Today(s) \in Int BY <1>2, MaxIs DEF Today, IsSeries
  <2>2. Today(s) + k \in Int BY <1>2, <1>3, <2>1
  <2> QED BY <2>2, KeyIs, DatesAre
<1>6. \A k \in Horizon(model, s) : f[k].at = Key(Today(s) + k, Extended) OBVIOUS
<1> HIDE DEF f
<1>7. IsFiniteSet(R) BY <1>1, <1>4, ImageIsFinite
<1>8. \A p \in R : IsKey(p.at) BY <1>1, <1>5, <1>6
<1> HIDE DEF R
<1> DEFINE real == Overlay(s)
<1> DEFINE g == [p \in R |->
      Point(p.at, p.day, p.price, Over(p.price, Anchor(R, real, p.at[1])),
            Over(p.price, Cheapest({q.price : q \in Cycle(R, p.at[1])}
                                     \cup {q.price : q \in Cycle(real, p.at[1])})), TRUE, TRUE)]
<1>9. Scaled(R, real) = {g[p] : p \in R} BY DEF Scaled
<1>10. \A p \in R : g[p].at = p.at BY DEF Point
<1> HIDE DEF g
<1>11. IsFiniteSet(Scaled(R, real)) BY <1>7, <1>9, ImageIsFinite
<1>12. Countable(Scaled(R, real)) BY <1>8, <1>9, <1>10, <1>11 DEF Countable
<1> QED BY <1>12 DEF R

LEMMA PointsAre ==
  ASSUME NEW s, IsSeries(s), NEW model
  PROVE  Countable(Points(model, s))
BY RealPoints, ProjectedPoints DEF Points

-----------------------------------------------------------------------------
(* Every series is over finitely many days, whatever was written; a client *)
(* is owed what the table has, past its cursor.                            *)

Stock == IsFiniteSet(candles) /\ (\A c \in candles : c.ts \in Int) /\ coming \subseteq Upserts

GroupsAre(G) == IsFiniteSet(G) /\ \A g \in G : IsSeries(g.series)

Built ==
  /\ GroupsAre(rows)
  /\ series = [w \in Workers |-> series[w]] /\ fresh = [w \in Workers |-> fresh[w]]
  /\ \A w \in Workers : IsSeries(series[w]) /\ GroupsAre(fresh[w])

Walking ==
  /\ pc = [p \in Workers \cup Clients |-> pc[p]]
  /\ walk = [c \in Clients |-> [model |-> walk[c].model, cut |-> walk[c].cut,
                                cursor |-> walk[c].cursor, owed |-> walk[c].owed]]
  /\ \A c \in Clients :
       /\ \A k \in walk[c].owed : \E g \in rows : k \in Standing(g)
       /\ walk[c].cut # NoCut \/ pc[c] \notin {"idle", "asked"} => walk[c].owed = {}

OverlayInv == Stock /\ Built /\ Walking /\ NothingPassedOver

LEMMA NoSeries == IsSeries(<<>>)
<1>1. DOMAIN <<>> = {} OBVIOUS
<1> QED BY <1>1, FS_EmptySet DEF IsSeries

LEMMA DailyIs ==
  ASSUME Stock, NEW S, S \subseteq candles
  PROVE  IsSeries(Daily(S))
<1> DEFINE f == [c \in S |-> DayOf(c.ts)]
<1>1. DOMAIN Daily(S) = {f[c] : c \in S} BY DEF Daily
<1>2. \A c \in S : f[c] \in Int
  <2> TAKE c \in S
  <2>1. c.ts \in Int /\ DaySecs \in Nat \ {0} BY OverlayAssumption DEF Stock
  <2> QED BY <2>1 DEF DayOf
<1>3. IsFiniteSet(S) BY FS_Subset DEF Stock
<1> HIDE DEF f
<1>4. IsFiniteSet({f[c] : c \in S}) BY <1>3, ImageIsFinite
<1> QED BY <1>1, <1>2, <1>4 DEF IsSeries

LEMMA RecordedIsStock == \A secs, cut : Recorded(secs, cut) \subseteq candles BY DEF Recorded

LEMMA OverlayInitInv == OverlayInit => OverlayInv
<1> SUFFICES ASSUME OverlayInit PROVE OverlayInv OBVIOUS
<1>1. Stock BY OverlayAssumption DEF OverlayInit, Stock
<1>2. Built BY NoSeries, FS_EmptySet DEF OverlayInit, Built, GroupsAre
<1>3. Walking /\ NothingPassedOver BY DEF OverlayInit, Walking, NothingPassedOver, NoWalk
<1> QED BY <1>1, <1>2, <1>3 DEF OverlayInv

LEMMA StockKept == ASSUME OverlayInv, [OverlayNext]_overlayVars PROVE Stock'
<1>1. CASE Write
  <2>1. PICK c \in coming : candles' = {d \in candles : d.secs # c.secs \/ d.ts # c.ts} \cup {c} /\ coming' = coming \ {c}
    BY <1>1 DEF Write
  <2> DEFINE rest == {d \in candles : d.secs # c.secs \/ d.ts # c.ts}
  <2>2. c \in Upserts /\ c.ts \in Int BY OverlayAssumption DEF OverlayInv, Stock
  <2>3. rest \subseteq candles OBVIOUS
  <2> HIDE DEF rest
  <2>4. IsFiniteSet(rest) BY <2>3, FS_Subset DEF OverlayInv, Stock
  <2>5. IsFiniteSet(rest \cup {c}) BY <2>4, FS_AddElement
  <2>6. candles' = rest \cup {c} BY <2>1 DEF rest
  <2> QED BY <2>1, <2>2, <2>3, <2>5, <2>6 DEF OverlayInv, Stock
<1>2. CASE ~Write
  <2>1. candles' = candles /\ coming' = coming
    BY <1>2, Zenon DEF OverlayNext, overlayVars, tables, EnqueueCoin, LeaseLost, Claim, Rebuilds, Load, ReadNative,
       ReadCoverage, ReadFiner, Loaded, Delete, Lock, Insert, Commit, Fails, Dies, Ask, Acquire, Reads,
       TablePage, BreakOff
  <2> QED BY <2>1 DEF OverlayInv, Stock
<1> QED BY <1>1, <1>2

\* What a statement of load_daily_series leads to.
LEMMA LoadGives ==
  ASSUME OverlayInv, NEW p, Load(p)
  PROVE  \/ UNCHANGED <<rows, txs, walk>> /\ (Go(p, "coverage") \/ Go(p, "finer"))
         \/ \E s : IsSeries(s) /\ Loaded(p, s)
<1>1. CASE ReadNative(p)
  <2>1. IsSeries(Daily(Recorded(DaySecs, CutOf(p)))) BY RecordedIsStock, DailyIs DEF OverlayInv
  <2> QED BY <1>1, <2>1 DEF ReadNative, clients
<1>2. CASE ReadCoverage(p) BY <1>2, NoSeries DEF ReadCoverage, clients
<1>3. CASE ReadFiner(p)
  <2>1. IsSeries(Daily(Recorded(source[p], CutOf(p)))) BY RecordedIsStock, DailyIs DEF OverlayInv
  <2> QED BY <1>3, <2>1 DEF ReadFiner
<1> QED BY <1>1, <1>2, <1>3 DEF Load

LEMMA RolledBackKeeps ==
  ASSUME OverlayInv, NEW w \in Workers, RolledBack(w), rows' = rows
  PROVE  Built'
BY NoSeries, FS_EmptySet DEF OverlayInv, Built, RolledBack, GroupsAre

LEMMA BuiltKept == ASSUME OverlayInv, [OverlayNext]_overlayVars PROVE Built'
<1>0. CASE UNCHANGED <<rows, series, fresh>> BY <1>0 DEF OverlayInv, Built
<1>1. CASE Write \/ EnqueueCoin \/ LeaseLost BY <1>1, <1>0 DEF Write, EnqueueCoin, LeaseLost, txs
<1>2. ASSUME NEW w \in Workers, Claim(w) PROVE Built' BY <1>2, <1>0 DEF Claim, txs
<1>3. ASSUME NEW p \in Workers \cup Clients, Load(p) PROVE Built'
  <2>1. CASE UNCHANGED <<rows, txs>> BY <2>1, <1>0 DEF txs
  <2>2. ASSUME NEW s, IsSeries(s), Loaded(p, s) PROVE Built'
    <3>1. rows' = rows /\ fresh' = fresh /\ (series' = series \/ (p \in Workers /\ series' = [series EXCEPT ![p] = s]))
      BY <2>2 DEF Loaded
    <3> QED BY <2>2, <3>1 DEF OverlayInv, Built
  <2> QED BY <1>3, <2>1, <2>2, LoadGives
<1>4. ASSUME NEW w \in Workers, Delete(w) \/ Lock(w) PROVE Built' BY <1>4, <1>0 DEF Delete, Lock
<1>5. ASSUME NEW w \in Workers, Insert(w) PROVE Built'
  <2>1. PICK n \in 1..3 :
          /\ rows' = rows
          /\ \/ RolledBack(w)
             \/ /\ fresh' = [fresh EXCEPT ![w] = @ \cup
                     ({[model |-> Models[n], series |-> series[w]]} \cap Rebuild(series[w]))]
                /\ series' = series
    BY <1>5 DEF Insert
  <2>2. CASE RolledBack(w) BY <2>1, <2>2, RolledBackKeeps
  <2>3. CASE ~RolledBack(w)
    <3> DEFINE new == {[model |-> Models[n], series |-> series[w]]} \cap Rebuild(series[w])
    <3>1. fresh' = [fresh EXCEPT ![w] = fresh[w] \cup new] /\ series' = series BY <2>1, <2>3
    <3>2. \A g \in new : IsSeries(g.series) BY DEF OverlayInv, Built
    <3>3. IsFiniteSet(new) BY FS_Singleton, FS_Intersection
    <3> HIDE DEF new
    <3>4. IsFiniteSet(fresh[w] \cup new) BY <3>3, FS_Union DEF OverlayInv, Built, GroupsAre
    <3>5. GroupsAre(fresh[w] \cup new) BY <3>2, <3>4 DEF OverlayInv, Built, GroupsAre
    <3> QED BY <2>1, <3>1, <3>5 DEF OverlayInv, Built
  <2> QED BY <2>2, <2>3
<1>6. ASSUME NEW w \in Workers, Commit(w) PROVE Built'
  <2>1. /\ rows' = (rows \ gone[w]) \cup fresh[w]
        /\ fresh' = [fresh EXCEPT ![w] = {}] /\ series' = [series EXCEPT ![w] = <<>>]
    BY <1>6 DEF Commit
  <2>2. IsFiniteSet(rows \ gone[w]) /\ IsFiniteSet(fresh[w]) BY FS_Difference DEF OverlayInv, Built, GroupsAre
  <2>3. IsFiniteSet((rows \ gone[w]) \cup fresh[w]) BY <2>2, FS_Union
  <2>4. GroupsAre(rows') BY <2>1, <2>3 DEF OverlayInv, Built, GroupsAre
  <2> QED BY <2>1, <2>4, NoSeries, FS_EmptySet DEF OverlayInv, Built, GroupsAre
<1>7. ASSUME NEW w \in Workers, Fails(w) \/ Dies(w) PROVE Built'
  <2>1. RolledBack(w) /\ rows' = rows BY <1>7 DEF Fails, Dies
  <2> QED BY <2>1, RolledBackKeeps
<1>8. ASSUME NEW c \in Clients, Ask(c) \/ Acquire(c) \/ TablePage(c) \/ BreakOff(c) PROVE Built'
  BY <1>8, <1>0 DEF Ask, Acquire, TablePage, BreakOff, txs
<1>9. CASE UNCHANGED overlayVars BY <1>9, <1>0 DEF overlayVars, txs
<1> QED BY <1>1, <1>2, <1>3, <1>4, <1>5, <1>6, <1>7, <1>8, <1>9 DEF OverlayNext, Rebuilds, Reads

-----------------------------------------------------------------------------
\* What a page leaves of a walk.
Left(c, page, more) ==
  [model |-> walk[c].model, cut |-> walk[c].cut,
   cursor |-> IF more THEN (CHOOSE p \in page : \A q \in page : ~Before(p.at, q.at)).at ELSE NoKey,
   owed |-> walk[c].owed \ {p.at : p \in page}]

LEMMA OwedIsLeft ==
  ASSUME Walking, NEW c \in Clients, NEW page, NEW more
  PROVE  Owed(c, page, more) = [walk EXCEPT ![c] = Left(c, page, more)]
BY DEF Walking, Owed, Left

\* A page over points that hold all that is owed: what is left of it lies past the next
\* cursor, and nothing is left behind the last page.
LEMMA PageServes ==
  ASSUME Walking, NEW c \in Clients, NEW points, Countable(points), Page(c, points), pc[c] = "asked",
         \A k \in walk[c].owed : \E p \in points : p.at = k,
         walk[c].cursor # NoKey => \A k \in walk[c].owed : Before(walk[c].cursor, k)
  PROVE  /\ walk'[c].owed \subseteq walk[c].owed /\ walk'[c].cut = walk[c].cut
         /\ pc'[c] = "idle" => walk'[c].owed = {}
         /\ walk'[c].cursor # NoKey => \A k \in walk'[c].owed : Before(walk'[c].cursor, k)
<1> DEFINE R == Past(points, walk[c].cursor)
<1> DEFINE F == FirstOf(R)
<1> DEFINE last == (CHOOSE p \in F : \A q \in F : ~Before(p.at, q.at)).at
<1>1. /\ walk' = Owed(c, F, F # R)
      /\ Go(c, IF F # R THEN "asked" ELSE "idle")
  BY DEF Page
<1>2. /\ walk'[c].owed = walk[c].owed \ {p.at : p \in F} /\ walk'[c].cut = walk[c].cut
      /\ walk'[c].cursor = IF F # R THEN last ELSE NoKey
      /\ pc'[c] = IF F # R THEN "asked" ELSE "idle"
  <2> HIDE DEF F, R
  <2>1. Owed(c, F, F # R) = [walk EXCEPT ![c] = Left(c, F, F # R)] BY OwedIsLeft
  <2> QED BY <1>1, <2>1 DEF Walking, Left, Go
<1>3. R \subseteq points BY DEF Past
<1>4. Countable(R)
  <2> HIDE DEF R
  <2> QED BY <1>3, FS_Subset DEF Countable
<1>5. \A k \in walk[c].owed : \E p \in R : p.at = k BY DEF Past
<1>6. F \subseteq R BY DEF FirstOf
<1> HIDE DEF R
<1>7. CASE F = R BY <1>2, <1>5, <1>7
<1>8. CASE F # R
  <2>1. PICK p \in F : (\A q \in F : ~Before(p.at, q.at)) /\ \A r \in R \ F : Before(p.at, r.at)
    BY <1>4, <1>6, <1>8, PageHasLast
  <2> DEFINE z == CHOOSE x \in F : \A q \in F : ~Before(x.at, q.at)
  <2> HIDE DEF F
  <2>2. z \in F /\ \A q \in F : ~Before(z.at, q.at) BY <2>1
  <2>3. last = z.at OBVIOUS
  <2> HIDE DEF z
  <2>4. z.at = p.at BY <1>4, <1>6, <2>1, <2>2, KeysAreOrdered DEF Countable
  <2>5. \A k \in walk'[c].owed : Before(z.at, k) BY <1>2, <1>5, <2>1, <2>4
  <2> HIDE DEF last
  <2> QED BY <1>2, <1>8, <2>3, <2>5
<1> QED BY <1>7, <1>8

\* The points of a page of the table.
Shelved(c) ==
  UNION {Points(g.model, g.series) : g \in {h \in rows : h.model \in {"real", walk[c].model}}}

LEMMA ShelvedIs ==
  ASSUME Built, Walking, NEW c \in Clients
  PROVE  Countable(Shelved(c)) /\ \A k \in walk[c].owed : \E p \in Shelved(c) : p.at = k
<1> DEFINE H == {h \in rows : h.model \in {"real", walk[c].model}}
<1> DEFINE f == [g \in H |-> Points(g.model, g.series)]
<1>1. IsFiniteSet(H)
  <2>1. H \subseteq rows OBVIOUS
  <2> HIDE DEF H
  <2> QED BY <2>1, FS_Subset DEF Built, GroupsAre
<1>2. \A g \in H : Countable(Points(g.model, g.series)) BY PointsAre DEF Built, GroupsAre
<1>3. Shelved(c) = UNION {f[g] : g \in H} BY DEF Shelved
<1>4. \A g \in H : Countable(f[g]) BY <1>2
<1>5. Countable(Shelved(c))
  <2> HIDE DEF f, H
  <2>1. IsFiniteSet({f[g] : g \in H}) BY <1>1, ImageIsFinite
  <2>2. IsFiniteSet(UNION {f[g] : g \in H}) BY <1>4, <2>1, FS_UNION DEF Countable
  <2> QED BY <1>3, <1>4, <2>2 DEF Countable
<1>6. ASSUME NEW k \in walk[c].owed PROVE \E p \in Shelved(c) : p.at = k
  <2>1. PICK g \in rows : k \in Standing(g) BY DEF Walking
  <2>2. g.model = "real" /\ k \in Keys(g) BY <2>1 DEF Standing
  <2>3. k \in {Key(d, Halvings) : d \in Charted(g.series)} BY <2>2 DEF Keys, Days
  <2>4. PICK p \in Overlay(g.series) : p.at = k BY <2>3, RealPoints DEF Built, GroupsAre
  <2>5. Overlay(g.series) = Points(g.model, g.series) BY <2>2 DEF Points
  <2> QED BY <2>2, <2>4, <2>5 DEF Shelved
<1> QED BY <1>5, <1>6

\* What a step of a client or of a worker may do to the walks.
LEMMA OneWalks ==
  ASSUME OverlayInv, NEW c \in Clients, rows' = rows, NEW step, Go(c, step),
         NEW next, walk' = [walk EXCEPT ![c] = next],
         next = [model |-> next.model, cut |-> next.cut, cursor |-> next.cursor, owed |-> next.owed],
         \A k \in next.owed : \E g \in rows : k \in Standing(g),
         next.cut # NoCut \/ step \notin {"idle", "asked"} => next.owed = {},
         step = "idle" => next.owed = {},
         next.cursor # NoKey => \A k \in next.owed : Before(next.cursor, k)
  PROVE  Walking' /\ NothingPassedOver'
<1>1. pc' = [p \in Workers \cup Clients |-> pc'[p]] BY DEF OverlayInv, Walking, Go
<1>2. pc'[c] = step /\ walk'[c] = next /\ \A d \in Clients : d # c => pc'[d] = pc[d] /\ walk'[d] = walk[d]
  BY DEF OverlayInv, Walking, Go
<1>3. walk' = [d \in Clients |-> [model |-> walk'[d].model, cut |-> walk'[d].cut,
                                  cursor |-> walk'[d].cursor, owed |-> walk'[d].owed]]
  BY <1>2 DEF OverlayInv, Walking
<1>4. Walking' BY <1>1, <1>2, <1>3 DEF OverlayInv, Walking, Standing
<1>5. NothingPassedOver' BY <1>2 DEF OverlayInv, NothingPassedOver, Before
<1> QED BY <1>4, <1>5

LEMMA WorkerWalks ==
  ASSUME OverlayInv, rows' = rows, walk' = walk,
         \/ pc' = pc \/ \E w \in Workers, step \in OverlaySteps : Go(w, step)
  PROVE  Walking' /\ NothingPassedOver'
<1>1. pc' = [p \in Workers \cup Clients |-> pc'[p]] BY DEF OverlayInv, Walking, Go
<1>2. \A c \in Clients : pc'[c] = pc[c] BY OverlayAssumption DEF OverlayInv, Walking, Go
<1> QED BY <1>1, <1>2 DEF OverlayInv, Walking, NothingPassedOver, Before, Standing

\* A page of a client that is owed nothing leaves it so.
LEMMA PageOwesNothing ==
  ASSUME OverlayInv, NEW c \in Clients, NEW points, walk[c].owed = {}, Page(c, points), rows' = rows
  PROVE  Walking' /\ NothingPassedOver'
<1> DEFINE F == FirstOf(Past(points, walk[c].cursor))
<1> DEFINE more == F # Past(points, walk[c].cursor)
<1> DEFINE step == IF more THEN "asked" ELSE "idle"
<1>1. walk' = Owed(c, F, more) /\ Go(c, step) BY DEF Page
<1> HIDE DEF F, more, step
<1>2. walk' = [walk EXCEPT ![c] = Left(c, F, more)] BY <1>1, OwedIsLeft DEF OverlayInv
<1>3. Left(c, F, more).owed = {} BY DEF Left
<1>4. Left(c, F, more) = [model |-> Left(c, F, more).model, cut |-> Left(c, F, more).cut,
                          cursor |-> Left(c, F, more).cursor, owed |-> Left(c, F, more).owed]
  BY DEF Left
<1> DEFINE next == Left(c, F, more)
<1> HIDE DEF next
<1>5. walk' = [walk EXCEPT ![c] = next] /\ next.owed = {}
      /\ next = [model |-> next.model, cut |-> next.cut, cursor |-> next.cursor, owed |-> next.owed]
  BY <1>2, <1>3, <1>4 DEF next
<1> QED BY <1>1, <1>5, OneWalks

\* A request that ends in an error, or begins.
LEMMA NoWalkIs ==
  ASSUME OverlayInv, NEW c \in Clients, walk' = [walk EXCEPT ![c] = NoWalk], Go(c, "idle"), rows' = rows
  PROVE  Walking' /\ NothingPassedOver'
<1>1. NoWalk.owed = {} /\ NoWalk = [model |-> NoWalk.model, cut |-> NoWalk.cut, cursor |-> NoWalk.cursor, owed |-> NoWalk.owed]
  BY DEF NoWalk
<1> QED BY <1>1, OneWalks

\* A statement of load_daily_series, of either.
LEMMA LoadKeepsWalks ==
  ASSUME OverlayInv, NEW p \in Workers \cup Clients, Load(p)
  PROVE  Walking' /\ NothingPassedOver'
<1>0. pc[p] \in {"native", "coverage", "finer"} BY DEF Load, ReadNative, ReadCoverage, ReadFiner
<1>1. CASE p \in Workers
  <2>1. /\ rows' = rows /\ walk' = walk
        /\ \E step \in OverlaySteps : Go(p, step)
    <3>1. CASE UNCHANGED <<rows, txs, walk>> /\ (Go(p, "coverage") \/ Go(p, "finer"))
      BY <3>1 DEF OverlaySteps
    <3>2. CASE \E s : IsSeries(s) /\ Loaded(p, s) BY <1>1, <3>2 DEF Loaded, clients, OverlaySteps
    <3> QED BY <3>1, <3>2, LoadGives
  <2> QED BY <1>1, <2>1, WorkerWalks
<1>2. CASE p \in Clients /\ p \notin Workers
  <2>1. walk[p].owed = {} BY <1>0, <1>2 DEF OverlayInv, Walking
  <2>2. CASE UNCHANGED <<rows, txs, walk>> /\ (Go(p, "coverage") \/ Go(p, "finer"))
    <3> DEFINE next == walk[p]
    <3>1. next = [model |-> next.model, cut |-> next.cut, cursor |-> next.cursor, owed |-> next.owed]
          /\ walk = [walk EXCEPT ![p] = next]
      BY <1>2 DEF OverlayInv, Walking
    <3> HIDE DEF next
    <3>2. next.owed = {} BY <2>1 DEF next
    <3>3. rows' = rows /\ walk' = [walk EXCEPT ![p] = next] BY <2>2, <3>1
    <3> QED BY <1>2, <2>2, <3>1, <3>2, <3>3, OneWalks
  <2>3. ASSUME NEW s, IsSeries(s), Loaded(p, s) PROVE Walking' /\ NothingPassedOver'
    <3>1. rows' = rows BY <2>3 DEF Loaded
    <3>2. CASE walk' = [walk EXCEPT ![p] = NoWalk] /\ Go(p, "idle") BY <1>2, <3>1, <3>2, NoWalkIs
    <3>3. ASSUME NEW points, Page(p, points) PROVE Walking' /\ NothingPassedOver'
      BY <1>2, <2>1, <3>1, <3>3, PageOwesNothing
    <3> QED BY <1>2, <2>3, <3>2, <3>3 DEF Loaded
  <2> QED BY <2>2, <2>3, LoadGives
<1> QED BY <1>1, <1>2

LEMMA WalksKept == ASSUME OverlayInv, [OverlayNext]_overlayVars PROVE Walking' /\ NothingPassedOver'
<1>0. CASE UNCHANGED <<rows, walk, pc>> BY <1>0, WorkerWalks
<1>1. CASE Write \/ EnqueueCoin \/ LeaseLost BY <1>1, <1>0 DEF Write, EnqueueCoin, LeaseLost, clients
<1>2. ASSUME NEW w \in Workers, Claim(w) PROVE Walking' /\ NothingPassedOver'
  BY <1>2, WorkerWalks DEF Claim, clients, OverlaySteps
<1>3. ASSUME NEW w \in Workers, Delete(w) \/ Lock(w) PROVE Walking' /\ NothingPassedOver'
  BY <1>3, WorkerWalks DEF Delete, Lock, clients, OverlaySteps, Inserting
<1>4. ASSUME NEW w \in Workers, Insert(w) PROVE Walking' /\ NothingPassedOver'
  <2>1. /\ rows' = rows /\ walk' = walk /\ \E step \in OverlaySteps : Go(w, step)
    BY <1>4 DEF Insert, clients, RolledBack, OverlaySteps, Inserting, StepOf
  <2> QED BY <2>1, WorkerWalks
<1>5. ASSUME NEW w \in Workers, Fails(w) \/ Dies(w) PROVE Walking' /\ NothingPassedOver'
  BY <1>5, WorkerWalks DEF Fails, Dies, RolledBack, clients, OverlaySteps
<1>6. ASSUME NEW w \in Workers, Commit(w) PROVE Walking' /\ NothingPassedOver'
  <2>1. walk' = OwedStill(rows') /\ Go(w, "idle") BY <1>6 DEF Commit
  <2>2. pc' = [p \in Workers \cup Clients |-> pc'[p]] /\ \A c \in Clients : pc'[c] = pc[c]
    BY <2>1, OverlayAssumption DEF OverlayInv, Walking, Go
  <2>3. ASSUME NEW c \in Clients
        PROVE  /\ walk'[c] = [model |-> walk'[c].model, cut |-> walk'[c].cut,
                              cursor |-> walk'[c].cursor, owed |-> walk'[c].owed]
               /\ walk'[c].cut = walk[c].cut /\ walk'[c].cursor = walk[c].cursor
               /\ walk'[c].owed \subseteq walk[c].owed
               /\ \A k \in walk'[c].owed : \E g \in rows' : k \in Standing(g)
    <3> DEFINE still == UNION {Standing(g) : g \in rows'}
    <3>1. walk'[c] = IF walk[c].cut = NoCut THEN [walk[c] EXCEPT !.owed = @ \cap still] ELSE walk[c]
      BY <2>1 DEF OwedStill
    <3>2. \A k \in still : \E g \in rows' : k \in Standing(g) OBVIOUS
    <3> HIDE DEF still
    <3>3. walk[c] = [model |-> walk[c].model, cut |-> walk[c].cut, cursor |-> walk[c].cursor, owed |-> walk[c].owed]
      BY DEF OverlayInv, Walking
    <3>4. walk[c].cut # NoCut => walk[c].owed = {} BY DEF OverlayInv, Walking
    <3> QED BY <3>1, <3>2, <3>3, <3>4
  <2>4. walk' = [c \in Clients |-> walk'[c]] BY <2>1 DEF OwedStill
  <2>5. \A g : Standing(g)' = Standing(g) BY DEF Standing
  <2>6. Walking' BY <2>2, <2>3, <2>4, <2>5 DEF OverlayInv, Walking
  <2>7. NothingPassedOver'
    <3>1. ASSUME NEW c \in Clients, pc'[c] = "idle" PROVE walk'[c].owed = {}
      <4>1. walk[c].owed = {} BY <2>2, <3>1 DEF OverlayInv, NothingPassedOver
      <4> QED BY <2>3, <4>1
    <3>2. ASSUME NEW c \in Clients, walk'[c].cursor # NoKey, NEW k \in walk'[c].owed
          PROVE  Before(walk'[c].cursor, k)
      BY <2>3, <3>2 DEF OverlayInv, NothingPassedOver
    <3> QED BY <3>1, <3>2 DEF NothingPassedOver
  <2> QED BY <2>6, <2>7
<1>7. ASSUME NEW c \in Clients, Ask(c) PROVE Walking' /\ NothingPassedOver'
  <2>1. PICK m \in Asked, cut \in Cuts \cup {NoCut} :
          walk' = [walk EXCEPT ![c] = [model |-> m, cut |-> cut, cursor |-> NoKey,
                     owed |-> IF cut = NoCut THEN UNION {Standing(g) : g \in rows} ELSE {}]]
    BY <1>7 DEF Ask
  <2> DEFINE next == [model |-> m, cut |-> cut, cursor |-> NoKey,
                      owed |-> IF cut = NoCut THEN UNION {Standing(g) : g \in rows} ELSE {}]
  <2>2. /\ next = [model |-> next.model, cut |-> next.cut, cursor |-> next.cursor, owed |-> next.owed]
        /\ next.cursor = NoKey
        /\ \A k \in next.owed : \E g \in rows : k \in Standing(g)
        /\ next.cut # NoCut => next.owed = {}
    OBVIOUS
  <2> HIDE DEF next
  <2>3. walk' = [walk EXCEPT ![c] = next] BY <2>1 DEF next
  <2>4. rows' = rows /\ Go(c, "asked") BY <1>7 DEF Ask
  <2> QED BY <2>2, <2>3, <2>4, OneWalks
<1>8. ASSUME NEW c \in Clients, Acquire(c) PROVE Walking' /\ NothingPassedOver'
  <2> DEFINE next == walk[c]
  <2>1. next = [model |-> next.model, cut |-> next.cut, cursor |-> next.cursor, owed |-> next.owed]
        /\ walk = [walk EXCEPT ![c] = next] /\ next.owed = {}
    BY <1>8 DEF OverlayInv, Walking, Acquire
  <2> HIDE DEF next
  <2>2. rows' = rows /\ Go(c, "native") /\ walk' = [walk EXCEPT ![c] = next] BY <1>8, <2>1 DEF Acquire
  <2> QED BY <2>1, <2>2, OneWalks
<1>9. ASSUME NEW c \in Clients, TablePage(c) PROVE Walking' /\ NothingPassedOver'
  <2>1. Page(c, Shelved(c)) /\ pc[c] = "asked" /\ rows' = rows BY <1>9 DEF TablePage, Shelved
  <2>2. Countable(Shelved(c)) /\ \A k \in walk[c].owed : \E p \in Shelved(c) : p.at = k
    BY ShelvedIs DEF OverlayInv
  <2>3. walk[c].cursor # NoKey => \A k \in walk[c].owed : Before(walk[c].cursor, k)
    BY DEF OverlayInv, NothingPassedOver
  <2>4. /\ walk'[c].owed \subseteq walk[c].owed /\ walk'[c].cut = walk[c].cut
        /\ pc'[c] = "idle" => walk'[c].owed = {}
        /\ walk'[c].cursor # NoKey => \A k \in walk'[c].owed : Before(walk'[c].cursor, k)
    BY <2>1, <2>2, <2>3, PageServes DEF OverlayInv
  <2> DEFINE F == FirstOf(Past(Shelved(c), walk[c].cursor))
  <2> DEFINE more == F # Past(Shelved(c), walk[c].cursor)
  <2> DEFINE step == IF more THEN "asked" ELSE "idle"
  <2> DEFINE next == Left(c, F, more)
  <2>5. walk' = Owed(c, F, more) /\ Go(c, step) BY <2>1 DEF Page
  <2>6. step \in {"asked", "idle"} OBVIOUS
  <2> HIDE DEF F, more, step
  <2>7. walk' = [walk EXCEPT ![c] = next] BY <2>5, OwedIsLeft DEF OverlayInv
  <2>8. next = [model |-> next.model, cut |-> next.cut, cursor |-> next.cursor, owed |-> next.owed] BY DEF Left
  <2> HIDE DEF next
  <2>9. walk'[c] = next /\ pc'[c] = step BY <2>5, <2>7 DEF OverlayInv, Walking, Go
  <2>10. \A k \in next.owed : \E g \in rows : k \in Standing(g) BY <2>4, <2>9 DEF OverlayInv, Walking
  <2>11. next.cut # NoCut => next.owed = {} BY <2>4, <2>9 DEF OverlayInv, Walking
  <2> QED BY <2>1, <2>4, <2>5, <2>6, <2>7, <2>8, <2>9, <2>10, <2>11, OneWalks
<1>10. ASSUME NEW c \in Clients, BreakOff(c) PROVE Walking' /\ NothingPassedOver'
  BY <1>10, NoWalkIs DEF BreakOff
<1>11. ASSUME NEW p \in Workers \cup Clients, Load(p) PROVE Walking' /\ NothingPassedOver'
  BY <1>11, LoadKeepsWalks
<1>12. CASE UNCHANGED overlayVars BY <1>12, <1>0 DEF overlayVars, clients
<1> QED BY <1>1, <1>2, <1>3, <1>4, <1>5, <1>6, <1>7, <1>8, <1>9, <1>10, <1>11, <1>12 DEF OverlayNext, Rebuilds, Reads

\* A page walk over the overlay passes over no real point that stood all through it: for
\* any history, halvings, page size and number of workers and clients, whatever is rebuilt
\* between two pages (list_overlay_for_model).
THEOREM OverlayWalksHold == OverlaySpec => []NothingPassedOver
<1>1. OverlayInv /\ [OverlayNext]_overlayVars => OverlayInv'
  BY StockKept, BuiltKept, WalksKept DEF OverlayInv
<1>2. OverlayInv => NothingPassedOver BY DEF OverlayInv
<1> QED BY OverlayInitInv, <1>1, <1>2, PTL DEF OverlaySpec

-----------------------------------------------------------------------------
(* The order of the keys.  Between two days, by whichever list of halvings *)
(* each goes, the later one has the later cycle or is further into it.     *)

LEMMA CycleGrows ==
  ASSUME NEW a \in Int, NEW b \in Int, a < b, NEW D, NEW E, D \in Seq(Int), E \in Seq(Int), D # <<>>,
         Len(D) <= Len(E), \A i \in 1..Len(D) : D[i] = E[i]
  PROVE  Before(Key(a, D), Key(b, E))
<1> DEFINE S == {i \in 1..Len(D) : D[i] <= a}
<1> DEFINE T == {i \in 1..Len(E) : E[i] <= b}
<1>1. Len(D) \in Nat /\ Len(E) \in Nat /\ Len(D) >= 1 /\ Len(E) >= 1
      /\ (\A i \in 1..Len(D) : D[i] \in Int) /\ (\A i \in 1..Len(E) : E[i] \in Int)
  OBVIOUS
<1>2. S \subseteq T BY <1>1
<1>3. Cardinality(S) \in 0..Len(D) /\ Cardinality(T) \in 0..Len(E) /\ Cardinality(S) <= Cardinality(T)
  <2>1. IsFiniteSet(1..Len(D)) /\ Cardinality(1..Len(D)) = Len(D) BY <1>1, FS_Interval
  <2>2. IsFiniteSet(1..Len(E)) /\ Cardinality(1..Len(E)) = Len(E) BY <1>1, FS_Interval
  <2>3. S \subseteq 1..Len(D) /\ T \subseteq 1..Len(E) OBVIOUS
  <2> HIDE DEF S, T
  <2>4. IsFiniteSet(S) /\ Cardinality(S) <= Len(D)
    <3>1. IsFiniteSet(S) /\ Cardinality(S) <= Cardinality(1..Len(D)) BY <2>1, <2>3, FS_Subset, Zenon
    <3> QED BY <2>1, <3>1, Zenon
  <2>5. IsFiniteSet(T) /\ Cardinality(T) <= Len(E)
    <3>1. IsFiniteSet(T) /\ Cardinality(T) <= Cardinality(1..Len(E)) BY <2>2, <2>3, FS_Subset, Zenon
    <3> QED BY <2>2, <3>1, Zenon
  <2>6. Cardinality(S) <= Cardinality(T) BY <1>2, <2>5, FS_Subset
  <2>7. Cardinality(S) \in Nat /\ Cardinality(T) \in Nat BY <2>4, <2>5, FS_CardinalityType
  <2> QED BY <1>1, <2>4, <2>5, <2>6, <2>7
<1>4. CycleOf(a, D) = Cardinality(S) /\ CycleOf(b, E) = Cardinality(T) BY DEF CycleOf
<1> DEFINE m == Cardinality(S)
<1> DEFINE n == Cardinality(T)
<1>5. m \in 0..Len(D) /\ n \in 0..Len(E) /\ m <= n /\ CycleOf(a, D) = m /\ CycleOf(b, E) = n BY <1>3, <1>4
<1> HIDE DEF S, T, m, n
<1>6. ASSUME NEW k \in Nat PROVE Max({1, k}) = IF k >= 1 THEN k ELSE 1
  <2>1. IsFiniteSet({1} \cup {k}) BY FS_AddElement, FS_Singleton
  <2>2. {1, k} = {1} \cup {k} OBVIOUS
  <2>3. {1, k} \subseteq Int /\ {1, k} # {} OBVIOUS
  <2>4. Max({1, k}) \in {1, k} /\ \A y \in {1, k} : Max({1, k}) >= y BY <2>1, <2>2, <2>3, MaxIs
  <2> QED BY <2>4
<1> DEFINE c == Max({1, m})
<1> DEFINE d == Max({1, n})
<1>7. c \in 1..Len(D) /\ d \in Nat /\ c <= d
  <2>1. m \in Nat /\ n \in Nat BY <1>1, <1>5
  <2>2. c = (IF m >= 1 THEN m ELSE 1) /\ d = (IF n >= 1 THEN n ELSE 1) BY <2>1, <1>6
  <2> HIDE DEF c, d
  <2> QED BY <1>1, <1>5, <2>1, <2>2
<1>8. Key(a, D) = <<c, a - D[c]>> /\ Key(b, E) = <<d, b - E[d]>> BY <1>5 DEF Key
<1> HIDE DEF c, d
<1>9. CASE c < d BY <1>8, <1>9 DEF Before
<1>10. CASE c = d
  <2>1. D[c] = E[d] /\ D[c] \in Int BY <1>1, <1>7, <1>10
  <2>2. a - D[c] < b - E[d] BY <2>1
  <2> QED BY <1>8, <1>10, <2>2 DEF Before
<1> QED BY <1>7, <1>9, <1>10

\* Where a point of a series stands.
IsPlaced(p, s) ==
  \/ p.projected = FALSE /\ p.at = Key(p.day, Halvings) /\ p.day \in DOMAIN s
  \/ /\ p.projected = TRUE /\ p.at = Key(p.day, Extended)
     /\ DOMAIN s # {} /\ p.day \in Int /\ \A d \in DOMAIN s : d < p.day

LEMMA PointsArePlaced ==
  ASSUME NEW s, IsSeries(s), NEW model, NEW p \in Points(model, s)
  PROVE  IsPlaced(p, s)
<1>1. CASE p \in Overlay(s)
  <2>1. PICK d \in Charted(s) : p.projected = FALSE /\ p.at = Key(d, Halvings) /\ p.day = d
    <3>1. PICK d \in Charted(s) : \E u, v, x, y : p = Point(Key(d, Halvings), d, u, v, x, y, FALSE)
      BY <1>1, Zenon DEF Overlay
    <3>2. PICK u, v, x, y : p = Point(Key(d, Halvings), d, u, v, x, y, FALSE) BY <3>1
    <3>3. p.projected = FALSE /\ p.at = Key(d, Halvings) /\ p.day = d BY <3>2 DEF Point
    <3> QED BY <3>3
  <2> QED BY <2>1 DEF IsPlaced, Charted
<1>2. CASE p \in Scaled(Raw(model, s), Overlay(s))
  <2>1. PICK q \in Raw(model, s) : p.projected = TRUE /\ p.at = q.at /\ p.day = q.day
    <3>1. PICK q \in Raw(model, s) : \E v, x : p = Point(q.at, q.day, q.price, v, x, TRUE, TRUE)
      BY <1>2, Zenon DEF Scaled
    <3>2. PICK v, x : p = Point(q.at, q.day, q.price, v, x, TRUE, TRUE) BY <3>1
    <3>3. p.projected = TRUE /\ p.at = q.at /\ p.day = q.day BY <3>2 DEF Point
    <3> QED BY <3>3
  <2>2. PICK k \in Horizon(model, s) : q.at = Key(Today(s) + k, Extended) /\ q.day = Today(s) + k
    <3>1. PICK k \in Horizon(model, s) : \E v : q = [at |-> Key(Today(s) + k, Extended), day |-> Today(s) + k, price |-> v]
      BY Zenon DEF Raw
    <3> QED BY <3>1
  <2>3. k \in 1..CycleDays /\ CycleDays \in Nat /\ DOMAIN s # {}
    BY OverlayAssumption DEF Horizon, DeepEnough
  <2>4. Today(s) \in Int /\ \A d \in DOMAIN s : d \in Int /\ Today(s) >= d
    BY <2>3, MaxIs DEF Today, IsSeries
  <2>5. Today(s) + k \in Int /\ \A d \in DOMAIN s : d < Today(s) + k BY <2>3, <2>4
  <2> QED BY <2>1, <2>2, <2>3, <2>5 DEF IsPlaced
<1> QED BY <1>1, <1>2 DEF Points

LEMMA PlacesFollowDays ==
  ASSUME NEW s, IsSeries(s), NEW p, IsPlaced(p, s), NEW q, IsPlaced(q, s)
  PROVE  /\ p.day < q.day => Before(p.at, q.at)
         /\ ~p.projected /\ q.projected => p.day < q.day
<1>0. \A d \in DOMAIN s : d \in Int BY DEF IsSeries
<1>1. p.day \in Int /\ q.day \in Int BY <1>0 DEF IsPlaced
<1>2. ~p.projected /\ q.projected => p.day < q.day BY DEF IsPlaced
<1>3. Len(Halvings) <= Len(Extended) /\ \A i \in 1..Len(Halvings) : Halvings[i] = Extended[i]
  BY OverlayAssumption DEF Extended
<1>4. Len(Halvings) <= Len(Halvings) /\ Len(Extended) <= Len(Extended) BY DatesAre
<1>5. ASSUME p.day < q.day PROVE Before(p.at, q.at)
  <2>1. CASE p.at = Key(p.day, Halvings) /\ q.at = Key(q.day, Halvings)
    <3>1. Before(Key(p.day, Halvings), Key(q.day, Halvings)) BY <1>1, <1>4, <1>5, CycleGrows, DatesAre
    <3> QED BY <2>1, <3>1
  <2>2. CASE p.at = Key(p.day, Halvings) /\ q.at = Key(q.day, Extended)
    <3>1. Before(Key(p.day, Halvings), Key(q.day, Extended)) BY <1>1, <1>3, <1>5, CycleGrows, DatesAre
    <3> QED BY <2>2, <3>1
  <2>3. CASE p.at = Key(p.day, Extended) /\ q.at = Key(q.day, Extended)
    <3>1. Before(Key(p.day, Extended), Key(q.day, Extended)) BY <1>1, <1>4, <1>5, CycleGrows, DatesAre
    <3> QED BY <2>3, <3>1
  <2>4. ~(p.projected = TRUE /\ q.projected = FALSE) BY <1>0, <1>1, <1>5 DEF IsPlaced
  <2> QED BY <2>1, <2>2, <2>3, <2>4 DEF IsPlaced
<1> QED BY <1>2, <1>5

\* The keys of the points of one rebuild follow their days, the real ones by the list of
\* halvings, the projected ones by that with the estimated one, and every projected point
\* lies behind every real one: for any halvings, estimate, horizon and history.  The
\* keyset order of list_overlay_for_model rests on it.
THEOREM KeysHold == OverlaySpec => []KeysFollowDays
<1>1. OverlayInv /\ [OverlayNext]_overlayVars => OverlayInv'
  BY StockKept, BuiltKept, WalksKept DEF OverlayInv
<1>2. ASSUME OverlayInv PROVE KeysFollowDays
  <2> SUFFICES ASSUME NEW g \in rows, NEW p \in GivenBy(g.series), NEW q \in GivenBy(g.series)
               PROVE  /\ p.day < q.day => Before(p.at, q.at)
                      /\ ~p.projected /\ q.projected => p.day < q.day
    BY DEF KeysFollowDays
  <2>1. IsSeries(g.series) BY <1>2 DEF OverlayInv, Built, GroupsAre
  <2>2. \A r \in GivenBy(g.series) : \E model : r \in Points(model, g.series) BY DEF GivenBy
  <2>3. IsPlaced(p, g.series) /\ IsPlaced(q, g.series) BY <2>1, <2>2, PointsArePlaced
  <2> QED BY <2>1, <2>3, PlacesFollowDays
<1> QED BY OverlayInitInv, <1>1, <1>2, PTL DEF OverlaySpec
-----------------------------------------------------------------------------
(* One rebuild at a time.  A transaction deletes whole rebuilds, no two    *)
(* the same one, and what it has inserted shares no primary key with what  *)
(* it leaves standing or with what another one holds.                      *)

Open == Inserting \cup {"commit"}

\* Groups of the real points, of the replay and of the composite before the n-th.
InsertedOf(s, n) == {[model |-> Models[i], series |-> s] : i \in 1..(n - 1)} \cap Rebuild(s)
Inserted(step, s) == UNION {InsertedOf(s, n) : n \in {i \in 1..4 : step = StepOf[i]}}

Whole(G) == \A g \in G : Rebuild(g.series) \subseteq G
Apart(G, H) == \A g \in G, h \in H : ~Clash(g, h)

Fits ==
  /\ \A g \in rows : g \in Rebuild(g.series)
  /\ Whole(rows)
  /\ \A g, h \in rows : Clash(g, h) => g = h

Locked ==
  /\ pc = [p \in Workers \cup Clients |-> pc[p]]
  /\ series = [w \in Workers |-> series[w]] /\ fresh = [w \in Workers |-> fresh[w]]
  /\ snap = [w \in Workers |-> snap[w]] /\ gone = [w \in Workers |-> gone[w]]
  /\ \A w \in Workers :
       /\ snap[w] \subseteq rows /\ Whole(snap[w]) /\ (pc[w] # "lock" => snap[w] = {})
       /\ gone[w] \subseteq rows /\ Whole(gone[w]) /\ (pc[w] \notin Open => gone[w] = {})
       /\ fresh[w] = Inserted(pc[w], series[w])
       /\ Apart(fresh[w], rows \ gone[w])
       /\ \A v \in Others(w) : gone[w] \cap gone[v] = {} /\ Apart(fresh[w], gone[v] \cup fresh[v])

LEMMA NothingDone ==
  ASSUME NEW step, step \notin Open, NEW s
  PROVE  Inserted(step, s) = {}
BY DEF Open, Inserting, StepOf, Inserted

LEMMA ClashIsMutual == \A g, h : Clash(g, h) <=> Clash(h, g)
BY DEF Clash

\* A group with points shares its keys with itself.
LEMMA ClashesWithItself ==
  ASSUME NEW s, NEW g \in Rebuild(s)
  PROVE  g.series = s /\ Clash(g, g)
<1>1. PICK n \in 1..3 : g = [model |-> Models[n], series |-> s]
  BY DEF Rebuild, Groups
<1>2. PICK d \in Days(g) : TRUE
  BY DEF Rebuild
<1>3. Key(d, IF g.model = "real" THEN Halvings ELSE Extended) \in Keys(g)
  BY DEF Keys
<1> QED
  BY <1>1, <1>3 DEF Clash

\* Two groups of one rebuild with a key in common are one.
LEMMA OneOfItsModel ==
  ASSUME NEW s, NEW g \in Rebuild(s), NEW h \in Rebuild(s), Clash(g, h)
  PROVE  g = h
BY DEF Rebuild, Groups, Clash

\* Where no statement of a transaction runs.
LEMMA OutsideKeeps ==
  ASSUME Locked, UNCHANGED <<rows, snap, gone, fresh>>,
         pc' = [p \in Workers \cup Clients |-> pc'[p]],
         series' = [w \in Workers |-> series'[w]],
         \A w \in Workers : \/ pc'[w] = pc[w] /\ series'[w] = series[w]
                            \/ {pc[w], pc'[w]} \cap (Open \cup {"lock"}) = {}
  PROVE  Locked'
<1>1. ASSUME NEW w \in Workers PROVE fresh'[w] = Inserted(pc'[w], series'[w])
  <2>1. CASE pc'[w] = pc[w] /\ series'[w] = series[w]
    BY <2>1 DEF Locked
  <2>2. CASE {pc[w], pc'[w]} \cap Open = {}
    <3>1. pc[w] \notin Open /\ pc'[w] \notin Open
      BY <2>2
    <3> QED
      BY <3>1, NothingDone DEF Locked
  <2> QED
    BY <2>1, <2>2
<1>2. ASSUME NEW w \in Workers
      PROVE  (pc'[w] # "lock" => snap'[w] = {}) /\ (pc'[w] \notin Open => gone'[w] = {})
  BY DEF Locked
<1> QED
  BY <1>1, <1>2 DEF Locked, Whole, Apart

\* A transaction that ends without a commit.
LEMMA RolledBackUnlocks ==
  ASSUME Locked, NEW w \in Workers, RolledBack(w), rows' = rows
  PROVE  Locked'
<1>1. /\ gone' = [gone EXCEPT ![w] = {}] /\ fresh' = [fresh EXCEPT ![w] = {}]
      /\ snap' = [snap EXCEPT ![w] = {}] /\ series' = [series EXCEPT ![w] = <<>>]
      /\ pc' = [pc EXCEPT ![w] = "idle"]
  BY DEF RolledBack, Go
<1>2. /\ \A v \in Workers : v # w => /\ gone'[v] = gone[v] /\ fresh'[v] = fresh[v] /\ snap'[v] = snap[v]
                                     /\ series'[v] = series[v] /\ pc'[v] = pc[v]
      /\ gone'[w] = {} /\ fresh'[w] = {} /\ snap'[w] = {} /\ pc'[w] = "idle"
  BY <1>1 DEF Locked
<1>3. ASSUME NEW v \in Workers PROVE fresh'[v] = Inserted(pc'[v], series'[v])
  <2>1. "idle" \notin Open
    BY DEF Open, Inserting
  <2>2. Inserted("idle", series'[v]) = {}
    BY <2>1, NothingDone
  <2>3. CASE v = w
    BY <1>2, <2>2, <2>3
  <2>4. CASE v # w
    BY <1>2, <2>4 DEF Locked
  <2> QED
    BY <2>3, <2>4
<1>4. ASSUME NEW v \in Workers
      PROVE  /\ snap'[v] \subseteq rows' /\ Whole(snap'[v]) /\ (pc'[v] # "lock" => snap'[v] = {})
             /\ gone'[v] \subseteq rows' /\ Whole(gone'[v]) /\ (pc'[v] \notin Open => gone'[v] = {})
             /\ Apart(fresh'[v], rows' \ gone'[v])
  BY <1>2 DEF Locked, Whole, Apart, Open, Inserting
<1>5. ASSUME NEW v \in Workers, NEW u \in Others(v)
      PROVE  gone'[v] \cap gone'[u] = {} /\ Apart(fresh'[v], gone'[u] \cup fresh'[u])
  <2>1. u \in Workers
    BY DEF Others
  <2>2. gone'[v] \subseteq gone[v] /\ gone'[u] \subseteq gone[u] /\ fresh'[v] \subseteq fresh[v] /\ fresh'[u] \subseteq fresh[u]
    BY <1>2, <2>1
  <2> QED
    BY <2>2 DEF Locked, Apart
<1>6. /\ pc' = [p \in Workers \cup Clients |-> pc'[p]]
      /\ series' = [v \in Workers |-> series'[v]] /\ fresh' = [v \in Workers |-> fresh'[v]]
      /\ snap' = [v \in Workers |-> snap'[v]] /\ gone' = [v \in Workers |-> gone'[v]]
  BY <1>1 DEF Locked
<1> QED
  BY <1>3, <1>4, <1>5, <1>6 DEF Locked, Others

\* The DELETE notes what stands ...
LEMMA DeleteLocks ==
  ASSUME Fits, Locked, NEW w \in Workers, Delete(w)
  PROVE  Locked'
<1>1. /\ pc[w] = "delete" /\ snap' = [snap EXCEPT ![w] = rows] /\ pc' = [pc EXCEPT ![w] = "lock"]
      /\ rows' = rows /\ series' = series /\ gone' = gone /\ fresh' = fresh
  BY DEF Delete, Seen, Go
<1>2. ASSUME NEW v \in Workers
      PROVE  /\ snap'[v] \subseteq rows /\ Whole(snap'[v]) /\ (pc'[v] # "lock" => snap'[v] = {})
             /\ (pc'[v] \notin Open => gone'[v] = {})
             /\ fresh'[v] = Inserted(pc'[v], series'[v])
  <2>1. "lock" \notin Open /\ "delete" \notin Open
    BY DEF Open, Inserting
  <2>2. CASE v = w
    <3>1. snap'[w] = rows /\ pc'[w] = "lock" /\ gone'[w] = {}
      BY <1>1, <2>1 DEF Locked
    <3>2. fresh'[w] = {} /\ Inserted("lock", series'[w]) = {}
      BY <1>1, <2>1, NothingDone DEF Locked
    <3> QED
      BY <2>2, <3>1, <3>2 DEF Fits
  <2>3. CASE v # w
    BY <1>1, <2>3 DEF Locked
  <2> QED
    BY <2>2, <2>3
<1>3. /\ pc' = [p \in Workers \cup Clients |-> pc'[p]] /\ snap' = [v \in Workers |-> snap'[v]]
  BY <1>1 DEF Locked
<1> QED
  BY <1>1, <1>2, <1>3 DEF Locked, Whole, Apart

\* ... and takes of it what nobody else has taken.
LEMMA LockLocks ==
  ASSUME Fits, Locked, NEW w \in Workers, Lock(w)
  PROVE  Locked'
<1>1. /\ pc[w] = "lock" /\ \A v \in Others(w) : gone[v] \cap snap[w] = {}
      /\ gone' = [gone EXCEPT ![w] = snap[w]] /\ snap' = [snap EXCEPT ![w] = {}]
      /\ pc' = [pc EXCEPT ![w] = "insert_real"]
      /\ rows' = rows /\ series' = series /\ fresh' = fresh
  BY DEF Lock, Go
<1>2. /\ \A v \in Workers : v # w => /\ gone'[v] = gone[v] /\ snap'[v] = snap[v] /\ pc'[v] = pc[v]
      /\ gone'[w] = snap[w] /\ snap'[w] = {} /\ pc'[w] = "insert_real"
  BY <1>1 DEF Locked
<1>3. fresh[w] = {} /\ Inserted("insert_real", series[w]) = {}
  <2>1. Inserted("lock", series[w]) = {}
    BY NothingDone DEF Open, Inserting
  <2>2. Inserted("insert_real", series[w]) = InsertedOf(series[w], 1)
    BY DEF Inserted, StepOf
  <2>3. InsertedOf(series[w], 1) = {}
    BY DEF InsertedOf
  <2> QED
    BY <1>1, <2>1, <2>2, <2>3 DEF Locked
<1>4. ASSUME NEW v \in Workers PROVE fresh'[v] = Inserted(pc'[v], series'[v])
  <2>1. CASE v = w
    BY <1>1, <1>2, <1>3, <2>1
  <2>2. CASE v # w
    BY <1>1, <1>2, <2>2 DEF Locked
  <2> QED
    BY <2>1, <2>2
<1>5. ASSUME NEW v \in Workers
      PROVE  /\ snap'[v] \subseteq rows /\ Whole(snap'[v]) /\ (pc'[v] # "lock" => snap'[v] = {})
             /\ gone'[v] \subseteq rows /\ Whole(gone'[v]) /\ (pc'[v] \notin Open => gone'[v] = {})
             /\ Apart(fresh[v], rows \ gone'[v])
  BY <1>2, <1>3 DEF Locked, Whole, Apart, Open, Inserting
<1>6. ASSUME NEW v \in Workers, NEW u \in Others(v)
      PROVE  gone'[v] \cap gone'[u] = {} /\ Apart(fresh[v], gone'[u] \cup fresh[u])
  <2>0. u \in Workers /\ u # v
    BY DEF Others
  <2>1. CASE v = w
    BY <1>1, <1>2, <1>3, <2>0, <2>1 DEF Apart, Others
  <2>2. CASE u = w
    <3>1. gone[v] \cap snap[w] = {}
      BY <1>1, <2>0, <2>2 DEF Others
    <3>2. snap[w] \subseteq rows \ gone[v]
      BY <3>1 DEF Locked
    <3> QED
      BY <1>2, <1>3, <2>0, <2>2, <3>1, <3>2 DEF Locked, Apart
  <2>3. CASE v # w /\ u # w
    BY <1>2, <2>0, <2>3 DEF Locked, Apart
  <2> QED
    BY <2>1, <2>2, <2>3
<1>7. /\ pc' = [p \in Workers \cup Clients |-> pc'[p]]
      /\ snap' = [v \in Workers |-> snap'[v]] /\ gone' = [v \in Workers |-> gone'[v]]
  BY <1>1 DEF Locked
<1> QED
  BY <1>1, <1>4, <1>5, <1>6, <1>7 DEF Locked, Others

\* An INSERT that comes through shares no key with anything it could meet.
LEMMA InsertLocks ==
  ASSUME Locked, NEW w \in Workers, Insert(w)
  PROVE  Locked'
<1>1. PICK n \in 1..3 :
        /\ pc[w] = StepOf[n] /\ rows' = rows
        /\ \A v \in Others(w) : \A h \in gone[v] \cup fresh[v] :
             ~Clash([model |-> Models[n], series |-> series[w]], h)
        /\ \/ RolledBack(w)
           \/ /\ \A h \in rows \ gone[w] : ~Clash([model |-> Models[n], series |-> series[w]], h)
              /\ fresh' = [fresh EXCEPT ![w] = @ \cup
                     ({[model |-> Models[n], series |-> series[w]]} \cap Rebuild(series[w]))]
              /\ pc' = [pc EXCEPT ![w] = StepOf[n + 1]] /\ UNCHANGED <<series, snap, gone>>
  BY DEF Insert, Go
<1>2. CASE RolledBack(w)
  BY <1>1, <1>2, RolledBackUnlocks
<1>3. CASE ~RolledBack(w)
  <2> DEFINE g == [model |-> Models[n], series |-> series[w]]
  <2>1. /\ fresh' = [fresh EXCEPT ![w] = fresh[w] \cup ({g} \cap Rebuild(series[w]))]
        /\ pc' = [pc EXCEPT ![w] = StepOf[n + 1]] /\ series' = series /\ snap' = snap /\ gone' = gone
        /\ Apart({g}, rows \ gone[w]) /\ \A v \in Others(w) : Apart({g}, gone[v] \cup fresh[v])
    BY <1>1, <1>3 DEF Apart
  <2>2. /\ \A v \in Workers : v # w => fresh'[v] = fresh[v] /\ pc'[v] = pc[v]
        /\ fresh'[w] = fresh[w] \cup ({g} \cap Rebuild(series[w])) /\ pc'[w] = StepOf[n + 1]
    BY <2>1 DEF Locked
  <2>3. Inserted(pc[w], series[w]) = InsertedOf(series[w], n) /\ Inserted(pc'[w], series[w]) = InsertedOf(series[w], n + 1)
    <3>1. \A i, j \in 1..4 : StepOf[i] = StepOf[j] => i = j
      BY DEF StepOf
    <3>2. n \in 1..4 /\ n + 1 \in 1..4
      OBVIOUS
    <3>3. {i \in 1..4 : pc[w] = StepOf[i]} = {n} /\ {i \in 1..4 : pc'[w] = StepOf[i]} = {n + 1}
      BY <1>1, <2>2, <3>1, <3>2
    <3> QED
      BY <3>3 DEF Inserted
  <2>4. InsertedOf(series[w], n + 1) = InsertedOf(series[w], n) \cup ({g} \cap Rebuild(series[w]))
    <3>1. (n + 1) - 1 = n /\ 1..n = (1..(n - 1)) \cup {n}
      OBVIOUS
    <3> QED
      BY <3>1 DEF InsertedOf
  <2>5. ASSUME NEW v \in Workers PROVE fresh'[v] = Inserted(pc'[v], series'[v])
    <3>1. CASE v = w
      BY <2>1, <2>2, <2>3, <2>4, <3>1 DEF Locked
    <3>2. CASE v # w
      BY <2>1, <2>2, <3>2 DEF Locked
    <3> QED
      BY <3>1, <3>2
  <2> HIDE DEF g
  <2>6. ASSUME NEW v \in Workers
        PROVE  /\ (pc'[v] # "lock" => snap'[v] = {}) /\ (pc'[v] \notin Open => gone'[v] = {})
               /\ Apart(fresh'[v], rows \ gone[v])
    <3>1. pc[w] # "lock" /\ pc'[w] \in Open
      BY <1>1, <2>2 DEF StepOf, Open, Inserting
    <3> QED
      BY <2>1, <2>2, <3>1 DEF Locked, Apart
  <2>7. ASSUME NEW v \in Workers, NEW u \in Others(v)
        PROVE  Apart(fresh'[v], gone[u] \cup fresh'[u])
    <3>0. u \in Workers /\ u # v
      BY DEF Others
    <3>1. CASE v = w
      <4>1. Apart({g}, gone[u] \cup fresh[u]) /\ fresh'[u] = fresh[u]
        BY <2>1, <2>2, <3>0, <3>1
      <4>2. Apart(fresh[w], gone[u] \cup fresh[u])
        BY <3>1 DEF Locked
      <4> QED
        BY <2>2, <3>1, <4>1, <4>2 DEF Apart
    <3>2. CASE u = w
      <4>1. v \in Others(w)
        BY <3>0, <3>2 DEF Others
      <4>2. Apart({g}, fresh[v])
        BY <2>1, <4>1 DEF Apart
      <4>3. Apart(fresh[v], {g})
        BY <4>2, ClashIsMutual DEF Apart
      <4>4. Apart(fresh[v], gone[w] \cup fresh[w]) /\ fresh'[v] = fresh[v]
        BY <2>2, <3>0, <3>2 DEF Locked
      <4> QED
        BY <2>2, <3>2, <4>3, <4>4 DEF Apart
    <3>3. CASE v # w /\ u # w
      BY <2>2, <3>0, <3>3 DEF Locked, Apart
    <3> QED
      BY <3>1, <3>2, <3>3
  <2>8. pc' = [p \in Workers \cup Clients |-> pc'[p]] /\ fresh' = [v \in Workers |-> fresh'[v]]
    BY <2>1 DEF Locked
  <2> QED
    BY <1>1, <2>1, <2>5, <2>6, <2>7, <2>8 DEF Locked, Whole, Others
<1> QED
  BY <1>2, <1>3

LEMMA WholeLess ==
  ASSUME Fits, NEW G, G \subseteq rows, Whole(G), NEW H, H \subseteq rows, Whole(H)
  PROVE  Whole(G \ H)
<1> SUFFICES ASSUME NEW g \in G \ H, NEW f \in Rebuild(g.series) PROVE f \in G \ H
  BY DEF Whole
<1>1. f \in G
  BY DEF Whole
<1>2. ASSUME f \in H PROVE FALSE
  <2>1. f.series = g.series
    BY ClashesWithItself
  <2>2. g \in Rebuild(f.series)
    BY <2>1 DEF Fits
  <2> QED
    BY <1>2, <2>2 DEF Whole
<1> QED
  BY <1>1, <1>2

\* A commit puts a whole rebuild where whole rebuilds were.
LEMMA CommitFacts ==
  ASSUME Fits, Locked, NEW w \in Workers, Commit(w)
  PROVE  /\ rows' = (rows \ gone[w]) \cup fresh[w] /\ fresh[w] = Rebuild(series[w])
         /\ \A v \in Workers : v # w => /\ gone'[v] = gone[v] /\ fresh'[v] = fresh[v] /\ pc'[v] = pc[v]
                                        /\ series'[v] = series[v]
         /\ \A v \in Workers : snap'[v] = snap[v] \ gone[w]
         /\ gone'[w] = {} /\ fresh'[w] = {} /\ pc[w] = "commit" /\ pc'[w] = "idle"
<1>1. /\ pc[w] = "commit" /\ rows' = (rows \ gone[w]) \cup fresh[w]
      /\ snap' = [v \in Workers |-> snap[v] \ gone[w]]
      /\ gone' = [gone EXCEPT ![w] = {}] /\ fresh' = [fresh EXCEPT ![w] = {}]
      /\ series' = [series EXCEPT ![w] = <<>>] /\ pc' = [pc EXCEPT ![w] = "idle"]
  BY DEF Commit, Go
<1>2. Inserted("commit", series[w]) = InsertedOf(series[w], 4)
  BY DEF Inserted, StepOf
<1>3. InsertedOf(series[w], 4) = Rebuild(series[w])
  <2>1. 1..(4 - 1) = 1..3
    OBVIOUS
  <2>2. Rebuild(series[w]) \subseteq {[model |-> Models[i], series |-> series[w]] : i \in 1..3}
    BY DEF Rebuild, Groups
  <2> QED
    BY <2>1, <2>2 DEF InsertedOf
<1>4. fresh[w] = Rebuild(series[w])
  BY <1>1, <1>2, <1>3 DEF Locked
<1> QED
  BY <1>1, <1>4 DEF Locked

LEMMA CommitFits ==
  ASSUME Fits, Locked, NEW w \in Workers, Commit(w)
  PROVE  Fits'
<1> DEFINE old == rows \ gone[w]
           new == Rebuild(series[w])
<1>1. rows' = old \cup new /\ fresh[w] = new
  BY CommitFacts
<1>2. \A g \in new : g.series = series[w]
  BY ClashesWithItself
<1>3. Whole(old)
  BY WholeLess DEF Locked, Fits, Whole
<1>4. Apart(new, old)
  BY <1>1 DEF Locked
<1> HIDE DEF old, new
<1>5. \A g \in old : g \in rows
  BY DEF old
<1>6. ASSUME NEW g \in rows' PROVE g \in Rebuild(g.series) /\ Rebuild(g.series) \subseteq rows'
  <2>1. CASE g \in old
    BY <1>1, <1>3, <1>5, <2>1 DEF Fits, Whole
  <2>2. CASE g \in new
    <3>1. new = Rebuild(g.series)
      BY <1>2, <2>2 DEF new
    <3> QED
      BY <1>1, <2>2, <3>1
  <2> QED
    BY <1>1, <2>1, <2>2
<1>7. ASSUME NEW g \in rows', NEW h \in rows', Clash(g, h) PROVE g = h
  <2>1. CASE g \in old /\ h \in old
    BY <1>5, <1>7, <2>1 DEF Fits
  <2>2. CASE g \in new /\ h \in new
    BY <1>7, <2>2, OneOfItsModel DEF new
  <2>3. ~(g \in new /\ h \in old) /\ ~(g \in old /\ h \in new)
    BY <1>4, <1>7, ClashIsMutual DEF Apart
  <2> QED
    BY <1>1, <2>1, <2>2, <2>3
<1> QED
  BY <1>6, <1>7 DEF Fits, Whole

LEMMA CommitLocks ==
  ASSUME Fits, Locked, NEW w \in Workers, Commit(w)
  PROVE  Locked'
<1>1. /\ rows' = (rows \ gone[w]) \cup fresh[w]
      /\ \A v \in Workers : v # w => /\ gone'[v] = gone[v] /\ fresh'[v] = fresh[v] /\ pc'[v] = pc[v]
                                     /\ series'[v] = series[v]
      /\ \A v \in Workers : snap'[v] = snap[v] \ gone[w]
      /\ gone'[w] = {} /\ fresh'[w] = {} /\ pc[w] = "commit" /\ pc'[w] = "idle"
  BY CommitFacts
<1>2. "idle" \notin Open
  BY DEF Open, Inserting
<1>3. ASSUME NEW v \in Workers PROVE fresh'[v] = Inserted(pc'[v], series'[v])
  <2>1. CASE v = w
    BY <1>1, <1>2, <2>1, NothingDone
  <2>2. CASE v # w
    BY <1>1, <2>2 DEF Locked
  <2> QED
    BY <2>1, <2>2
<1>4. ASSUME NEW v \in Workers
      PROVE  snap'[v] \subseteq rows' /\ Whole(snap'[v]) /\ (pc'[v] # "lock" => snap'[v] = {})
  <2>1. Whole(snap[v] \ gone[w])
    BY WholeLess DEF Locked
  <2>2. snap[v] \ gone[w] \subseteq rows'
    BY <1>1 DEF Locked
  <2>3. pc'[v] # "lock" => snap[v] = {}
    BY <1>1 DEF Locked
  <2> QED
    BY <1>1, <2>1, <2>2, <2>3 DEF Whole
<1>5. ASSUME NEW v \in Workers
      PROVE  /\ gone'[v] \subseteq rows' /\ Whole(gone'[v]) /\ (pc'[v] \notin Open => gone'[v] = {})
             /\ Apart(fresh'[v], rows' \ gone'[v])
  <2>1. CASE v = w
    BY <1>1, <2>1 DEF Whole, Apart
  <2>2. CASE v # w
    <3>1. gone'[v] = gone[v] /\ fresh'[v] = fresh[v] /\ pc'[v] = pc[v]
      BY <1>1, <2>2
    <3>2. gone[v] \cap gone[w] = {} /\ Apart(fresh[v], fresh[w])
      BY <2>2 DEF Locked, Others, Apart
    <3>3. gone[v] \subseteq rows'
      BY <1>1, <3>2 DEF Locked
    <3>4. Apart(fresh[v], rows' \ gone[v])
      BY <1>1, <3>2 DEF Locked, Apart
    <3> QED
      BY <3>1, <3>3, <3>4 DEF Locked, Whole
  <2> QED
    BY <2>1, <2>2
<1>6. ASSUME NEW v \in Workers, NEW u \in Others(v)
      PROVE  gone'[v] \cap gone'[u] = {} /\ Apart(fresh'[v], gone'[u] \cup fresh'[u])
  <2>1. u \in Workers
    BY DEF Others
  <2>2. gone'[v] \subseteq gone[v] /\ gone'[u] \subseteq gone[u] /\ fresh'[v] \subseteq fresh[v] /\ fresh'[u] \subseteq fresh[u]
    BY <1>1, <2>1
  <2> QED
    BY <2>2 DEF Locked, Apart
<1>7. /\ pc' = [p \in Workers \cup Clients |-> pc'[p]]
      /\ series' = [v \in Workers |-> series'[v]] /\ fresh' = [v \in Workers |-> fresh'[v]]
      /\ snap' = [v \in Workers |-> snap'[v]] /\ gone' = [v \in Workers |-> gone'[v]]
  BY DEF Commit, Go, Locked
<1> QED
  BY <1>3, <1>4, <1>5, <1>6, <1>7 DEF Locked, Others

\* A statement of load_daily_series belongs to no transaction.
LEMMA LoadLocks ==
  ASSUME Locked, NEW p \in Workers \cup Clients, Load(p)
  PROVE  Locked' /\ rows' = rows
<1>1. /\ UNCHANGED <<rows, snap, gone, fresh>>
      /\ \E step \in {"coverage", "finer", "idle", "delete", "asked"} : pc' = [pc EXCEPT ![p] = step]
      /\ series' = series \/ (p \in Workers /\ \E s : series' = [series EXCEPT ![p] = s])
      /\ pc[p] \in {"native", "coverage", "finer"}
  <2>1. ASSUME NEW s, Loaded(p, s)
        PROVE  /\ UNCHANGED <<rows, snap, gone, fresh>>
               /\ \E step \in {"idle", "delete", "asked"} : pc' = [pc EXCEPT ![p] = step]
               /\ series' = series \/ (p \in Workers /\ \E t : series' = [series EXCEPT ![p] = t])
    <3>1. UNCHANGED <<rows, snap, gone, fresh>>
      BY <2>1 DEF Loaded
    <3>2. CASE p \in Workers
      BY <2>1, <3>1, <3>2 DEF Loaded, Go
    <3>3. CASE p \notin Workers
      <4>1. series' = series /\ (Go(p, "idle") \/ \E shown : Page(p, shown))
        BY <2>1, <3>3 DEF Loaded
      <4>2. Go(p, "idle") \/ Go(p, "asked")
        BY <4>1 DEF Page
      <4> QED
        BY <3>1, <4>1, <4>2 DEF Go
    <3> QED
      BY <3>2, <3>3
  <2>2. CASE ReadNative(p)
    <3>1. \/ Loaded(p, Daily(Recorded(DaySecs, CutOf(p))))
          \/ Go(p, "coverage") /\ UNCHANGED <<rows, txs>>
      BY <2>2 DEF ReadNative
    <3> QED
      BY <2>1, <2>2, <3>1 DEF ReadNative, Go, txs
  <2>3. CASE ReadCoverage(p)
    <3>1. Loaded(p, <<>>) \/ (Go(p, "finer") /\ UNCHANGED <<rows, txs>>)
      BY <2>3 DEF ReadCoverage
    <3> QED
      BY <2>1, <2>3, <3>1 DEF ReadCoverage, Go, txs
  <2>4. CASE ReadFiner(p)
    <3>1. Loaded(p, Daily(Recorded(source[p], CutOf(p))))
      BY <2>4 DEF ReadFiner
    <3> QED
      BY <2>1, <2>4, <3>1 DEF ReadFiner
  <2> QED
    BY <2>2, <2>3, <2>4 DEF Load
<1>2. PICK step \in {"coverage", "finer", "idle", "delete", "asked"} : pc' = [pc EXCEPT ![p] = step]
  BY <1>1
<1>3. /\ pc' = [q \in Workers \cup Clients |-> pc'[q]]
      /\ series' = [w \in Workers |-> series'[w]]
  BY <1>1, <1>2 DEF Locked
<1>4. ASSUME NEW w \in Workers
      PROVE  \/ pc'[w] = pc[w] /\ series'[w] = series[w]
             \/ {pc[w], pc'[w]} \cap (Open \cup {"lock"}) = {}
  <2>1. CASE w = p
    <3>1. pc'[w] = step
      BY <1>2, <2>1 DEF Locked
    <3> QED
      BY <1>1, <2>1, <3>1 DEF Open, Inserting
  <2>2. CASE w # p
    BY <1>1, <1>2, <2>2 DEF Locked
  <2> QED
    BY <2>1, <2>2
<1> QED
  BY <1>1, <1>3, <1>4, OutsideKeeps

\* Steps of the clients, of the queue and of the candles.
LEMMA ElseLocks ==
  ASSUME Locked,
         \/ UNCHANGED overlayVars \/ Write \/ EnqueueCoin \/ LeaseLost
         \/ \E w \in Workers : Claim(w)
         \/ \E c \in Clients : Ask(c) \/ Acquire(c) \/ TablePage(c) \/ BreakOff(c)
  PROVE  Locked' /\ rows' = rows
<1>1. UNCHANGED <<rows, txs>>
  BY DEF overlayVars, Write, EnqueueCoin, LeaseLost, Claim, Ask, Acquire, TablePage, BreakOff
<1>2. CASE UNCHANGED pc
  BY <1>1, <1>2, OutsideKeeps DEF Locked, txs
<1>3. CASE ~UNCHANGED pc
  <2>1. PICK p \in Workers \cup Clients, step \in {"idle", "asked", "native"} :
          /\ pc' = [pc EXCEPT ![p] = step]
          /\ p \in Workers => pc[p] = "idle" /\ step = "native"
    <3>1. CASE \E w \in Workers : Claim(w)
      BY <3>1, OverlayAssumption DEF Claim, Go
    <3>2. CASE \E c \in Clients : Ask(c) \/ Acquire(c) \/ TablePage(c) \/ BreakOff(c)
      <4>1. PICK c \in Clients : Ask(c) \/ Acquire(c) \/ TablePage(c) \/ BreakOff(c)
        BY <3>2
      <4>2. Go(c, "idle") \/ Go(c, "asked") \/ Go(c, "native")
        BY <4>1 DEF Ask, Acquire, TablePage, BreakOff, Page
      <4>3. c \notin Workers
        BY OverlayAssumption
      <4> QED
        BY <4>2, <4>3 DEF Go
    <3> QED
      BY <1>3, <3>1, <3>2 DEF overlayVars, Write, EnqueueCoin, LeaseLost
  <2>2. pc' = [q \in Workers \cup Clients |-> pc'[q]]
    BY <2>1 DEF Locked
  <2>3. ASSUME NEW w \in Workers
        PROVE  pc'[w] = pc[w] \/ {pc[w], pc'[w]} \cap (Open \cup {"lock"}) = {}
    BY <2>1 DEF Locked, Open, Inserting
  <2> QED
    BY <1>1, <2>2, <2>3, OutsideKeeps DEF Locked, txs
<1> QED
  BY <1>1, <1>2, <1>3

LEMMA LocksKept ==
  ASSUME Fits, Locked, [OverlayNext]_overlayVars
  PROVE  Fits' /\ Locked'
<1>1. ASSUME rows' = rows PROVE Fits'
  BY <1>1 DEF Fits, Whole
<1>2. ASSUME NEW w \in Workers, Delete(w) \/ Lock(w) \/ Insert(w) PROVE Fits' /\ Locked'
  BY <1>1, <1>2, DeleteLocks, LockLocks, InsertLocks DEF Delete, Lock, Insert
<1>3. ASSUME NEW w \in Workers, Commit(w) PROVE Fits' /\ Locked'
  BY <1>3, CommitFits, CommitLocks
<1>4. ASSUME NEW w \in Workers, Fails(w) \/ Dies(w) PROVE Fits' /\ Locked'
  <2>1. RolledBack(w) /\ rows' = rows
    BY <1>4 DEF Fails, Dies, tables
  <2> QED
    BY <1>1, <2>1, RolledBackUnlocks
<1>5. ASSUME NEW p \in Workers \cup Clients, Load(p) PROVE Fits' /\ Locked'
  BY <1>1, <1>5, LoadLocks
<1>6. ASSUME \/ UNCHANGED overlayVars \/ Write \/ EnqueueCoin \/ LeaseLost
             \/ \E w \in Workers : Claim(w)
             \/ \E c \in Clients : Ask(c) \/ Acquire(c) \/ TablePage(c) \/ BreakOff(c)
      PROVE  Fits' /\ Locked'
  BY <1>1, <1>6, ElseLocks
<1> QED
  BY <1>2, <1>3, <1>4, <1>5, <1>6 DEF OverlayNext, Rebuilds, Reads

LEMMA LocksInit == OverlayInit => Fits /\ Locked
<1> SUFFICES ASSUME OverlayInit PROVE Fits /\ Locked
  OBVIOUS
<1>1. rows = {} /\ \A w \in Workers : snap[w] = {} /\ gone[w] = {} /\ fresh[w] = {} /\ pc[w] = "idle"
  BY DEF OverlayInit
<1>2. "idle" \notin Open
  BY DEF Open, Inserting
<1>3. \A w \in Workers : fresh[w] = Inserted(pc[w], series[w])
  BY <1>1, <1>2, NothingDone
<1>4. Fits
  BY <1>1 DEF Fits, Whole
<1>5. /\ pc = [p \in Workers \cup Clients |-> pc[p]]
      /\ series = [w \in Workers |-> series[w]] /\ fresh = [w \in Workers |-> fresh[w]]
      /\ snap = [w \in Workers |-> snap[w]] /\ gone = [w \in Workers |-> gone[w]]
  BY DEF OverlayInit
<1> QED
  BY <1>1, <1>3, <1>4, <1>5 DEF Locked, Whole, Apart, Others

LEMMA FitsIsOneRebuild == Fits => OneRebuild
<1> SUFFICES ASSUME Fits, NEW g \in rows, NEW h \in rows
             PROVE  /\ {f \in rows : f.series = g.series} = Rebuild(g.series)
                    /\ g.series = h.series \/ Charted(g.series) \cap Charted(h.series) = {}
  BY DEF OneRebuild
<1>1. {f \in rows : f.series = g.series} = Rebuild(g.series)
  BY ClashesWithItself DEF Fits, Whole
<1>2. ASSUME NEW d \in Charted(g.series), d \in Charted(h.series) PROVE g.series = h.series
  <2> DEFINE real(s) == [model |-> "real", series |-> s]
  <2>1. ASSUME NEW s, d \in Charted(s) PROVE real(s) \in Rebuild(s) /\ Key(d, Halvings) \in Keys(real(s))
    <3>1. real(s) \in Groups(s) /\ Days(real(s)) = Charted(s)
      BY DEF Groups, Models, Days
    <3> QED
      BY <2>1, <3>1 DEF Rebuild, Keys
  <2>2. real(g.series) \in rows /\ real(h.series) \in rows
    BY <1>2, <2>1 DEF Fits, Whole
  <2>3. Clash(real(g.series), real(h.series))
    BY <1>2, <2>1 DEF Clash
  <2>4. real(g.series) = real(h.series)
    BY <2>2, <2>3 DEF Fits
  <2> QED
    BY <2>4
<1> QED
  BY <1>1, <1>2

-----------------------------------------------------------------------------
(* The types of the overlay.                                               *)

LEMMA MinIs ==
  ASSUME NEW S, IsFiniteSet(S), S \subseteq Int, S # {}
  PROVE  Min(S) \in S /\ \A y \in S : Min(S) <= y
<1> DEFINE f == [y \in S |-> -y]
           T == {f[y] : y \in S}
<1>1. \A y \in S : y \in Int /\ f[y] = -y /\ f[y] \in Int
  OBVIOUS
<1> HIDE DEF f
<1>2. IsFiniteSet(T)
  BY ImageIsFinite
<1>3. T \subseteq Int /\ T # {}
  BY <1>1
<1>4. Max(T) \in T /\ \A z \in T : Max(T) >= z
  BY <1>2, <1>3, MaxIs
<1>5. PICK x \in S : Max(T) = -x
  BY <1>1, <1>4
<1>6. \A y \in S : x <= y
  <2> TAKE y \in S
  <2>1. -y \in T
    BY <1>1
  <2>2. -x >= -y
    BY <1>4, <1>5, <2>1
  <2> QED
    BY <1>1, <2>2
<1> QED
  BY <1>6 DEF Min

\* Only candles that may come are there.
Stocked == candles \subseteq AllCandles /\ coming \subseteq Upserts

LEMMA CandlesAre ==
  \A c \in AllCandles : c.ts \in Int /\ c.secs \in Nat \ {0} /\ c.close \in Nat
BY OverlayAssumption DEF AllCandles

\* The widest of the intervals there are is one of them.
LEMMA WidestIs ==
  ASSUME Stock, Stocked, Divisors # {}
  PROVE  Widest \in Divisors /\ Widest \in Nat \ {0}
<1> DEFINE secs == [c \in candles |-> c.secs]
<1>1. \A s \in Divisors : s \in Nat \ {0} /\ \E c \in candles : c.secs = s
  BY CandlesAre DEF Divisors, Stocked
<1>2. IsFiniteSet(Divisors)
  <2>1. \A c \in candles : secs[c] = c.secs
    OBVIOUS
  <2>2. IsFiniteSet({secs[c] : c \in candles})
    <3> HIDE DEF secs
    <3> QED
      BY ImageIsFinite DEF Stock
  <2>3. Divisors \subseteq {secs[c] : c \in candles}
    BY <2>1 DEF Divisors
  <2> HIDE DEF secs
  <2> QED
    BY <2>2, <2>3, FS_Subset
<1>3. ASSUME NEW s \in Divisors PROVE Span(s) \in Int
  <2> DEFINE R == Recorded(s, NoCut)
             time == [c \in R |-> c.ts]
             ts == {time[c] : c \in R}
  <2>1. R \subseteq candles /\ R # {}
    BY <1>1 DEF Recorded
  <2>2. IsFiniteSet(R)
    BY <2>1, FS_Subset DEF Stock
  <2>3. \A c \in R : time[c] = c.ts /\ c.ts \in Int
    BY <2>1 DEF Stock
  <2>4. Span(s) = Max(ts) - Min(ts)
    <3>1. ts = {c.ts : c \in Recorded(s, NoCut)}
      OBVIOUS
    <3> HIDE DEF ts
    <3> QED
      BY <3>1 DEF Span
  <2> HIDE DEF time, R
  <2>5. IsFiniteSet(ts)
    BY <2>2, ImageIsFinite
  <2>6. ts \subseteq Int /\ ts # {}
    BY <2>1, <2>3
  <2> HIDE DEF ts
  <2>7. Max(ts) \in Int /\ Min(ts) \in Int
    BY <2>5, <2>6, MaxIs, MinIs
  <2> QED
    BY <2>4, <2>7
<1> DEFINE span == [s \in Divisors |-> Span(s)]
           spans == {span[s] : s \in Divisors}
           far == Max(spans)
           those == {s \in Divisors : span[s] = far}
<1>4. \A s \in Divisors : span[s] = Span(s) /\ span[s] \in Int
  BY <1>3
<1> HIDE DEF span
<1>5. far \in spans /\ \A s \in Divisors : far >= span[s]
  <2>1. IsFiniteSet(spans)
    BY <1>2, ImageIsFinite
  <2>2. spans \subseteq Int /\ spans # {}
    BY <1>4
  <2> QED
    BY <2>1, <2>2, MaxIs
<1>6. those \subseteq Divisors /\ those # {}
  BY <1>5
<1> HIDE DEF far, spans
<1>7. those \subseteq Int /\ IsFiniteSet(those)
  BY <1>1, <1>2, <1>6, FS_Subset
<1> HIDE DEF those
<1>8. Max(those) \in those /\ \A s \in those : Max(those) >= s
  BY <1>6, <1>7, MaxIs
<1>9. \E s \in Divisors : \A t \in Divisors : Span(t) < Span(s) \/ (Span(t) = Span(s) /\ t <= s)
  <2> DEFINE m == Max(those)
  <2>1. m \in Divisors /\ span[m] = far
    BY <1>6, <1>8 DEF those
  <2> HIDE DEF m
  <2>2. ASSUME NEW t \in Divisors PROVE Span(t) < Span(m) \/ (Span(t) = Span(m) /\ t <= m)
    <3>1. CASE span[t] = far
      <4>1. t \in those
        BY <3>1 DEF those
      <4>2. t <= m
        BY <1>1, <1>8, <2>1, <4>1 DEF m
      <4> QED
        BY <1>4, <2>1, <3>1, <4>2
    <3>2. CASE span[t] # far
      <4>1. span[t] < span[m]
        BY <1>4, <1>5, <2>1, <3>2
      <4> QED
        BY <1>4, <2>1, <4>1
    <3> QED
      BY <3>1, <3>2
  <2> QED
    BY <2>1, <2>2
<1>10. Widest \in Divisors
  BY <1>9 DEF Widest
<1> QED
  BY <1>1, <1>10

Typed ==
  /\ OverlayTypeOK /\ Stocked
  /\ source = [p \in Workers \cup Clients |-> source[p]]
  /\ held \subseteq Clients /\ IsFiniteSet(held)

\* A process is in one step; a permit is held while the series is read.
LEMMA StepIs ==
  ASSUME Typed, NEW p \in Workers \cup Clients, NEW step \in OverlaySteps, pc' = [pc EXCEPT ![p] = step],
         source' = [q \in Workers \cup Clients |-> source'[q]],
         \A q \in Workers \cup Clients : q # p => source'[q] = source[q],
         source'[p] > 0 <=> step = "finer",
         held' \subseteq Clients, IsFiniteSet(held'), Cardinality(held') <= Permits,
         \A c \in Clients : c # p => (c \in held' <=> c \in held),
         p \in Clients => (p \in held' <=> step \in {"native", "coverage", "finer"}),
         coming' \subseteq Upserts, candles' \subseteq AllCandles,
         work' \in {"none", "pending", "claimed"}, owner' \in Workers \cup {Nobody},
         owner' # Nobody <=> work' = "claimed", faults' \in 0..MaxFaults
  PROVE  Typed'
<1>1. /\ pc \in [Workers \cup Clients -> OverlaySteps]
      /\ \A q \in Workers \cup Clients : source[q] > 0 <=> pc[q] = "finer"
      /\ \A c \in Clients : c \in held <=> pc[c] \in {"native", "coverage", "finer"}
  BY DEF Typed, OverlayTypeOK
<1>2. pc' \in [Workers \cup Clients -> OverlaySteps]
  BY <1>1
<1>3. \A q \in Workers \cup Clients : pc'[q] = IF q = p THEN step ELSE pc[q]
  BY <1>1
<1>4. \A q \in Workers \cup Clients : source'[q] > 0 <=> pc'[q] = "finer"
  BY <1>1, <1>3
<1>5. \A c \in Clients : c \in held' <=> pc'[c] \in {"native", "coverage", "finer"}
  BY <1>1, <1>3
<1> QED
  BY <1>2, <1>4, <1>5 DEF Typed, OverlayTypeOK, Stocked

LEMMA LetGo ==
  ASSUME Typed, NEW H, H \subseteq held
  PROVE  H \subseteq Clients /\ IsFiniteSet(H) /\ Cardinality(H) <= Permits
<1>1. IsFiniteSet(H) /\ Cardinality(H) <= Cardinality(held)
  BY FS_Subset DEF Typed
<1>2. Cardinality(H) \in Nat /\ Cardinality(held) \in Nat
  BY <1>1, FS_CardinalityType DEF Typed
<1>3. Cardinality(held) <= Permits /\ Permits \in Nat
  BY OverlayAssumption DEF Typed, OverlayTypeOK
<1> QED
  BY <1>1, <1>2, <1>3 DEF Typed

\* Where the queue ends up.
LEMMA SettledIs ==
  ASSUME Typed, NEW w \in Workers, NEW next \in {"pending", "none"}, Settle(w, next)
  PROVE  /\ work' \in {"none", "pending", "claimed"} /\ owner' \in Workers \cup {Nobody}
         /\ owner' # Nobody <=> work' = "claimed"
BY DEF Typed, OverlayTypeOK, Settle, queued

\* The series is read.
LEMMA LoadedSteps ==
  ASSUME Typed, NEW p \in Workers \cup Clients, NEW s, Loaded(p, s)
  PROVE  /\ UNCHANGED <<tables, queued, faults>>
         /\ held' = IF p \in Workers THEN held ELSE held \ {p}
         /\ \E step \in {"idle", "delete", "asked"} : pc' = [pc EXCEPT ![p] = step]
<1>1. UNCHANGED <<tables, queued, faults>>
  BY DEF Loaded
<1>2. CASE p \in Workers
  BY <1>1, <1>2 DEF Loaded, Go, clients
<1>3. CASE p \notin Workers
  <2>1. held' = held \ {p} /\ (Go(p, "idle") \/ \E shown : Page(p, shown))
    BY <1>3 DEF Loaded, Release
  <2>2. Go(p, "idle") \/ Go(p, "asked")
    BY <2>1 DEF Page
  <2> QED
    BY <1>1, <1>3, <2>1, <2>2 DEF Go
<1> QED
  BY <1>2, <1>3

LEMMA LoadTypes ==
  ASSUME Typed, Stock, NEW p \in Workers \cup Clients, Load(p)
  PROVE  Typed'
<1>1. /\ UNCHANGED <<tables, queued, faults>>
      /\ pc[p] \in {"native", "coverage", "finer"}
      /\ \E step \in {"idle", "delete", "asked", "coverage", "finer"} :
           /\ pc' = [pc EXCEPT ![p] = step]
           /\ held' = IF step \in {"coverage", "finer"} \/ p \in Workers THEN held ELSE held \ {p}
           /\ \/ step = "finer" /\ source' = [source EXCEPT ![p] = Widest] /\ Divisors # {}
              \/ step # "finer" /\ source' = [source EXCEPT ![p] = 0]
              \/ step # "finer" /\ source' = source /\ pc[p] # "finer"
  <2>1. CASE ReadNative(p)
    <3>1. \/ Loaded(p, Daily(Recorded(DaySecs, CutOf(p))))
          \/ Go(p, "coverage") /\ UNCHANGED <<tables, queued, faults, held>>
      BY <2>1 DEF ReadNative, clients
    <3> QED
      BY <2>1, <3>1, LoadedSteps DEF ReadNative, Go
  <2>2. CASE ReadCoverage(p)
    <3>1. \/ Loaded(p, <<>>) /\ source' = source
          \/ /\ Go(p, "finer") /\ UNCHANGED <<tables, queued, faults, held>>
             /\ source' = [source EXCEPT ![p] = Widest] /\ Divisors # {}
      BY <2>2 DEF ReadCoverage, clients
    <3> QED
      BY <2>2, <3>1, LoadedSteps DEF ReadCoverage, Go
  <2>3. CASE ReadFiner(p)
    <3>1. Loaded(p, Daily(Recorded(source[p], CutOf(p))))
      BY <2>3 DEF ReadFiner
    <3> QED
      BY <2>3, <3>1, LoadedSteps DEF ReadFiner
  <2> QED
    BY <2>1, <2>2, <2>3 DEF Load
<1>2. PICK step \in {"idle", "delete", "asked", "coverage", "finer"} :
        /\ pc' = [pc EXCEPT ![p] = step]
        /\ held' = IF step \in {"coverage", "finer"} \/ p \in Workers THEN held ELSE held \ {p}
        /\ \/ step = "finer" /\ source' = [source EXCEPT ![p] = Widest] /\ Divisors # {}
           \/ step # "finer" /\ source' = [source EXCEPT ![p] = 0]
           \/ step # "finer" /\ source' = source /\ pc[p] # "finer"
  BY <1>1
<1>3. /\ source' = [q \in Workers \cup Clients |-> source'[q]]
      /\ \A q \in Workers \cup Clients : q # p => source'[q] = source[q]
  BY <1>2 DEF Typed
<1>4. source'[p] > 0 <=> step = "finer"
  <2>1. CASE step = "finer"
    <3>1. source'[p] = Widest /\ Divisors # {}
      BY <1>2, <2>1 DEF Typed
    <3>2. Widest \in Nat \ {0}
      BY <3>1, WidestIs DEF Typed
    <3> QED
      BY <2>1, <3>1, <3>2
  <2>2. CASE step # "finer" /\ source' = [source EXCEPT ![p] = 0]
    <3>1. source'[p] = 0
      BY <2>2 DEF Typed
    <3> QED
      BY <2>2, <3>1
  <2>3. CASE step # "finer" /\ source' = source /\ pc[p] # "finer"
    BY <2>3 DEF Typed, OverlayTypeOK
  <2> QED
    BY <1>2, <2>1, <2>2, <2>3
<1>5. held' \subseteq held
  BY <1>2
<1>6. held' \subseteq Clients /\ IsFiniteSet(held') /\ Cardinality(held') <= Permits
  BY <1>5, LetGo
<1>7. \A c \in Clients : c # p => (c \in held' <=> c \in held)
  BY <1>2
<1>8. p \in Clients => (p \in held' <=> step \in {"native", "coverage", "finer"})
  <2>1. p \in Clients => p \notin Workers /\ p \in held
    BY <1>1, OverlayAssumption DEF Typed, OverlayTypeOK
  <2> QED
    BY <1>2, <2>1
<1>9. step \in OverlaySteps
  BY DEF OverlaySteps
<1>10. /\ coming' \subseteq Upserts /\ candles' \subseteq AllCandles
       /\ work' \in {"none", "pending", "claimed"} /\ owner' \in Workers \cup {Nobody}
       /\ (owner' # Nobody <=> work' = "claimed") /\ faults' \in 0..MaxFaults
  BY <1>1 DEF Typed, OverlayTypeOK, Stocked, tables, queued
<1> QED
  BY <1>2, <1>3, <1>4, <1>6, <1>7, <1>8, <1>9, <1>10, StepIs

\* A step of a worker's transaction, or the end of it.
LEMMA WorkerTypes ==
  ASSUME Typed, NEW w \in Workers,
         Claim(w) \/ Delete(w) \/ Lock(w) \/ Insert(w) \/ Commit(w) \/ Fails(w) \/ Dies(w)
  PROVE  Typed'
<1>1. /\ \E step \in OverlaySteps \ {"finer"} : pc' = [pc EXCEPT ![w] = step]
      /\ UNCHANGED <<tables, held>>
      /\ source' = [source EXCEPT ![w] = 0] \/ (source' = source /\ pc[w] # "finer")
      /\ faults' = faults \/ Fault
      /\ work' \in {"none", "pending", "claimed"} /\ owner' \in Workers \cup {Nobody}
      /\ (owner' # Nobody <=> work' = "claimed")
  <2>0. UNCHANGED queued => /\ work' \in {"none", "pending", "claimed"} /\ owner' \in Workers \cup {Nobody}
                            /\ (owner' # Nobody <=> work' = "claimed")
    BY DEF Typed, OverlayTypeOK, queued
  <2>1. CASE Claim(w)
    BY <2>1, OverlayAssumption DEF Claim, Go, OverlaySteps, clients
  <2>2. CASE Delete(w) \/ Lock(w)
    BY <2>0, <2>2 DEF Delete, Lock, Go, OverlaySteps, Inserting, clients
  <2>3. CASE Insert(w)
    <3>1. PICK n \in 1..3 :
            /\ pc[w] = StepOf[n] /\ UNCHANGED <<tables, source, clients, faults>>
            /\ \/ RolledBack(w) /\ \E next \in {"pending", "none"} : Settle(w, next)
               \/ Go(w, StepOf[n + 1]) /\ UNCHANGED queued
      BY <2>3 DEF Insert
    <3>2. pc[w] # "finer" /\ StepOf[n + 1] \in OverlaySteps \ {"finer"}
      BY <3>1 DEF StepOf, OverlaySteps, Inserting
    <3> QED
      BY <2>0, <3>1, <3>2, SettledIs DEF RolledBack, Go, OverlaySteps, clients
  <2>4. CASE Commit(w)
    BY <2>4, SettledIs DEF Commit, Go, OverlaySteps
  <2>5. CASE Fails(w)
    BY <2>5, SettledIs DEF Fails, RolledBack, Go, OverlaySteps, clients
  <2>6. CASE Dies(w)
    BY <2>0, <2>6 DEF Dies, RolledBack, Go, OverlaySteps, clients
  <2> QED
    BY <2>1, <2>2, <2>3, <2>4, <2>5, <2>6
<1>2. PICK step \in OverlaySteps : step # "finer" /\ pc' = [pc EXCEPT ![w] = step]
  BY <1>1
<1>3. /\ source' = [q \in Workers \cup Clients |-> source'[q]]
      /\ \A q \in Workers \cup Clients : q # w => source'[q] = source[q]
  BY <1>1 DEF Typed
<1>4. source'[w] > 0 <=> step = "finer"
  <2>1. CASE source' = [source EXCEPT ![w] = 0]
    <3>1. source'[w] = 0
      BY <2>1 DEF Typed
    <3> QED
      BY <1>2, <3>1
  <2>2. CASE source' = source /\ pc[w] # "finer"
    BY <1>2, <2>2 DEF Typed, OverlayTypeOK
  <2> QED
    BY <1>1, <2>1, <2>2
<1>5. held' \subseteq Clients /\ IsFiniteSet(held') /\ Cardinality(held') <= Permits
  BY <1>1 DEF Typed, OverlayTypeOK
<1>6. w \notin Clients
  BY OverlayAssumption
<1>7. faults' \in 0..MaxFaults
  BY <1>1, OverlayAssumption DEF Typed, OverlayTypeOK, Fault
<1>8. coming' \subseteq Upserts /\ candles' \subseteq AllCandles
  BY <1>1 DEF Typed, Stocked, tables
<1> QED
  BY <1>1, <1>2, <1>3, <1>4, <1>5, <1>6, <1>7, <1>8, StepIs

\* A step of a client between its reads of the series.
LEMMA ClientTypes ==
  ASSUME Typed, NEW c \in Clients, Ask(c) \/ Acquire(c) \/ TablePage(c) \/ BreakOff(c)
  PROVE  Typed'
<1>1. /\ UNCHANGED <<tables, queued>>
      /\ faults' = faults \/ Fault
      /\ \E step \in {"idle", "asked", "native"} :
           /\ pc' = [pc EXCEPT ![c] = step]
           /\ \/ step = "native" /\ held' = held \cup {c} /\ Cardinality(held) < Permits /\ pc[c] = "asked"
              \/ step # "native" /\ held' = held /\ pc[c] \in {"idle", "asked"}
              \/ step # "native" /\ held' = held \ {c}
           /\ source' = [source EXCEPT ![c] = 0] \/ (source' = source /\ pc[c] # "finer")
  <2>1. CASE Ask(c)
    BY <2>1 DEF Ask, Go
  <2>2. CASE Acquire(c)
    BY <2>2 DEF Acquire, Go
  <2>3. CASE TablePage(c)
    <3>1. \E shown : Page(c, shown)
      BY <2>3 DEF TablePage
    <3>2. Go(c, "idle") \/ Go(c, "asked")
      BY <3>1 DEF Page
    <3> QED
      BY <2>3, <3>2 DEF TablePage, Go
  <2>4. CASE BreakOff(c)
    BY <2>4 DEF BreakOff, Go, Release
  <2> QED
    BY <2>1, <2>2, <2>3, <2>4
<1>2. PICK step \in {"idle", "asked", "native"} :
        /\ pc' = [pc EXCEPT ![c] = step]
        /\ \/ step = "native" /\ held' = held \cup {c} /\ Cardinality(held) < Permits /\ pc[c] = "asked"
           \/ step # "native" /\ held' = held /\ pc[c] \in {"idle", "asked"}
           \/ step # "native" /\ held' = held \ {c}
        /\ source' = [source EXCEPT ![c] = 0] \/ (source' = source /\ pc[c] # "finer")
  BY <1>1
<1>3. /\ source' = [q \in Workers \cup Clients |-> source'[q]]
      /\ \A q \in Workers \cup Clients : q # c => source'[q] = source[q]
  BY <1>2 DEF Typed
<1>4. source'[c] > 0 <=> step = "finer"
  <2>1. CASE source' = [source EXCEPT ![c] = 0]
    <3>1. source'[c] = 0
      BY <2>1 DEF Typed
    <3> QED
      BY <3>1
  <2>2. CASE source' = source /\ pc[c] # "finer"
    BY <2>2 DEF Typed, OverlayTypeOK
  <2> QED
    BY <1>2, <2>1, <2>2
<1>5. held' \subseteq Clients /\ IsFiniteSet(held') /\ Cardinality(held') <= Permits
  <2>1. CASE held' \subseteq held
    BY <2>1, LetGo
  <2>2. CASE step = "native"
    <3>1. held' = held \cup {c} /\ Cardinality(held) < Permits /\ c \notin held
      BY <1>2, <2>2 DEF Typed, OverlayTypeOK
    <3>2. IsFiniteSet(held') /\ Cardinality(held') = Cardinality(held) + 1
      BY <3>1, FS_AddElement DEF Typed
    <3>3. Cardinality(held) \in Nat /\ Permits \in Nat
      BY FS_CardinalityType, OverlayAssumption DEF Typed
    <3> QED
      BY <3>1, <3>2, <3>3 DEF Typed
  <2> QED
    BY <1>2, <2>1, <2>2
<1>6. /\ \A d \in Clients : d # c => (d \in held' <=> d \in held)
      /\ c \in held' <=> step \in {"native", "coverage", "finer"}
  BY <1>2 DEF Typed, OverlayTypeOK
<1>7. faults' \in 0..MaxFaults
  BY <1>1, OverlayAssumption DEF Typed, OverlayTypeOK, Fault
<1>8. /\ coming' \subseteq Upserts /\ candles' \subseteq AllCandles
      /\ work' \in {"none", "pending", "claimed"} /\ owner' \in Workers \cup {Nobody}
      /\ (owner' # Nobody <=> work' = "claimed") /\ step \in OverlaySteps
  BY <1>1 DEF Typed, OverlayTypeOK, Stocked, tables, queued, OverlaySteps
<1> QED
  BY <1>2, <1>3, <1>4, <1>5, <1>6, <1>7, <1>8, StepIs

LEMMA TypesKept == ASSUME Typed, Stock, [OverlayNext]_overlayVars PROVE Typed'
<1>1. CASE Write
  <2>1. PICK c \in coming :
          candles' = {d \in candles : d.secs # c.secs \/ d.ts # c.ts} \cup {c} /\ coming' = coming \ {c}
    BY <1>1 DEF Write
  <2>2. Stocked'
    BY <2>1 DEF Typed, Stocked, AllCandles
  <2> QED
    BY <1>1, <2>1, <2>2 DEF Write, Typed, OverlayTypeOK, Stocked, queued, clients
<1>2. CASE EnqueueCoin
  BY <1>2 DEF EnqueueCoin, Typed, OverlayTypeOK, Stocked, tables, clients
<1>3. CASE LeaseLost
  <2>1. faults' \in 0..MaxFaults
    BY <1>3, OverlayAssumption DEF LeaseLost, Fault, Typed, OverlayTypeOK
  <2> QED
    BY <1>3, <2>1 DEF LeaseLost, Typed, OverlayTypeOK, Stocked, tables, clients
<1>4. CASE UNCHANGED overlayVars
  BY <1>4 DEF overlayVars, Typed, OverlayTypeOK, Stocked, tables, queued, clients
<1> QED
  BY <1>1, <1>2, <1>3, <1>4, LoadTypes, WorkerTypes, ClientTypes DEF OverlayNext, Rebuilds, Reads

LEMMA TypesInit == OverlayInit => Typed
<1>1. IsFiniteSet({}) /\ Cardinality({}) = 0
  BY FS_EmptySet
<1> QED
  BY <1>1, OverlayAssumption DEF OverlayInit, Typed, OverlayTypeOK, Stocked, AllCandles, OverlaySteps

-----------------------------------------------------------------------------
(* Closes.  A series in the table is one that could be charted: of closes  *)
(* of candles, without the zeros that end a recompute.                     *)

Closes(s) ==
  /\ DOMAIN s \subseteq {DayOf(c.ts) : c \in AllCandles}
  /\ \A d \in DOMAIN s : s[d] \in {c.close : c \in AllCandles}

Priced ==
  /\ \A g \in rows : Closes(g.series) /\ ~Panics(g.series)
  /\ \A w \in Workers : Closes(series[w]) /\ ~Panics(series[w])

LEMMA DailyCloses ==
  ASSUME Stock, Stocked, NEW S, S \subseteq candles
  PROVE  Closes(Daily(S))
<1>1. DOMAIN Daily(S) = {DayOf(c.ts) : c \in S}
  BY DEF Daily
<1>2. ASSUME NEW d \in {DayOf(c.ts) : c \in S} PROVE Daily(S)[d] \in {c.close : c \in AllCandles}
  <2> DEFINE D == {c \in S : DayOf(c.ts) = d}
             time == [c \in D |-> c.ts]
             ts == {time[c] : c \in D}
  <2>1. D \subseteq candles /\ D # {}
    OBVIOUS
  <2>2. Daily(S)[d] = NewestOf(D).close
    BY DEF Daily
  <2>3. IsFiniteSet(D)
    BY <2>1, FS_Subset DEF Stock
  <2>4. \A c \in D : time[c] = c.ts /\ c.ts \in Int
    BY <2>1 DEF Stock
  <2> HIDE DEF D, time
  <2>5. IsFiniteSet(ts)
    BY <2>3, ImageIsFinite
  <2>6. ts \subseteq Int /\ ts # {}
    BY <2>1, <2>4
  <2>7. PICK c \in D : Max(ts) = time[c] /\ \A e \in D : Max(ts) >= time[e]
    <3>1. \A e \in D : time[e] \in ts
      OBVIOUS
    <3>2. \A z \in ts : \E e \in D : z = time[e]
      OBVIOUS
    <3> HIDE DEF ts
    <3>3. Max(ts) \in ts /\ \A z \in ts : Max(ts) >= z
      BY <2>5, <2>6, MaxIs
    <3> QED
      BY <3>1, <3>2, <3>3
  <2>8. \A e \in D : e.ts <= c.ts
    BY <2>4, <2>7
  <2>9. NewestOf(D) \in D
    BY <2>8 DEF NewestOf
  <2> QED
    BY <2>1, <2>2, <2>9 DEF Stocked
<1>3. {DayOf(c.ts) : c \in S} \subseteq {DayOf(c.ts) : c \in AllCandles}
  BY DEF Stocked
<1> QED
  BY <1>1, <1>2, <1>3 DEF Closes

LEMMA NoCloses == Closes(<<>>) /\ ~Panics(<<>>)
<1>1. DOMAIN <<>> = {}
  OBVIOUS
<1> QED
  BY <1>1 DEF Closes, Panics, Charted, DeepEnough

LEMMA PricesKept ==
  ASSUME Fits, Locked, Typed, Stock, Priced, [OverlayNext]_overlayVars
  PROVE  Priced'
<1>1. CASE UNCHANGED <<rows, series>>
  BY <1>1 DEF Priced
<1>2. ASSUME NEW p \in Workers \cup Clients, Load(p) PROVE Priced'
  <2>1. ASSUME NEW s, Closes(s), Loaded(p, s) PROVE Priced'
    <3>1. rows' = rows /\ (series' = series \/ (p \in Workers /\ ~Panics(s) /\ series' = [series EXCEPT ![p] = s]))
      BY <2>1 DEF Loaded
    <3> QED
      BY <2>1, <3>1 DEF Priced, Locked
  <2>2. CASE ReadNative(p)
    <3>1. Closes(Daily(Recorded(DaySecs, CutOf(p))))
      BY RecordedIsStock, DailyCloses DEF Typed
    <3> QED
      BY <1>1, <2>1, <2>2, <3>1 DEF ReadNative, txs
  <2>3. CASE ReadCoverage(p)
    BY <1>1, <2>1, <2>3, NoCloses DEF ReadCoverage, txs
  <2>4. CASE ReadFiner(p)
    <3>1. Closes(Daily(Recorded(source[p], CutOf(p))))
      BY RecordedIsStock, DailyCloses DEF Typed
    <3> QED
      BY <2>1, <2>4, <3>1 DEF ReadFiner
  <2> QED
    BY <1>2, <2>2, <2>3, <2>4 DEF Load
<1>3. ASSUME NEW w \in Workers, rows' = rows, series' = [series EXCEPT ![w] = <<>>] PROVE Priced'
  BY <1>3, NoCloses DEF Priced, Locked
<1>4. ASSUME NEW w \in Workers, Insert(w) \/ Fails(w) \/ Dies(w) PROVE Priced'
  <2>1. rows' = rows /\ (series' = series \/ series' = [series EXCEPT ![w] = <<>>])
    BY <1>4 DEF Insert, Fails, Dies, RolledBack, tables
  <2> QED
    BY <1>1, <1>3, <2>1
<1>5. ASSUME NEW w \in Workers, Commit(w) PROVE Priced'
  <2>1. rows' = (rows \ gone[w]) \cup Rebuild(series[w])
    BY <1>5, CommitFacts
  <2>2. \A g \in Rebuild(series[w]) : g.series = series[w]
    BY ClashesWithItself
  <2>3. series' = [series EXCEPT ![w] = <<>>]
    BY <1>5 DEF Commit
  <2> QED
    BY <2>1, <2>2, <2>3, NoCloses DEF Priced, Locked
<1>6. ASSUME NEW w \in Workers, Claim(w) \/ Delete(w) \/ Lock(w) PROVE Priced'
  BY <1>1, <1>6 DEF Claim, Delete, Lock, txs
<1>7. ASSUME NEW c \in Clients, Ask(c) \/ Acquire(c) \/ TablePage(c) \/ BreakOff(c) PROVE Priced'
  BY <1>1, <1>7 DEF Ask, Acquire, TablePage, BreakOff, txs
<1>8. CASE Write \/ EnqueueCoin \/ LeaseLost \/ UNCHANGED overlayVars
  BY <1>1, <1>8 DEF Write, EnqueueCoin, LeaseLost, overlayVars, txs
<1> QED
  BY <1>2, <1>4, <1>5, <1>6, <1>7, <1>8 DEF OverlayNext, Rebuilds, Reads

-----------------------------------------------------------------------------
(* Prices of one cycle.                                                    *)

IsPrice(a) == a \in Int \X (Nat \ {0})

LEMMA TimesGrows == \A x, y \in Int, z \in Nat : x <= y => x * z <= y * z
OBVIOUS
LEMMA TimesShrinks == \A x, y \in Int, z \in Nat \ {0} : x * z <= y * z => x <= y
OBVIOUS

\* The order of fractions with a positive denominator.
LEMMA AtMostIsOrder ==
  /\ \A a, b : IsPrice(a) /\ IsPrice(b) => AtMost(a, b) \/ AtMost(b, a)
  /\ \A a, b, c : IsPrice(a) /\ IsPrice(b) /\ IsPrice(c) /\ AtMost(a, b) /\ AtMost(b, c) => AtMost(a, c)
<1>1. ASSUME NEW a, NEW b, IsPrice(a), IsPrice(b) PROVE AtMost(a, b) \/ AtMost(b, a)
  <2>1. a[1] \in Int /\ a[2] \in Int /\ b[1] \in Int /\ b[2] \in Int
    BY <1>1 DEF IsPrice
  <2>2. a[1] * b[2] \in Int /\ b[1] * a[2] \in Int
    BY <2>1
  <2> QED
    BY <2>2 DEF AtMost
<1>2. ASSUME NEW a, NEW b, NEW c, IsPrice(a), IsPrice(b), IsPrice(c), AtMost(a, b), AtMost(b, c)
      PROVE  AtMost(a, c)
  <2>1. /\ a[1] \in Int /\ b[1] \in Int /\ c[1] \in Int
        /\ a[2] \in Nat \ {0} /\ b[2] \in Nat \ {0} /\ c[2] \in Nat \ {0}
    BY <1>2 DEF IsPrice
  <2> DEFINE x == a[1] * b[2]
             y == b[1] * a[2]
             u == b[1] * c[2]
             v == c[1] * b[2]
  <2>2. x \in Int /\ y \in Int /\ u \in Int /\ v \in Int /\ x <= y /\ u <= v
    BY <1>2, <2>1 DEF AtMost
  <2>3. x * c[2] <= y * c[2]
    <3> HIDE DEF x, y
    <3> QED
      BY <2>1, <2>2, TimesGrows
  <2>4. u * a[2] <= v * a[2]
    <3> HIDE DEF u, v
    <3> QED
      BY <2>1, <2>2, TimesGrows
  <2>5. y * c[2] = u * a[2]
    BY <2>1
  <2>6. x * c[2] = (a[1] * c[2]) * b[2] /\ v * a[2] = (c[1] * a[2]) * b[2]
    BY <2>1
  <2>7. a[1] * c[2] \in Int /\ c[1] * a[2] \in Int
    BY <2>1
  <2>8. x * c[2] \in Int /\ y * c[2] \in Int /\ v * a[2] \in Int
    BY <2>1, <2>2
  <2>9. x * c[2] <= v * a[2]
    <3> HIDE DEF x, y, u, v
    <3> QED
      BY <2>3, <2>4, <2>5, <2>8
  <2>10. (a[1] * c[2]) * b[2] <= (c[1] * a[2]) * b[2]
    BY <2>6, <2>9
  <2>11. a[1] * c[2] <= c[1] * a[2]
    BY <2>1, <2>7, <2>10, TimesShrinks
  <2> QED
    BY <2>11 DEF AtMost
<1> QED
  BY <1>1, <1>2

\* Finitely many prices have a cheapest.
LEMMA CheapestIs ==
  ASSUME NEW P, IsFiniteSet(P), P # {}, \A a \in P : IsPrice(a)
  PROVE  Cheapest(P) \in P /\ \A b \in P : AtMost(Cheapest(P), b)
<1> DEFINE Below(a) == {b \in P : ~AtMost(a, b)}
           ranks == {Cardinality(Below(a)) : a \in P}
<1>1. \A a \in P : IsFiniteSet(Below(a)) /\ Cardinality(Below(a)) \in Nat
  <2> TAKE a \in P
  <2>1. Below(a) \subseteq P
    OBVIOUS
  <2>2. IsFiniteSet(Below(a))
    BY <2>1, FS_Subset
  <2> QED
    BY <2>2, FS_CardinalityType
<1>2. PICK n \in ranks : \A m \in ranks : n <= m
  <2>1. ranks \subseteq Nat /\ ranks # {}
    BY <1>1
  <2> QED
    BY <2>1, NatOrder
<1>3. PICK a \in P : n = Cardinality(Below(a))
  OBVIOUS
<1>4. ASSUME NEW b \in P, ~AtMost(a, b) PROVE FALSE
  <2>1. AtMost(b, a) /\ AtMost(b, b)
    BY <1>4, AtMostIsOrder
  <2>2. \A c \in P : AtMost(a, c) => AtMost(b, c)
    BY <2>1, AtMostIsOrder
  <2>3. Below(b) \subseteq Below(a) /\ b \in Below(a) /\ b \notin Below(b)
    BY <1>4, <2>1, <2>2
  <2>4. Below(b) # Below(a)
    BY <2>3
  <2>5. n <= Cardinality(Below(b))
    BY <1>2
  <2> HIDE DEF Below
  <2>6. Cardinality(Below(b)) <= Cardinality(Below(a)) /\ Cardinality(Below(b)) # Cardinality(Below(a))
    BY <1>1, <2>3, <2>4, FS_Subset
  <2> QED
    BY <1>1, <1>3, <2>5, <2>6
<1>5. \A b \in P : AtMost(a, b)
  BY <1>4
<1> QED
  BY <1>5 DEF Cheapest

LEMMA CycleIs ==
  ASSUME NEW day, NEW dates \in Seq(Int)
  PROVE  CycleOf(day, dates) \in Nat
<1> DEFINE S == {i \in 1..Len(dates) : dates[i] <= day}
<1>1. IsFiniteSet(1..Len(dates))
  BY FS_Interval
<1>2. S \subseteq 1..Len(dates)
  OBVIOUS
<1> HIDE DEF S
<1>3. Cardinality(S) \in Nat
  BY <1>1, <1>2, FS_Subset, FS_CardinalityType
<1> QED
  BY <1>3 DEF CycleOf, S

\* The first close of a cycle, which its real points are measured by.
Unit(s, c) == s[Min(DaysIn(s, c))]
Lowest(s, c) == Min({s[e] : e \in DaysIn(s, c)})

LEMMA RealIs ==
  ASSUME NEW s, IsSeries(s), Closes(s), NEW p \in Overlay(s)
  PROVE  \E x \in Nat :
           /\ p.projected = FALSE /\ p.price = <<x, 1>>
           /\ p.norm = <<x, Unit(s, p.at[1])>> /\ Unit(s, p.at[1]) \in Nat
           /\ p.low = <<x, Lowest(s, p.at[1])>> /\ Lowest(s, p.at[1]) \in Nat /\ Lowest(s, p.at[1]) <= x
<1>1. PICK d \in Charted(s) : \E v, y :
        p = Point(Key(d, Halvings), d, <<s[d], 1>>, <<s[d], v>>, <<s[d], y>>,
                  Halvings[CycleOf(d, Halvings)] \notin DOMAIN s, FALSE)
            /\ v = Unit(s, CycleOf(d, Halvings)) /\ y = Lowest(s, CycleOf(d, Halvings))
  BY Zenon DEF Overlay, Unit, Lowest
<1> DEFINE c == CycleOf(d, Halvings)
           days == DaysIn(s, c)
<1>2. p.at = Key(d, Halvings) /\ p.price = <<s[d], 1>> /\ p.norm = <<s[d], Unit(s, c)>>
      /\ p.low = <<s[d], Lowest(s, c)>> /\ p.projected = FALSE
  BY <1>1 DEF Point
<1>3. d \in DOMAIN s /\ d \in Int /\ c \in Nat /\ c > 0
  BY CycleIs, DatesAre DEF Charted, IsSeries
<1> HIDE DEF c
<1>4. p.at[1] = c
  <2>1. IsFiniteSet({1} \cup {c})
    BY FS_AddElement, FS_Singleton
  <2>2. {1, c} = {1} \cup {c} /\ {1, c} \subseteq Int /\ {1, c} # {}
    BY <1>3
  <2>3. Max({1, c}) \in {1, c} /\ \A y \in {1, c} : Max({1, c}) >= y
    BY <2>1, <2>2, MaxIs
  <2>4. Max({1, c}) = c
    BY <1>3, <2>3
  <2> QED
    BY <1>2, <2>4 DEF Key, c
<1>5. days \subseteq DOMAIN s /\ d \in days
  BY <1>3 DEF DaysIn, c
<1>6. IsFiniteSet(days) /\ days \subseteq Int
  <2> HIDE DEF days
  <2> QED
    BY <1>5, FS_Subset DEF IsSeries
<1>7. \A e \in DOMAIN s : s[e] \in Nat
  BY CandlesAre DEF Closes
<1>8. Unit(s, c) \in Nat
  <2>1. Min(days) \in days
    BY <1>5, <1>6, MinIs
  <2> QED
    BY <1>5, <1>7, <2>1 DEF Unit
<1>9. Lowest(s, c) \in Nat /\ Lowest(s, c) <= s[d]
  <2> DEFINE closes == {s[e] : e \in days}
  <2>1. IsFiniteSet(closes)
    <3> HIDE DEF days
    <3> QED
      BY <1>6, ImageIsFinite
  <2>2. closes \subseteq Nat /\ s[d] \in closes
    BY <1>5, <1>7
  <2> HIDE DEF closes, days
  <2>3. closes \subseteq Int /\ closes # {}
    BY <2>2
  <2>4. Min(closes) \in closes /\ \A y \in closes : Min(closes) <= y
    BY <2>1, <2>3, MinIs
  <2>5. Lowest(s, c) = Min(closes)
    BY DEF Lowest, closes, days
  <2> QED
    BY <2>2, <2>4, <2>5
<1>10. s[d] \in Nat
  BY <1>3, <1>7
<1> QED
  BY <1>2, <1>4, <1>8, <1>9, <1>10

\* What a model projects is a price: the replayed close is scaled by one that is not zero.
LEMMA RawIs ==
  ASSUME NEW s, IsSeries(s), Closes(s), ~Panics(s), NEW model, NEW q \in Raw(model, s)
  PROVE  IsPrice(q.price)
<1>1. PICK k \in Horizon(model, s) :
        q.price = IF model = "replay" THEN Replayed(s, k) ELSE Path([d \in Positive(s) |-> s[d]], k)
  <2>1. PICK k \in Horizon(model, s) : \E key, then :
          q = [at |-> key, day |-> then,
               price |-> IF model = "replay" THEN Replayed(s, k) ELSE Path([d \in Positive(s) |-> s[d]], k)]
    BY Zenon DEF Raw
  <2> QED
    BY <2>1
<1>2. k \in 1..CycleDays /\ DeepEnough(s) /\ CycleDays \in Nat
  BY OverlayAssumption DEF Horizon
<1>3. \A e \in DOMAIN s : s[e] \in Nat
  BY CandlesAre DEF Closes
<1> DEFINE base == Today(s) - CycleDays
<1>4. /\ Today(s) \in DOMAIN s /\ Today(s) \in Int
      /\ Min(DOMAIN s) \in DOMAIN s /\ Min(DOMAIN s) \in Int /\ base >= Min(DOMAIN s)
  <2>1. DOMAIN s # {} /\ DOMAIN s \subseteq Int /\ IsFiniteSet(DOMAIN s)
    BY <1>2 DEF DeepEnough, IsSeries
  <2>2. Today(s) \in DOMAIN s /\ Min(DOMAIN s) \in DOMAIN s
    BY <2>1, MaxIs, MinIs DEF Today
  <2> QED
    BY <1>2, <2>1, <2>2 DEF DeepEnough
<1>5. ASSUME NEW day \in Int, day >= base PROVE CloseAt(s, day) \in Nat
  <2> DEFINE days == {d \in DOMAIN s : d <= day}
  <2>1. days \subseteq DOMAIN s /\ Min(DOMAIN s) \in days
    BY <1>2, <1>4, <1>5
  <2> HIDE DEF days
  <2>2. IsFiniteSet(days) /\ days \subseteq Int /\ days # {}
    BY <2>1, FS_Subset DEF IsSeries
  <2>3. Max(days) \in DOMAIN s
    BY <2>1, <2>2, MaxIs
  <2> QED
    BY <1>3, <2>3 DEF CloseAt, days
<1>6. CASE model = "replay"
  <2>1. base \in Int /\ base + k \in Int /\ base + k >= base /\ base >= base /\ base + 0 = base
    BY <1>2, <1>4
  <2>2. CloseAt(s, base + k) \in Nat /\ CloseAt(s, base) \in Nat
    BY <1>5, <2>1
  <2>3. CloseAt(s, base) # 0
    <3>1. \A j \in 0..CycleDays : CloseAt(s, Today(s) - CycleDays + j) # 0
      BY <1>2 DEF Panics
    <3>2. 0 \in 0..CycleDays /\ Today(s) - CycleDays + 0 = base
      BY <1>2, <1>4
    <3> QED
      BY <3>1, <3>2
  <2>4. s[Today(s)] \in Nat
    BY <1>3, <1>4
  <2>5. q.price = <<s[Today(s)] * CloseAt(s, base + k), CloseAt(s, base)>>
    BY <1>1, <1>6 DEF Replayed
  <2>6. s[Today(s)] * CloseAt(s, base + k) \in Int
    BY <2>2, <2>4
  <2> QED
    BY <2>2, <2>3, <2>5, <2>6 DEF IsPrice
<1>7. CASE model # "replay"
  <2> DEFINE closes == [d \in Positive(s) |-> s[d]]
  <2>1. Positive(s) \in SUBSET {DayOf(c.ts) : c \in AllCandles}
    BY DEF Positive, Closes
  <2>2. closes \in [Positive(s) -> {c.close : c \in AllCandles}]
    BY DEF Positive, Closes
  <2>3. Path(closes, k) \in Int \X (Nat \ {0})
    <3> HIDE DEF closes
    <3> QED
      BY <1>2, <2>1, <2>2, PathAssumption
  <2> QED
    BY <1>1, <1>7, <2>3 DEF IsPrice
<1> QED
  BY <1>6, <1>7

\* The prices a low is taken over.
PricesOf(model, s, c) ==
  {q.price : q \in Cycle(Raw(model, s), c)} \cup {q.price : q \in Cycle(Overlay(s), c)}

LEMMA ScaledIs ==
  ASSUME NEW s, IsSeries(s), Closes(s), ~Panics(s), NEW model, NEW p \in Scaled(Raw(model, s), Overlay(s))
  PROVE  /\ p.projected = TRUE /\ IsPrice(p.price)
         /\ p.norm = Over(p.price, Anchor(Raw(model, s), Overlay(s), p.at[1]))
         /\ p.low = Over(p.price, Cheapest(PricesOf(model, s, p.at[1])))
         /\ IsPrice(Cheapest(PricesOf(model, s, p.at[1])))
         /\ AtMost(Cheapest(PricesOf(model, s, p.at[1])), p.price)
<1> DEFINE R == Raw(model, s)
           real == Overlay(s)
<1>1. PICK r \in R :
        /\ p.projected = TRUE /\ p.at = r.at /\ p.price = r.price
        /\ p.norm = Over(r.price, Anchor(R, real, r.at[1]))
        /\ p.low = Over(r.price, Cheapest(PricesOf(model, s, r.at[1])))
  <2>1. PICK r \in R :
          p = Point(r.at, r.day, r.price, Over(r.price, Anchor(R, real, r.at[1])),
                    Over(r.price, Cheapest(PricesOf(model, s, r.at[1]))), TRUE, TRUE)
    BY Zenon DEF Scaled, PricesOf
  <2> QED
    BY <2>1 DEF Point
<1> DEFINE c == r.at[1]
           P == PricesOf(model, s, c)
<1>2. \A a \in P : IsPrice(a)
  <2>1. \A q \in R : IsPrice(q.price)
    BY RawIs
  <2>2. ASSUME NEW q \in real PROVE IsPrice(q.price)
    <3>1. PICK x \in Nat : q.price = <<x, 1>>
      BY RealIs
    <3> QED
      BY <3>1 DEF IsPrice
  <2> QED
    BY <2>1, <2>2 DEF PricesOf, Cycle
<1>3. r.price \in P
  BY DEF PricesOf, Cycle
<1>4. IsFiniteSet(P)
  <2>1. IsFiniteSet(R)
    <3> DEFINE f == [k \in Horizon(model, s) |->
           [at |-> Key(Today(s) + k, Extended), day |-> Today(s) + k,
            price |-> IF model = "replay" THEN Replayed(s, k) ELSE Path([d \in Positive(s) |-> s[d]], k)]]
    <3>1. R = {f[k] : k \in Horizon(model, s)}
      BY DEF Raw
    <3>2. IsFiniteSet(1..CycleDays) /\ Horizon(model, s) \subseteq 1..CycleDays
      <4>1. CycleDays \in Nat
        BY OverlayAssumption
      <4> QED
        BY <4>1, FS_Interval DEF Horizon
    <3>3. IsFiniteSet(Horizon(model, s))
      BY <3>2, FS_Subset
    <3> HIDE DEF f
    <3> QED
      BY <3>1, <3>3, ImageIsFinite
  <2>2. IsFiniteSet(real)
    BY RealPoints DEF Countable
  <2>3. ASSUME NEW S, IsFiniteSet(S) PROVE IsFiniteSet({q.price : q \in Cycle(S, c)})
    <3> DEFINE D == Cycle(S, c)
               price == [q \in D |-> q.price]
    <3>1. D \subseteq S
      BY DEF Cycle
    <3>2. {q.price : q \in D} = {price[q] : q \in D}
      OBVIOUS
    <3> HIDE DEF D, price
    <3>3. IsFiniteSet(D)
      BY <2>3, <3>1, FS_Subset
    <3>4. IsFiniteSet({price[q] : q \in D})
      BY <3>3, ImageIsFinite
    <3> QED
      BY <3>2, <3>4 DEF D
  <2> HIDE DEF R, real, c
  <2>4. IsFiniteSet({q.price : q \in Cycle(R, c)}) /\ IsFiniteSet({q.price : q \in Cycle(real, c)})
    BY <2>1, <2>2, <2>3
  <2> QED
    BY <2>4, FS_Union DEF PricesOf, R, real
<1> HIDE DEF P
<1>5. Cheapest(P) \in P /\ \A b \in P : AtMost(Cheapest(P), b)
  BY <1>2, <1>3, <1>4, CheapestIs
<1> QED
  BY <1>1, <1>2, <1>3, <1>5 DEF P

LEMMA SameOfReal ==
  ASSUME NEW x \in Int, NEW y \in Int, NEW a \in Int
  PROVE  Same(Times(<<x, 1>>, <<y, a>>), Times(<<y, 1>>, <<x, a>>))
BY DEF Same, AtMost, Times

LEMMA SameOfProjected ==
  ASSUME NEW x \in Int, NEW u \in Int, NEW v \in Int, NEW z \in Int, NEW a \in Int
  PROVE  Same(Times(<<x, 1>>, Over(<<u, v>>, Over(<<z, 1>>, <<z, a>>))), Times(<<u, v>>, <<x, a>>))
<1> DEFINE l == x * (u * (1 * z))
           m == 1 * (v * (z * a))
<1>1. l * (v * a) = (u * x) * m
  OBVIOUS
<1>2. l * (v * a) \in Int /\ (u * x) * m \in Int
  OBVIOUS
<1>3. Times(<<x, 1>>, Over(<<u, v>>, Over(<<z, 1>>, <<z, a>>))) = <<l, m>>
  BY DEF Times, Over
<1>4. Times(<<u, v>>, <<x, a>>) = <<u * x, v * a>>
  BY DEF Times
<1>5. l * (v * a) <= (u * x) * m /\ (u * x) * m <= l * (v * a)
  BY <1>1, <1>2
<1> HIDE DEF l, m
<1> QED
  BY <1>3, <1>4, <1>5 DEF Same, AtMost

\* The points of one series are on the scale of their cycles.
LEMMA SeriesOnScale ==
  ASSUME NEW s, IsSeries(s), Closes(s), ~Panics(s)
  PROVE  \A p, q \in GivenBy(s) : p.at[1] = q.at[1] =>
           /\ ~p.projected => Same(Times(p.price, q.norm), Times(q.price, p.norm))
           /\ q.low[1] >= q.low[2]
<1> DEFINE real == Overlay(s)
<1>1. ASSUME NEW p \in GivenBy(s)
      PROVE  p \in real \/ \E model : p \in Scaled(Raw(model, s), real)
  <2>1. PICK g \in {h \in rows : h.series = s} : p \in Points(g.model, s)
    BY DEF GivenBy
  <2> QED
    BY <2>1 DEF Points
<1>2. ASSUME NEW q \in GivenBy(s) PROVE q.low[1] >= q.low[2]
  <2>1. CASE q \in real
    <3>1. PICK x \in Nat : q.low = <<x, Lowest(s, q.at[1])>> /\ Lowest(s, q.at[1]) \in Nat /\ Lowest(s, q.at[1]) <= x
      BY <2>1, RealIs
    <3> QED
      BY <3>1
  <2>2. ASSUME NEW model, q \in Scaled(Raw(model, s), real) PROVE q.low[1] >= q.low[2]
    <3> DEFINE cheapest == Cheapest(PricesOf(model, s, q.at[1]))
    <3>1. /\ IsPrice(q.price) /\ IsPrice(cheapest) /\ AtMost(cheapest, q.price)
          /\ q.low = Over(q.price, cheapest)
      BY <2>2, ScaledIs
    <3> HIDE DEF cheapest
    <3>2. cheapest[1] * q.price[2] <= q.price[1] * cheapest[2]
      BY <3>1 DEF AtMost
    <3>3. q.low[1] = q.price[1] * cheapest[2] /\ q.low[2] = q.price[2] * cheapest[1]
      BY <3>1 DEF Over
    <3>4. /\ q.price[1] \in Int /\ q.price[2] \in Int
          /\ cheapest[1] \in Int /\ cheapest[2] \in Int
      BY <3>1 DEF IsPrice
    <3> QED
      BY <3>2, <3>3, <3>4
  <2> QED
    BY <1>1, <2>1, <2>2
<1>3. ASSUME NEW p \in real, NEW q \in GivenBy(s), p.at[1] = q.at[1]
      PROVE  Same(Times(p.price, q.norm), Times(q.price, p.norm))
  <2> DEFINE c == p.at[1]
             a == Unit(s, c)
  <2>1. PICK x \in Nat : p.price = <<x, 1>> /\ p.norm = <<x, a>> /\ a \in Nat
    BY RealIs
  <2>2. CASE q \in real
    <3>1. PICK y \in Nat : q.price = <<y, 1>> /\ q.norm = <<y, a>>
      BY <1>3, <2>2, RealIs
    <3> QED
      BY <2>1, <3>1, SameOfReal
  <2>3. ASSUME NEW model, q \in Scaled(Raw(model, s), real)
        PROVE  Same(Times(p.price, q.norm), Times(q.price, p.norm))
    <3>1. IsPrice(q.price) /\ q.norm = Over(q.price, Anchor(Raw(model, s), real, c))
      BY <1>3, <2>3, ScaledIs
    <3>2. PICK u \in Int, v \in Int : q.price = <<u, v>>
      BY <3>1 DEF IsPrice
    <3> DEFINE r == CHOOSE o \in Cycle(real, c) : TRUE
    <3>3. p \in Cycle(real, c)
      BY DEF Cycle
    <3>4. Anchor(Raw(model, s), real, c) = Over(r.price, r.norm)
      BY <3>3 DEF Anchor
    <3>5. r \in Cycle(real, c)
      BY <3>3
    <3> HIDE DEF r
    <3>6. r \in real /\ r.at[1] = c
      BY <3>5 DEF Cycle
    <3>7. PICK z \in Nat : r.price = <<z, 1>> /\ r.norm = <<z, a>>
      BY <3>6, RealIs
    <3> HIDE DEF a
    <3>8. Same(Times(<<x, 1>>, Over(<<u, v>>, Over(<<z, 1>>, <<z, a>>))), Times(<<u, v>>, <<x, a>>))
      BY <2>1, SameOfProjected
    <3> QED
      BY <2>1, <3>1, <3>2, <3>4, <3>7, <3>8
  <2> QED
    BY <1>1, <2>2, <2>3
<1>4. ASSUME NEW p \in GivenBy(s), ~p.projected PROVE p \in real
  <2>1. ASSUME NEW model, p \in Scaled(Raw(model, s), real) PROVE FALSE
    BY <1>4, <2>1, ScaledIs
  <2> QED
    BY <1>1, <2>1
<1> QED
  BY <1>2, <1>3, <1>4

LEMMA ScaleHolds == OverlayInv /\ Priced => OneScale
<1> SUFFICES ASSUME OverlayInv, Priced, NEW g \in rows
             PROVE  \A p, q \in GivenBy(g.series) : p.at[1] = q.at[1] =>
                      /\ ~p.projected => Same(Times(p.price, q.norm), Times(q.price, p.norm))
                      /\ q.low[1] >= q.low[2]
  BY DEF OneScale
<1>1. IsSeries(g.series) /\ Closes(g.series) /\ ~Panics(g.series)
  BY DEF OverlayInv, Built, GroupsAre, Priced
<1> QED
  BY <1>1, SeriesOnScale

\* The points of a coin fit together, for any workers and clients, candles, halvings,
\* horizon, price path and faults: the table shows whole rebuilds by the locks of DELETE
\* and INSERT in recompute_cycle_overlay, every series in it is one that could be charted,
\* so that its points share the scale of their cycle, and their keys follow their days.
THEOREM PointsHold == OverlaySpec => []PointsFit
<1> DEFINE Inv == OverlayInv /\ Fits /\ Locked /\ Typed /\ Priced
<1>1. OverlayInit => Inv
  <2>1. OverlayInit => Priced
    BY NoCloses DEF OverlayInit, Priced
  <2> QED
    BY <2>1, OverlayInitInv, LocksInit, TypesInit
<1>2. Inv /\ [OverlayNext]_overlayVars => Inv'
  <2> SUFFICES ASSUME Inv, [OverlayNext]_overlayVars
               PROVE  Inv'
    OBVIOUS
  <2>1. OverlayInv'
    BY StockKept, BuiltKept, WalksKept DEF OverlayInv
  <2>2. Fits' /\ Locked'
    BY LocksKept
  <2>3. Typed' /\ Priced'
    BY TypesKept, PricesKept DEF OverlayInv
  <2> QED
    BY <2>1, <2>2, <2>3
<1>3. OverlaySpec => [](OverlayTypeOK /\ OneRebuild /\ OneScale)
  <2>1. Inv => OverlayTypeOK /\ OneRebuild /\ OneScale
    BY FitsIsOneRebuild, ScaleHolds DEF Typed
  <2> QED
    BY <1>1, <1>2, <2>1, PTL DEF OverlaySpec
<1>4. OverlayTypeOK /\ OneRebuild /\ OneScale /\ KeysFollowDays => PointsFit
  BY DEF PointsFit
<1> QED
  BY <1>3, <1>4, KeysHold, PTL

-----------------------------------------------------------------------------
(* Settings.  A text of the database is read by adding up its parts, so    *)
(* the sum over a sequence comes first.                                    *)

\* A sum over a sequence of naturals, from its start, is one function.
Sums(n, w, f) == f = [i \in 0..n |-> IF i = 0 THEN 0 ELSE f[i - 1] + w[i]]

\* There is such a function, one more term at a time.
LEMMA SumsThere ==
  ASSUME NEW n \in Nat, NEW w \in [1..n -> Nat]
  PROVE  \E f : Sums(n, w, f)
<1> DEFINE Meets(f, m) == \A i \in 0..n : i <= m => f[i] = IF i = 0 THEN 0 ELSE f[i - 1] + w[i]
           Met(m) == \E f \in [0..n -> Nat] : Meets(f, m)
<1>1. Met(0)
  <2>1. [i \in 0..n |-> 0] \in [0..n -> Nat]
    OBVIOUS
  <2>2. Meets([i \in 0..n |-> 0], 0)
    OBVIOUS
  <2> QED
    BY <2>1, <2>2
<1>2. ASSUME NEW m \in Nat, Met(m) PROVE Met(m + 1)
  <2>1. PICK f \in [0..n -> Nat] : Meets(f, m)
    BY <1>2
  <2> DEFINE g == [i \in 0..n |-> IF i = 0 THEN 0 ELSE f[i - 1] + w[i]]
  <2>2. g \in [0..n -> Nat]
    <3>1. \A i \in 0..n : i # 0 => f[i - 1] \in Nat /\ w[i] \in Nat
      OBVIOUS
    <3> QED
      BY <3>1
  <2>3. \A i \in 0..n : i <= m => g[i] = f[i]
    BY <2>1
  <2>4. Meets(g, m + 1)
    <3>1. \A i \in 0..n : i <= m + 1 /\ i # 0 => i - 1 \in 0..n /\ i - 1 <= m
      OBVIOUS
    <3>2. \A i \in 0..n : g[i] = IF i = 0 THEN 0 ELSE f[i - 1] + w[i]
      OBVIOUS
    <3> HIDE DEF g
    <3> QED
      BY <2>3, <3>1, <3>2
  <2> HIDE DEF Meets, g
  <2> QED
    BY <2>2, <2>4
<1>3. Met(n)
  <2> DEFINE Bad == {m \in Nat : ~Met(m)}
  <2> HIDE DEF Met
  <2>1. Bad = {}
    <3> SUFFICES ASSUME Bad # {} PROVE FALSE
      OBVIOUS
    <3>1. PICK m \in Bad : \A k \in Bad : m <= k
      <4>1. Bad \subseteq Nat
        OBVIOUS
      <4> HIDE DEF Bad
      <4> QED
        BY <4>1, NatOrder
    <3>2. m # 0 /\ m \in Nat
      BY <1>1, <3>1
    <3>3. m - 1 \in Nat /\ m - 1 \notin Bad
      BY <3>1, <3>2
    <3>4. Met((m - 1) + 1)
      BY <1>2, <3>3
    <3>5. (m - 1) + 1 = m
      BY <3>2
    <3> QED
      BY <3>1, <3>4, <3>5
  <2> QED
    BY <2>1
<1>4. PICK f \in [0..n -> Nat] : Meets(f, n)
  BY <1>3
<1>5. f = [i \in 0..n |-> IF i = 0 THEN 0 ELSE f[i - 1] + w[i]]
  BY <1>4
<1> QED
  BY <1>5 DEF Sums

\* Its values are naturals.
LEMMA SumsAreNat ==
  ASSUME NEW n \in Nat, NEW w \in [1..n -> Nat], NEW f, Sums(n, w, f)
  PROVE  \A i \in 0..n : f[i] \in Nat
<1>1. \A i \in 0..n : f[i] = IF i = 0 THEN 0 ELSE f[i - 1] + w[i]
  BY DEF Sums
<1> DEFINE Bad == {i \in 0..n : f[i] \notin Nat}
<1>2. SUFFICES ASSUME Bad # {} PROVE FALSE
  OBVIOUS
<1>3. PICK i \in Bad : \A j \in Bad : i <= j
  <2>1. Bad \subseteq Nat
    OBVIOUS
  <2> HIDE DEF Bad
  <2> QED
    BY <1>2, <2>1, NatOrder
<1>4. i \in 0..n /\ i # 0
  BY <1>1
<1>5. i - 1 \in 0..n /\ i - 1 \notin Bad
  BY <1>3, <1>4
<1>6. f[i - 1] \in Nat /\ w[i] \in Nat
  BY <1>4, <1>5
<1>7. f[i] = f[i - 1] + w[i]
  BY <1>1, <1>4
<1> QED
  BY <1>6, <1>7

\* Parts of an interval.
Parts == Nat \X DOMAIN Units

\* A part is worth a natural.
LEMMA WorthIs ==
  ASSUME NEW part \in Parts
  PROVE  Worth(part) \in Nat
<1>1. part[1] \in Nat /\ part[2] \in {"h", "m", "s"}
  BY DEF Parts, Units
<1>2. Units[part[2]] \in {3600, 60, 1}
  BY <1>1 DEF Units
<1>3. part[1] * 3600 \in Nat /\ part[1] * 60 \in Nat /\ part[1] * 1 \in Nat
  BY <1>1
<1> DEFINE u == Units[part[2]]
           a == part[1]
<1> HIDE DEF u, a
<1>4. a * u \in Nat
  BY <1>2, <1>3 DEF a, u
<1> QED
  BY <1>4, Zenon DEF Worth, a, u

\* parse_hms is the last value of that function.
LEMMA ParseIs ==
  ASSUME NEW n \in Nat, NEW parts \in [1..n -> Parts]
  PROVE  \E f : /\ \A i \in 0..n : f[i] = IF i = 0 THEN 0 ELSE f[i - 1] + Worth(parts[i])
                /\ \A i \in 0..n : f[i] \in Nat
                /\ Parse(parts) = f[n]
<1> DEFINE w == [i \in 1..n |-> Worth(parts[i])]
           g == CHOOSE f : f = [i \in 0..n |-> IF i = 0 THEN 0 ELSE f[i - 1] + Worth(parts[i])]
<1>1. w \in [1..n -> Nat]
  <2>1. \A i \in 1..n : parts[i] \in Parts
    OBVIOUS
  <2> QED
    BY <2>1, WorthIs
<1>2. Len(parts) = n
  <2>1. parts \in Seq(Parts)
    OBVIOUS
  <2> QED
    BY <2>1
<1>3. PICK f : Sums(n, w, f)
  BY <1>1, SumsThere
<1>4. \A h : h = [i \in 0..n |-> IF i = 0 THEN 0 ELSE h[i - 1] + Worth(parts[i])]
           <=> h = [i \in 0..n |-> IF i = 0 THEN 0 ELSE h[i - 1] + w[i]]
  <2>1. \A i \in 0..n : i # 0 => w[i] = Worth(parts[i])
    OBVIOUS
  <2> HIDE DEF w
  <2> QED
    BY <2>1
<1>5. g = [i \in 0..n |-> IF i = 0 THEN 0 ELSE g[i - 1] + Worth(parts[i])]
  <2>1. \E h : h = [i \in 0..n |-> IF i = 0 THEN 0 ELSE h[i - 1] + Worth(parts[i])]
    BY <1>3, <1>4, Zenon DEF Sums
  <2> QED
    BY <2>1, Zenon
<1>6. Parse(parts) = g[n]
  <2>1. Parse(parts) =
          LET sum[i \in 0..Len(parts)] == IF i = 0 THEN 0 ELSE sum[i - 1] + Worth(parts[i]) IN sum[Len(parts)]
    BY Zenon DEF Parse
  <2>2. Parse(parts) =
          LET sum[i \in 0..n] == IF i = 0 THEN 0 ELSE sum[i - 1] + Worth(parts[i]) IN sum[n]
    BY <1>2, <2>1, Zenon
  <2> QED
    BY <2>2, Zenon
<1>7. Sums(n, w, g)
  BY <1>4, <1>5, Zenon DEF Sums
<1> HIDE DEF w, g
<1>8. \A i \in 0..n : g[i] \in Nat
  BY <1>1, <1>7, SumsAreNat
<1>9. \A i \in 0..n : g[i] = IF i = 0 THEN 0 ELSE g[i - 1] + w[i]
  BY <1>7 DEF Sums
<1>10. \A i \in 0..n : g[i] = IF i = 0 THEN 0 ELSE g[i - 1] + Worth(parts[i])
  <2>1. \A i \in 0..n : i # 0 => w[i] = Worth(parts[i])
    BY DEF w
  <2> QED
    BY <1>9, <2>1
<1> QED
  BY <1>6, <1>8, <1>10, Zenon

\* One part, two parts and three.
LEMMA ParseOne ==
  ASSUME NEW a \in Parts
  PROVE  Parse(<<a>>) = Worth(a)
<1>1. <<a>> \in [1..1 -> Parts] /\ <<a>>[1] = a
  OBVIOUS
<1>2. PICK f : /\ \A i \in 0..1 : f[i] = IF i = 0 THEN 0 ELSE f[i - 1] + Worth(<<a>>[i])
               /\ \A i \in 0..1 : f[i] \in Nat
               /\ Parse(<<a>>) = f[1]
  BY <1>1, ParseIs
<1>3. Worth(a) \in Nat
  BY WorthIs
<1> QED
  BY <1>1, <1>2, <1>3

\* Two parts.
LEMMA ParseTwo ==
  ASSUME NEW a \in Parts, NEW b \in Parts
  PROVE  Parse(<<a, b>>) = Worth(a) + Worth(b)
<1>1. <<a, b>> \in [1..2 -> Parts] /\ <<a, b>>[1] = a /\ <<a, b>>[2] = b
  OBVIOUS
<1>2. PICK f : /\ \A i \in 0..2 : f[i] = IF i = 0 THEN 0 ELSE f[i - 1] + Worth(<<a, b>>[i])
               /\ \A i \in 0..2 : f[i] \in Nat
               /\ Parse(<<a, b>>) = f[2]
  BY <1>1, ParseIs
<1>3. Worth(a) \in Nat /\ Worth(b) \in Nat
  BY WorthIs
<1> QED
  BY <1>1, <1>2, <1>3

\* Three parts.
LEMMA ParseThree ==
  ASSUME NEW a \in Parts, NEW b \in Parts, NEW c \in Parts
  PROVE  Parse(<<a, b, c>>) = Worth(a) + Worth(b) + Worth(c)
<1>1. <<a, b, c>> \in [1..3 -> Parts] /\ <<a, b, c>>[1] = a /\ <<a, b, c>>[2] = b /\ <<a, b, c>>[3] = c
  OBVIOUS
<1>2. PICK f : /\ \A i \in 0..3 : f[i] = IF i = 0 THEN 0 ELSE f[i - 1] + Worth(<<a, b, c>>[i])
               /\ \A i \in 0..3 : f[i] \in Nat
               /\ Parse(<<a, b, c>>) = f[3]
  BY <1>1, ParseIs
<1>3. Worth(a) \in Nat /\ Worth(b) \in Nat /\ Worth(c) \in Nat
  BY WorthIs
<1> QED
  BY <1>1, <1>2, <1>3

\* Parts one after another, none among them.
LEMMA PartsJoin ==
  /\ \A a \in Parts : <<>> \o <<a>> = <<a>> /\ <<a>> \o <<>> = <<a>>
  /\ \A a, b \in Parts : <<a>> \o <<b>> = <<a, b>> /\ <<a, b>> \o <<>> = <<a, b>>
  /\ \A a, b, c \in Parts : <<a, b>> \o <<c>> = <<a, b, c>>
  /\ <<>> \o <<>> = <<>>
<1>0. <<>> \o <<>> = <<>> 
  OBVIOUS
<1>1. ASSUME NEW a \in Parts PROVE <<>> \o <<a>> = <<a>>
  OBVIOUS
<1>2. ASSUME NEW a \in Parts PROVE <<a>> \o <<>> = <<a>>
  <2>1. <<a>> \in Seq(Parts)
    OBVIOUS
  <2> QED
    BY <2>1, ConcatEmptySeq, Zenon
<1>3. ASSUME NEW a \in Parts, NEW b \in Parts PROVE <<a>> \o <<b>> = <<a, b>>
  <2>1. <<a>> \in Seq(Parts)
    OBVIOUS
  <2>2. <<a>> \o <<b>> = Append(<<a>>, b)
    BY <2>1, AppendIsConcat, Zenon
  <2>3. Append(<<a>>, b) = <<a, b>>
    <3>1. <<a>> \in Seq(Parts) /\ <<a, b>> \in Seq(Parts) /\ Len(<<a>>) = 1 /\ Len(<<a, b>>) = 2
      OBVIOUS
    <3>2. /\ Append(<<a>>, b) \in Seq(Parts) /\ Len(Append(<<a>>, b)) = 2
          /\ Append(<<a>>, b)[1] = a /\ Append(<<a>>, b)[2] = b
      BY <3>1, AppendProperties
    <3>3. \A i \in 1..2 : Append(<<a>>, b)[i] = <<a, b>>[i]
      BY <3>2
    <3> QED
      BY <3>1, <3>2, <3>3, SeqEqual
  <2> QED
    BY <2>2, <2>3, Zenon
<1>4. ASSUME NEW a \in Parts, NEW b \in Parts PROVE <<a, b>> \o <<>> = <<a, b>>
  <2>1. <<a, b>> \in Seq(Parts)
    OBVIOUS
  <2> QED
    BY <2>1, ConcatEmptySeq, Zenon
<1>5. ASSUME NEW a \in Parts, NEW b \in Parts, NEW c \in Parts PROVE <<a, b>> \o <<c>> = <<a, b, c>>
  <2>1. <<a, b>> \in Seq(Parts)
    OBVIOUS
  <2>2. <<a, b>> \o <<c>> = Append(<<a, b>>, c)
    BY <2>1, AppendIsConcat, Zenon
  <2>3. Append(<<a, b>>, c) = <<a, b, c>>
    <3>1. /\ <<a, b>> \in Seq(Parts) /\ <<a, b, c>> \in Seq(Parts)
          /\ Len(<<a, b>>) = 2 /\ Len(<<a, b, c>>) = 3
      OBVIOUS
    <3>2. /\ Append(<<a, b>>, c) \in Seq(Parts) /\ Len(Append(<<a, b>>, c)) = 3
          /\ Append(<<a, b>>, c)[1] = a /\ Append(<<a, b>>, c)[2] = b /\ Append(<<a, b>>, c)[3] = c
      BY <3>1, AppendProperties
    <3>3. \A i \in 1..3 : Append(<<a, b>>, c)[i] = <<a, b, c>>[i]
      BY <3>2
    <3> QED
      BY <3>1, <3>2, <3>3, SeqEqual
  <2> QED
    BY <2>2, <2>3, Zenon
<1> QED
  BY <1>0, <1>1, <1>2, <1>3, <1>4, <1>5

\* Whichever of the parts is zero and left out, the rest is as long.
LEMMA JoinIs ==
  ASSUME NEW h \in Nat, NEW m \in Nat, NEW s \in Nat, h > 0 \/ m > 0 \/ s > 0
  PROVE  Parse(Part(h, "h") \o Part(m, "m") \o Part(s, "s")) = Worth(<<h, "h">>) + Worth(<<m, "m">>) + Worth(<<s, "s">>)
<1> DEFINE x == <<h, "h">>
           y == <<m, "m">>
           z == <<s, "s">>
           A == Part(h, "h")
           B == Part(m, "m")
           C == Part(s, "s")
<1>1. /\ A = IF h > 0 THEN <<x>> ELSE <<>>
      /\ B = IF m > 0 THEN <<y>> ELSE <<>>
      /\ C = IF s > 0 THEN <<z>> ELSE <<>>
  BY DEF Part
<1>2. /\ x \in Parts /\ y \in Parts /\ z \in Parts
      /\ Worth(x) = h * 3600 /\ Worth(y) = m * 60 /\ Worth(z) = s
  BY DEF Parts, Units, Worth
<1>3. /\ h > 0 => A = <<x>>
      /\ ~(h > 0) => A = <<>> /\ Worth(x) = 0
      /\ m > 0 => B = <<y>>
      /\ ~(m > 0) => B = <<>> /\ Worth(y) = 0
      /\ s > 0 => C = <<z>>
      /\ ~(s > 0) => C = <<>> /\ Worth(z) = 0
  BY <1>1, <1>2
<1> SUFFICES Parse(A \o B \o C) = Worth(x) + Worth(y) + Worth(z)
  OBVIOUS
<1> HIDE DEF x, y, z, A, B, C
<1>4. CASE h > 0 /\ m > 0
  <2>1. A \o B = <<x, y>>
    <3>1. x \in Parts /\ y \in Parts /\ A = <<x>> /\ B = <<y>>
      BY <1>2, <1>3, <1>4
    <3> QED
      BY <3>1, PartsJoin, Zenon
  <2>2. CASE s > 0
    <3>1. A \o B \o C = <<x, y, z>>
      <4>1. x \in Parts /\ y \in Parts /\ z \in Parts /\ C = <<z>>
        BY <1>2, <1>3, <2>2
      <4> QED
        BY <2>1, <4>1, PartsJoin, Zenon
    <3>2. Parse(<<x, y, z>>) = Worth(x) + Worth(y) + Worth(z)
      BY <1>2, ParseThree
    <3> QED
      BY <3>1, <3>2, <1>2, <1>3, <1>4
  <2>3. CASE ~(s > 0)
    <3>1. A \o B \o C = <<x, y>>
      BY <1>2, <1>3, <2>1, <2>3, PartsJoin
    <3>2. Parse(<<x, y>>) = Worth(x) + Worth(y)
      BY <1>2, ParseTwo
    <3> QED
      BY <3>1, <3>2, <1>2, <1>3, <1>4, <2>3
  <2> QED
    BY <2>2, <2>3
<1>5. CASE h > 0 /\ ~(m > 0)
  <2>1. A \o B = <<x>>
    <3>1. x \in Parts /\ y \in Parts /\ A = <<x>> /\ B = <<>>
      BY <1>2, <1>3, <1>5
    <3> QED
      BY <3>1, PartsJoin, Zenon
  <2>2. CASE s > 0
    <3>1. A \o B \o C = <<x, z>>
      <4>1. x \in Parts /\ y \in Parts /\ z \in Parts /\ C = <<z>>
        BY <1>2, <1>3, <2>2
      <4> QED
        BY <2>1, <4>1, PartsJoin, Zenon
    <3>2. Parse(<<x, z>>) = Worth(x) + Worth(z)
      BY <1>2, ParseTwo
    <3> QED
      BY <3>1, <3>2, <1>2, <1>3, <1>5
  <2>3. CASE ~(s > 0)
    <3>1. A \o B \o C = <<x>>
      BY <1>2, <1>3, <2>1, <2>3, PartsJoin
    <3>2. Parse(<<x>>) = Worth(x)
      BY <1>2, ParseOne
    <3> QED
      BY <3>1, <3>2, <1>2, <1>3, <1>5, <2>3
  <2> QED
    BY <2>2, <2>3
<1>6. CASE ~(h > 0) /\ m > 0
  <2>1. A \o B = <<y>>
    <3>1. x \in Parts /\ y \in Parts /\ A = <<>> /\ B = <<y>>
      BY <1>2, <1>3, <1>6
    <3> QED
      BY <3>1, PartsJoin, Zenon
  <2>2. CASE s > 0
    <3>1. A \o B \o C = <<y, z>>
      <4>1. x \in Parts /\ y \in Parts /\ z \in Parts /\ C = <<z>>
        BY <1>2, <1>3, <2>2
      <4> QED
        BY <2>1, <4>1, PartsJoin, Zenon
    <3>2. Parse(<<y, z>>) = Worth(y) + Worth(z)
      BY <1>2, ParseTwo
    <3> QED
      BY <3>1, <3>2, <1>2, <1>3, <1>6
  <2>3. CASE ~(s > 0)
    <3>1. A \o B \o C = <<y>>
      BY <1>2, <1>3, <2>1, <2>3, PartsJoin
    <3>2. Parse(<<y>>) = Worth(y)
      BY <1>2, ParseOne
    <3> QED
      BY <3>1, <3>2, <1>2, <1>3, <1>6, <2>3
  <2> QED
    BY <2>2, <2>3
<1>7. CASE ~(h > 0) /\ ~(m > 0)
  <2>1. A \o B \o C = <<z>>
    <3>1. z \in Parts /\ A = <<>> /\ B = <<>> /\ C = <<z>>
      BY <1>2, <1>3, <1>7
    <3>2. A \o B = <<>>
      BY <3>1, PartsJoin, Zenon
    <3> QED
      BY <3>1, <3>2, PartsJoin, Zenon
  <2>2. Parse(<<z>>) = Worth(z)
    BY <1>2, ParseOne
  <2> QED
    BY <2>1, <2>2, <1>2, <1>3, <1>7
<1> QED
  BY <1>4, <1>5, <1>6, <1>7

\* What is shown of some seconds is read as those seconds.
LEMMA ReadsBack ==
  ASSUME NEW secs \in Nat
  PROVE  Parse(Shown(secs)) = secs
<1>1. CASE secs = 0
  <2>1. Shown(secs) = << <<0, "s">> >>
    BY <1>1 DEF Shown
  <2>2. <<0, "s">> \in Parts /\ Worth(<<0, "s">>) = 0
    BY DEF Parts, Units, Worth
  <2>3. Parse(<< <<0, "s">> >>) = Worth(<<0, "s">>)
    BY <2>2, ParseOne
  <2> QED
    BY <1>1, <2>1, <2>2, <2>3
<1>2. CASE secs # 0
  <2>1. PICK h \in Nat, m \in Nat, s \in Nat :
          h = secs \div 3600 /\ m = (secs % 3600) \div 60 /\ s = secs % 60
    OBVIOUS
  <2>2. secs = (h * 3600) + (m * 60) + s
    BY <2>1
  <2>3. h > 0 \/ m > 0 \/ s > 0
    BY <1>2, <2>2
  <2>4. Shown(secs) = Part(h, "h") \o Part(m, "m") \o Part(s, "s")
    BY <1>2, <2>1 DEF Shown
  <2>5. Parse(Part(h, "h") \o Part(m, "m") \o Part(s, "s")) = Worth(<<h, "h">>) + Worth(<<m, "m">>) + Worth(<<s, "s">>)
    BY <2>3, JoinIs, Zenon
  <2>6. Worth(<<h, "h">>) = h * 3600 /\ Worth(<<m, "m">>) = m * 60 /\ Worth(<<s, "s">>) = s
    BY DEF Worth, Units
  <2>7. Parse(Shown(secs)) = Worth(<<h, "h">>) + Worth(<<m, "m">>) + Worth(<<s, "s">>)
    BY <2>4, <2>5, Zenon
  <2> DEFINE a == Worth(<<h, "h">>)
             b == Worth(<<m, "m">>)
             c == Worth(<<s, "s">>)
  <2> HIDE DEF a, b, c
  <2>8. a = h * 3600 /\ b = m * 60 /\ c = s
    BY <2>6 DEF a, b, c
  <2>9. Parse(Shown(secs)) = a + b + c
    BY <2>7, Zenon DEF a, b, c
  <2> QED
    BY <2>2, <2>8, <2>9
<1> QED
  BY <1>1, <1>2

\* What a client sends comes to a number of seconds.
LEMMA ParsesToNat ==
  ASSUME NEW parts \in BoundedSeq(Amounts \X DOMAIN Units, MaxParts)
  PROVE  Parse(parts) \in Nat
<1>1. Amounts \X DOMAIN Units \subseteq Parts
  BY SettingsAssumption DEF Parts
<1>2. PICK n \in 0..MaxParts : parts \in [1..n -> Amounts \X DOMAIN Units]
  BY DEF BoundedSeq, SeqOf
<1>3. n \in Nat /\ parts \in [1..n -> Parts]
  BY <1>1, <1>2, SettingsAssumption
<1>4. PICK f : (\A i \in 0..n : f[i] \in Nat) /\ Parse(parts) = f[n]
  BY <1>3, ParseIs, Zenon
<1> QED
  BY <1>3, <1>4

\* The defaults of the settings that something is said of.
LEMMA DefaultsAre ==
  /\ {"LIVE_QUOTE_POLL_INTERVAL_SECS", "LIVE_POLL_MIN_INTERVAL_SECS", "LIVE_POLL_MAX_INTERVAL_SECS",
      "ALARM_RECONCILE_INTERVAL_SECS", "PROVIDER_HTTP_TIMEOUT_SECS"} \subseteq Plain
  /\ Default["LIVE_QUOTE_POLL_INTERVAL_SECS"] = 60
  /\ Default["LIVE_POLL_MIN_INTERVAL_SECS"] = 5
  /\ Default["LIVE_POLL_MAX_INTERVAL_SECS"] = 3600
  /\ Default["ALARM_RECONCILE_INTERVAL_SECS"] = 30
  /\ Default["PROVIDER_HTTP_TIMEOUT_SECS"] = 30
  /\ Default["COLLECTION_LEASE_SECONDS"] = 120
  /\ Default["COLLECTION_HEARTBEAT_INTERVAL_SECONDS"] = 30
  /\ Default["BACKFILL_LEASE_SECONDS"] = 300
  /\ Default["BACKFILL_HEARTBEAT_INTERVAL_SECONDS"] = 60
  /\ Default["LIVE_POLL_CLAIM_TTL_SECS"] = 120
  /\ Default["LIVE_POLL_CLAIM_BATCH_LIMIT"] = 50
  /\ Default["SHUTDOWN_DRAIN_SECONDS"] = 30
  /\ Default["ALARM_COIN_STALENESS_SECS"] = 900
  /\ Default["ALARM_ALL_PROVIDERS_DOWN_SECS"] = 180
  /\ Default["ALARM_PROVIDER_UNREACHABLE_SECS"] = 300
<1>1. Default = [v \in DOMAIN Scheduling \cup DOMAIN Requests \cup DOMAIN Observability \cup DOMAIN Alarms \cup DOMAIN AlarmsMore |->
                   IF v \in DOMAIN Scheduling THEN Scheduling[v]
                   ELSE IF v \in DOMAIN Requests THEN Requests[v]
                   ELSE IF v \in DOMAIN Observability THEN Observability[v]
                   ELSE IF v \in DOMAIN Alarms THEN Alarms[v] ELSE AlarmsMore[v]]
  BY DEF Default, And
<1>2. /\ \A v \in DOMAIN Scheduling : v \in Plain /\ Default[v] = Scheduling[v]
      /\ \A v \in DOMAIN Requests \ DOMAIN Scheduling : v \in Plain /\ Default[v] = Requests[v]
      /\ \A v \in DOMAIN Observability \ (DOMAIN Scheduling \cup DOMAIN Requests) : Default[v] = Observability[v]
      /\ \A v \in DOMAIN Alarms \ (DOMAIN Scheduling \cup DOMAIN Requests \cup DOMAIN Observability) :
           v \in Plain /\ Default[v] = Alarms[v]
      /\ \A v \in DOMAIN AlarmsMore \ (DOMAIN Scheduling \cup DOMAIN Requests \cup DOMAIN Observability \cup DOMAIN Alarms) :
           Default[v] = AlarmsMore[v]
  BY <1>1 DEF Plain
<1>3. /\ {"LIVE_QUOTE_POLL_INTERVAL_SECS", "LIVE_POLL_MIN_INTERVAL_SECS", "LIVE_POLL_MAX_INTERVAL_SECS"} \subseteq Plain
      /\ Default["LIVE_QUOTE_POLL_INTERVAL_SECS"] = 60
      /\ Default["LIVE_POLL_MIN_INTERVAL_SECS"] = 5
      /\ Default["LIVE_POLL_MAX_INTERVAL_SECS"] = 3600
      /\ Default["COLLECTION_LEASE_SECONDS"] = 120
      /\ Default["COLLECTION_HEARTBEAT_INTERVAL_SECONDS"] = 30
      /\ Default["BACKFILL_LEASE_SECONDS"] = 300
      /\ Default["BACKFILL_HEARTBEAT_INTERVAL_SECONDS"] = 60
      /\ Default["LIVE_POLL_CLAIM_TTL_SECS"] = 120
      /\ Default["LIVE_POLL_CLAIM_BATCH_LIMIT"] = 50
  BY <1>2 DEF Scheduling
<1>4. "PROVIDER_HTTP_TIMEOUT_SECS" \in Plain /\ Default["PROVIDER_HTTP_TIMEOUT_SECS"] = 30
  BY <1>2 DEF Scheduling, Requests
<1>5. Default["SHUTDOWN_DRAIN_SECONDS"] = 30
  BY <1>2 DEF Scheduling, Requests, Observability
<1>6. /\ "ALARM_RECONCILE_INTERVAL_SECS" \in Plain /\ Default["ALARM_RECONCILE_INTERVAL_SECS"] = 30
      /\ Default["ALARM_ALL_PROVIDERS_DOWN_SECS"] = 180
      /\ Default["ALARM_PROVIDER_UNREACHABLE_SECS"] = 300
  BY <1>2 DEF Scheduling, Requests, Observability, Alarms
<1>7. Default["ALARM_COIN_STALENESS_SECS"] = 900
  BY <1>2 DEF Scheduling, Requests, Observability, Alarms, AlarmsMore
<1> QED
  BY <1>3, <1>4, <1>5, <1>6, <1>7

\* A variable that holds a number, or counts for one, in every environment.
LEMMA SettingIs ==
  ASSUME NEW e \in Environments \cup {Unset}, NEW v \in Plain, Default[v] \in Int
  PROVE  Setting(e, v) \in Int
<1>1. CASE e = Unset
  BY <1>1 DEF Setting, Unset, Names
<1>2. CASE e \in Environments
  BY <1>2, SettingsAssumption DEF Setting, Parses
<1> QED
  BY <1>1, <1>2

\* The poll intervals and the period of the sweeps are numbers, and what a client may ask
\* for is no less than the cadence of the fleet.
LEMMA SettingsAre ==
  ASSUME NEW e \in Environments \cup {Unset}
  PROVE  /\ Setting(e, "LIVE_QUOTE_POLL_INTERVAL_SECS") \in Int
         /\ Setting(e, "LIVE_POLL_MAX_INTERVAL_SECS") \in Int
         /\ Setting(e, "ALARM_RECONCILE_INTERVAL_SECS") \in Int
         /\ Floor(e) \in Int /\ Floor(e) >= Setting(e, "LIVE_QUOTE_POLL_INTERVAL_SECS")
<1>1. /\ Setting(e, "LIVE_QUOTE_POLL_INTERVAL_SECS") \in Int
      /\ Setting(e, "LIVE_POLL_MAX_INTERVAL_SECS") \in Int
      /\ Setting(e, "LIVE_POLL_MIN_INTERVAL_SECS") \in Int
      /\ Setting(e, "ALARM_RECONCILE_INTERVAL_SECS") \in Int
  BY DefaultsAre, SettingIs
<1>2. PICK a \in Int, b \in Int, c \in Int :
        /\ a = Setting(e, "LIVE_POLL_MIN_INTERVAL_SECS") /\ b = Unsigned(Setting(e, "LIVE_QUOTE_POLL_INTERVAL_SECS"))
        /\ c = Setting(e, "LIVE_QUOTE_POLL_INTERVAL_SECS") /\ b >= c
  BY <1>1 DEF Unsigned, Beyond
<1>3. Max({a, b}) = IF a >= b THEN a ELSE b
  BY DEF Max
<1>4. Floor(e) = Max({a, b})
  BY <1>2, Zenon DEF Floor
<1> QED
  BY <1>1, <1>2, <1>3, <1>4

\* The inductive invariant: an alarm was raised in this process, at most one sweep that was
\* missed ago, and an interval that is still this process's own keeps its bounds.
SetInv ==
  /\ SetTypeOK /\ TierIsOne
  /\ life # "up" => ~theirs /\ since = NULL
  /\ since # NULL => Period > 0 /\ (since = 0 \/ (missed /\ since = Period))
  /\ theirs => /\ stored \in Nat /\ stored >= Floor(env)
               /\ stored <= Setting(env, "LIVE_POLL_MAX_INTERVAL_SECS")

\* A process that is down.
LEMMA SetInitHolds == SetInit => SetInv
<1> SUFFICES ASSUME SetInit PROVE SetInv
  OBVIOUS
<1>1. /\ life = "down" /\ env = Unset /\ stored = NULL /\ theirs = FALSE /\ cooldown = 0
      /\ since = NULL /\ missed = FALSE
  BY DEF SetInit
<1>2. SetTypeOK
  BY <1>1 DEF SetTypeOK
<1>3. TierIsOne
  BY <1>1 DEF TierIsOne
<1> QED
  BY <1>1, <1>2, <1>3 DEF SetInv

\* The tier that is known makes host, header and range of one kind.
LEMMA StartKeeps ==
  ASSUME SetInv, NEW e \in Environments, Start(e)
  PROVE  SetInv'
<1>1. life = "down" /\ since = NULL /\ ~theirs
  BY DEF Start, SetInv
<1>2. /\ env' = e /\ (life' = "up" \/ life' = "aborted") /\ since' = NULL /\ ~theirs' /\ theirs' = theirs
      /\ stored' = stored /\ cooldown' = cooldown /\ missed' = missed
  BY <1>1 DEF Start
<1>3. ASSUME life' = "up"
      PROVE  /\ Readable(e)
             /\ client' = [host |-> BaseUrl(e), header |-> KeyHeader(Tier(e)), range |-> Paid(Tier(e)),
                           timeout |-> PositiveSecs(e, "PROVIDER_HTTP_TIMEOUT_SECS")]
  BY <1>3 DEF Start
<1>4. PositiveSecs(e, "PROVIDER_HTTP_TIMEOUT_SECS") > 0
  BY DefaultsAre, SettingIs DEF PositiveSecs
<1>5. SetTypeOK'
  <2>1. life' = "up" => client'.timeout > 0
    BY <1>3, <1>4
  <2>2. /\ life' \in {"down", "up", "aborted"} /\ theirs' \in BOOLEAN
        /\ life' # "down" /\ env' \in Environments
        /\ stored' = NULL \/ stored' \in Nat
        /\ cooldown' \in Nat /\ since' = NULL /\ missed' \in BOOLEAN
    BY <1>2 DEF SetInv, SetTypeOK
  <2> QED
    BY <2>1, <2>2 DEF SetTypeOK
<1>6. TierIsOne'
  <2> SUFFICES ASSUME life' = "up"
               PROVE  /\ client'.header = "pro" <=> client'.range
                      /\ client'.host # "override" => client'.host = client'.header
                      /\ env'["COINGECKO_TIER"] # Junk
    BY DEF TierIsOne
  <2>1. /\ client'.header = KeyHeader(Tier(e)) /\ client'.range = Paid(Tier(e)) /\ client'.host = BaseUrl(e)
    BY <1>3
  <2>2. Paid(Tier(e)) \in BOOLEAN
    BY DEF Paid
  <2>3. KeyHeader(Tier(e)) = "pro" <=> Paid(Tier(e))
    BY DEF KeyHeader
  <2>4. BaseUrl(e) = "override" \/ BaseUrl(e) = KeyHeader(Tier(e))
    BY DEF BaseUrl, KeyHeader
  <2>5. e["COINGECKO_TIER"] # Junk
    BY <1>3 DEF Readable
  <2> QED
    BY <1>2, <2>1, <2>2, <2>3, <2>4, <2>5
<1> QED
  BY <1>2, <1>5, <1>6 DEF SetInv

\* What the process leaves.
LEMMA EndsKeeps == SetInv /\ Ends => SetInv'
BY DEF SetInv, SetTypeOK, TierIsOne, Ends

\* An interval is stored within the bounds of the process that takes it.
LEMMA UpdateKeeps ==
  ASSUME SetInv, NEW parts \in BoundedSeq(Amounts \X DOMAIN Units, MaxParts), Update(parts)
  PROVE  SetInv'
<1>1. Parse(parts) \in Nat
  BY ParsesToNat
<1>2. /\ life = "up" /\ Parse(parts) >= Floor(env) /\ Parse(parts) <= Setting(env, "LIVE_POLL_MAX_INTERVAL_SECS")
      /\ stored' = Parse(parts) /\ theirs' = TRUE
      /\ UNCHANGED <<life, env, client, cooldown, since, missed>>
  BY DEF Update, Accepts
<1>3. SetTypeOK' /\ TierIsOne'
  BY <1>1, <1>2 DEF SetInv, SetTypeOK, TierIsOne
<1>4. Period' = Period
  BY <1>2 DEF Period, Setting
<1>5. Floor(env') = Floor(env) /\ Setting(env', "LIVE_POLL_MAX_INTERVAL_SECS") = Setting(env, "LIVE_POLL_MAX_INTERVAL_SECS")
  BY <1>2
<1> QED
  BY <1>1, <1>2, <1>3, <1>4, <1>5 DEF SetInv

\* Without an interval nothing is its own.
LEMMA ResetKeeps == SetInv /\ ResetInterval => SetInv'
<1> SUFFICES ASSUME SetInv, ResetInterval PROVE SetInv'
  OBVIOUS
<1>1. /\ life = "up" /\ stored' = NULL /\ theirs' = FALSE
      /\ UNCHANGED <<life, env, client, cooldown, since, missed>>
  BY DEF ResetInterval
<1>2. Period' = Period
  BY <1>1 DEF Period, Setting
<1> QED
  BY <1>1, <1>2 DEF SetInv, SetTypeOK, TierIsOne

\* What is written of a 429, if anything.
LEMMA SignalIs ==
  ASSUME SetInv, Limited
  PROVE  /\ cooldown' \in Nat
         /\ cooldown' = cooldown \/ cooldown' = IF env["PACER_COOLDOWN_MS"] = Absent THEN CooldownDefault ELSE env["PACER_COOLDOWN_MS"]
<1>1. env \in Environments
  BY DEF SetInv, SetTypeOK, Limited
<1>2. env["PACER_COOLDOWN_MS"] \in {Absent, Junk} \/ env["PACER_COOLDOWN_MS"] \in Nat
  BY <1>1, SettingsAssumption DEF Parses, Signed
<1> QED
  BY <1>2 DEF SetInv, SetTypeOK, Limited, SignalCooldown, CooldownDefault

\* A cooldown begins and ends.
LEMMA CooldownKeeps == SetInv /\ (Limited \/ CooledDown) => SetInv'
<1> SUFFICES ASSUME SetInv, Limited \/ CooledDown PROVE SetInv'
  OBVIOUS
<1>1. cooldown' \in Nat /\ UNCHANGED <<life, env, client, stored, theirs, since, missed>>
  BY SignalIs DEF Limited, CooledDown
<1>2. Period' = Period /\ Floor(env') = Floor(env)
      /\ Setting(env', "LIVE_POLL_MAX_INTERVAL_SECS") = Setting(env, "LIVE_POLL_MAX_INTERVAL_SECS")
  BY <1>1 DEF Period, Setting
<1> QED
  BY <1>1, <1>2 DEF SetInv, SetTypeOK, TierIsOne

\* The alarm is raised anew, or one sweep is missed and not two.
LEMMA SweepKeeps == SetInv /\ (Raise \/ Sweep) => SetInv'
<1> SUFFICES ASSUME SetInv, Raise \/ Sweep PROVE SetInv'
  OBVIOUS
<1>1. Period \in Int
  BY SettingsAre DEF Period, SetInv, SetTypeOK
<1>3. /\ life = "up" /\ Period > 0 /\ UNCHANGED <<life, env, client, stored, theirs, cooldown>>
      /\ missed' \in BOOLEAN
      /\ since' = 0 \/ (missed' /\ since' = Period)
  <2>1. CASE Raise
    BY <2>1 DEF Raise, Sweeping
  <2>2. CASE Sweep
    <3>1. /\ life = "up" /\ Period > 0 /\ UNCHANGED <<life, env, client, stored, theirs, cooldown>>
          /\ since # NULL
          /\ \/ since' = 0 /\ missed' = FALSE
             \/ ~missed /\ missed' = TRUE /\ since' = since + Period
      BY <2>2 DEF Sweep, Sweeping
    <3>2. ~missed => since = 0
      BY <3>1 DEF SetInv
    <3>3. PICK p \in Int : p = Period
      BY <1>1
    <3>4. since' = 0 \/ (missed' /\ since' = p)
      BY <3>1, <3>2, <3>3
    <3> QED
      BY <3>1, <3>3, <3>4
  <2> QED
    BY <2>1, <2>2
<1>2. Period' = Period /\ Floor(env') = Floor(env)
      /\ Setting(env', "LIVE_POLL_MAX_INTERVAL_SECS") = Setting(env, "LIVE_POLL_MAX_INTERVAL_SECS")
  BY <1>3 DEF Period, Setting
<1> QED
  BY <1>1, <1>2, <1>3 DEF SetInv, SetTypeOK, TierIsOne

\* Every step.
LEMMA SetInductive == SetInv /\ [SetNext]_setVars => SetInv'
<1> SUFFICES ASSUME SetInv, [SetNext]_setVars PROVE SetInv'
  OBVIOUS
<1>1. CASE UNCHANGED setVars
  <2>1. /\ UNCHANGED <<life, env, client, stored, theirs, cooldown, since, missed>>
    BY <1>1 DEF setVars
  <2>2. Period' = Period /\ Floor(env') = Floor(env)
        /\ Setting(env', "LIVE_POLL_MAX_INTERVAL_SECS") = Setting(env, "LIVE_POLL_MAX_INTERVAL_SECS")
    BY <2>1 DEF Period, Setting
  <2> QED
    BY <2>1, <2>2 DEF SetInv, SetTypeOK, TierIsOne
<1>2. ASSUME NEW e \in Environments, Start(e) PROVE SetInv'
  BY <1>2, StartKeeps
<1>3. ASSUME NEW parts \in BoundedSeq(Amounts \X DOMAIN Units, MaxParts), Update(parts) PROVE SetInv'
  BY <1>3, UpdateKeeps
<1>4. CASE Ends
  BY <1>4, EndsKeeps
<1>5. CASE ResetInterval
  BY <1>5, ResetKeeps
<1>6. CASE Limited \/ CooledDown
  BY <1>6, CooldownKeeps
<1>7. CASE Raise \/ Sweep
  BY <1>7, SweepKeeps
<1> QED
  BY <1>1, <1>2, <1>3, <1>4, <1>5, <1>6, <1>7 DEF SetNext

\* What the invariant says of the readers of an interval: the text of the database is read
\* as the seconds that were stored.
LEMMA IntervalsAgree == SetInv => IntervalIsOne /\ ShownIsAccepted
<1> SUFFICES ASSUME SetInv PROVE IntervalIsOne /\ ShownIsAccepted
  OBVIOUS
<1>1. IntervalIsOne
  <2> SUFFICES ASSUME stored # NULL, stored > 0 PROVE CollectorInterval = PollerInterval
    BY DEF IntervalIsOne
  <2>1. Parse(Shown(stored)) = stored
    BY ReadsBack DEF SetInv, SetTypeOK
  <2> QED
    BY <2>1 DEF CollectorInterval, PollerInterval
<1>2. ShownIsAccepted
  <2> SUFFICES ASSUME theirs
               PROVE  Accepts(env, Shown(stored)) /\ PollerInterval >= Setting(env, "LIVE_QUOTE_POLL_INTERVAL_SECS")
    BY DEF ShownIsAccepted
  <2>1. /\ stored \in Nat /\ stored >= Floor(env) /\ stored <= Setting(env, "LIVE_POLL_MAX_INTERVAL_SECS")
        /\ env \in Environments \cup {Unset}
    BY DEF SetInv, SetTypeOK
  <2>2. Parse(Shown(stored)) = stored
    BY <2>1, ReadsBack
  <2>3. PICK f \in Int, q \in Int :
          f = Floor(env) /\ q = Setting(env, "LIVE_QUOTE_POLL_INTERVAL_SECS") /\ f >= q
    BY <2>1, SettingsAre
  <2>4. Accepts(env, Shown(stored))
    BY <2>1, <2>2 DEF Accepts
  <2>5. PollerInterval = stored \/ PollerInterval = q
    BY <2>3 DEF PollerInterval
  <2> QED
    BY <2>1, <2>3, <2>4, <2>5
<1> QED
  BY <1>1, <1>2

\* Two and a half periods, rounded up, are more than two.
LEMMA TtlOutlives == SetInv => AlarmOutlivesMiss
<1> SUFFICES ASSUME SetInv, since # NULL, env["ALARM_TTL_SECS"] \in {Absent, Junk}
             PROVE  since + Period < Ttl(env)
  BY DEF AlarmOutlivesMiss
<1>1. PICK p \in Int : p = Period /\ p = Setting(env, "ALARM_RECONCILE_INTERVAL_SECS")
  BY SettingsAre DEF Period, SetInv, SetTypeOK
<1>2. p > 0 /\ (since = 0 \/ since = p)
  BY <1>1 DEF SetInv
<1>3. Ttl(env) = ((5 * p) + 1) \div 2
  BY <1>1 DEF Ttl
<1>4. 2 * p < ((5 * p) + 1) \div 2
  BY <1>1, <1>2
<1> QED
  BY <1>1, <1>2, <1>3, <1>4

\* A limit that the environment leaves alone is the default, and the defaults fit.
LEMMA LimitsAreFit == LimitsFit
<1>1. \A v : env[v] = Absent => Setting(env, v) = Default[v]
  BY DEF Setting
<1> QED
  BY <1>1, DefaultsAre DEF LimitsFit, MaxBackoffSecs, PollCost

\* A cooldown begins as the environment has it.
LEMMA CooldownHolds == SetInv /\ [SetNext]_setVars =>
  [cooldown' > 0 /\ cooldown = 0 =>
     cooldown' = IF env["PACER_COOLDOWN_MS"] = Absent THEN CooldownDefault ELSE env["PACER_COOLDOWN_MS"]]_setVars
<1> SUFFICES ASSUME SetInv, SetNext, cooldown' > 0, cooldown = 0
             PROVE  cooldown' = IF env["PACER_COOLDOWN_MS"] = Absent THEN CooldownDefault ELSE env["PACER_COOLDOWN_MS"]
  OBVIOUS
<1>1. CASE Limited
  BY <1>1, SignalIs
<1>2. CASE ~Limited
  <2>1. cooldown' = cooldown \/ cooldown' = 0
    BY <1>2 DEF SetNext, Start, Ends, ResetInterval, CooledDown, Raise, Sweep, Update
  <2> QED
    BY <2>1
<1> QED
  BY <1>1, <1>2

\* Whatever the environments, the intervals that clients ask for and the order of what
\* happens: two readers of one setting mean the same by it, and the limits of the parts fit.
THEOREM SettingsHold == SetSpec => SettingsAgree
<1>1. SetInv => SetTypeOK /\ TierIsOne
  BY DEF SetInv
<1> QED
  BY <1>1, SetInitHolds, SetInductive, IntervalsAgree, TtlOutlives, LimitsAreFit, CooldownHolds, PTL
     DEF SetSpec, SettingsAgree, CooldownIsMeant
=============================================================================
