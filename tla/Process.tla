------------------------------ MODULE Process ------------------------------
(***************************************************************************)
(* One process of the collector from main to exit (src/main.rs): startup,  *)
(* the supervised tasks (collectors/mod.rs), the readiness probe           *)
(* (health/mod.rs) and the shutdown: 503, grace, broadcast, servers, drain *)
(* of the workers, pool.                                                   *)
(*                                                                         *)
(* Everything that sleeps is on one clock.  A timer that has run out, and  *)
(* a worker without work that is told to stop, act before time goes on;    *)
(* units of work, requests and statements take as long as they like.       *)
(***************************************************************************)
EXTENDS Integers, FiniteSets

CONSTANTS
  Tasks,        \* the futures under run_supervised
  Joined,       \* those spawn_workers starts and waits for; the others are the relays
  Probes,       \* readiness probes under way at a time
  Grace, Drain, \* SHUTDOWN_GRACE_SECONDS, SHUTDOWN_DRAIN_SECONDS
  Initial, MaxBackoff, Healthy,  \* SUPERVISE_*
  CacheTtl,     \* CACHE_TTL of the ping
  MaxCrashes,   \* bound: errors and panics of tasks
  MaxOutages    \* bound: losses of the database

ASSUME ProcessAssumption ==
  /\ Joined \subseteq Tasks /\ IsFiniteSet(Tasks)
  /\ {Grace, Drain, Initial, MaxBackoff, Healthy, CacheTtl} \subseteq Nat \ {0}
  /\ Initial <= MaxBackoff
  /\ MaxCrashes \in Nat /\ MaxOutages \in Nat

\* The default of the drain is no shorter than the longest backoff.
ASSUME DrainAssumption == MaxBackoff <= Drain

VARIABLES
  at,        \* where main is
  orch,      \* the orchestrator: "waiting", "grace", "sent"; sent is the watch's value
  calm,      \* grace: time left of the sleep
  ready,     \* the flags of HealthState
  leaving,
  task,      \* [Tasks -> "unborn", "idle", "busy" with a unit, "storing" it on a
             \*  connection of the pool, "asleep", "done"]
  delay,     \* [Tasks -> the supervisor's backoff]
  nap,       \* [Tasks -> time left of its sleep]
  up,        \* [Tasks -> uptime of the run, to Healthy]
  requests,  \* "none", "some": in flight; "over": the API server has returned
  patience,  \* time left of the drain
  pool,      \* "open", "closing" or "closed"
  db,        \* the database answers
  cache,     \* [ok, age]: the last ping; age = CacheTtl when there is none
  probe,     \* [Probes -> "none", or "ping" while the statement is on]
  late,      \* history: probes that came when readiness was over
  yes,       \* history: the last answer: "none" if not 200, else "good", "stale" or "late"
  slept,     \* history: [Tasks -> the last delay, 0 before the first]
  strays,    \* history: tasks the drain ran out on that were not at work
  lapse,     \* history: time since the database answered, to CacheTtl + 1
  crashes, outages  \* budgets used

main   == <<at, pool, patience>>
stop   == <<orch, calm, leaving>>
api    == <<requests>>
sup    == <<task, delay, nap, up, slept, crashes>>
health == <<cache, probe, late, yes>>
store  == <<db, lapse, outages>>
vars   == <<main, stop, ready, sup, api, health, store, strays>>

AtWork   == {"busy", "storing"}
Running  == {"idle"} \cup AtWork
Sent     == orch = "sent"
Alive    == at \notin {"exited", "failed"}
Least(a, b) == IF a < b THEN a ELSE b

\* Mutant: the backoff has no cap.
NoCap(d) == 2 * d
\* next_backoff.
NextBackoff(d) == Least(2 * d, MaxBackoff)

\* supervise_next_delay: what to sleep after a run.
DelayNow(t) == IF up[t] >= Healthy THEN Initial ELSE delay[t]

-----------------------------------------------------------------------------
Init ==
  /\ at = "migrating" /\ pool = "open" /\ patience = Drain
  /\ orch = "waiting" /\ calm = Grace /\ ready = FALSE /\ leaving = FALSE
  /\ task = [t \in Tasks |-> "unborn"] /\ delay = [t \in Tasks |-> Initial]
  /\ nap = [t \in Tasks |-> 0] /\ up = [t \in Tasks |-> 0]
  /\ slept = [t \in Tasks |-> 0] /\ crashes = 0
  /\ requests = "none"
  /\ cache = [ok |-> FALSE, age |-> CacheTtl]
  /\ probe = [p \in Probes |-> "none"] /\ late = {} /\ yes = "none"
  /\ db \in BOOLEAN /\ lapse = IF db THEN 0 ELSE CacheTtl + 1
  /\ outages = 0 /\ strays = {}

-----------------------------------------------------------------------------
(* Startup.                                                                *)

\* Mutant: only the database ends the retries.
MigrateDeaf ==
  /\ at = "migrating" /\ db /\ at' = "checking"
  /\ UNCHANGED <<pool, patience, stop, ready, sup, api, health, store, strays>>
\* migrate_with_retry: the attempt and the sleep both race the watch.
Migrate ==
  /\ at = "migrating"
  /\ \/ db /\ at' = "checking"
     \/ Sent /\ at' = "unwinding"
  /\ UNCHANGED <<pool, patience, stop, ready, sup, api, health, store, strays>>

\* build_chain and missing_pacer_rows: either ends the process.
Check ==
  /\ at = "checking"
  /\ at' \in IF db THEN {"spawning", "failed"} ELSE {"failed"}
  /\ UNCHANGED <<pool, patience, stop, ready, sup, api, health, store, strays>>

Born(S) ==
  /\ task' = [t \in Tasks |-> IF t \in S THEN IF Sent THEN "done" ELSE "idle" ELSE task[t]]
  /\ UNCHANGED <<delay, nap, up, slept, crashes>>

\* spawn_workers, whatever became of the enqueues before it.
SpawnWorkers ==
  /\ at = "spawning" /\ at' = "binding"
  /\ Born(Joined)
  /\ UNCHANGED <<pool, patience, stop, ready, api, health, store, strays>>

\* The relays, the API's listener, and only then set_ready.
BindApi ==
  /\ at = "binding"
  /\ \/ at' = "serving" /\ ready' = TRUE /\ Born(Tasks \ Joined)
     \/ at' = "failed" /\ UNCHANGED <<ready, sup>>
  /\ UNCHANGED <<pool, patience, stop, api, health, store, strays>>

-----------------------------------------------------------------------------
(* Supervision.                                                            *)

\* A worker takes and finishes a unit.
TakeUnit(t) ==
  /\ Alive /\ task[t] = "idle" /\ ~Sent /\ task' = [task EXCEPT ![t] = "busy"]
  /\ UNCHANGED <<main, stop, ready, delay, nap, up, slept, crashes, api, health, store, strays>>

EndUnit(t) ==
  /\ Alive /\ task[t] = "busy" /\ task' = [task EXCEPT ![t] = "idle"]
  /\ UNCHANGED <<main, stop, ready, delay, nap, up, slept, crashes, api, health, store, strays>>

\* A unit's statements, which get no connection from a pool that closes.
Store(t) ==
  /\ Alive /\ task[t] = "busy" /\ pool = "open" /\ task' = [task EXCEPT ![t] = "storing"]
  /\ UNCHANGED <<main, stop, ready, delay, nap, up, slept, crashes, api, health, store, strays>>

Stored(t) ==
  /\ Alive /\ task[t] = "storing" /\ task' = [task EXCEPT ![t] = "busy"]
  /\ UNCHANGED <<main, stop, ready, delay, nap, up, slept, crashes, api, health, store, strays>>

\* The worker hears of the shutdown: its future returns Ok, and so the supervisor.
Quit(t) ==
  /\ Alive /\ task[t] = "idle" /\ Sent /\ task' = [task EXCEPT ![t] = "done"]
  /\ UNCHANGED <<main, stop, ready, delay, nap, up, slept, crashes, api, health, store, strays>>

\* An error or a panic: the supervisor stops with the process, or sleeps.
Crash(t) ==
  /\ Alive /\ task[t] \in Running
  /\ crashes < MaxCrashes /\ crashes' = crashes + 1
  /\ IF Sent
     THEN task' = [task EXCEPT ![t] = "done"] /\ UNCHANGED <<delay, nap, slept>>
     ELSE /\ task' = [task EXCEPT ![t] = "asleep"]
          /\ nap' = [nap EXCEPT ![t] = DelayNow(t)]
          /\ slept' = [slept EXCEPT ![t] = DelayNow(t)]
          /\ delay' = [delay EXCEPT ![t] = NextBackoff(DelayNow(t))]
  /\ UNCHANGED <<main, stop, ready, up, api, health, store, strays>>

\* The head of the supervisor's loop.
Awake(t) == IF Sent THEN "done" ELSE "idle"

\* The sleep of the backoff is over; it listens to nothing else.
Wake(t) ==
  /\ Alive /\ task[t] = "asleep" /\ nap[t] = 0
  /\ task' = [task EXCEPT ![t] = Awake(t)] /\ up' = [up EXCEPT ![t] = 0]
  /\ UNCHANGED <<main, stop, ready, delay, nap, slept, crashes, api, health, store, strays>>

-----------------------------------------------------------------------------
(* The readiness probe.                                                    *)

\* The flags of check_readiness that answer 503.
Barred == leaving \/ ~ready

\* Mutant: a warm cache is believed before the flags are looked at.
AnswerFromCache ==
  IF cache.age < CacheTtl THEN [now |-> TRUE, ok |-> cache.ok]
  ELSE [now |-> Barred, ok |-> FALSE]
\* What a probe that comes now gets without a statement: the flags, then the cache.
AnswerAtOnce ==
  IF Barred THEN [now |-> TRUE, ok |-> FALSE]
  ELSE [now |-> cache.age < CacheTtl, ok |-> cache.ok]

\* History: what an answer is worth.
Verdict(ok, tooLate) ==
  IF ~ok THEN "none" ELSE IF tooLate THEN "late" ELSE IF lapse > CacheTtl THEN "stale" ELSE "good"

\* A probe comes, at any time before the health server stops.
Probe(p) ==
  /\ Alive /\ ~Sent /\ probe[p] = "none"
  /\ IF AnswerAtOnce.now
     THEN /\ yes' = Verdict(AnswerAtOnce.ok, leaving)
          /\ UNCHANGED <<probe, late>>
     ELSE /\ probe' = [probe EXCEPT ![p] = "ping"]
          /\ late' = IF leaving THEN late \cup {p} ELSE late \ {p}
          /\ UNCHANGED yes
  /\ UNCHANGED <<main, stop, ready, sup, api, cache, store, strays>>

\* The ping returns; only its result is cached.
Pinged(p) ==
  /\ Alive /\ probe[p] = "ping" /\ probe' = [probe EXCEPT ![p] = "none"]
  /\ cache' = [ok |-> db, age |-> 0]
  /\ yes' = Verdict(db, p \in late)
  /\ late' = late \ {p}
  /\ UNCHANGED <<main, stop, ready, sup, api, store, strays>>

-----------------------------------------------------------------------------
(* Shutdown.                                                               *)

\* SIGTERM or SIGINT.
Signal ==
  /\ Alive /\ orch = "waiting"
  /\ orch' = "grace" /\ leaving' = TRUE /\ UNCHANGED calm
  /\ UNCHANGED <<main, ready, sup, api, health, store, strays>>

\* The grace sleep is over.
GraceOver == calm = 0

Broadcast ==
  /\ Alive /\ orch = "grace" /\ GraceOver
  /\ orch' = "sent" /\ UNCHANGED <<calm, leaving>>
  /\ UNCHANGED <<main, ready, sup, api, health, store, strays>>

\* Requests come and go while the API serves.
Request ==
  /\ at = "serving" /\ ~Sent /\ requests = "none" /\ requests' = "some"
  /\ UNCHANGED <<main, stop, ready, sup, health, store, strays>>

Respond ==
  /\ at = "serving" /\ requests = "some" /\ requests' = "none"
  /\ UNCHANGED <<main, stop, ready, sup, health, store, strays>>

\* The API returns once its last request has been answered.
ApiStops ==
  /\ at = "serving" /\ Sent /\ requests = "none" /\ requests' = "over"
  /\ UNCHANGED <<main, stop, ready, sup, health, store, strays>>

\* The probes are answered and so the health server has returned.
HealthStopped == Sent /\ \A p \in Probes : probe[p] = "none"

\* join of both servers and the orchestrator; the drain begins.
ServersReturn ==
  /\ at = "serving" /\ requests = "over" /\ HealthStopped
  /\ at' = "draining"
  /\ UNCHANGED <<pool, patience, stop, ready, sup, api, health, store, strays>>

Done == {t \in Joined : task[t] = "done"}

\* A supervisor that is about to go on: its sleep is over, or its idle worker is told.
Due(t) == (task[t] = "asleep" /\ nap[t] = 0) \/ (task[t] = "idle" /\ Sent)

\* timeout(drain_secs, supervisor).  A sleep began before the drain, and timers fire in
\* the order in which they run out.
DrainEnds == Done = Joined \/ (patience = 0 /\ \A t \in Joined : ~Due(t))

\* The pool is closed whether the drain was in time or not.
Close ==
  /\ \/ at = "draining" /\ DrainEnds
     \/ at = "unwinding" /\ HealthStopped
  /\ at' = "closing" /\ pool' = "closing"
  /\ strays' = IF at = "draining" THEN {t \in Joined \ Done : task[t] \notin AtWork} ELSE {}
  /\ UNCHANGED <<patience, stop, ready, sup, api, health, store>>

\* pool.close waits for the connections that are out.
Exit ==
  /\ at = "closing" /\ \A t \in Tasks : task[t] # "storing"
  /\ at' = "exited" /\ pool' = "closed"
  /\ UNCHANGED <<patience, stop, ready, sup, api, health, store, strays>>

-----------------------------------------------------------------------------
(* The database and the clock.                                             *)

DbFails ==
  /\ Alive /\ db /\ outages < MaxOutages /\ outages' = outages + 1 /\ db' = FALSE
  /\ lapse' = 0
  /\ UNCHANGED <<main, stop, ready, sup, api, health, strays>>

DbReturns ==
  /\ Alive /\ ~db /\ db' = TRUE /\ lapse' = 0
  /\ UNCHANGED <<main, stop, ready, sup, api, health, outages, strays>>

\* Nothing is due.
Timely ==
  /\ ~(orch = "grace" /\ GraceOver)
  /\ \A t \in Tasks : ~Due(t)
  /\ ~(at = "draining" /\ DrainEnds)

Tick ==
  /\ Alive /\ Timely
  /\ calm' = IF orch = "grace" THEN calm - 1 ELSE calm
  /\ nap' = [t \in Tasks |-> IF task[t] = "asleep" THEN nap[t] - 1 ELSE nap[t]]
  /\ up' = [t \in Tasks |-> IF task[t] \in Running THEN Least(up[t] + 1, Healthy)
                            ELSE up[t]]
  /\ patience' = IF at = "draining" THEN patience - 1 ELSE patience
  /\ cache' = [cache EXCEPT !.age = Least(@ + 1, CacheTtl)]
  /\ lapse' = IF db THEN 0 ELSE Least(lapse + 1, CacheTtl + 1)
  /\ UNCHANGED <<at, pool, orch, leaving, ready, task, delay, slept, crashes, requests, probe,
                 late, yes, db, outages, strays>>

Main == Migrate \/ Check \/ SpawnWorkers \/ BindApi \/ ServersReturn \/ Close \/ Exit

Next ==
  \/ Main
  \/ \E t \in Joined : TakeUnit(t) \/ EndUnit(t) \/ Store(t) \/ Stored(t)
  \/ \E t \in Tasks : Quit(t) \/ Crash(t) \/ Wake(t)
  \/ \E p \in Probes : Probe(p) \/ Pinged(p)
  \/ Signal \/ Broadcast \/ Request \/ Respond \/ ApiStops
  \/ DbFails \/ DbReturns \/ Tick

Spec == Init /\ [][Next]_vars

\* Time passes, statements and requests end, the runtime polls its tasks.  A unit of
\* work may go on for ever.
Fairness ==
  /\ WF_vars(Tick) /\ WF_vars(Main)
  /\ WF_vars(Broadcast) /\ WF_vars(Respond) /\ WF_vars(ApiStops)
  /\ \A t \in Joined : WF_vars(Stored(t))
  /\ \A t \in Tasks : WF_vars(Quit(t)) /\ WF_vars(Wake(t))
  /\ \A p \in Probes : WF_vars(Pinged(p))
FairSpec == Spec /\ Fairness

-----------------------------------------------------------------------------
(* Properties.                                                             *)

\* The type of the state.
TypeOK ==
  /\ at \in {"migrating", "checking", "spawning", "binding", "serving", "draining",
             "unwinding", "closing", "exited", "failed"}
  /\ pool \in {"open", "closing", "closed"} /\ patience \in 0..Drain
  /\ orch \in {"waiting", "grace", "sent"} /\ calm \in 0..Grace
  /\ ready \in BOOLEAN /\ leaving \in BOOLEAN
  /\ task \in [Tasks -> Running \cup {"unborn", "asleep", "done"}]
  /\ delay \in [Tasks -> 1..MaxBackoff] /\ nap \in [Tasks -> 0..MaxBackoff]
  /\ up \in [Tasks -> 0..Healthy] /\ slept \in [Tasks -> 0..MaxBackoff]
  /\ requests \in {"none", "some", "over"}
  /\ cache \in [ok : BOOLEAN, age : 0..CacheTtl]
  /\ probe \in [Probes -> {"none", "ping"}] /\ late \subseteq Probes /\ yes \in {"none", "good", "stale", "late"}
  /\ db \in BOOLEAN /\ lapse \in 0..(CacheTtl + 1)
  /\ crashes \in 0..MaxCrashes /\ outages \in 0..MaxOutages /\ strays \subseteq Joined

\* Readiness never comes back: a probe that arrives after the 503 began is not told 200,
\* whatever the cache holds (REQ-OBS-004, REQ-OBS-070).
NoYesAfterLeaving == yes # "late"

\* A 200 means that the database answered within the time the ping may be cached.
YesIsRecent == yes # "stale"

\* What a readiness probe is told is so: neither of before the shutdown nor of before the
\* time a ping is cached (readyz).
ProbesTellTruth == NoYesAfterLeaving /\ YesIsRecent

\* A request or a worker is not told to stop before traffic had the grace to move away,
\* and no request meets a closed pool (REQ-OBS-030..032).
TrafficFirst ==
  /\ Sent => calm = 0
  /\ requests = "some" \/ (\E p \in Probes : probe[p] # "none") => pool = "open"

\* The drain runs out on work alone: no supervisor in its backoff, and no worker between
\* units, is ever what it waited for.
DrainLostToWork == strays = {}

\* A worker that is still at work when the pool closes has had the whole drain for it
\* (REQ-OBS-066).
PoolOutlivesWorkers ==
  pool # "open" => \A t \in Joined : task[t] \in {"unborn", "done"} \/ patience = 0

\* The process is taken down in the order that main gives it: traffic, requests and workers,
\* the pool; nobody is left behind for a sleep that nobody wakes.
ShutdownInOrder == TrafficFirst /\ DrainLostToWork /\ PoolOutlivesWorkers

\* A deterministic crasher backs off: the sleep after a short run is twice the one before,
\* up to the cap (REQ-OBS-063).
StormsBackOff ==
  [][\A t \in Tasks :
       task[t] # "asleep" /\ task'[t] = "asleep" /\ up[t] < Healthy /\ slept[t] > 0
         => nap'[t] = Least(2 * slept[t], MaxBackoff)]_vars

\* No task runs anew once the broadcast is out.
StopIsFinal ==
  [][\A t \in Tasks : Sent /\ task[t] \in {"unborn", "asleep", "done"}
       => task'[t] \notin Running]_vars

\* A signal ends the process, from wherever it was, if its requests end.
SignalEnds == orch = "grace" ~> ~Alive

\* A shutdown comes to its end: no task runs anew, no crasher wakes faster than it may, and
\* the process is gone.
ShutdownEnds == StopIsFinal /\ StormsBackOff /\ SignalEnds
=============================================================================
