-------------------------- MODULE AlarmConditions --------------------------
(***************************************************************************)
(* What the conditions of the alarm catalogue are derived from: the        *)
(* restarts a supervisor records (src/collectors/mod.rs), the failed and   *)
(* the open rows of the queues, the streak of failed upserts               *)
(* (src/alarm/registry.rs) and the pacer rows; and the requests that carry *)
(* them to the Alarm Center (src/alarm/mod.rs, src/alarm/catalog.rs).      *)
(*                                                                         *)
(* These share no state, so a behaviour is about one of them, its topic.   *)
(* One unit of time is ten seconds for "crash"; "rows" has its own.        *)
(***************************************************************************)
EXTENDS Integers, Sequences, FiniteSets

CONSTANTS
  Names,        \* providers with a configured name
  Writers,      \* the callers of the batched upserts
  FirstBackoff, MaxBackoff, HealthyRun,  \* SUPERVISE_*
  CrashWindow, CrashCount,               \* ALARM_WORKER_CRASHLOOP_*
  FailWindow, FailCount,                 \* ALARM_{QUEUE,BACKFILL}_FAILED_*
  StallTime, BeatEvery,                  \* ALARM_BACKFILL_STALL_SECS, the heartbeat
  StreakCount,                           \* ALARM_UPSERT_FAILURE_STREAK
  MaxRetries,                            \* ALARM_CENTER_MAX_RETRIES
  MaxFails, MaxLostBeats                 \* bounds: rows that fail, beats that are lost

\* The defaults leave a crash loop at its slowest inside the window, and a heartbeat
\* that gets lost inside the stall time; the code does not check what is configured.
ASSUME ConditionsAssumption ==
  /\ {FirstBackoff, MaxBackoff, HealthyRun, CrashCount, FailWindow, FailCount, StreakCount,
      BeatEvery} \subseteq Nat \ {0}
  /\ CrashWindow \in Nat /\ StallTime \in Nat
  /\ FirstBackoff <= MaxBackoff
  /\ CrashCount * (MaxBackoff + HealthyRun) < CrashWindow
  /\ (MaxLostBeats + 1) * BeatEvery <= StallTime
  /\ MaxRetries \in Nat /\ MaxFails \in Nat /\ MaxLostBeats \in Nat

VARIABLES
  topic,
  uptime, asleep, backoff,  \* run_supervised: age of the run, rest of its sleep
  restarts,                 \* ages of the last CrashCount restarts, the newest first
  quick,                    \* history: runs in a row that ended before HealthyRun
  fails,                    \* ages of the rows with status 'failed'
  chunk,                    \* an open chunk: held, age of updated_at, next beat
  beatsLost,
  pending, streak, tables,  \* upserts not yet recorded; the registry; "up" or "down"
  rows,                     \* upstream_request_pacer: [providers present -> marks]
  center, found             \* the Alarm Center; the conditions of the last sweep

crashes == <<uptime, asleep, backoff, restarts, quick>>
ledger  == <<fails, chunk, beatsLost>>
upserts == <<pending, streak, tables>>
fleetRows == <<rows, center, found>>
conditionVars == <<topic, crashes, ledger, upserts, fleetRows>>

Least(x, y) == IF x < y THEN x ELSE y

-----------------------------------------------------------------------------
(* Restarts: run_supervised and worker_crash_looping.                      *)

\* Mutant: doubled without the cap.
Uncapped(b) == 2 * b
\* next_backoff.
NextBackoff(b) == Least(2 * b, MaxBackoff)

\* supervise_next_delay: a run that was healthy starts again with the first delay.
Delay == IF uptime >= HealthyRun THEN FirstBackoff ELSE backoff

\* record_worker_restart; those a day old are dropped, here those that cannot count.
Recording(ages) == SubSeq(<<0>> \o ages, 1, Least(Len(ages) + 1, CrashCount))

\* The run returns an error or panics, and the sleep follows.
Crash ==
  /\ topic = "crash" /\ asleep = 0
  /\ restarts' = Recording(restarts)
  /\ asleep' = Delay /\ backoff' = NextBackoff(Delay)
  /\ uptime' = 0
  /\ quick' = IF uptime < HealthyRun THEN Least(quick + 1, CrashCount) ELSE 0
  /\ UNCHANGED <<topic, ledger, upserts, fleetRows>>

\* Ten seconds; ages and uptimes beyond what is compared stay there.
Seconds ==
  /\ topic = "crash"
  /\ asleep' = IF asleep > 0 THEN asleep - 1 ELSE 0
  /\ uptime' = IF asleep > 0 THEN 0 ELSE Least(uptime + 1, HealthyRun)
  /\ restarts' = [i \in DOMAIN restarts |-> Least(restarts[i] + 1, CrashWindow)]
  /\ UNCHANGED <<topic, backoff, quick, ledger, upserts, fleetRows>>

\* worker_restart_count_in_window, worker_crashloop_conditions.
CrashLooping == Cardinality({i \in DOMAIN restarts : restarts[i] < CrashWindow}) >= CrashCount

-----------------------------------------------------------------------------
(* Rows: queue_failures_active, backfill_failed_active, backfill_stalled.   *)

\* queue_failed_windowed_count, backfill_failed_windowed_count.
WindowedCount == Cardinality({i \in DOMAIN fails : fails[i] < FailWindow})
FailuresActive == WindowedCount >= FailCount

\* backfill_stalled_active: an open chunk that nothing has touched.
Stalled == chunk.age > StallTime

\* A row has used up its attempts.
RowFails ==
  /\ topic = "rows" /\ Len(fails) < MaxFails
  /\ fails' = Append(fails, 0)
  /\ UNCHANGED <<topic, crashes, chunk, beatsLost, upserts, fleetRows>>

\* The claim touches updated_at, whoever had the chunk before.
Claimed ==
  /\ topic = "rows" /\ ~chunk.held
  /\ chunk' = [held |-> TRUE, age |-> 0, beat |-> BeatEvery]
  /\ UNCHANGED <<topic, crashes, fails, beatsLost, upserts, fleetRows>>

\* The worker dies, or leaves the chunk for later.
LetGo ==
  /\ topic = "rows" /\ chunk.held
  /\ chunk' = [chunk EXCEPT !.held = FALSE, !.beat = 0]
  /\ UNCHANGED <<topic, crashes, fails, beatsLost, upserts, fleetRows>>

\* HEARTBEAT_BACKFILL_SQL: updated_at = now().
Touched == 0

Beat ==
  /\ topic = "rows" /\ chunk.held /\ chunk.beat = 0
  /\ \/ chunk' = [chunk EXCEPT !.age = Touched, !.beat = BeatEvery] /\ UNCHANGED beatsLost
     \/ /\ beatsLost < MaxLostBeats
        /\ beatsLost' = beatsLost + 1 /\ chunk' = [chunk EXCEPT !.beat = BeatEvery]
  /\ UNCHANGED <<topic, crashes, fails, upserts, fleetRows>>

\* A beat that is due comes before time goes on.
Minutes ==
  /\ topic = "rows"
  /\ chunk.held => chunk.beat > 0
  /\ fails' = [i \in DOMAIN fails |-> Least(fails[i] + 1, FailWindow)]
  /\ chunk' = [chunk EXCEPT !.age = Least(@ + 1, StallTime + 1),
                            !.beat = IF chunk.held THEN @ - 1 ELSE 0]
  /\ UNCHANGED <<topic, crashes, beatsLost, upserts, fleetRows>>

-----------------------------------------------------------------------------
(* Upserts: the streak all the writers share.                              *)

\* record_upsert_failure, record_upsert_success; an empty batch records nothing.
Recorded(outcome) ==
  IF outcome = "empty" THEN streak
  ELSE IF outcome = "failed" THEN Least(streak + 1, StreakCount) ELSE 0

\* A batch with rows meets the database; one without returns before it.
Upsert(w) ==
  /\ topic = "writes" /\ pending[w] = "none"
  /\ pending' = [pending EXCEPT ![w] = IF tables = "up" THEN "ok" ELSE "failed"]
  /\ UNCHANGED <<topic, crashes, ledger, streak, tables, fleetRows>>

UpsertNothing(w) ==
  /\ topic = "writes" /\ pending[w] = "none"
  /\ pending' = [pending EXCEPT ![w] = "empty"]
  /\ UNCHANGED <<topic, crashes, ledger, streak, tables, fleetRows>>

\* The outcome is recorded after the await, so those of two writers may change places.
RecordOutcome(w) ==
  /\ topic = "writes" /\ pending[w] # "none"
  /\ streak' = Recorded(pending[w])
  /\ pending' = [pending EXCEPT ![w] = "none"]
  /\ UNCHANGED <<topic, crashes, ledger, tables, fleetRows>>

TablesChange ==
  /\ topic = "writes"
  /\ tables' = IF tables = "up" THEN "down" ELSE "up"
  /\ UNCHANGED <<topic, crashes, ledger, pending, streak, fleetRows>>

-----------------------------------------------------------------------------
(* The catalogue, and what the pacer rows ask of it.                       *)

Kinds == {"provider-unreachable", "provider-rate-limited", "all-providers-down",
          "provider-credit-exhausted", "db-unreachable", "missing-pacer-row",
          "collection-queue-failures", "backfill-failed", "backfill-stalled",
          "worker-crash-looping", "startup-config-error", "coins-stalled",
          "db-pool-exhausted", "db-upsert-failures"}

\* The conditions about a provider or a worker carry its name.
Named == {"provider-unreachable", "provider-rate-limited", "provider-credit-exhausted",
          "missing-pacer-row", "worker-crash-looping"}

\* fingerprint.
Fingerprint(c) == [kind |-> c.kind, of |-> IF c.kind \in Named THEN c.of ELSE "all"]

\* severity.
SeverityOf(kind) ==
  CASE kind \in {"all-providers-down", "db-unreachable", "startup-config-error"} -> "Critical"
    [] kind \in {"provider-credit-exhausted", "missing-pacer-row", "worker-crash-looping",
                 "db-pool-exhausted", "db-upsert-failures"} -> "Error"
    [] OTHER -> "Warning"

\* component.
ComponentOf(kind) ==
  CASE kind \in {"provider-unreachable", "all-providers-down"} -> "providers"
    [] kind \in {"provider-rate-limited", "provider-credit-exhausted", "missing-pacer-row"}
         -> "pacer"
    [] kind \in {"db-unreachable", "db-pool-exhausted", "db-upsert-failures"} -> "db"
    [] kind \in {"backfill-failed", "backfill-stalled"} -> "backfill"
    [] kind = "collection-queue-failures" -> "collection_queue"
    [] kind = "worker-crash-looping" -> "collectors"
    [] kind = "startup-config-error" -> "config"
    [] kind = "coins-stalled" -> "live_poller"

\* to_alarm_spec; the code goes with the kind, title and description with about.
Alarm(c) ==
  [fingerprint |-> Fingerprint(c), component |-> ComponentOf(c.kind),
   severity |-> SeverityOf(c.kind), about |-> c]

\* pacer_rows_to_conditions and missing_pacer_conditions.
PacerConditions ==
  {[kind |-> "provider-rate-limited", of |-> p] :
      p \in {q \in DOMAIN rows : "cooling" \in rows[q]}}
  \cup {[kind |-> "provider-credit-exhausted", of |-> p] :
      p \in {q \in DOMAIN rows : "spent" \in rows[q]}}
  \cup {[kind |-> "missing-pacer-row", of |-> p] : p \in Names \ DOMAIN rows}

\* raise_with_retries.
Attempts == MaxRetries + 1

\* An operator or a migration, the pacer, a 429: to any rows there may be.
PacerRows == UNION {[present -> SUBSET {"cooling", "spent"}] : present \in SUBSET Names}
RowsChange ==
  /\ topic = "center"
  /\ rows' \in PacerRows
  /\ UNCHANGED <<topic, crashes, ledger, upserts, center, found>>

\* A sweep.  Each raise loses some of its attempts, never more than there are
\* retries; what has gone and was severe is cleared.
SweepRows ==
  /\ topic = "center"
  /\ \E lost \in [PacerConditions -> 0..MaxRetries] :
       LET shown == {Alarm(c) : c \in {d \in PacerConditions : lost[d] < Attempts}}
           now   == {Fingerprint(c) : c \in PacerConditions}
           gone  == {Fingerprint(c) :
                       c \in {d \in found : SeverityOf(d.kind) \in {"Critical", "Error"}}} \ now
       IN  center' = {a \in center : /\ a.fingerprint \notin gone
                                     /\ \A b \in shown : b.fingerprint # a.fingerprint}
                     \cup {CHOOSE a \in shown : a.fingerprint = f :
                             f \in {b.fingerprint : b \in shown}}
  /\ found' = PacerConditions
  /\ UNCHANGED <<topic, crashes, ledger, upserts, rows>>

\* The time to live of an alarm that the last sweep did not raise runs out.
Expires ==
  /\ topic = "center"
  /\ \E a \in center : /\ \A c \in found : a.fingerprint # Fingerprint(c)
                       /\ center' = center \ {a}
  /\ UNCHANGED <<topic, crashes, ledger, upserts, rows, found>>

-----------------------------------------------------------------------------
ConditionsInit ==
  /\ topic \in {"crash", "rows", "writes", "center"}
  /\ uptime = 0 /\ asleep = 0 /\ backoff = FirstBackoff
  /\ restarts = <<>> /\ quick = 0
  /\ fails = <<>> /\ chunk = [held |-> FALSE, age |-> 0, beat |-> 0] /\ beatsLost = 0
  /\ pending = [w \in Writers |-> "none"] /\ streak = 0 /\ tables = "up"
  /\ rows = [p \in Names |-> {}] /\ center = {} /\ found = {}

ConditionsNext ==
  \/ Crash \/ Seconds
  \/ RowFails \/ Claimed \/ LetGo \/ Beat \/ Minutes
  \/ \E w \in Writers : Upsert(w) \/ UpsertNothing(w) \/ RecordOutcome(w)
  \/ TablesChange
  \/ RowsChange \/ SweepRows \/ Expires

ConditionsSpec == ConditionsInit /\ [][ConditionsNext]_conditionVars

\* Time passes, heartbeats come, a write is recorded, and among a writer's batches
\* there are some with rows, again and again.
ConditionsFair ==
  /\ WF_conditionVars(Minutes) /\ WF_conditionVars(Beat)
  /\ \A w \in Writers : WF_conditionVars(RecordOutcome(w)) /\ SF_conditionVars(Upsert(w))

-----------------------------------------------------------------------------
(* Properties.                                                             *)

\* A worker that has crashed CrashCount times in a row, and has not since run for long
\* enough to be called healthy, is in the alarm, however its backoff has grown.
CrashLooperShows == quick >= CrashCount /\ uptime < HealthyRun => CrashLooping

\* Failed rows stay in the table; the alarm about them does not.
EndedRowsLetGo == topic = "rows" => <>[]~FailuresActive

\* A chunk some worker holds is never called stalled, a lost heartbeat included.
WorkedOnIsNotStalled == chunk.held => ~Stalled

\* While every write fails, the streak gets to its threshold and stays there, although
\* batches without rows go on to succeed.
LastingFailureShows == <>[](topic = "writes" /\ tables = "down") => <>[](streak >= StreakCount)

\* No condition takes the place of another in the Alarm Center: each has an alarm that
\* says its own provider, also when a sweep raises several of one kind.
EachHasItsOwn ==
  \A c \in found, a \in center : a.fingerprint = Fingerprint(c) => a = Alarm(c)

\* A raise that loses as many attempts as there are retries still arrives.
RetriesCover == \A c \in found : \E a \in center : a.fingerprint = Fingerprint(c)

\* What is wrong is told, once and by its own name: a crash loop, whatever its backoff, a
\* provider, whoever else fails, a raise, whatever it costs; and what is at work is not
\* called stalled.
ConditionsTell == CrashLooperShows /\ WorkedOnIsNotStalled /\ EachHasItsOwn /\ RetriesCover
=============================================================================
