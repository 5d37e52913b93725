------------------------------ MODULE LeaseQueue ------------------------------
(***************************************************************************)
(* The collection queue: a PostgreSQL table of work items and the lease    *)
(* workers of every replica that claim, renew and settle its rows          *)
(* (src/collectors/lease_worker.rs, src/collectors/collection_queue.rs).   *)
(*                                                                         *)
(* A row is a record of the columns the protocol reads.  Every SQL         *)
(* statement is one operator from a row to a row and runs atomically; its  *)
(* WHERE clause is a state predicate.  now() is the database's clock, so   *)
(* "lease_expires_at < now()" is a fact about the row: lease is "live"     *)
(* until LeaseExpires makes it "expired".  Row identifiers grow with       *)
(* enqueued_at, the column the claim orders by.                            *)
(***************************************************************************)
EXTENDS Naturals, FiniteSets

CONSTANTS Replicas,     \* worker processes; a replica_id names one of them
          Keys,         \* (target_kind, target_id, kind) triples
          Throttled,    \* keys whose provider stays in cooldown for good
          Retiring,     \* replicas a rollout will send SIGTERM to
          MaxAttempts,  \* collection_max_attempts
          MaxRows,      \* bound: rows ever inserted
          MaxFaults,    \* bound: crashes, panics, lost statements, late beats
          MaxSkips,     \* bound: soft skips of keys that are not Throttled
          NoReplica, NoRow, NoKey

ASSUME QueueAssumption ==
  /\ MaxAttempts \in Nat \ {0}
  /\ MaxRows \in Nat /\ MaxFaults \in Nat /\ MaxSkips \in Nat
  /\ Throttled \subseteq Keys /\ Retiring \subseteq Replicas
  /\ NoReplica \notin Replicas /\ NoRow \notin Nat /\ NoKey \notin Keys

Rows     == 1..MaxRows
Outcomes == {"done", "soft_skip", "permanent", "transient"}

VARIABLES
  queue,     \* [Rows -> row]: the table; "absent" rows are not inserted yet
  pc,        \* [Replicas -> step of the worker loop]
  item,      \* [Replicas -> row the worker took]
  outcome,   \* [Replicas -> what dispatch_item returned for it]
  beats,     \* [Replicas -> rows some heartbeat task of the replica renews]
  shutdown,  \* [Replicas -> BOOLEAN]: the watch channel's value
  faults, skips,       \* budgets used
  genuine, abandoned   \* history: transient failures recorded, claims lost

wvars == <<pc, item, outcome, beats, shutdown>>
hvars == <<genuine, abandoned>>
vars  == <<queue, wvars, faults, skips, hvars>>

-----------------------------------------------------------------------------
(* Rows and SQL statements.                                                *)

Statuses == {"absent", "pending", "claimed", "done", "failed"}
Row == [key : Keys \cup {NoKey}, status : Statuses,
        claimed_by : Replicas \cup {NoReplica},
        lease : {"none", "live", "expired"},
        attempts : Nat, last_error : {"none", "transient", "permanent"}]

AbsentRow == [key |-> NoKey, status |-> "absent", claimed_by |-> NoReplica,
              lease |-> "none", attempts |-> 0, last_error |-> "none"]

\* ENQUEUE_QUEUE_SQL: the inserted row; the columns it leaves out take defaults.
ENQUEUE(row, k) == [row EXCEPT !.key = k, !.status = "pending"]

CLAIM(row, r) == [row EXCEPT !.status = "claimed", !.claimed_by = r,
                             !.lease = "live", !.attempts = @ + 1]

HEARTBEAT(row) == [row EXCEPT !.lease = "live"]

COMPLETE(row) == [row EXCEPT !.status = "done"]

\* Mutant: an off-by-one fails a row one attempt early.
FailEarly(row) ==
  [row EXCEPT !.status = IF row.attempts + 1 >= MaxAttempts THEN "failed" ELSE "pending",
              !.last_error = "transient", !.lease = "none", !.claimed_by = NoReplica]
FAIL_OR_RETRY(row) ==
  [row EXCEPT !.status = IF row.attempts >= MaxAttempts THEN "failed" ELSE "pending",
              !.last_error = "transient", !.lease = "none", !.claimed_by = NoReplica]

\* Mutant: the release that reused the failure path and kept the claim's +1.
ReleaseCharges(row) ==
  [row EXCEPT !.status = "pending", !.last_error = "none",
              !.lease = "none", !.claimed_by = NoReplica]
RELEASE(row) ==
  [row EXCEPT !.status = "pending", !.last_error = "none",
              !.attempts = IF @ > 0 THEN @ - 1 ELSE 0,
              !.lease = "none", !.claimed_by = NoReplica]

FAIL_PERMANENT(row) ==
  [row EXCEPT !.status = "failed", !.last_error = "permanent",
              !.lease = "none", !.claimed_by = NoReplica]

\* The statement finalize runs for each outcome of the dispatch.
Settle(row, o) == CASE o = "done"      -> COMPLETE(row)
                    [] o = "soft_skip" -> RELEASE(row)
                    [] o = "permanent" -> FAIL_PERMANENT(row)
                    [] OTHER           -> FAIL_OR_RETRY(row)

Live(i)    == queue[i].status \in {"pending", "claimed"}
Settled(i) == queue[i].status \in {"done", "failed"}

\* Mutant: an expired lease is not enough to take a row over.
ClaimableIfPending(i) == queue[i].status = "pending"
Claimable(i) == \/ queue[i].status = "pending"
                \/ queue[i].status = "claimed" /\ queue[i].lease = "expired"

\* "AND claimed_by = $self": the fence of every statement after the claim.
Unfenced(i, r) == TRUE
Fence(i, r)    == queue[i].claimed_by = r

\* Another replica may hold the row's lock; SKIP LOCKED then passes over it.
Locked(i, r) == \E q \in Replicas \ {r} :
                  i \in beats[q] \/ (pc[q] = "finalize" /\ item[q] = i)

\* The partial unique index over live rows.
DedupFree(k) == \A i \in Rows : Live(i) => queue[i].key # k

Busy(r) == pc[r] \in {"work", "finalize"}
Held(i) == \E r \in Replicas : Busy(r) /\ item[r] = i /\ Fence(i, r)

Write(i, row) == queue' = [queue EXCEPT ![i] = row]
Goto(r, step) == pc' = [pc EXCEPT ![r] = step]
Fault         == faults < MaxFaults /\ faults' = faults + 1

-----------------------------------------------------------------------------
Init ==
  /\ queue = [i \in Rows |-> AbsentRow]
  /\ pc = [r \in Replicas |-> "check"]
  /\ item = [r \in Replicas |-> NoRow]
  /\ outcome = [r \in Replicas |-> "done"]
  /\ beats = [r \in Replicas |-> {}]
  /\ shutdown = [r \in Replicas |-> FALSE]
  /\ faults = 0 /\ skips = 0
  /\ genuine = [i \in Rows |-> 0]
  /\ abandoned = [i \in Rows |-> 0]

-----------------------------------------------------------------------------
(* The table's environment.                                                *)

\* enqueue_queue_item; an absorbed duplicate leaves the table as it was.
Enqueue(k) ==
  /\ DedupFree(k)
  /\ \E i \in Rows :
       /\ queue[i].status = "absent"
       /\ \A j \in 1..(i - 1) : queue[j].status # "absent"
       /\ Write(i, ENQUEUE(queue[i], k))
  /\ UNCHANGED <<wvars, faults, skips, hvars>>

\* The lease runs out.  While its holder still works on it that takes a stalled
\* heartbeat (a slow database, a starved task), which is a fault.
LeaseExpires(i) ==
  /\ queue[i].status = "claimed" /\ queue[i].lease = "live"
  /\ IF Held(i) THEN Fault ELSE UNCHANGED faults
  /\ Write(i, [queue[i] EXCEPT !.lease = "expired"])
  /\ UNCHANGED <<wvars, skips, hvars>>

-----------------------------------------------------------------------------
(* The worker loop, run_lease_worker.                                      *)

CheckShutdown(r) ==
  /\ pc[r] = "check"
  /\ Goto(r, IF shutdown[r] THEN "stopped" ELSE "claim")
  /\ UNCHANGED <<queue, item, outcome, beats, shutdown, faults, skips, hvars>>

\* The row claim_queue_item updates: the oldest claimable one it can lock.
Claims(i, r) ==
  /\ Claimable(i)
  /\ \A j \in 1..(i - 1) : Claimable(j) => Locked(j, r)
  /\ Write(i, CLAIM(queue[i], r))
  /\ abandoned' = [abandoned EXCEPT ![i] = IF queue[i].status = "claimed" THEN @ + 1 ELSE @]

\* claim() returned a row: the heartbeat is spawned and the work starts.
Claim(r) ==
  /\ pc[r] = "claim"
  /\ \E i \in Rows :
       /\ Claims(i, r)
       /\ item' = [item EXCEPT ![r] = i]
       /\ beats' = [beats EXCEPT ![r] = @ \cup {i}]
  /\ Goto(r, "work")
  /\ UNCHANGED <<outcome, shutdown, faults, skips, genuine>>

\* claim() returned None: idle, racing shutdown.
ClaimNone(r) ==
  /\ pc[r] = "claim"
  /\ \A i \in Rows : Claimable(i) => Locked(i, r)
  /\ Goto(r, "pause")
  /\ UNCHANGED <<queue, item, outcome, beats, shutdown, faults, skips, hvars>>

\* claim() returned Err: the statement may have committed before the
\* connection broke, and then the row is claimed and nobody works on it.
ClaimError(r) ==
  /\ pc[r] = "claim" /\ Fault
  /\ \/ \E i \in Rows : Claims(i, r)
     \/ UNCHANGED <<queue, abandoned>>
  /\ Goto(r, "pause")
  /\ UNCHANGED <<item, outcome, beats, shutdown, skips, genuine>>

\* One tick of a heartbeat task: renew, or end when the fence fires.
Beat(r, i) ==
  /\ i \in beats[r]
  /\ IF Fence(i, r)
     THEN Write(i, HEARTBEAT(queue[i])) /\ UNCHANGED beats
     ELSE beats' = [beats EXCEPT ![r] = @ \ {i}] /\ UNCHANGED queue
  /\ UNCHANGED <<pc, item, outcome, shutdown, faults, skips, hvars>>

\* A worker that panicked dropped the stop channel: its heartbeat task ends.
StopBeat(r, i) ==
  /\ i \in beats[r] /\ ~(pc[r] = "work" /\ item[r] = i)
  /\ beats' = [beats EXCEPT ![r] = @ \ {i}]
  /\ UNCHANGED <<queue, pc, item, outcome, shutdown, faults, skips, hvars>>

\* Mutant: the work is raced against shutdown and dropped.
WorkAborted(r, o) ==
  /\ pc[r] = "work"
  /\ Goto(r, IF shutdown[r] THEN "stopped" ELSE "finalize")
  /\ outcome' = [outcome EXCEPT ![r] = o]
  /\ beats' = [beats EXCEPT ![r] = {}]
  /\ UNCHANGED <<queue, item, shutdown, faults, skips, hvars>>
\* dispatch_item returned o; the heartbeat is stopped and joined before finalize.
WorkDone(r, o) ==
  /\ pc[r] = "work"
  /\ LET throttled == queue[item[r]].key \in Throttled IN
     /\ throttled => o = "soft_skip"
     /\ IF o = "soft_skip" /\ ~throttled
        THEN skips < MaxSkips /\ skips' = skips + 1
        ELSE UNCHANGED skips
  /\ outcome' = [outcome EXCEPT ![r] = o]
  /\ beats' = [beats EXCEPT ![r] = @ \ {item[r]}]
  /\ Goto(r, "finalize")
  /\ UNCHANGED <<queue, item, shutdown, faults, hvars>>

\* Where finalize's LeaseCycleOutcome leads.
AfterFinalize(r) ==
  /\ item' = [item EXCEPT ![r] = NoRow]
  /\ Goto(r, IF outcome[r] \in {"soft_skip", "transient"} THEN "pause" ELSE "check")

\* finalize: one fenced statement; a fence that fires changes no row.
Finalize(r) ==
  /\ pc[r] = "finalize"
  /\ LET i == item[r] IN
     IF Fence(i, r)
     THEN /\ Write(i, Settle(queue[i], outcome[r]))
          /\ genuine' = [genuine EXCEPT ![i] = IF outcome[r] = "transient" THEN @ + 1 ELSE @]
     ELSE UNCHANGED <<queue, genuine>>
  /\ AfterFinalize(r)
  /\ UNCHANGED <<outcome, beats, shutdown, faults, skips, abandoned>>

\* The statement failed: finalize logs it and goes on; the row stays claimed.
FinalizeError(r) ==
  /\ pc[r] = "finalize" /\ Fault
  /\ AfterFinalize(r)
  /\ UNCHANGED <<queue, outcome, beats, shutdown, skips, hvars>>

\* The pause select!: shutdown breaks the loop, the sleep continues it.
Resume(r) ==
  /\ pc[r] = "pause"
  /\ \/ Goto(r, "check")
     \/ shutdown[r] /\ Goto(r, "stopped")
  /\ UNCHANGED <<queue, item, outcome, beats, shutdown, faults, skips, hvars>>

-----------------------------------------------------------------------------
(* Panics, crashes and shutdown.                                           *)

\* The worker task panics; its heartbeat task lives until it sees the drop.
Panic(r) ==
  /\ Busy(r) /\ Fault
  /\ Goto(r, "down")
  /\ item' = [item EXCEPT ![r] = NoRow]
  /\ UNCHANGED <<queue, outcome, beats, shutdown, skips, hvars>>

\* The process dies, its heartbeat tasks with it.
Crash(r) ==
  /\ pc[r] \notin {"down", "stopped"} /\ Fault
  /\ Goto(r, "down")
  /\ item' = [item EXCEPT ![r] = NoRow]
  /\ beats' = [beats EXCEPT ![r] = {}]
  /\ UNCHANGED <<queue, outcome, shutdown, skips, hvars>>

\* run_supervised (or the kubelet) starts the worker again, unless shutting down.
Restart(r) ==
  /\ pc[r] = "down"
  /\ Goto(r, IF shutdown[r] THEN "stopped" ELSE "check")
  /\ UNCHANGED <<queue, item, outcome, beats, shutdown, faults, skips, hvars>>

Shutdown(r) ==
  /\ r \in Retiring /\ ~shutdown[r]
  /\ shutdown' = [shutdown EXCEPT ![r] = TRUE]
  /\ UNCHANGED <<queue, pc, item, outcome, beats, faults, skips, hvars>>

-----------------------------------------------------------------------------
Work(r)   == \E o \in Outcomes : WorkDone(r, o)
Worker(r) == \/ CheckShutdown(r) \/ Claim(r) \/ ClaimNone(r) \/ ClaimError(r)
             \/ Work(r) \/ Finalize(r) \/ FinalizeError(r) \/ Resume(r)
             \/ Panic(r) \/ Crash(r) \/ Restart(r) \/ Shutdown(r)

Next == \/ \E k \in Keys : Enqueue(k)
        \/ \E i \in Rows : LeaseExpires(i)
        \/ \E r \in Replicas : Worker(r)
        \/ \E r \in Replicas, i \in Rows : Beat(r, i) \/ StopBeat(r, i)

Spec == Init /\ [][Next]_vars

\* The loop keeps running, a dispatch returns (every request has a timeout), a
\* restart happens, and a lease nobody renews runs out.  Nothing is promised of
\* Enqueue, faults, shutdown, or of one outcome of the dispatch.
OrphanExpires(i) == ~Held(i) /\ LeaseExpires(i)
Fairness ==
  /\ \A r \in Replicas :
       /\ WF_vars(CheckShutdown(r)) /\ WF_vars(Claim(r) \/ ClaimNone(r))
       /\ WF_vars(Work(r)) /\ WF_vars(Finalize(r))
       /\ WF_vars(Resume(r)) /\ WF_vars(Restart(r))
       /\ \A i \in Rows : WF_vars(StopBeat(r, i))
  /\ \A i \in Rows : WF_vars(OrphanExpires(i))

FairSpec == Spec /\ Fairness

-----------------------------------------------------------------------------
(* Properties.                                                             *)

TypeOK ==
  /\ queue \in [Rows -> Row]
  /\ pc \in [Replicas -> {"check", "claim", "work", "finalize", "pause", "down", "stopped"}]
  /\ item \in [Replicas -> Rows \cup {NoRow}]
  /\ outcome \in [Replicas -> Outcomes]
  /\ beats \in [Replicas -> SUBSET Rows]
  /\ shutdown \in [Replicas -> BOOLEAN]
  /\ faults \in Nat /\ skips \in Nat
  /\ genuine \in [Rows -> Nat] /\ abandoned \in [Rows -> Nat]

\* At most one live row per (target_kind, target_id, kind), whatever zombies,
\* retries and re-enqueues do: no statement may bring a settled row back to life
\* beside the row that replaced it (collection_queue_dedup_idx).
OneLiveRowPerKey ==
  \A i, j \in Rows : Live(i) /\ Live(j) /\ queue[i].key = queue[j].key => i = j

\* attempts is exactly what the retry budget may be charged with: transient
\* failures recorded, claims that were lost, and the claim in progress.  Soft
\* skips cost nothing however they interleave with takeovers (REQ-SCHED-060).
ClaimOpen(i) == \/ queue[i].status \in {"claimed", "done"}
                \/ queue[i].status = "failed" /\ queue[i].last_error = "permanent"
AttemptsLedger ==
  \A i \in Rows : queue[i].status # "absent" =>
    queue[i].attempts = genuine[i] + abandoned[i] + (IF ClaimOpen(i) THEN 1 ELSE 0)

\* A row fails for transient errors only when its failures and lost claims
\* exhausted the budget, and no row is retried after max_attempts failures.
RetryBudget ==
  \A i \in Rows :
    /\ queue[i].status = "failed" /\ queue[i].last_error = "transient"
         => genuine[i] + abandoned[i] >= MaxAttempts
    /\ Live(i) => genuine[i] < MaxAttempts

\* A row is owned exactly while it is claimed or done, and no worker still holds
\* a row it has settled: COMPLETE leaves claimed_by set, so a second finalize by
\* the same replica would pass the fence.
OwnershipConsistent ==
  \A i \in Rows :
    /\ queue[i].status \in {"absent", "pending", "failed"} => queue[i].claimed_by = NoReplica
    /\ queue[i].status = "claimed" => queue[i].claimed_by # NoReplica
    /\ \A r \in Replicas : Settled(i) /\ queue[i].claimed_by = r => ~(Busy(r) /\ item[r] = i)

\* What the rows say of themselves holds through every interleaving of lost claims, zombies,
\* soft skips, retries and re-enqueues: their key, their budget and their owner.
RowsAreSound == TypeOK /\ OneLiveRowPerKey /\ AttemptsLedger /\ RetryBudget /\ OwnershipConsistent

\* A replica that left its loop in a run without faults owns no claimed row: the
\* item in hand is settled before the loop looks at shutdown (REQ-SCHED-050).
DrainedLeavesNothing ==
  faults = 0 => \A r \in Replicas, i \in Rows :
    pc[r] = "stopped" => ~(queue[i].status = "claimed" /\ queue[i].claimed_by = r)

\* No zombie writes: while a lease is live, only its owner changes the row, by
\* finalizing it; everyone else's statement is fenced (REQ-SCHED-015).
OwnerSettles(i) ==
  \E r \in Replicas : queue[i].claimed_by = r /\ pc[r] = "finalize" /\ item[r] = i /\ pc'[r] # "finalize"
OnlyOwnerSettlesLiveLease ==
  [][\A i \in Rows :
       queue[i].status = "claimed" /\ queue[i].lease = "live" /\ queue'[i] # queue[i]
         => queue'[i] = [queue[i] EXCEPT !.lease = "expired"] \/ OwnerSettles(i)]_vars

\* A settled row stays settled and keeps its verdict, also against the heartbeat
\* and finalize of a worker that lost it.
SettledIsFinal ==
  [][\A i \in Rows : Settled(i) =>
       [queue'[i] EXCEPT !.lease = "none"] = [queue[i] EXCEPT !.lease = "none"]]_vars

\* A row is its owner's while the lease lives and nobody's once it is settled: whatever a
\* worker or a heartbeat that lost it still sends changes nothing.
RowsAreOwned == OnlyOwnerSettlesLiveLease /\ SettledIsFinal

\* Every row in the queue is eventually done or failed, across crashes, lost
\* statements, takeovers and a rolling shutdown of the Retiring replicas.
EveryRowSettles == \A i \in Rows : Live(i) ~> Settled(i)

-----------------------------------------------------------------------------
(* What the queue promises its clients: see WorkLedger.                    *)

Job(i)   == IF Live(i) THEN "open"
            ELSE IF queue[i].status # "failed" THEN queue[i].status
            ELSE IF queue[i].last_error = "transient" THEN "exhausted" ELSE "rejected"
Spent(i) == genuine[i] + abandoned[i]

Ledger == INSTANCE WorkLedger WITH
  Jobs <- Rows, job <- [i \in Rows |-> Job(i)],
  key <- [i \in Rows |-> queue[i].key], spent <- [i \in Rows |-> Spent(i)]

\* Seen by its clients, the queue is the ledger: every step of every replica,
\* fault or takeover admits, charges or settles one job, or changes nothing.
RefinesLedger == Ledger!Spec
=============================================================================
