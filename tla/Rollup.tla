------------------------------- MODULE Rollup -------------------------------
(***************************************************************************)
(* The rollup materializer of one coin and one target interval             *)
(* (src/collectors/rollup.rs): a run reads source candles, folds them into *)
(* target buckets, and writes them back in statements of their own, while  *)
(* candle refreshes, backfills and provider rows change the same table.    *)
(*                                                                         *)
(* A source instant is a slot, N of them to a bucket; what a row holds is  *)
(* the set of slots it was folded from, {} when there is no rollup row.    *)
(***************************************************************************)
EXTENDS Integers, FiniteSets

CONSTANTS
  N,           \* target_secs / source_secs
  Week,        \* buckets to a week
  ChunkWeeks,  \* BACKFILL_CHUNK_WEEKS
  Last,        \* buckets of the instance
  Begin,       \* the slot in which the clock starts
  MaxBlocks,   \* bound: backfills that land behind all history
  MaxLate,     \* bound: candles that land inside history
  MaxNative,   \* bound: provider rows of the target interval
  MaxFaults    \* bound: runs that die, enqueues that fail

Buckets == 1..Last
Slots   == 1..(Last * N)

ASSUME RollupAssumption ==
  /\ N \in Nat \ {0} /\ Week \in Nat \ {0} /\ ChunkWeeks \in Nat \ {0} /\ Last \in Nat
  /\ Begin \in Slots
  /\ {MaxBlocks, MaxLate, MaxNative, MaxFaults} \subseteq Nat

VARIABLES
  src,      \* slots with a source candle
  roll,     \* [Buckets -> slots of its rollup:* row]
  native,   \* buckets with a provider's row
  now,      \* the slot the wall clock is in
  refreshed, \* the candles dispatch wrote and has not enqueued the rollup yet
  queued,   \* a pending rollup item
  pc, clock, prev, emit, at, ceil, repair,  \* the run: its step, the now it was given,
            \* rows it read, rows it folded, a window, whether it walks backward repair
  fresh,    \* history: nothing changed since the last run began
  blind,    \* history: a row went wrong where no later run looks again: a run died
            \* before its last delete or in the backward repair, it was still going
            \* when the bucket it took for the forming one closed, or a candle
            \* came in behind the newest row
  budget    \* bounds used, by name

table == <<src, roll, native>>
run   == <<pc, clock, prev, emit, at, ceil, repair>>
item  == <<refreshed, queued>>
vars  == <<table, now, item, run, fresh, blind, budget>>

Steps == {"idle", "max", "earliest", "prev", "source", "upsert", "delete", "low",
          "walk", "put", "complete"}

Lowest(S)  == CHOOSE s \in S : \A t \in S : s <= t
Highest(S) == CHOOSE s \in S : \A t \in S : s >= t

BucketOf(s)  == ((s - 1) \div N) + 1
FirstSlot(b) == (b - 1) * N + 1
SlotsOf(b)   == FirstSlot(b)..(b * N)
\* Mutant: the walk starts where the source does.
Unaligned(s) == s
\* bucket_start(_, WEEK_SECS).
WeekStart(s) == s - ((s - 1) % (Week * N))
Chunk        == ChunkWeeks * Week * N

Closed(b, t) == b * N < t
\* aggregate_candles: a closed bucket is emitted complete or not at all.
Fold(S, t) ==
  [b \in Buckets |-> LET in == S \cap SlotsOf(b)
                     IN  IF Closed(b, t) /\ in # SlotsOf(b) THEN {} ELSE in]
Emitted(e) == {b \in Buckets : e[b] # {}}

Materialized == {b \in Buckets : roll[b] # {}}

Use(name, bound) == budget[name] < bound /\ budget' = [budget EXCEPT ![name] = @ + 1]
Goto(step)       == pc' = step

-----------------------------------------------------------------------------
Init ==
  /\ src = {} /\ roll = [b \in Buckets |-> {}] /\ native = {}
  /\ now = Begin
  /\ refreshed = FALSE /\ queued = FALSE
  /\ pc = "idle" /\ clock = 0 /\ prev = {} /\ emit = [b \in Buckets |-> {}]
  /\ at = 0 /\ ceil = 0 /\ repair = FALSE
  /\ fresh = FALSE /\ blind = FALSE
  /\ budget = [n \in {"block", "late", "native", "fault"} |-> 0]

\* A worker claims the item; Utc::now() is read once for the whole run.
Start ==
  /\ pc = "idle" /\ queued
  /\ queued' = FALSE
  /\ clock' = now
  /\ Goto("max")
  /\ fresh' = TRUE
  /\ UNCHANGED <<table, now, refreshed, prev, emit, at, ceil, repair, blind, budget>>

Still == UNCHANGED <<src, now, item, clock, fresh, blind, budget>>

\* MAX(ts) of the rollup rows.
ReadMax ==
  /\ pc = "max"
  /\ IF Materialized = {} THEN Goto("earliest") /\ UNCHANGED at
                          ELSE Goto("prev") /\ at' = FirstSlot(Highest(Materialized))
  /\ UNCHANGED <<roll, native, prev, emit, ceil, repair>> /\ Still

\* backfill_target: walk the whole history up to now.
ReadEarliest ==
  /\ pc = "earliest"
  /\ IF src = {} THEN Goto("complete") /\ UNCHANGED <<at, ceil>>
     ELSE Goto("walk") /\ at' = WeekStart(Lowest(src)) /\ ceil' = clock
  /\ UNCHANGED <<roll, native, prev, emit, repair>> /\ Still

ReadPreviouslyMaterialized ==
  /\ pc = "prev"
  /\ prev' = {b \in Materialized : FirstSlot(b) >= at}
  /\ Goto("source")
  /\ UNCHANGED <<roll, native, emit, at, ceil, repair>> /\ Still

ReadSource ==
  /\ pc = "source"
  /\ emit' = Fold({s \in src : s >= at}, clock)
  /\ Goto("upsert")
  /\ UNCHANGED <<roll, native, prev, at, ceil, repair>> /\ Still

\* Mutant: the provider's rows are overwritten.
NativeOverwrite(e) ==
  /\ roll' = [b \in Buckets |-> IF b \in Emitted(e) THEN e[b] ELSE roll[b]]
  /\ native' = native \ Emitted(e)
\* batched_upsert_candles with CandleConflictPolicy::RollupGuarded, one statement.
RollupGuarded(e) ==
  /\ roll' = [b \in Buckets |-> IF b \in Emitted(e) \ native THEN e[b] ELSE roll[b]]
  /\ UNCHANGED native

\* reconcile_window: upsert what was emitted, keep the rest of prev for deletion.
Deletes(e) == prev \ Emitted(e)

Upsert ==
  /\ pc = "upsert"
  /\ RollupGuarded(emit)
  /\ prev' = Deletes(emit)
  /\ emit' = [b \in Buckets |-> {}]
  /\ Goto("delete")
  /\ UNCHANGED <<at, ceil, repair>> /\ Still

DeleteOne ==
  /\ pc = "delete"
  /\ \E b \in prev :
       /\ roll' = [roll EXCEPT ![b] = {}]
       /\ prev' = prev \ {b}
  /\ UNCHANGED <<pc, native, emit, at, ceil, repair>> /\ Still

\* MIN(ts) of the source.
ReadLow ==
  /\ pc = "delete" /\ prev = {}
  /\ IF src = {} THEN Goto("complete") /\ UNCHANGED at
                 ELSE Goto("low") /\ at' = Lowest(src)
  /\ UNCHANGED <<roll, native, prev, emit, ceil, repair>> /\ Still

\* backward_repair_window: the source begins in a bucket before the first rollup row.
RepairDue == Materialized # {} /\ BucketOf(at) < Lowest(Materialized)

\* MIN(ts) of the rollup rows.
ReadLowMaterialized ==
  /\ pc = "low"
  /\ IF RepairDue
     THEN /\ Goto("walk") /\ repair' = TRUE
          /\ at' = WeekStart(at) /\ ceil' = FirstSlot(Lowest(Materialized))
     ELSE Goto("complete") /\ UNCHANGED <<at, ceil, repair>>
  /\ UNCHANGED <<roll, native, prev, emit>> /\ Still

\* materialize_window_walk: one chunk is read, then upserted.
ReadWindow ==
  /\ pc = "walk"
  /\ IF at <= ceil
     THEN Goto("put") /\ emit' = Fold({s \in src : s >= at /\ s < at + Chunk}, clock)
     ELSE Goto("complete") /\ UNCHANGED emit
  /\ UNCHANGED <<roll, native, prev, at, ceil, repair>> /\ Still

PutWindow ==
  /\ pc = "put"
  /\ RollupGuarded(emit)
  /\ at' = at + Chunk
  /\ emit' = [b \in Buckets |-> {}]
  /\ Goto("walk")
  /\ UNCHANGED <<prev, ceil, repair>> /\ Still

Reset == /\ clock' = 0 /\ prev' = {} /\ emit' = [b \in Buckets |-> {}]
         /\ at' = 0 /\ ceil' = 0
         /\ repair' = FALSE

\* The worker completes the item: from here on it can be enqueued again.
Complete ==
  /\ pc = "complete"
  /\ Goto("idle") /\ Reset
  /\ UNCHANGED <<table, now, item, fresh, blind, budget>>

\* A statement fails or the worker dies; the item is retried.
Die ==
  /\ pc # "idle" /\ Use("fault", MaxFaults)
  /\ blind' = (blind \/ (pc = "delete" /\ prev # {}) \/ repair)
  /\ queued' = TRUE /\ fresh' = FALSE
  /\ Goto("idle") /\ Reset
  /\ UNCHANGED <<table, now, refreshed>>

Run == \/ Start \/ ReadMax \/ ReadEarliest \/ ReadPreviouslyMaterialized \/ ReadSource
       \/ Upsert \/ DeleteOne \/ ReadLow \/ ReadLowMaterialized
       \/ ReadWindow \/ PutWindow \/ Complete

-----------------------------------------------------------------------------
(* The rest of the system.                                                 *)

Stale == fresh' = FALSE /\ UNCHANGED run

\* The candles dispatch upserts a page that ends in the current slot.
Refresh ==
  /\ ~refreshed /\ now \notin src
  /\ src' = src \cup {now} /\ refreshed' = TRUE
  /\ UNCHANGED <<roll, native, now, queued, budget, blind>> /\ Stale

\* ... and enqueues the rollup: absorbed while an item is pending or being worked.
Enqueue ==
  /\ refreshed
  /\ refreshed' = FALSE
  /\ queued' = (queued \/ pc = "idle")
  /\ UNCHANGED <<table, now, run, fresh, blind, budget>>

\* The enqueue fails, which is only logged.
EnqueueFails ==
  /\ refreshed /\ Use("fault", MaxFaults)
  /\ refreshed' = FALSE
  /\ UNCHANGED <<table, now, queued, run, fresh, blind>>

\* The periodic refresh enqueues every kind.
PeriodicRefresh ==
  /\ ~queued /\ pc = "idle"
  /\ queued' = TRUE
  /\ UNCHANGED <<table, now, refreshed, run, fresh, blind, budget>>

\* A backfill page behind everything there is; it enqueues no rollup.
BackfillBehind ==
  /\ src # {} /\ Use("block", MaxBlocks)
  /\ \E S \in SUBSET (1..(Lowest(src) - 1)) \ {{}} : src' = src \cup S
  /\ UNCHANGED <<roll, native, now, item, blind>> /\ Stale

\* A candle inside history: a later page of a walk that ascends, or a late one.
LateCandle ==
  /\ src # {} /\ Use("late", MaxLate)
  /\ \E s \in (Lowest(src)..(now - 1)) \ src :
       /\ src' = src \cup {s}
       /\ blind' = (blind \/ pc # "idle" \/ \E b \in Materialized : b > BucketOf(s))
  /\ UNCHANGED <<roll, native, now, item>> /\ Stale

\* A provider's own row of the target interval, CandleConflictPolicy::NativeOverwrite.
NativeRow ==
  /\ Use("native", MaxNative)
  /\ \E b \in Buckets \ native :
       /\ FirstSlot(b) <= now
       /\ native' = native \cup {b}
       /\ roll' = [roll EXCEPT ![b] = {}]
  /\ UNCHANGED <<src, now, item, blind>> /\ Stale

Tick ==
  /\ now < Last * N
  /\ now' = now + 1
  /\ blind' = (blind \/ (pc # "idle" /\ BucketOf(now') # BucketOf(now)))
  /\ UNCHANGED <<table, item, budget>> /\ Stale

Next ==
  \/ Run \/ Die
  \/ Refresh \/ Enqueue \/ EnqueueFails \/ PeriodicRefresh
  \/ BackfillBehind \/ LateCandle \/ NativeRow \/ Tick

Spec == Init /\ [][Next]_vars

-----------------------------------------------------------------------------
(* Properties.                                                             *)

\* The type of the state.
TypeOK ==
  /\ src \subseteq Slots /\ native \subseteq Buckets /\ now \in Slots
  /\ \A b \in Buckets : roll[b] \subseteq SlotsOf(b) /\ emit[b] \subseteq SlotsOf(b)
  /\ DOMAIN roll = Buckets /\ DOMAIN emit = Buckets
  /\ prev \subseteq Buckets
  /\ pc \in Steps /\ clock \in 0..(Last * N) /\ at \in Nat /\ ceil \in 0..(Last * N)
  /\ {refreshed, queued, repair, fresh, blind} \subseteq BOOLEAN
  /\ budget \in [{"block", "late", "native", "fault"} -> Nat]

\* What the table should hold: the fold of the source now, except where a
\* provider has its own row.
InParity ==
  roll = [b \in Buckets |-> IF b \in native THEN {} ELSE Fold(src, now)[b]]

Settled == pc = "idle" /\ fresh

\* Set parity (REQ-CANDLE-005): a run over a table nobody changed meanwhile
\* leaves exactly the fold of the source, whatever happened before: history that
\* came in behind the earliest bucket, provider rows, holes, runs that overlapped
\* a write, runs that died in a full backfill or before a write.  Where it leaves
\* no row at all the next run walks all history.  blind names the exceptions.
ParityWhenSettled == Settled /\ ~blind => InParity \/ Materialized = {}

\* Native wins (REQ-CANDLE-050 to 052): no step of a run removes or replaces a
\* provider's row, one that lands between its reads and its writes included.
NativeWins == [][native \subseteq native' /\ \A b \in native : roll'[b] = {}]_vars
=============================================================================
