# crypto-collector: a TLA+ development

crypto-collector is a Rust service that several replicas run against one
PostgreSQL database. Each replica collects prices, candles and metadata of
tracked coins from rate-limited providers, keeps a history, aggregates it and
serves it over HTTP and a WebSocket. Nothing coordinates the replicas except
rows of the database: leases, fences, cursors, markers, one pacer row per
provider. This directory models that coordination and what is computed and
served from it, checks it with TLC and proves most of it with TLAPS.

Paths below are those of the repository; code is under `src/` of it.

## 1. Inventory

| Part | State it keeps | Operations | Talks to | Hard behaviour | What makes it correct | Modules |
|---|---|---|---|---|---|---|
| **Collection queue** (`collectors/collection_queue.rs`) | table `collection_queue`: status, owner, lease, attempts, last_error | enqueue, claim (`FOR UPDATE SKIP LOCKED`), heartbeat, complete, fail-or-retry, release, fail-permanent | enqueued by `main.rs` and the API, worked by every replica | takeover of an expired lease, zombies, lost statements, re-enqueue | one live row per key; only the owner settles; attempts counts failures only; every row settles | LeaseQueue, WorkLedger |
| **Lease worker** (`collectors/lease_worker.rs`) | loop position, item in hand, heartbeat task | claim, spawn heartbeat, work, stop, finalize, pause, shutdown | both queues | heartbeat beside finalize, panic, SIGTERM with an item in hand | item in hand is settled before the loop stops; a lost heartbeat hurts nobody | LeaseQueue |
| **Backfill** (`collectors/backfill.rs`) | `backfill_jobs`, `backfill_chunks` (range, cursor), candles | enqueue job and chunk, claim, page, upsert, advance cursor, complete or release | provider chain, pacer, candles | crash between any two statements, empty pages, providers of different windows and granularities | no candle behind the cursor is missing; the walk ends | BackfillChunks, RangeWalk, WorkLedger |
| **Pacer** (`pacer/mod.rs`, `providers/transport.rs`) | one row per provider (next slot, cooldown, credits, month); a throttle per replica | reset window, reserve, sleep, diagnose, signal cooldown | every provider call | reservation, sleep and 429 of several replicas interleave | slots one gap apart; credit cap; cooldown only grows | Pacer |
| **Providers and their chain** (`providers/*`) | none; records in the health registry | ordered fallback per capability; requests, decoding, selection | pacer, alarm registry | empty against error, backpressure against failure, two slots for one request, answers in several shapes | an error is never taken for "no data"; nobody is passed over; what is stored carries the time of its observation | ProviderChain, RangeWalk, Answers |
| **Live poller** (`collectors/live_poller.rs`) | per coin: next poll, claim marker with a TTL | claim batch, fetch, upsert, clear marker | pacer, chain, candles, NOTIFY | markers are not fenced, a batch outlives its TTL, shutdown in mid-batch | every coin is polled again; two replicas rarely poll one coin | LivePoller |
| **Rollup** (`collectors/rollup.rs`) | `rollup:*` rows of `coin_candles` | forward recompute, backward repair | candles, backfill, API | recompute against a late write, history that arrives before the earliest bucket | materialized set equals the fold of its source | Rollup |
| **Cycle overlay** (`collectors/cycle_overlay.rs`, `api/cycle_overlay.rs`) | `cycle_overlay_points` | rebuild in one transaction, page, replay as of an instant | candles, halving dates | two rebuilds at once, a rebuild under a reader, a change of source | a reader sees one rebuild; keys follow the days; the newest candles show in the end | CycleOverlay |
| **Projection** (`collectors/cycle_projection.rs`) | none | fit, damp, bridge, band | overlay | degenerate input, the join at today | bands ordered, path continuous, peaks damped | Projection |
| **Alarm center** (`alarm/*`) | health registry, sustained markers, what the last sweep raised; alarms held upstream | record outcome, sweep, raise with TTL, fast-clear, startup alarm | every worker, HTTP client | a lost raise or a failed query in a sweep, TTL against the sweep period, replicas that disagree | an alarm whose condition lasts stands, one whose condition ended ends | AlarmReconciler, AlarmConditions |
| **Candle API** (`api/candles.rs`, `candles_agg.rs`, `cursor.rs`) | none | choose a source, fold, cut a page | candles | bucket edges, caps, writes between statements and pages | pages neither lose nor repeat; an item is folded from all its rows | CandleReads, KeysetWalk |
| **Other API** (`api/coins.rs`, `quotes.rs`, `coin_market.rs`, `metadata.rs`) | `tracked_coins` | register, patch, delete, list, read | queue, poller | statements of one request interleave with others and with hang-ups | a request is carried out at one instant, or refused | CoinRequests, CoinObject, CoinStore, Listings |
| **Push** (`listener.rs`, `api/websocket.rs`) | broadcast channel | LISTEN, relay, reconnect, subscribe | NOTIFY, clients | lagging client, lost connection | a client sees an ordered stream whose gaps have a cause | Push |
| **Process** (`main.rs`, `shutdown.rs`, `health/mod.rs`, `collectors/mod.rs`) | watch channel, ready flags, backoff per worker | startup, supervise, probe, drain, close | everything | restart against shutdown, drain against its deadline, cached ping | readiness does not come back; the drain is lost to work only; every signal ends the process | Process |
| **Configuration** (`config.rs`, `api/poll_interval.rs`) | environment | read, validate, default | everything | readers that disagree, junk found late | one variable has one meaning for all its readers | Settings |
| **Database access, models** (`db/*`, `models/*`) | pool | upserts, rows | everything | conflict policies | - | operators of Rollup, CoinStore, Process, RangeWalk |
| **Telemetry, metrics** | gauges | export | - | - | - | none |

The hazards of this code, each at its line with the properties that watch it,
are listed in `PROJECT.json` under `hazards`. Three of them have no property and
say why.

## 2. Modules

```
WorkLedger <--- refined by --- LeaseQueue      <- LeaseQueueProofs,  MCLeaseQueue
           <--- refined by --- BackfillChunks  <- BackfillProofs,    MCBackfillChunks (+ RangeWalk)
                               RangeWalk       <- BackfillProofs
                               Pacer           <- EgressProofs,      MCPacer
                               ProviderChain   <- EgressProofs,      MCProviderChain
                               LivePoller      <- LivePollerProofs,  MCLivePoller
                               Rollup          <- RollupProofs,      MCRollup (+ Projection)
                               AlarmReconciler <- AlarmProofs,       MCAlarmReconciler (+ AlarmConditions)
                               AlarmConditions <- AlarmProofs
                               Process         <- ProcessProofs,     MCProcess (+ Settings)
KeysetWalk <--- refined by --- CandleReads     <- CoinProofs,        MCCandleReads (+ Listings)
           <--- refined by --- Listings        <- CoinProofs
CoinObject <--- refined by --- CoinRequests    <- CoinProofs
             Push <- extended by - CoinStore   <- CoinProofs,        MCCoinStore (+ Answers, CoinRequests)
                               CycleOverlay    <- ProcessProofs,     MCCycleOverlay
                               Answers         <- LivePollerProofs
                               Projection      <- RollupProofs
                               Settings        <- ProcessProofs
```

An MC module that names two components, as in "(+ RangeWalk)", chooses in its initial
state which of them takes the steps (`side`) and leaves the other where it began. The
two share no variable, so such a run is two runs under one configuration; every property
speaks of one side, or is a conjunction whose conjuncts each speak of one, and what it says
of the side that does not move is that it holds where that one began.

### Abstract specifications

**WorkLedger** is what both queues promise: jobs, keys and what a job was charged; no
replica, lease or claim. A job is admitted once per key while an earlier one is open,
charged, and leaves once with one verdict; it is given up only with the budget spent.

**KeysetWalk** is what an endpoint with `next_cursor` promises: keys descend, none comes
twice, the cursor moves whenever there is another page.

**CoinObject** is what `/v1/coins/{id}` promises: an object each request uses at one instant
between its arrival and its answer. `DeletesNothing` is the exception the code has: a
`DELETE` that finds no row answers 204 if a row is there by the time it looks again.

### Detailed specifications

**LeaseQueue** models `collection_queue.rs` and `lease_worker.rs`.
- A row is a record of the columns the protocol reads; each SQL statement is one
  operator from a row to a row, each fence (`AND claimed_by = $n`) the predicate
  `Fence`. A statement is atomic, nothing between two statements is.
- `lease_expires_at < now()` is decided by the database clock, so the lease is
  `live` until `LeaseExpires` makes it `expired`. Under a holder that still
  beats this takes a fault (a stalled database or task); an orphan's just runs out.
- `pc` follows `run_lease_worker`: check (shutdown), claim, work, finalize, pause.
  `beats` are the heartbeat tasks; after a panic one may outlive its worker until
  it notices that the stop channel is gone.
- `dispatch_item` is abstracted to what it returns (`Outcomes`); the providers it
  calls are Pacer's and, for history, BackfillChunks' business.
- `replica_id` is `REPLICA_ID` or a fresh UUID per process. `Restart` reuses the
  name: that is the panic restart and the deployment that sets `REPLICA_ID`, and
  it is the harder case, since a new name could never pass an old fence.
- `genuine` and `abandoned` are history variables: transient failures the table
  recorded and claims lost to a takeover.

**BackfillChunks** models `backfill.rs`, the range requests of the providers and
`chain_fetch_ohlc_range`, as far as leases, crashes and retries go.
- Candle instants are slots of the range. The resume point one nanosecond after
  the cursor is `AfterCursor` in the filter and, cut to the unit each provider
  sends, the cursor's own slot in `RequestStart`.
- A provider is a record: the slots it holds, how far past its start a request
  reaches (`span`), how many candles an answer holds (`cap`) and whether these are
  the newest (Bitstamp) or the oldest ones (Binance, CoinGecko).
- `finalize` is two statements, the cursor and the settlement, either of which
  may fail alone. The worker loop around the work is LeaseQueue's and is cut down
  here to claim, work, finalize and crash.
- Chunks without bounds (a `NULL` range) are left out: no caller creates one.

**RangeWalk** models one chunk from its first page to its last with what BackfillChunks
leaves out: seconds, granularities, stamps, and the arithmetic of each provider's request.
- All candles lie on multiples of their granularity but Binance's `1M`, which open with the
  calendar's months: `Months`, any ascending list of instants, of which `Opens`, `Ceiling`
  and `Floor` take the k-th, the first from an instant on and the last up to it.
- `listed` is the chain of `build_chain`, `depth` where each provider's data begins and
  ends, `window` the deep or the startup chunk of `main.rs`.
- A page is one step: it is answered, or fails and is asked for again. `passed` is the
  history of pages: who answered, who was down, what the cursor moved over.

**Pacer** models one provider's row of `upstream_request_pacer`, `LocalThrottle`
and `transport::paced`.
- Instants are distances from now; `Tick` lets a unit of time pass. All replicas
  and the database share one clock in the model; only the length of a cooldown
  differs by replica, as it is read from each one's environment.
- `Reserve` is the gated `UPDATE`; the sleep comes after it, outside the
  transaction. A reservation whose answer is lost is `Reserve` followed by `Drop`.

**LivePoller** models `live_poller.rs` and the requests of `api/coins.rs` that
write the columns it reads.
- The claim is one statement: `Due` is its predicate, `Before` its `ORDER BY`,
  `Batches` what `LIMIT` may return. `until` is what is left of the marker, `age`
  the time since the last success, `order` the coins by `last_polled_at` with the
  never-polled ones missing from it.
- The worker drops the rest of its batch on a shutdown and leaves the markers;
  `Mark`, `Clear` and `Defer` write by coin, whoever holds it by then. A fetch is
  its outcome; a marker may run out while one is in progress.
- `lapsed` is a history variable: coins whose marker went while a replica held
  them, by time or by an operator's request.

**Rollup** models `rollup.rs` for one coin and one target interval, with the fold
of `candles_agg.rs`, the guarded upsert of `db/upserts.rs`, and the writers of the
same table around it.
- A source candle is a slot; a row is the set of slots it was folded from, which
  tells apart every fold of one bucket. Values of candles, and with them updates of a
  candle in place, are left out.
- Each query and each statement of a run is a step, and `now` is read once at its
  start (`clock`). `prev`, `emit`, `at` and `ceil` are the local variables that
  survive from one statement to the next.
- The queue around it is cut down to `queued` and "a run is on": the dedup index
  absorbs an enqueue in either case. `refreshed` is the moment between the upsert
  of the candles and that enqueue.
- `blind` records that a row went wrong where no later run looks again (section 3).
- One runner works at a time; a second one after a lost lease is left out, as is the
  choice of the source interval, which is fixed.

**Projection** models `cycle_projection.rs`: the power law, the cycle component by phase
with its shrunken amplitude, the continuity term and the bands.
- Prices are logarithms and a `Decimal` is an integer with few places, so that every
  rounding of the code is there and only coarser. Each day refits (`Recompute`).
- A fit that the code refuses (no variance, too few samples) is `<<>>`.

**ProviderChain** models the three chain functions of `providers/mod.rs`, the pacer
gates around and inside them, and what the workers make of the results.
- A call is a walk over the positions of the chain: `Gate` is the slot `chain_try` takes
  on the provider it is about to ask, `Outer` the one the OHLC workers take on the first
  capable provider, `Fetch` the request with the slot the provider takes for itself. Any
  step of another caller, a 429 or a refusal may come between two of them.
- `said` keeps every answer; `last_fetch_err`, `last_pace_err` and the attempt records are
  functions of it (`LastOf`, `Evidence`). `Verdict` is the classification by the caller,
  `SoftSkip`, `Transient`, `Permanent` or a result.
- Whether a provider's pacer row refuses is a set that others move; the row itself is
  Pacer's. A provider that cannot be reached answers `Network`.
- The registry is three facts: which providers have a streak of network failures, how
  long ago each succeeded (up to the threshold; `None` counts as long ago, as in
  `provider_unreachable_active`), and whether the last evidence of a chain is a total failure.

**Answers** models what each provider makes of an answer that came, and what is kept of
quotes and market snapshots.
- A number on the wire is its shape: plain, in scientific notation, unreadable or absent.
  The price observed at an instant is named by the instant, and an upstream may answer
  from a cache, so a stored pair shows whether price and time belong together.
- Two lanes call at once or in sequence. `guessed` and `given` are history variables.

**AlarmReconciler** models `alarm/reconciler.rs` on every replica against one Alarm Center.
- A sweep is two steps, the reads (`Read`) and the requests (`Deliver`), between which
  conditions change, time passes or the process ends. Requests of one sweep concern
  different fingerprints, so their order is left out; any may get lost.
- A condition is a query's, which may fail and then counts as absent, or the replica's
  own. What is behind them is AlarmConditions'; the sustained marker is here.
- `left` is what remains of the `expiresAt` the Alarm Center keeps. `stalled` is a
  sweep that misses a tick of the ticker (`MissedTickBehavior::Skip`); one that takes
  longer than an interval is left out.
- `kept` is a history variable: what a replica has raised and seen hold ever since.

**AlarmConditions** models what the conditions are derived from: recorded restarts and
their window, failed and open rows, the streak of failed upserts, pacer rows, and the
catalogue with its fingerprints and the retries of a raise. These share no state, so a
behaviour is about one of them (`topic`).

**CycleOverlay** models a rebuild and its readers.
- The daily series is computed from native rows or from the widest finer series; the
  three queries of that choice are three steps, with candles written in between.
  Native rows are one a day, opening at midnight as the providers' do (`SeriesOnGrid`), so
  that taking the day of each, as the code does, and taking each day's newest are the same.
- The rebuild is a transaction: `DELETE` under a snapshot, the inserts, of which a
  primary key stops the second of two rebuilds (`lock`), and the commit.
- A client pages through the table, or asks for an instant of the past, which is
  computed on the spot under a permit of the semaphore. Prices and norms are
  fractions, so that a zero close is visible as what it is.

**Process** is one process from `main` to its exit: startup steps, supervised tasks with
backoff, the readiness probe with its cached ping, and the shutdown: 503, grace,
broadcast, servers, drain, pool. One clock; a timer that has run out acts before time
goes on, work takes as long as it likes.

**Settings** models how a process reads every numeric variable, the tier, the host and the
key header, and the three things that come of it later: an interval an operator sets and
three parts read, the cooldown of a 429, and the life of an alarm. A variable is absent,
junk or a number; a process keeps its environment and the next may have another. The
environments are a constant, any that hold what the width of each variable admits; MCProcess
gives those that differ in one variable, or in the few that meet.

**CandleReads** models `GET .../candles` from the first page to a null `next_cursor`.
- A page is several statements without a transaction: a probe for native rows, the spans
  of the finer series, the rows; writers step between any two.
- `aggregate_candles` and the cap on source rows are there in full, values are not. A walk
  begins in the last slot or the one before it, so at most one slot passes while it lasts.
  `skipped` are the buckets behind a cursor that an empty page moved.

**Listings** models the other keyset listings in the same way, with the window bounds of
each, and the two other readers of the current quote.

**CoinRequests** models the handlers of one coin as their statements; clients hang up and
statements fail. **CoinStore** models what a registration enqueues and what the dispatches
of a coin write, the metadata revisions above all: reading the latest and inserting the
next are two statements, and the time of a revision is `now()` of its `INSERT`. **Push**
carries the notifications of its commits through the relay and the channel to the
sockets; a notification is named by its place in the order of commits.

### How they meet

The modules meet in the database only, and in the registry. LeaseQueue's row is what starts
a run of Rollup, a rebuild of CycleOverlay, a dispatch of CoinStore and a page of candles;
BackfillChunks' page is a `passed` page of RangeWalk and `BackfillBehind` and `LateCandle`
of Rollup; a fetch of LivePoller or BackfillChunks is a call of Pacer, whose cooldown they
see as a soft skip. A dispatch of LeaseQueue and a page of BackfillChunks is a call of
ProviderChain, whose `result` is their `outcome` and whose answers are Answers'; its
registry is what a sweep of AlarmReconciler reads. A crash of LeaseQueue's or LivePoller's
worker is a `Crash` of Process. CoinRequests' patch is `Pause`, `Resume` and
`ResetInterval` of LivePoller.

## 3. Runs

Every bound is a constant named in the module: rows, faults, skips, hiccups, upsets. A
fault is a crash, a panic, a lost statement or a lease lost while it is beaten; an
upset is one of those or anything else that goes wrong in the module it belongs to.

A property a run checks is the conjunction of what its component promises, each conjunct
with a name and a comment of its own; a few are one statement. In the order of the table:

- `queue`: `RowsAreSound` (types, dedup, the ledger of attempts, budget, owner),
  `RowsAreOwned` (no zombie writes, verdicts stay), `DrainedLeavesNothing`, `RefinesLedger`,
  `EveryRowSettles`
- `pacer`: `GatesHold` (spacing, credits), `BacklogBounded`, `CooldownNeverShortened`,
  `EveryCallReturns`
- `backfill`: `ChunksAreSound` (types, the walk is free), `CursorSound`, `ChunksMoveOn`
  (refinement, no cursor goes back); of RangeWalk `HistoryIsWhole`; `EveryWalkEnds`
- `poller`: `SoleUnlessLapsed`, `EveryCoinIsTended` (polled for ever, a stuck one shows)
- `rollup`: `ParityWhenSettled`, `NativeWins`; of Projection `PathIsSound`
- `chain`: `AnswersAreEarned` (empty is proven, nobody passed over), `ChargedForCause`,
  `RegistryRecovers`; `backpressure`: `BackpressureIsFree`
- `alarm`: `AlarmsStand` (types, kept alarms stand); of AlarmConditions `ConditionsTell`;
  `AlarmsFollow` (ended ones end, lasting ones show)
- `process`: `ProbesTellTruth`, `ShutdownInOrder`, `ShutdownEnds`; `SettingsAgree`
- `reads`: `PagesAreWhole`, `ListingsAreWhole`, `WalksDescendToEnd` (both refine KeysetWalk)
- `coins`: `StoreIsSound`, `StreamIsSound`, `SocketsCatchUp`, `RefinesObject`, `AnswersTell`
- `overlay`: `PointsFit` (one rebuild, keys follow days, one scale), `NothingPassedOver`,
  `Progress` (catches up, requests end)

| Run | Asks | Bounds | Result |
|---|---|---|---|
| `queue` | does any interleaving break ownership, dedup, the attempts ledger, or refinement of WorkLedger; does every row settle; does a drained replica leave nothing | 2 replicas, one retiring, 2 rows of one key, 1 fault, 1 soft skip, budget 2 | holds |
| `pacer` | spacing, credits, backlog, cooldown, and does every call return | 3 calls for ever on 2 replicas, a month of 3 ticks, limit 2, 1 fault | holds |
| `backfill` | is history complete behind the cursor, is the walk free, does it end, refinement of WorkLedger | 2 replicas, 6 slots with a gap, pages of 2, either chain, 1 fault, 1 soft skip, 1 empty answer | holds |
| - RangeWalk | is a candle passed over by its own provider, is the deep window whole, are stamps true, does the walk end | 5 chains, 5 depths each, deep and startup window, pages of 3, intervals of 1 and 3 hours and 23 days, 2 months, 1 outage, change of the interval or recent fetch | holds |
| `poller` | is the marker exclusive, is every served coin polled for ever, is a stuck one seen | 2 replicas, one retiring, 3 coins of which one never answers, batches of 2, 1 upset | holds |
| `rollup` | does a run leave the fold of its source, does the provider's row win | 3 buckets of 2 slots, chunks of 2; 1 backfill, 1 late candle, 1 provider row, 1 fault | holds |
| - Projection | are bands ordered, is the join continuous, are peaks damped | 7 days of closes at two levels or absent, zero closes at the ends, a cycle of 5 days | holds |
| `chain` | is empty proven, is anybody passed over, is a refusal free, does the registry recover | 2 callers, chain of 2, 4 kinds of which one is served by nobody, 2 upsets | holds |
| `backpressure` | is every refusal free | 1 caller, 1 upset | **violated** |
| `alarm` | does an alarm stand while its condition is seen, end with it, and show while it lasts | 2 replicas, 3 conditions (queried and severe, sustained, startup), interval 2, 1 upset | holds |
| - AlarmConditions | does a crash loop show at its slowest, do old failures let go, does work in hand show as stalled, do conditions keep apart | backoff 1 to 3, healthy run 6, window 30, count 3; 2 writers; 2 providers; 1 retry | holds |
| `process` | does readiness come back, has traffic its grace, what is the drain lost to, does every signal end it | 1 worker, 1 relay, 1 probe, 3 crashes, 1 outage, longest backoff = drain | holds |
| - Settings | do readers of one variable agree, is what is shown accepted again, do alarms outlive a missed sweep | some hundred environments, intervals of up to 2 parts, restarts at will | holds |
| `reads` | do pages descend and end, is an item whole, is every bucket met | 3 buckets of 4 slots, 2 finer series, 2 holes, pages of 1, cap of 6 source rows, 3 windows, 1 write | holds |
| - Listings | is the window served in order, do the readers of the current quote agree | 2 currencies, 5 instants, pages of 2, 1 write | holds |
| `coins` | does one transaction create a coin, do revisions differ and order, is a stream ordered and are its gaps explained | 2 registrations, 2 workers, 2 revisions, 3 inserts, 3 notifications, 1 socket, capacity 1, 1 drop | holds |
| - Answers | has a price its time, costs one field one row, is a page whole, is a 429 heard | 2 calls, answers of up to 2 rows, instants up to 2 | holds |
| - CoinRequests | is each request carried out at one instant (CoinObject) | 2 callers, 9 requests, 1 failed statement, hang-ups at will | holds |
| `overlay` | is what a reader sees one rebuild, do keys follow days, is a point passed over, do the last candles show | 2 workers, 1 client, 2 upserts (a zero close, a first native day), 1 fault | holds |

Why the bounds are enough: a zombie takes two owners of one row, and a second
takeover adds nothing the fence could tell apart, so two replicas with a
fault reach every order of claim, expiry, takeover, late heartbeat and late
finalize; dedup takes a live row and a later one of the same key; a budget of 2
has a retry and an exhaustion. Two reservations at one instant and a third after
a tick reach every order the row distinguishes. Six slots with a gap longer than
a skip exercise full, short and empty pages and the cap at the end of the range; the
chains of RangeWalk put each provider first, last and alone, and its depths put a
beginning before, at and inside either window. One hour is everybody's granularity, of three
hours each provider makes another (the tie goes to the finer), and 23 days are Binance's
month, Bitstamp's three days and CoinGecko's day; the startup window has the first of a month.
A poller's marker of one tick lapses in the middle of a batch of two; three coins
leave one out of every batch. Three buckets are one before, one at and one after the
newest materialized; two slots make the difference of partial and complete. A chain
of two has a first and a last, each refusing, failing or answering; a third would only
repeat the middle step. An alarm of one replica and the clear of another need two
replicas; an interval of two units gives a TTL of five, one lost raise and no more. The
numbers of AlarmConditions keep the inequalities of the defaults: three restarts with the
longest backoff and nearly healthy runs between them fit the window. A worker that sleeps
when the broadcast comes, one that works and a relay that is not joined are the three
kinds of task a drain meets. Pages of one bucket and a cap of six rows, one and a half
buckets, cut every bucket both by page and by cap. A capacity of one makes a socket lag
at the second payload. Two rebuilds that overlap, with a candle of each kind between
their reads, are what the primary key has to tell apart; a third meets one of the two.
The proofs remove the bounds for the queue, the chunks of a backfill, the pacer, the
chain, the answers, the poller's marker, the rollup, the alarms, the process, the coin's rows
with the push, the requests, the page walks, and the overlay.

### What the violated run shows

`BackpressureIsFree`: `retry.rs:22` says that backpressure never consumes the retry budget.
A provider takes a second slot for the request its caller already paid for. When that
one is refused, the OHLC chains return the pacer's error like any other and the worker
records a failed attempt (`collection_queue.rs:460`, `backfill.rs:776`).
`ChargedForCause`, which holds, is the part of the promise that `chain_try` keeps.

### What ParityWhenSettled excludes

`blind` names the ways in which a row goes wrong for good, all visible in the model:
a run that dies between its upsert and its last delete (the stale row lies behind
the next start), a run that dies within the backward repair (its first chunk
moved the low watermark), a run still going when the bucket it takes for the
forming one closes, and a candle that arrives behind the newest row or during a
run. Whatever else happens, in any order, the next undisturbed run repairs.

### Observed, without a run of its own

What the code does that a reader of its documents might not expect. Each was met while a
definition was written or a property narrowed until it held; where the narrowing is
part of a property, the property is named.

Queue, backfill, rollup
- A row whose work kills its worker is claimed without bound: only `finalize`
  compares `attempts` with `max_attempts` (`collection_queue.rs:66` says crash loops
  stay bounded). A released row keeps its `enqueued_at`, so the oldest row of a throttled
  provider is claimed before every pause and younger rows wait behind it (lines 62, 139).
- A release writes `last_error = NULL`, which loses a genuine error before it. Items of
  a paused coin are still dispatched.
- A backfill job whose chunk was not inserted never gets one: job and chunk are two
  statements without a transaction (`backfill.rs:486`).
- An empty answer is believed: 1000 candles of the asked interval are skipped, or the rest of
  the range (`CursorSound` allows one such skip). The skip does not look at the window that
  was asked, so where CoinGecko's (31 or 180 days) or Bitstamp's snapped one is narrower,
  candles behind it are lost (`backfill.rs:59`, 141).
- Bitstamp's `[start, start + limit*step]` has one instant more than `limit`; the
  candle at the aligned start of a chunk is the one left out (`NothingLost`).
- A shallow provider that answers from later in the range hides the deeper one's candles
  before it; `main.rs:254` cuts the deep window to avoid this. An outage of the deep
  provider while another answers loses its candles, and a delisted provider's stale last
  candle ends pages early. A change of the poll interval amid a walk mixes granularities.
- A comment in `coingecko.rs` says that ties of the granularity go to daily; at 45000 s the
  first minimum is hourly.
- A coin polled less often than half way from a week to thirty days (1,598,400 s) gets candles
  of Binance under the stamp `1M` (`binance.rs:264`), which is no `ApiInterval`: they are
  stored and no reader takes them (`candles_agg.rs:24`). `PATCH` keeps a coin's own interval
  below `LIVE_POLL_MAX_INTERVAL_SECS` (an hour), an operator's variables may allow it.
  `SeriesOnGrid` names this as its one exception, and that nobody else gets the stamp.
- An enqueue of a rollup while a run is on is absorbed although the run has read its
  source already; the periodic refresh is the backstop. The forward recompute starts at
  the newest materialized bucket and the repair looks behind the earliest: a gap completed
  between them stays (`rollup.rs:100`, 373).

Pacer, chain, providers
- A call that reserved its slot before a 429 fires into the cooldown.
- `LocalThrottle` saturates a future `last_request` to zero, so the third caller in
  one gap leaves together with the second; the pacer row behind it spaces them.
- A provider that is only a fallback is not asked once the earlier one answers again, so
  its streak stays and `provider-unreachable` is raised until somebody needs it:
  `RegistryRecovers` promises less of it than of the first ones. One that never
  succeeded counts as unreachable after one failure, whatever the threshold.
- On the `chain_try` paths an inner refusal of the last provider hides a genuine failure
  of an earlier one: the item is soft-skipped, which errs on the free side.
- `ProviderError::is_transient` is consulted by the live poller only, although its
  comment names the worker's retry logic.
- The coin search makes every error an empty `Ok` (`coingecko.rs:1139`), so the 503 of its
  handler is not reached. It takes its cap before it drops malformed entries, the tickers
  after. One unreadable optional field fails a whole derivative page, and a Binance
  ticker without volume, bid or ask fails its price.
- `last_updated` falls back to now, which can make an older price the newest row. An upsert of
  the same instant replaces a known optional field by `NULL`.
- `select_deriv_ticker` depends on the order of its rows at equal symbol and interest.

Poller
- No failure path moves `last_polled_at`, so coins that are never answered stay at the
  head of the poller's order and as many of them as `LIMIT` starve the rest, against
  `live_poller.rs:96`. `CoinsStayPolled` is checked with one such coin less than a batch;
  with as many the same property fails.
- The poller's batch of 50 fits its marker of 120 s at 2 s a coin, not at the HTTP
  timeout; the marker then lapses under its holder, which `SoleUnlessLapsed` allows.

Overlay and projection
- A close of zero divides by zero (`cycle_overlay.rs:160`) and panics, and the item is claimed
  again for ever; `CatchesUp` excludes it (`Panics`). SPEC-CANDLE-002 `spec.md:219` asks for
  a defined result.
- An `as_of` computation chooses its source by coverage up to now, and a native candle of
  midnight carries a close from later. The first native day hides the finer history
  (`cycle_overlay.rs:525`).
- A rebuild that was overtaken commits older data until the next tick. Two rebuilds
  that chart no day in common both commit (`OneRebuild` says so).
- The low of a cycle is the real one for real points and the lesser of real and projected
  for projected ones (`OneScale`). Damping raises troughs as well, and the path may jump at a halving.

Process, configuration, alarms
- The drain deadline of REQ-OBS-031 covers the workers; `pool.close()` waits for connections
  that are out (`main.rs:485`) without one. A probe that read the flags before the
  shutdown may still answer 200 (`NoYesAfterLeaving` is about those that come later).
- An unreadable `PACER_*_COOLDOWN_MS` is found at the first 429 (`transport.rs:104`), where
  the task panics before the cooldown is written; REQ-OBS-072 wants it at load.
  The warning of REQ-OBS-071 is missing for `ALARM_TTL_SECS` and the HTTP timeouts.
- Basic credentials are applied one by one although the comment wants both (`config.rs:57`).
  `parse_hms` takes units in any order and repeated. A negative global interval, cast to
  `u64`, refuses every interval; 0 means "every tick" to the poller and "the default" to the
  collectors; some tickers panic on 0. Nothing compares the lease with the heartbeat.
  An explicit `ALARM_TTL_SECS` below the sweep makes alarms flap.
- `backfill-stalled` counts any open chunk that was not touched for the time, so a backlog
  behind a long walk shows and a chunk that is claimed and released for ever does not
  (`docs/alarms.md` says "none have advanced").
- A sweep whose query failed takes a severe condition for recovered and clears it; the
  next sweep raises it again. The streak of failed upserts is shared by the tables. The
  ping goes through the pool, so a saturated one reads as a database that is down.
- The crash-loop alarm works while the count of restarts at the longest backoff fits the window,
  as it does by default; configured values are not compared.

API and push
- `PATCH` cannot clear `error`. A second registration of a deleted coin answers 200 and leaves
  it paused. A `DELETE` can answer 204 with the coin active (`DeletesNothing`).
- A walk of quotes by cursor only has no lower bound (against `quotes.rs:200`). `market`
  lowers the case of `vs_currency`, `quotes` does not.
- A source read at its cap that completes no bucket continues below the oldest bucket it
  touched, so that one, complete or not, is left out (`EveryBucketIsMet` excludes `skipped`).
- A comment in `main.rs` says that a lagged receiver skips to the newest payload; the channel gives it
  the oldest it kept. A worker that lost its row may write a revision that flips back.

## 4. Fairness

Weak fairness of a step says that it is taken if it stays possible. It is assumed of:

- a worker's own steps (the runtime polls its tasks), its work (every HTTP and database
  call has a timeout), its restart (`run_supervised` restarts after at most the longest
  backoff), the expiry of a lease nobody renews, and of time: LeaseQueue,
  BackfillChunks, Pacer, LivePoller, CycleOverlay, Process;
- the end of a call, of a cooldown and of an outage, sweeps that end, and the restart of a
  process that exited: ProviderChain, AlarmReconciler. A start may fail any number of times before;
- the next page, by the client (CandleReads, Listings) or by the worker (RangeWalk);
- the relay's subscription and relaying, and the sockets' delivery (Push);
- heartbeats and the recording of an upsert's outcome (AlarmConditions).

Strong fairness, of a step that is possible again and again, is assumed where the code makes
a fair choice among what is ready: `Stop` of LivePoller, since `select!` picks at random
between the ticker and a signalled shutdown; the semaphore of the overlay's computations
(`Acquire`), which queues; that every kind of data is asked for again (ProviderChain),
which is the periodic refresh; and that among a writer's batches some have rows
(AlarmConditions).

Nothing is assumed about enqueues, faults, shutdowns, requests of clients or operators, or
which outcome a dispatch or a fetch has; faults and soft skips are bounded by their
budgets, which says that they do not go on for ever. A unit of work of Process
may go on for ever, which is why its drain has a deadline. Rollup, Projection, Settings,
Answers and CoinRequests are checked for safety only.

## 5. Proofs

One table for each proof module. A theorem about a conjunct of a checked property is listed
before the one about the conjunction.

**LeaseQueueProofs**

| Theorem | Property | Argument |
|---|---|---|
| `TypeCorrect` | `TypeOK` | each statement maps rows to rows |
| `OwnershipHolds` | `OwnershipConsistent` | a worker that still holds its row as owner holds a claimed row (`Owned`): the fence gives what every other statement needs |
| `AttemptsAreLedgered` | `AttemptsLedger` | every step is one of five changes of a row (inserted, expired, taken, renewed, closed), and `Books` balances under each |
| `BudgetIsKept` | `RetryBudget` | from the ledger: attempts at the failure is failures plus lost claims plus one |
| `DedupHolds` | `OneLiveRowPerKey` | only an insert makes a row live, and it checks the index |
| `RowsHold` | `RowsAreSound` | the five above |
| `NoZombieWrites`, `VerdictsAreFinal`, `OwnersHold` | `RowsAreOwned` | the same classification of steps |
| `DrainHolds` | `DrainedLeavesNothing` | a claimed row has a worker at it or a fault behind it (`Attended`), and a worker leaves its loop without an item only |
| `QueueIsLedger` | `RefinesLedger` | each kind of row step is a step of WorkLedger or a stutter |

**BackfillProofs**

| Theorem | Property | Argument |
|---|---|---|
| `ChunksHold` | `ChunksAreSound` | types, and the ledger of a chunk as in the queue: attempts is failures, lost claims and the open claim |
| `NothingGoesBack` | `NeverBack` | who owns a chunk saw the cursor it has now (`SawIt`), and what it writes is ahead of what it saw (`Ahead`) |
| `BackfillIsLedger`, `ChunksGoOn` | `ChunksMoveOn` | each step of a chunk is one of WorkLedger or a stutter |
| `NothingIsLost` | `CursorSound` | whatever lies behind the cursor in hand is stored (`Covered`) or was skipped after an empty answer (`Lost`, at most one skip of each); assumes `Seamless` of every chain |
| `HistoryIsKept` | `HistoryIsWhole` (RangeWalk) | below |

`Seamless` says that what a chain holds past a cursor is in the page that answers it or later,
and that an empty page, if nobody was mute, tells of a stretch without data. It is not true
of the code's chains in general: where it fails candles are lost, which section 3 lists
among what was observed and RangeWalk models. For the chains of the run TLC evaluates it as
the assumption `ChainsAreSeamless`.

`HistoryIsKept` is the same question asked of the chains the code builds, with their seconds,
granularities and paging. One page is decided by what the provider that answers leaves out
(`PageHasAll`: Binance the last ones of what it has, Bitstamp the first, the others nothing)
against what the cursor then passes over (`PageIs`). The deep window needs more than that,
`DeepSoFar`: up to the cursor Bitstamp's days are all there, because whoever moves the cursor
moves it no further than Bitstamp's own request reached (`WithinReach`). That rests on
`PageAssumption`: a skip over an empty page (1000 candles) and a daily range of CoinGecko (180
days) are no longer than a page of Bitstamp (1000 days), and the window ends on a date. It
also rests on the meaning of the listing date: Binance has nothing before it wherever it
stands in the chain. The proof showed that the property needs this of a Binance behind
Bitstamp too: its pages reach to the end of the window, and one of them, met while Bitstamp
has nothing for a thousand days, would carry the cursor past what Bitstamp has later. Of the calendar it needs that months
ascend: months before an instant are then the first ones (`CountIsLast`), so `Ceiling` and
`Floor` number them as the quotients do the multiples of the other granularities. That
only Binance stamps `1M`, and only for an interval above 1,598,400 s, is `MonthsAreRare`.

**EgressProofs**

| Theorem | Property | Argument |
|---|---|---|
| `GapHolds` | `SlotsSpaced` | `next` is never behind a waiting slot, and waiting slots are a gap apart |
| `BudgetHolds` | `CreditCap` | the charge is guarded by the gate in the same statement |
| `BothGatesHold` | `GatesHold` | the two above |
| `CooldownMonotonic` | `CooldownNeverShortened` | `GREATEST` |
| `BacklogHolds` | `BacklogBounded` | every slot lies a whole number of gaps before `next` (`OnGrid`), two calls never on the same one; so the slots ahead of now are counted by the calls that sleep for them and the faults that orphaned one |
| `CallsAreSound` | - | `Sound`: the providers before the position of a walk have declined, those from it on have not been asked; needs that a set of positions has a least and a greatest element, from the well-foundedness of the naturals |
| `EmptyHolds`, `OrderHolds`, `AnswersHold` | `AnswersAreEarned` | conjuncts of `Sound`; the verdict is taken where the walk has ended, so every capable provider has answered |
| `ChargeHolds` | `ChargedForCause` | `LastOf` gives an answer somebody gave |
| `TypeCorrect`, `ChainTypeCorrect` | `TypeOK`, `ChainTypeOK` | - |

**LivePollerProofs**

| Theorem | Property | Argument |
|---|---|---|
| `ClaimsExclude` | `SoleUnlessLapsed` | a coin in hand has a running marker unless it lapsed (`Marked`); an unfenced write can unmark a coin another replica holds only if both hold it, hence only if it lapsed |
| `HoldersAreMarked` | - | the `Marked` of that invariant |
| `AnswersHold` | `AnswersTell` | `AnsInv`: who is limited is closed, so a call is made of a provider that is not, and an upsert keeps one row for an instant and loses none (`KeepIs`); the choice of a derivative is a maximum of finitely many rows under two orders, which is shown to exist before it is shown to be of its base; the ranks of the fit pairs are all different and below their number, hence each is taken, and the first of them have the most volume |

The last is about Answers, which shares no variable with the poller.

**RollupProofs**

| Theorem | Property | Argument |
|---|---|---|
| `NativeIsKept` | `NativeWins` | upsert and delete are guarded in the statement, and no provider row stands beside a rollup row (`OneRow`) |
| `InvHolds` | - | `Folded`: rows stored and in hand hold source candles of their bucket only |
| `TypeCorrect` | `TypeOK` | `Folded` for the rows; for the instants a run keeps, that a set of slots has a least and a bounded one a greatest element, and that weeks and buckets begin within the table |
| `ParityHolds` | `ParityWhenSettled` | `Tracked`, below |
| `PathHolds` | `PathIsSound` (Projection) | `PathInv`: a path is the projection of the history by the model fitted to it; what it promises follows from what each operator computes, below |

`Tracked` has a part for each step of a run and claims nothing once `blind` is set. Between
runs every bucket that has a row at or before it and a row after it is right (`Between`):
such a bucket is closed, history that lands behind all rows does not reach it, and a later
run starts at the last row. In the forward recompute (`Forward`) what was read for a closed
bucket is the fold of the source now, or all before it is bare (`Gathered`): a backfill that
completes a bucket after it was read lies before every candle there was. In the deletes
(`Trailing`) a row that still waits for its `DELETE` has no whole bucket behind it. In a walk
(`Walk`) everything before the window is right and, in a repair, everything from the first
row on. What is right of the whole table is claimed of an undisturbed run only (`fresh`). The
rest is arithmetic of slots, buckets, weeks and chunks, proved once for all widths.

`PathHolds` is about operators more than about steps. The folds of the model are recursions
over finite sets, whose value exists because there is no least set without one
(`RecursionIs`); hence sums are integers and bounded by their summands (`TotalIs`). A set laid
out by rank is ascending (`AscendingIs`). A quantile of an ascending sequence is
monotone in its place (`QuantileIs`) and the offsets of the bands keep their sides from grid
point to grid point (`OffsetsAtAre`), so the median stays between them. The mean of past
cycles is bounded by their terms, each of them by the damped amplitude (`TermIs`,
`MeanOfTerms`, `ComponentIs`). At the join the gap to the model is closed by the part one day
closes (`GapCloses`), and what `Rounding` allows is what the integer divisions on the way lose.

**AlarmProofs**

| Theorem | Property | Argument |
|---|---|---|
| `SweepsTypeCorrect` | `TypeOK` | - |
| `KeptHold`, `AlarmsHold` | `KeptAlarmsStand`, `AlarmsStand` | what is left of the time to live covers the rest of the interval, and a whole interval more as long as no upset was used (`LeftCovers`); assumes at most one upset |
| `ConditionsHold` | `ConditionsTell` | the n-th last restart of a loop is at most n longest backoffs and healthy runs old (`LoopIsRecent`), which the assumption on the window compares with its count; a chunk at work was touched within a beat |

That one upset is all an alarm survives is the design: the time to live is two and a half
intervals, and two lost raises take three. With two upsets TLC shows the alarm lapsing.

**ProcessProofs**

| Theorem | Property | Argument |
|---|---|---|
| `NoYesHolds`, `RecentHolds`, `TruthHolds` | `ProbesTellTruth` | one invariant for the whole process: where main is says which flags are set, what is still running and how much of the drain is left |
| `TrafficHolds`, `DrainHolds`, `PoolHolds`, `ShutdownHolds` | `ShutdownInOrder` | from it; a nap never outlasts what is left of the drain |
| `StopHolds`, `BackoffHolds` | `StopIsFinal`, `StormsBackOff` | action properties from the same invariant |
| `TypeCorrect` | `TypeOK` | - |
| `OverlayWalksHold` | `NothingPassedOver` | `Walking`: what a walk is owed stands in the table and past its cursor, and a page holds the first of what lies there, counted off by rank among keys that are totally ordered pairs |
| `KeysHold` | `KeysFollowDays` | from the same invariant: every series is finite and its days are integers, and the cycle of a day grows with the day under either list of halvings |
| `PointsHold` | `PointsFit` | `KeysHold`, and three invariants more, below |
| `SettingsHold` | `SettingsAgree` | `SetInv`: an alarm was raised in this process and at most one missed sweep ago, and an interval its own process accepted keeps the bounds; the rest is what is read, below |

The three before the last are about CycleOverlay and the last about Settings, which share no
variable with the process or with each other; they stand here because all of them use the
theorems on finite sets.

`SettingsHold` needs that a duration the API shows is read back as what was stored: `Shown`
is a sequence of parts, `Parse` a recursive function on sequences whose values are shown to
exist for every length (`SumsThere`), and the parts of a number of seconds add up to it
(`ReadsBack`). The default time to live outlasts a missed sweep since it is two and a half
periods (`TtlOutlives`), and the limits fit by the defaults themselves (`DefaultsAre`).

`PointsHold` needs to know what two transactions may hold of the table. `Locked`: each has
deleted whole rebuilds that stand in the table, no two the same one; what one has inserted is
what its step says (`Inserted`) and shares no primary key with what it left standing, nor with
what the other deleted or inserted. At a commit the new rebuild then meets no row it shares a
key with, and `Fits` (rows come in whole rebuilds, two rows with a key in common are one)
survives; `OneRebuild` follows, as two series that chart a day in common clash in their real
points. `Priced` says that a series in the table consists of closes of candles and has none of
the zeros that end a recompute: so the denominators of its prices are positive, a cheapest one
exists (`CheapestIs`), and nothing lies below the low. The scale is the identity
x/(z/(z/a)) = x/a on fractions, for a first close `a` of the cycle that may be anything.
`Typed` counts the permits.

**CoinProofs**

| Theorem | Property | Argument |
|---|---|---|
| `CoinIsCreatedOnce` | `CreatedOnce` | the registration's rows appear in one step |
| `NeighboursDiffer`, `NowIsLatest` | `RevisionsDiffer`, `AsOfNowIsLatest` | `ReviseInv`: only a worker that holds the next number can write it, what it writes differs from the revision it read, which is then the latest, and its time is later |
| `HistoryHolds` | `StoreIsSound` | the three above |
| `StreamIsOrdered`, `GapsAreExplained`, `StreamHolds` | `StreamIsSound` | `PushInv`: inbox, channel and what a client has are in the order of the commits, and every commit is with the relay, in the channel or among the lost |
| `RequestsAreAtomic` | `RefinesObject` | `CallOK`: at each statement, what the request in hand knows of the row (there was none when it came, its `UPDATE` met none) still bears the answer it will give; each statement is then `Used` by the object or a stutter |
| `ListingsHold` | `ListingsAreWhole` | `ListInv`: what is still owed past the mark lies in the window the next page reads, whatever was written or expired since |
| `ListingsWalk` | `WalksDescendToEnd` (Listings' half) | a page holds the highest of what lies below the mark, so its last item is the next mark and below the old one |
| `PagesHold` | `PagesAreWhole` | `ReadsInv`: a bucket of the window that stood since the first request was given or still lies below the cursor, on the native path (`standing`) and on the folded one (`whole`), as long as the client met one of them only (`Met`) |
| `CandlesWalk` | `WalksDescendToEnd` (CandleReads' half) | as for the listings; for a folded page from the buckets that the cap cut off |
| `TypesOfTheStore`, `TypesOfRequests` | `TypeOK`, `ReqTypeOK` | - |

Both walks need that a finite set of integers has its k highest members (`HighestExist`, by
well-foundedness of the naturals), the folded one also which slots make a bucket
(`RowsOfBucket`) and that rows cut at the cap still hold every bucket but the last in full:
that a page makes headway at all is `CapAssumption`, a bucket and one row more fit into the
cap.

All of these hold for every finite or infinite set of replicas, keys, callers, workers and sockets and
every bound, under the named assumptions of the modules (`QueueAssumption`,
`BackfillAssumption`, `PacerAssumption`, `ChainAssumption`, `PollerAssumption`,
`WalkAssumption`, `PageAssumption`, `RollupAssumption`, `AlarmAssumption`, `ConditionsAssumption`, `ProcessAssumption` and
`DrainAssumption`, `StoreAssumption`, `PushAssumption`, `RequestsAssumption`,
`ListingsAssumption`, `ReadsAssumption`, `CapAssumption`, `AnswersAssumption`, `OverlayAssumption`,
`ProjectionAssumption`, `SettingsAssumption` and
`PathAssumption`, which says that the composite path gives a fraction for every history), which TLC
evaluates on the runs that extend them, and the two hypotheses named above: `Seamless` and at most one upset. Those of the conditions are inequalities the code's constants satisfy (`collectors/mod.rs:279`
and what follows).

The property alone is seldom inductive: dedup, the ledger and the budget need that only an
owner in `finalize` closes a row and that the row it closes is still claimed, which is what
`Owned` adds; the poller's exclusion needs `Marked`, since a claim looks at the marker and not
at the holders; that revisions differ needs to know who may write the next one, since a
worker compares with what it read one statement earlier; parity needs to know which rows are
right while a run is on, and what a run that dies leaves for the next.

Model-checked only:
- all liveness (fairness and `ENABLED` are out of the prover's reach);
- `LivePoller!TypeOK`: the worker drops coins from its batch with `SelectSeq`, a recursive
  operator of the library.

`BackpressureIsFree` is no theorem: it is false.

## 6. Not modelled, and why

- Telemetry and metrics: exporters and gauges no other part reads.
- Values of candles and quotes, except where a property is about them: prices are names,
  closes of the overlay small numbers, those of the projection logarithms.
- Parameter parsing and error bodies of the read endpoints, DTOs, OpenAPI, authentication
  headers, TLS, CORS.
- The touch of `last_seen_at` on an unchanged metadata revision: a statement nothing
  depends on.
- `fetch_derivatives` and `fetch_coin_tickers` have no caller; their answers are modelled,
  a schedule is not. Coinbase and Kraken support nothing.
- Clock skew between replicas: slots are computed from the database clock but the
  sleep from the local one; the model has one clock.
- `REQ-SCHED-051` and other timing figures: only order is modelled.
- The legacy `running` status: no statement writes it.
- A change of a rollup's source interval while it exists, a second rollup runner after a
  lost lease, and a `1w` target folded from rows that are rollups themselves.
- Sweeps longer than an interval; start and end of a DNS name, a port or an exporter.
- The second notification channel: the two are the same code and share nothing.

## 7. Plan

Done: everything in section 2, and the proofs of section 5. What is left, in this order:

1. **Rollup**: the choice of the source interval, and a second runner beside the first.
2. **Composition**: LeaseQueue's worker inside Process, so that a drain meets a lease.
