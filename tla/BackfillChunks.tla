---------------------------- MODULE BackfillChunks ----------------------------
(***************************************************************************)
(* Historical backfill (src/collectors/backfill.rs): one job and one chunk *)
(* per coin, walked page by page.  A worker claims the chunk, fetches the  *)
(* page after its cursor from the provider chain, upserts the candles,     *)
(* moves the cursor in one statement and completes or releases the chunk   *)
(* in the next.                                                            *)
(*                                                                         *)
(* Candle instants are slots 0..End-1 of the chunk's range; range_start is *)
(* slot 0 and range_end lies after the last slot.  The loop around the     *)
(* work is run_lease_worker, whose heartbeats, pauses and shutdown         *)
(* LeaseQueue models; here a lease simply runs out.                        *)
(***************************************************************************)
EXTENDS Naturals, Sequences, FiniteSets

CONSTANTS Replicas, Coins,
          End,          \* slots in the range of a chunk
          Skip,         \* EMPTY_PAGE_SKIP_CANDLES
          Chains,       \* what the range-capable providers may hold of a coin
          MaxAttempts,  \* backfill_max_attempts
          MaxFaults,    \* bound: crashes, lost statements, leases lost at work
          MaxSkips,     \* bound: pacer soft skips
          MaxHiccups,   \* bound: empty answers of a provider that has the data
          NoReplica, NoCoin, NoCursor, NoPage

\* A provider holds data; a request reaches span slots past its start and is
\* answered with at most cap candles, the newest of them or the oldest.
Provider == [data : SUBSET (0..(End - 1)), span : Nat, cap : Nat \ {0}, newest : BOOLEAN]

ASSUME BackfillAssumption ==
  /\ End \in Nat \ {0} /\ Skip \in Nat \ {0} /\ MaxAttempts \in Nat \ {0}
  /\ MaxFaults \in Nat /\ MaxSkips \in Nat /\ MaxHiccups \in Nat
  /\ Chains \subseteq Seq(Provider)
  /\ NoReplica \notin Replicas /\ NoCoin \notin Coins
  /\ NoCursor \notin 0..End /\ NoPage \notin 0..End

VARIABLES
  chain,    \* [Coins -> its providers in declared order]: fixed from the start
  job,      \* coins with a row in backfill_jobs
  chunk,    \* [Coins -> the coin's row in backfill_chunks]
  order,    \* the chunks by created_at
  stored,   \* [Coins -> slots present in coin_candles]
  enq,      \* [Replicas -> coin whose job it inserted and whose chunk it has not]
  pc, item, \* [Replicas -> step of the worker and the coin in hand]
  seen,     \* [Replicas -> the cursor as of the claim]
  outcome,  \* [Replicas -> what process_chunk returned]
  faults, skips, hiccups,   \* budgets used
  genuine, abandoned        \* history: transient failures recorded, claims lost

tvars == <<chain, job, chunk, order, stored>>
wvars == <<enq, pc, item, seen, outcome>>
bvars == <<faults, skips, hiccups>>
hvars == <<genuine, abandoned>>
vars  == <<tvars, wvars, bvars, hvars>>

Slots    == 0..(End - 1)
Cursors  == 0..End \cup {NoCursor}
Statuses == {"absent", "pending", "claimed", "done", "failed"}
Chunk == [status : Statuses, claimed_by : Replicas \cup {NoReplica},
          lease : {"none", "live", "expired"}, attempts : Nat,
          cursor : Cursors, last_error : {"none", "transient", "permanent"}]
AbsentChunk == [status |-> "absent", claimed_by |-> NoReplica, lease |-> "none",
                attempts |-> 0, cursor |-> NoCursor, last_error |-> "none"]

\* ChunkOutcome and DispatchError; max is the newest slot persisted, if any.
Progress(max) == [kind |-> "progress", max |-> max]
Other(kind)   == [kind |-> kind, max |-> NoPage]
Outcomes == {Progress(max) : max \in Slots \cup {NoPage}}
            \cup {Other(k) : k \in {"soft_skip", "permanent", "transient"}}

-----------------------------------------------------------------------------
(* SQL statements: operators from a chunk to a chunk.                      *)

Disowned(row) == [row EXCEPT !.claimed_by = NoReplica, !.lease = "none"]

INSERT_CHUNK(row) == [row EXCEPT !.status = "pending"]

CLAIM(row, r) == [row EXCEPT !.status = "claimed", !.claimed_by = r,
                             !.lease = "live", !.attempts = @ + 1]

ADVANCE_CURSOR(row, c) == [row EXCEPT !.cursor = c]

COMPLETE(row) == [Disowned(row) EXCEPT !.status = "done", !.cursor = End]

FAIL_OR_RETRY(row) ==
  [Disowned(row) EXCEPT !.last_error = "transient",
     !.status = IF row.attempts >= MaxAttempts THEN "failed" ELSE "pending"]

\* Mutant: a page costs an attempt.
RELEASE_SPENT(row) == [Disowned(row) EXCEPT !.status = "pending", !.last_error = "none"]
RELEASE(row) ==
  [Disowned(row) EXCEPT !.status = "pending", !.last_error = "none",
                        !.attempts = IF @ > 0 THEN @ - 1 ELSE 0]

FAIL_PERMANENT(row) ==
  [Disowned(row) EXCEPT !.status = "failed", !.last_error = "permanent"]

Live(c)    == chunk[c].status \in {"pending", "claimed"}
Settled(c) == chunk[c].status \in {"done", "failed"}

Claimable(c) == \/ chunk[c].status = "pending"
                \/ chunk[c].status = "claimed" /\ chunk[c].lease = "expired"

\* "AND claimed_by = $2", the fence of every statement after the claim.
Unfenced(c, r) == TRUE
Fence(c, r)    == chunk[c].claimed_by = r

-----------------------------------------------------------------------------
(* Pages and cursors.                                                      *)

\* resume_start: one nanosecond past the cursor, which the providers' own
\* milliseconds, seconds or minutes truncate to the cursor's slot again.
RequestStart(cursor) == IF cursor = NoCursor THEN 0 ELSE cursor
\* The filter c.ts >= resume_start && c.ts < range_end.
AfterCursor(t, cursor) == (cursor = NoCursor \/ t > cursor) /\ t < End

\* What a provider answers to a range request from f on.
Page(p, f) ==
  LET w == {t \in p.data : f <= t /\ t <= f + p.span}
      rank(t) == Cardinality({u \in w : IF p.newest THEN u > t ELSE u < t})
  IN {t \in w : rank(t) < p.cap}

\* chain_fetch_ohlc_range: the first non-empty page wins, and an empty one only
\* comes back when every provider's was; mute are those that hiccup.
ChainPage(providers, f, mute) ==
  LET full == {i \in 1..Len(providers) : i \notin mute /\ Page(providers[i], f) # {}}
  IN IF full = {} THEN {}
     ELSE Page(providers[CHOOSE i \in full : \A j \in full : i <= j], f)
\* What process_chunk keeps of it.
NewSlots(providers, cursor, mute) ==
  {t \in ChainPage(providers, RequestStart(cursor), mute) : AfterCursor(t, cursor)}

Newest(s) == CHOOSE t \in s : \A u \in s : u <= t

\* Mutant: an empty page leaves the cursor where it is.
StayOnEmpty(cursor, max) == IF max # NoPage THEN max ELSE RequestStart(cursor)
\* next_cursor_for_page on the range path; the chunk is done when it yields End.
NextCursor(cursor, max) ==
  IF max # NoPage THEN max
  ELSE IF RequestStart(cursor) + Skip < End THEN RequestStart(cursor) + Skip ELSE End

-----------------------------------------------------------------------------
Init ==
  /\ chain \in [Coins -> Chains]
  /\ job = {} /\ order = <<>>
  /\ chunk = [c \in Coins |-> AbsentChunk]
  /\ stored = [c \in Coins |-> {}]
  /\ enq = [r \in Replicas |-> NoCoin]
  /\ pc = [r \in Replicas |-> "claim"]
  /\ item = [r \in Replicas |-> NoCoin]
  /\ seen = [r \in Replicas |-> NoCursor]
  /\ outcome = [r \in Replicas |-> Other("transient")]
  /\ faults = 0 /\ skips = 0 /\ hiccups = 0
  /\ genuine = [c \in Coins |-> 0]
  /\ abandoned = [c \in Coins |-> 0]

Write(c, row) == chunk' = [chunk EXCEPT ![c] = row]
Goto(r, step) == pc' = [pc EXCEPT ![r] = step]
Fault         == faults < MaxFaults /\ faults' = faults + 1

-----------------------------------------------------------------------------
(* enqueue_backfill_job, called at startup for every coin: two statements. *)

\* The job's INSERT; ON CONFLICT DO NOTHING returns early for an existing job.
InsertJob(r, c) ==
  /\ enq[r] = NoCoin /\ c \notin job
  /\ job' = job \cup {c}
  /\ enq' = [enq EXCEPT ![r] = c]
  /\ UNCHANGED <<chain, chunk, order, stored, pc, item, seen, outcome, bvars, hvars>>

InsertChunk(r) ==
  /\ enq[r] # NoCoin
  /\ Write(enq[r], INSERT_CHUNK(chunk[enq[r]]))
  /\ order' = Append(order, enq[r])
  /\ enq' = [enq EXCEPT ![r] = NoCoin]
  /\ UNCHANGED <<chain, job, stored, pc, item, seen, outcome, bvars, hvars>>

\* The chunk's INSERT fails or the replica dies; startup goes on without it.
EnqueueFails(r) ==
  /\ enq[r] # NoCoin /\ Fault
  /\ enq' = [enq EXCEPT ![r] = NoCoin]
  /\ UNCHANGED <<tvars, pc, item, seen, outcome, skips, hiccups, hvars>>

-----------------------------------------------------------------------------
(* The worker.                                                             *)

Finalizing(r) == pc[r] \in {"advance", "settle"}
Busy(r)       == pc[r] = "work" \/ Finalizing(r)
Held(c)       == \E r \in Replicas : Busy(r) /\ item[r] = c /\ Fence(c, r)
Locked(c, r)  == \E q \in Replicas \ {r} : Finalizing(q) /\ item[q] = c

\* The lease runs out; under its holder that takes a stalled heartbeat.
LeaseExpires(c) ==
  /\ chunk[c].status = "claimed" /\ chunk[c].lease = "live"
  /\ IF Held(c) THEN Fault ELSE UNCHANGED faults
  /\ Write(c, [chunk[c] EXCEPT !.lease = "expired"])
  /\ UNCHANGED <<chain, job, order, stored, wvars, skips, hiccups, hvars>>

\* claim_backfill_chunk updates the oldest claimable chunk it can lock.
Claims(n, r) ==
  LET c == order[n] IN
  /\ Claimable(c)
  /\ \A m \in 1..(n - 1) : Claimable(order[m]) => Locked(order[m], r)
  /\ Write(c, CLAIM(chunk[c], r))
  /\ abandoned' = [abandoned EXCEPT ![c] = IF chunk[c].status = "claimed" THEN @ + 1 ELSE @]

Claim(r) ==
  /\ pc[r] = "claim"
  /\ \E n \in 1..Len(order) :
       /\ Claims(n, r)
       /\ item' = [item EXCEPT ![r] = order[n]]
       /\ seen' = [seen EXCEPT ![r] = chunk[order[n]].cursor]
  /\ Goto(r, "work")
  /\ UNCHANGED <<chain, job, order, stored, enq, outcome, bvars, genuine>>

\* The claim committed, its answer was lost.
ClaimLost(r) ==
  /\ pc[r] = "claim" /\ Fault
  /\ \E n \in 1..Len(order) : Claims(n, r)
  /\ UNCHANGED <<chain, job, order, stored, wvars, skips, hiccups, genuine>>

Returns(r, o) ==
  /\ outcome' = [outcome EXCEPT ![r] = o]
  /\ Goto(r, IF o.kind = "progress" THEN "advance" ELSE "settle")
  /\ UNCHANGED <<chain, job, chunk, order, enq, item, seen, faults, hvars>>

\* process_chunk got a page from the chain, filtered it and upserted the rest;
\* the upsert is idempotent and not fenced.
Fetch(r) ==
  /\ pc[r] = "work"
  /\ \E mute \in SUBSET (1..Len(chain[item[r]])) :
       /\ hiccups + Cardinality(mute) <= MaxHiccups
       /\ \A i \in mute : Page(chain[item[r]][i], RequestStart(seen[r])) # {}
       /\ hiccups' = hiccups + Cardinality(mute)
       /\ \E new \in {NewSlots(chain[item[r]], seen[r], mute)} :
            /\ stored' = [stored EXCEPT ![item[r]] = @ \cup new]
            /\ Returns(r, Progress(IF new = {} THEN NoPage ELSE Newest(new)))
  /\ UNCHANGED skips

\* The pacer holds the provider back.
SoftSkip(r) ==
  /\ pc[r] = "work" /\ skips < MaxSkips /\ skips' = skips + 1
  /\ Returns(r, Other("soft_skip"))
  /\ UNCHANGED <<stored, hiccups>>

\* A provider or the database fails, or the coin is gone.
Fails(r) ==
  /\ pc[r] = "work"
  /\ \E k \in {"permanent", "transient"} : Returns(r, Other(k))
  /\ UNCHANGED <<stored, skips, hiccups>>

\* finalize, first statement: the cursor.  An error is logged and ignored.
AdvanceCursor(r) ==
  /\ pc[r] = "advance"
  /\ LET c == item[r] IN
     \/ /\ IF Fence(c, r)
           THEN Write(c, ADVANCE_CURSOR(chunk[c], NextCursor(seen[r], outcome[r].max)))
           ELSE UNCHANGED chunk
        /\ UNCHANGED faults
     \/ Fault /\ UNCHANGED chunk
  /\ Goto(r, "settle")
  /\ UNCHANGED <<chain, job, order, stored, enq, item, seen, outcome, skips, hiccups, hvars>>

\* Mutant: an empty page is the end of the walk.
SettlementOnEmpty(r, row) ==
  LET o == outcome[r] IN
  CASE o.kind = "progress" /\ (o.max = NoPage \/ o.max >= End) -> COMPLETE(row)
    [] o.kind = "permanent" -> FAIL_PERMANENT(row)
    [] o.kind = "transient" -> FAIL_OR_RETRY(row)
    [] OTHER                -> RELEASE(row)
\* The statement finalize ends with.
Settlement(r, row) ==
  LET o == outcome[r] IN
  CASE o.kind = "progress" /\ NextCursor(seen[r], o.max) >= End -> COMPLETE(row)
    [] o.kind = "permanent" -> FAIL_PERMANENT(row)
    [] o.kind = "transient" -> FAIL_OR_RETRY(row)
    [] OTHER                -> RELEASE(row)

Settle(r) ==
  /\ pc[r] = "settle"
  /\ LET c == item[r] IN
     \/ /\ IF Fence(c, r)
           THEN /\ Write(c, Settlement(r, chunk[c]))
                /\ genuine' = [genuine EXCEPT ![c] =
                                 IF outcome[r].kind = "transient" THEN @ + 1 ELSE @]
           ELSE UNCHANGED <<chunk, genuine>>
        /\ UNCHANGED faults
     \/ Fault /\ UNCHANGED <<chunk, genuine>>
  /\ Goto(r, "claim")
  /\ item' = [item EXCEPT ![r] = NoCoin]
  /\ UNCHANGED <<chain, job, order, stored, enq, seen, outcome, skips, hiccups, abandoned>>

\* The worker dies and is started again.
Crash(r) ==
  /\ Busy(r) /\ Fault
  /\ Goto(r, "claim")
  /\ item' = [item EXCEPT ![r] = NoCoin]
  /\ UNCHANGED <<tvars, enq, seen, outcome, skips, hiccups, hvars>>

-----------------------------------------------------------------------------
Work(r) == Fetch(r) \/ SoftSkip(r) \/ Fails(r)
Worker(r) == \/ Claim(r) \/ ClaimLost(r) \/ Work(r)
             \/ AdvanceCursor(r) \/ Settle(r) \/ Crash(r)

\* Every job is in, every chunk is settled and nobody works: only time passes.
Quiet == /\ job = Coins /\ \A c \in Coins : ~Live(c)
         /\ \A r \in Replicas : ~Busy(r) /\ enq[r] = NoCoin
         /\ UNCHANGED vars

Next == \/ \E r \in Replicas, c \in Coins : InsertJob(r, c)
        \/ \E r \in Replicas : InsertChunk(r) \/ EnqueueFails(r) \/ Worker(r)
        \/ \E c \in Coins : LeaseExpires(c)
        \/ Quiet

Spec == Init /\ [][Next]_vars

\* The loop runs, a dispatch returns, an orphaned lease runs out.
OrphanExpires(c) == ~Held(c) /\ LeaseExpires(c)
Fairness ==
  /\ \A r \in Replicas : WF_vars(Claim(r)) /\ WF_vars(Work(r))
                         /\ WF_vars(AdvanceCursor(r)) /\ WF_vars(Settle(r))
  /\ \A c \in Coins : WF_vars(OrphanExpires(c))
FairSpec == Spec /\ Fairness

-----------------------------------------------------------------------------
(* Properties.                                                             *)

TypeOK ==
  /\ chain \in [Coins -> Chains]
  /\ job \in SUBSET Coins /\ order \in Seq(Coins)
  /\ chunk \in [Coins -> Chunk]
  /\ stored \in [Coins -> SUBSET Slots]
  /\ enq \in [Replicas -> Coins \cup {NoCoin}]
  /\ pc \in [Replicas -> {"claim", "work", "advance", "settle"}]
  /\ item \in [Replicas -> Coins \cup {NoCoin}]
  /\ seen \in [Replicas -> Cursors]
  /\ outcome \in [Replicas -> Outcomes]
  /\ faults \in Nat /\ skips \in Nat /\ hiccups \in Nat
  /\ genuine \in [Coins -> Nat] /\ abandoned \in [Coins -> Nat]

Holdings(providers) == UNION {providers[i].data : i \in 1..Len(providers)}
Available(c) == Holdings(chain[c])

\* What the providers hold behind the cursor (up to the end, for a done chunk) and
\* the table does not.
Missing(c) ==
  IF chunk[c].cursor = NoCursor THEN {}
  ELSE {t \in Available(c) : t <= chunk[c].cursor} \ stored[c]

\* No history is lost across crashes between the upsert, the cursor and the release,
\* and zombies that walk the same page (REQ-SCHED-024); a provider that answers
\* empty although it has the data costs one skip, and the first slot of the range
\* at most, never the rest of the walk.
CursorSound ==
  \A c \in Coins :
    Cardinality(Missing(c)) <= IF hiccups = 0 THEN 0 ELSE Skip * hiccups + 1

\* The walk never goes back, and a settled chunk keeps its cursor, its owner and
\* its verdict whatever a worker that lost it still does.
NeverBack ==
  [][\A c \in Coins :
       /\ chunk[c].cursor # NoCursor
            => chunk'[c].cursor # NoCursor /\ chunk'[c].cursor >= chunk[c].cursor
       /\ Settled(c) => chunk'[c] = chunk[c]]_vars

\* Pages walked and soft skips are free: attempts is failures plus lost claims
\* plus the claim in progress, however long the walk (SPEC-SCHED-002 F-01).
ClaimOpen(c) == \/ chunk[c].status \in {"claimed", "done"}
                \/ chunk[c].status = "failed" /\ chunk[c].last_error = "permanent"
WalkIsFree ==
  \A c \in Coins : chunk[c].status # "absent" =>
    chunk[c].attempts = genuine[c] + abandoned[c] + (IF ClaimOpen(c) THEN 1 ELSE 0)

\* What a chunk says of itself is right: its columns have their types, and its attempts are
\* those of its failures and lost claims, not of its pages.
ChunksAreSound == TypeOK /\ WalkIsFree

\* Every chunk is eventually done or failed: each page, empty or not, moves the
\* cursor, and the walk reaches the end of the range.
EveryChunkSettles == \A c \in Coins : Live(c) ~> Settled(c)

\* Providers whose answers join: what they hold past a cursor is in the page that answers
\* it or later, and an empty page, if none is mute, tells of a stretch without data.
\* Binance or Bitstamp alone are such, and so is a source behind one that holds nothing
\* (RangeWalk says what is lost with others).
Seamless(providers) ==
  \A cursor \in Cursors, mute \in SUBSET (1..Len(providers)) :
    LET new == NewSlots(providers, cursor, mute) IN
    \A t \in Holdings(providers) : AfterCursor(t, cursor) =>
      \/ t \in new
      \/ new # {} /\ t > Newest(new)
      \/ new = {} /\ (mute # {} \/ t > NextCursor(cursor, NoPage))

-----------------------------------------------------------------------------
(* A chunk is a job of WorkLedger, too: its key is its coin.               *)

Job(c)   == IF Live(c) THEN "open"
            ELSE IF chunk[c].status # "failed" THEN chunk[c].status
            ELSE IF chunk[c].last_error = "transient" THEN "exhausted" ELSE "rejected"
Ledger == INSTANCE WorkLedger WITH
  Jobs <- Coins, Keys <- Coins, NoKey <- NoCoin, job <- [c \in Coins |-> Job(c)],
  key <- [c \in Coins |-> IF chunk[c].status = "absent" THEN NoCoin ELSE c],
  spent <- [c \in Coins |-> genuine[c] + abandoned[c]]

\* Seen from outside, the backfill is the ledger: pages, cursors and takeovers
\* are invisible, and a chunk leaves it once, with one verdict.
RefinesLedger == Ledger!Spec

\* So a chunk is a job with one verdict, and what its walk has behind it stays behind it.
ChunksMoveOn == RefinesLedger /\ NeverBack
=============================================================================
