----------------------------- MODULE LivePoller -----------------------------
(***************************************************************************)
(* The live-quote poller (src/collectors/live_poller.rs): every replica    *)
(* claims batches of due coins by putting a self-expiring marker on their  *)
(* rows, fetches outside any transaction, and then writes the cursor       *)
(* last_polled_at or the marker back.  Those writes name the coin and not  *)
(* the claim, so whoever still works on a coin can write it.               *)
(*                                                                         *)
(* Instants are distances from now: age is now - last_collected_at, kept   *)
(* up to Oldest, and until is what is left of live_poll_claimed_until, 0   *)
(* once it has passed or is NULL.  The coins whose last_polled_at is not   *)
(* NULL are the elements of order, least recently polled first; for them   *)
(* last_polled_at is last_collected_at, since the poller alone writes both.*)
(***************************************************************************)
EXTENDS Integers, FiniteSets, Sequences

CONSTANTS
  Replicas, Retiring,  \* the replicas, and those that may get SIGTERM
  Coins, Served,       \* coins, and those some provider has a quote for
  NoCoin,
  Interval,            \* live_poll_interval, of every coin
  ClaimTtl,            \* LIVE_POLL_CLAIM_TTL_SECS
  Widened,             \* LIVE_POLL_MAX_INTERVAL_SECS, the deferral
  BatchLimit,          \* LIVE_POLL_CLAIM_BATCH_LIMIT
  StaleAfter,          \* ALARM_COINS_STALLED staleness
  MaxUpsets            \* bound: crashes, panics, failed statements, shutdowns, fetches
                       \* of a served coin that fail, requests other than Resume

Oldest == StaleAfter + 1

ASSUME PollerAssumption ==
  /\ Retiring \subseteq Replicas /\ Served \subseteq Coins /\ NoCoin \notin Coins
  /\ Interval \in Nat /\ StaleAfter \in Nat /\ Interval <= StaleAfter
  /\ ClaimTtl \in Nat \ {0} /\ Widened \in Nat \ {0} /\ BatchLimit \in Nat \ {0}
  /\ MaxUpsets \in Nat
  /\ IsFiniteSet(Coins)

VARIABLES
  paused,  \* coins whose status is not active
  age, until, order,   \* the cursor and marker columns of tracked_coins
  pc,      \* [Replicas -> step of run_live_poller and poll_cycle]
  batch,   \* [Replicas -> coins of the claimed batch still to do]
  coin,    \* [Replicas -> coin in hand]
  stop,    \* replicas whose shutdown channel is set
  lapsed,  \* history: coins held by a worker whose marker went while it held them
  upsets   \* budget used

rows    == <<paused, age, until, order>>
workers == <<pc, batch, coin, stop>>
vars    == <<rows, workers, lapsed, upsets>>

Steps == {"idle", "next", "fetch", "stopped"}

Goto(r, step) == pc' = [pc EXCEPT ![r] = step]
Upset         == upsets < MaxUpsets /\ upsets' = upsets + 1
\* Mutant: the markers do not expire.
Standing(t)   == t
Elapse(t)     == IF t > 0 THEN t - 1 ELSE 0

Polled       == {order[n] : n \in 1..Len(order)}     \* last_polled_at IS NOT NULL
Without(c)   == SelectSeq(order, LAMBDA d : d # c)
Holds(r, c)  == c \in batch[r] \/ coin[r] = c
Held(c)      == \E r \in Replicas : Holds(r, c)

\* The markers of the coins in gone went; a lapse is over when nobody holds the coin.
Lapse(gone) == lapsed' = {c \in lapsed \cup gone : Held(c)'}

-----------------------------------------------------------------------------
(* The claim: LIVE_COIN_CLAIM_SQL, one statement and a commit.             *)

\* Mutant: only the cadence is looked at.
CadenceOnly(c) == c \notin paused /\ (c \notin Polled \/ age[c] >= Interval)
Due(c) == c \notin paused /\ (c \notin Polled \/ age[c] >= Interval) /\ until[c] = 0

\* ORDER BY last_polled_at ASC NULLS FIRST; NULLs tie.
Before(c, d) ==
  /\ d \in Polled
  /\ c \in Polled => \E m, n \in 1..Len(order) : m < n /\ order[m] = c /\ order[n] = d

\* LIMIT: the batches the statement may return.
Batches ==
  LET due == {c \in Coins : Due(c)} IN
  {S \in SUBSET due :
     /\ Cardinality(S) = IF Cardinality(due) < BatchLimit THEN Cardinality(due) ELSE BatchLimit
     /\ \A c \in S, d \in due \ S : ~Before(d, c)}

-----------------------------------------------------------------------------
Init ==
  /\ paused = {}
  /\ order \in {s \in UNION {[1..n -> Coins] : n \in {0, Cardinality(Coins)}} :
                  \A m, n \in DOMAIN s : m # n => s[m] # s[n]}
  /\ age = [c \in Coins |-> IF c \in Polled THEN 0 ELSE Oldest]
  /\ until = [c \in Coins |-> 0]
  /\ pc = [r \in Replicas |-> "idle"]
  /\ batch = [r \in Replicas |-> {}]
  /\ coin = [r \in Replicas |-> NoCoin]
  /\ stop = {} /\ lapsed = {}
  /\ upsets = 0

\* A tick of the interval.  select! may prefer it to a shutdown already signalled.
Claim(r) ==
  /\ pc[r] = "idle"
  /\ \E S \in Batches \ {{}} :
       /\ batch' = [batch EXCEPT ![r] = S]
       /\ until' = [c \in Coins |-> IF c \in S THEN ClaimTtl ELSE until[c]]
  /\ Goto(r, "next")
  /\ UNCHANGED <<paused, age, order, coin, stop, lapsed, upsets>>

\* The claim committed, its answer was lost: nobody works on the batch.
ClaimLost(r) ==
  /\ pc[r] = "idle" /\ Upset
  /\ \E S \in Batches \ {{}} : until' = [c \in Coins |-> IF c \in S THEN ClaimTtl ELSE until[c]]
  /\ UNCHANGED <<paused, age, order, workers, lapsed>>

\* The head of the loop over the batch.
NextCoin(r) ==
  /\ pc[r] = "next" /\ r \notin stop
  /\ \E c \in batch[r] :
       /\ coin' = [coin EXCEPT ![r] = c]
       /\ batch' = [batch EXCEPT ![r] = @ \ {c}]
  /\ Goto(r, "fetch")
  /\ UNCHANGED <<rows, stop, lapsed, upsets>>

\* The batch is done, or a shutdown drops the rest of it with its markers.
EndBatch(r) ==
  /\ pc[r] = "next" /\ (batch[r] = {} \/ r \in stop)
  /\ batch' = [batch EXCEPT ![r] = {}]
  /\ Goto(r, "idle")
  /\ UNCHANGED <<rows, coin, stop, upsets>>
  /\ Lapse({})

Stop(r) ==
  /\ pc[r] = "idle" /\ r \in stop
  /\ Goto(r, "stopped")
  /\ UNCHANGED <<rows, batch, coin, stop, lapsed, upsets>>

-----------------------------------------------------------------------------
(* One coin: chain_try, the upsert of its quote and the statement on its   *)
(* row.  All three end here in one step: the worker reads and writes       *)
(* nothing of the row before, while time and the others go on under it.    *)

\* The three statements.
mark_coin_poll_success(c) ==
  /\ age' = [age EXCEPT ![c] = 0]
  /\ until' = [until EXCEPT ![c] = 0]
  /\ order' = Append(Without(c), c)
clear_coin_poll_marker(c) == until' = [until EXCEPT ![c] = 0] /\ UNCHANGED <<age, order>>
defer_coin_poll(c) == until' = [until EXCEPT ![c] = Widened] /\ UNCHANGED <<age, order>>

Done(r) ==
  /\ pc[r] = "fetch"
  /\ coin' = [coin EXCEPT ![r] = NoCoin]
  /\ Goto(r, "next")
  /\ UNCHANGED <<paused, batch, stop>>
  /\ Lapse({})

\* A quote came and was stored: LIVE_COIN_SUCCESS_SQL.
Mark(r) ==
  /\ coin[r] \in Served
  /\ mark_coin_poll_success(coin[r])
  /\ Done(r)
  /\ UNCHANGED upsets

\* That no quote came is an upset for a coin some provider serves.
NoQuote(r) == IF coin[r] \in Served THEN Upset ELSE UNCHANGED upsets

\* A transient error, a pacer error or a failed upsert: LIVE_COIN_FAILURE_CLEAR_SQL.
Clear(r) ==
  /\ clear_coin_poll_marker(coin[r])
  /\ Done(r)
  /\ NoQuote(r)

\* A permanent error, or no capable provider: LIVE_COIN_DEFER_SQL.
Defer(r) ==
  /\ defer_coin_poll(coin[r])
  /\ Done(r)
  /\ NoQuote(r)

\* Any of the three statements fails; the marker stays until it expires.
WriteFails(r) ==
  /\ Upset
  /\ Done(r)
  /\ UNCHANGED <<age, until, order>>

Worker(r) ==
  \/ Claim(r) \/ NextCoin(r) \/ EndBatch(r) \/ Stop(r)
  \/ Mark(r) \/ Clear(r) \/ Defer(r)

-----------------------------------------------------------------------------
(* Everything else.                                                        *)

\* A panic or a dead process; supervision starts the loop again.
Crash(r) ==
  /\ pc[r] \notin {"idle", "stopped"} /\ Upset
  /\ batch' = [batch EXCEPT ![r] = {}]
  /\ coin' = [coin EXCEPT ![r] = NoCoin]
  /\ Goto(r, "idle")
  /\ Lapse({})
  /\ UNCHANGED <<rows, stop>>

Shutdown(r) ==
  /\ r \in Retiring \ stop /\ Upset
  /\ stop' = stop \cup {r}
  /\ UNCHANGED <<rows, pc, batch, coin, lapsed>>

\* DELETE, or PATCH with another status.
Pause(c) ==
  /\ c \notin paused /\ Upset
  /\ paused' = paused \cup {c}
  /\ UNCHANGED <<age, until, order, workers, lapsed>>

\* PATCH with status active.
Resume(c) ==
  /\ c \in paused
  /\ paused' = paused \ {c}
  /\ UNCHANGED <<age, until, order, workers, lapsed, upsets>>

\* PATCH of live_poll_interval resets the cursor and takes the marker away.
ResetInterval(c) ==
  /\ Upset
  /\ order' = Without(c)
  /\ until' = [until EXCEPT ![c] = 0]
  /\ UNCHANGED <<paused, age, workers>>
  /\ Lapse({c})

Tick ==
  /\ age' = [c \in Coins |-> IF age[c] < Oldest THEN age[c] + 1 ELSE Oldest]
  /\ until' = [c \in Coins |-> Elapse(until[c])]
  /\ UNCHANGED <<paused, order, workers, upsets>>
  /\ Lapse({c \in Coins : until[c] > 0 /\ until'[c] = 0})

Next ==
  \/ \E r \in Replicas : Worker(r) \/ ClaimLost(r) \/ WriteFails(r) \/ Crash(r) \/ Shutdown(r)
  \/ \E c \in Coins : Pause(c) \/ Resume(c) \/ ResetInterval(c)
  \/ Tick

Spec == Init /\ [][Next]_vars

\* A claim in hand goes on, since the fetch is under a timeout and so are the
\* statements; select! picks at random among ready branches, so a signalled
\* shutdown is not passed over for ever.
FairSpec ==
  /\ Spec /\ WF_vars(Tick)
  /\ \A r \in Replicas : WF_vars(Worker(r)) /\ SF_vars(Stop(r))

-----------------------------------------------------------------------------
(* Properties.                                                             *)

\* The type of the state.
TypeOK ==
  /\ paused \subseteq Coins /\ lapsed \subseteq Coins /\ stop \subseteq Retiring
  /\ age \in [Coins -> 0..Oldest]
  /\ until \in [Coins -> Nat]
  /\ order \in Seq(Coins)
  /\ pc \in [Replicas -> Steps]
  /\ batch \in [Replicas -> SUBSET Coins]
  /\ coin \in [Replicas -> Coins \cup {NoCoin}]
  /\ upsets \in 0..MaxUpsets

\* The marker is the replicas' only mutual exclusion on a coin: two of them
\* work on one coin only after a claim outlived its marker or an operator took
\* it away, whatever late writes of other claims did to the marker.
SoleUnlessLapsed ==
  \A c \in Coins, r, q \in Replicas : r # q /\ Holds(r, c) /\ Holds(q, c) => c \in lapsed

\* No coin a provider serves is forgotten: through crashes, batches dropped by
\* a shutdown, lost claims and writes, deferrals and fewer coins than a batch
\* holds that never answer, it is polled again and again while it is active.
CoinsStayPolled ==
  \A c \in Served : []<>(c \in paused \/ (c \in Polled /\ age[c] = 0))

\* coins_stalled_count: COALESCE(last_polled_at, last_collected_at, 'epoch').
Stalled(c) == c \notin paused /\ age[c] > StaleAfter

\* A coin nobody serves ends up counted as stalled and stays so, however often
\* it is claimed, deferred or reset: no failure path moves the cursor.
StuckIsVisible ==
  \A c \in Coins \ Served : <>[](c \in paused \/ Stalled(c))

\* No coin drops out of sight: one that is served is polled for ever, one that is not shows
\* as stalled (poll_cycle, coins_stalled_count); the state keeps its type meanwhile.
EveryCoinIsTended == []TypeOK /\ CoinsStayPolled /\ StuckIsVisible
=============================================================================
