---------------------------- MODULE CycleOverlay ----------------------------
(***************************************************************************)
(* The halving-cycle overlay (src/collectors/cycle_overlay.rs): a queue    *)
(* item rebuilds the points of one coin from its daily closes, in one      *)
(* transaction, while candles are written, another replica rebuilds the    *)
(* same points, and clients page through them (src/api/cycle_overlay.rs),  *)
(* from the table or, with as_of, from a computation of their own.         *)
(*                                                                         *)
(* An instant is a number, DaySecs of them to a day.  Closes are naturals, *)
(* derived prices and norms are fractions <<numerator, denominator>>.      *)
(***************************************************************************)
EXTENDS Integers, Sequences, FiniteSets, FiniteSetsExt

CONSTANTS
  Workers, Clients,
  Histories,     \* the sets of candles the table may start with
  Upserts,       \* bound: candles written later, each once
  Halvings,      \* halving_dates, as days in ascending order
  NextHalving,   \* the estimated one
  CycleDays,     \* CYCLE_DAYS
  DaySecs,       \* instants to a day
  Path(_, _),    \* the composite model's price for a series and a horizon
  Limit,         \* items to a page
  Asked,         \* projection models that clients ask for
  Cuts,          \* as_of instants that clients send
  Permits,       \* AS_OF_RECOMPUTE_PERMITS
  MaxFaults,     \* bound: crashes, failed statements, lost leases
  Nobody, NoCut, NoKey

ASSUME OverlayAssumption ==
  /\ CycleDays \in Nat \ {0} /\ DaySecs \in Nat \ {0}
  /\ Limit \in Nat \ {0} /\ Permits \in Nat \ {0} /\ MaxFaults \in Nat
  /\ Asked \subseteq {"replay", "composite"}
  /\ Workers \cap Clients = {} /\ Nobody \notin Workers /\ NoCut \notin Cuts
  /\ \A H \in Histories \cup {Upserts} :
       IsFiniteSet(H) /\ \A c \in H : c.ts \in Int /\ c.secs \in Nat \ {0} /\ c.close \in Nat
  /\ Halvings \in Seq(Int) /\ Halvings # <<>> /\ NextHalving \in Int
  /\ \A i \in 1..(Len(Halvings) - 1) : Halvings[i] < Halvings[i + 1]
  /\ Halvings[Len(Halvings)] < NextHalving

VARIABLES
  candles,       \* coin_candles of the coin: [secs, ts, close]
  coming,        \* Upserts not yet written
  rows,          \* cycle_overlay_points: groups [model, series]
  work, owner,   \* the cycle_overlay item and the worker its claim names
  pc,            \* [Workers \cup Clients -> step]
  source,        \* the interval aggregate_daily_from_finer chose
  series,        \* [Workers -> the daily closes it computed from]
  snap, gone, fresh,   \* [Workers -> groups its DELETE saw, deleted, inserted]
  walk,          \* [Clients -> the walk it is on]
  held,          \* clients with a permit
  faults

tables  == <<candles, coming>>
queued  == <<work, owner>>
txs     == <<series, snap, gone, fresh>>
clients == <<walk, held>>
overlayVars == <<tables, rows, queued, pc, source, txs, clients, faults>>

-----------------------------------------------------------------------------
(* Daily closes.                                                           *)

DayOf(ts)  == ts \div DaySecs

\* The composite path is an exponential: a price, for every series that candles can give.
AllCandles == Upserts \cup UNION Histories
ASSUME PathAssumption ==
  \A days \in SUBSET {DayOf(c.ts) : c \in AllCandles} :
    \A s \in [days -> {c.close : c \in AllCandles}], k \in 1..CycleDays : Path(s, k) \in Int \X (Nat \ {0})

NewestOf(cs) == CHOOSE c \in cs : \A d \in cs : d.ts <= c.ts

\* One close a day, the last one of it.
Daily(cs) ==
  [d \in {DayOf(c.ts) : c \in cs} |-> NewestOf({c \in cs : DayOf(c.ts) = d}).close]

Recorded(secs, cut) == {c \in candles : c.secs = secs /\ (cut = NoCut \/ c.ts <= cut)}
Span(secs) == LET ts == {c.ts : c \in Recorded(secs, NoCut)} IN Max(ts) - Min(ts)

\* select_widest_source_interval: the widest coverage, then the coarser interval.
Divisors == {s \in {c.secs : c \in candles} : s < DaySecs /\ DaySecs % s = 0}
Widest ==
  CHOOSE s \in Divisors : \A t \in Divisors :
    Span(t) < Span(s) \/ (Span(t) = Span(s) /\ t <= s)

-----------------------------------------------------------------------------
(* The points.                                                             *)

\* assign_cycle, 0 for a date before the first halving.
CycleOf(day, dates) == Cardinality({i \in 1..Len(dates) : dates[i] <= day})

Times(a, b) == <<a[1] * b[1], a[2] * b[2]>>
Over(a, b)  == <<a[1] * b[2], a[2] * b[1]>>
AtMost(a, b) == a[1] * b[2] <= b[1] * a[2]
Cheapest(prices) == CHOOSE p \in prices : \A q \in prices : AtMost(p, q)
Same(a, b)  == AtMost(a, b) /\ AtMost(b, a)

Before(k, l) == k[1] < l[1] \/ (k[1] = l[1] /\ k[2] < l[2])

\* Where a day falls: <<cycle, days since its halving>>, the primary key within a model.
\* Projected days go by the list with the estimated halving (assign_cycle_in).
Extended == Append(Halvings, NextHalving)
Key(day, dates) == LET c == Max({1, CycleOf(day, dates)}) IN <<c, day - dates[c]>>

Charted(s)    == {d \in DOMAIN s : CycleOf(d, Halvings) > 0}
DaysIn(s, c)  == {d \in DOMAIN s : CycleOf(d, Halvings) = c}

\* OverlayPoint; what follows from the day is in its key.
Point(key, day, price, norm, low, approx, projected) ==
  [at |-> key, day |-> day, price |-> price, norm |-> norm, low |-> low,
   approx |-> approx, projected |-> projected]

\* compute_overlay.
Overlay(s) ==
  {LET c == CycleOf(d, Halvings) IN
     Point(Key(d, Halvings), d, <<s[d], 1>>, <<s[d], s[Min(DaysIn(s, c))]>>,
           <<s[d], Min({s[e] : e \in DaysIn(s, c)})>>, Halvings[c] \notin DOMAIN s, FALSE) :
   d \in Charted(s)}

Today(s) == Max(DOMAIN s)
\* The last close at or before a day.
CloseAt(s, day) == s[Max({d \in DOMAIN s : d <= day})]
DeepEnough(s) == DOMAIN s # {} /\ Today(s) - CycleDays >= Min(DOMAIN s)
Positive(s)   == {d \in DOMAIN s : s[d] > 0}

\* The days ahead that a model projects; the composite one is fitted to the positive
\* closes, of which it takes two.
Horizon(model, s) ==
  IF /\ DeepEnough(s)
     /\ model = "composite" => Today(s) \in Positive(s) /\ Cardinality(Positive(s)) >= 2
  THEN 1..CycleDays ELSE {}

\* project_cycle_repeat: the closes of the last cycle again, scaled to today's.
Replayed(s, k) ==
  LET base == Today(s) - CycleDays IN <<s[Today(s)] * CloseAt(s, base + k), CloseAt(s, base)>>

\* The prices before they are normalised.
Raw(model, s) ==
  {[at |-> Key(Today(s) + k, Extended), day |-> Today(s) + k,
    price |-> IF model = "replay" THEN Replayed(s, k) ELSE Path([d \in Positive(s) |-> s[d]], k)] :
   k \in Horizon(model, s)}

Cycle(points, c) == {p \in points : p.at[1] = c}
\* Mutant: a projected cycle has an anchor of its own.
AnchorOfOwn(raw, real, c) ==
  (CHOOSE p \in Cycle(raw, c) : \A q \in Cycle(raw, c) : p.day <= q.day).price
\* The anchor of a projected cycle: that of its real points, or its first price.
Anchor(raw, real, c) ==
  IF Cycle(real, c) # {} THEN LET p == CHOOSE q \in Cycle(real, c) : TRUE IN Over(p.price, p.norm)
  ELSE (CHOOSE p \in Cycle(raw, c) : \A q \in Cycle(raw, c) : p.day <= q.day).price

\* Projected points share the scale of the real ones of their cycle.
Scaled(raw, real) ==
  {Point(p.at, p.day, p.price, Over(p.price, Anchor(raw, real, p.at[1])),
         Over(p.price, Cheapest({q.price : q \in Cycle(raw, p.at[1])}
                                  \cup {q.price : q \in Cycle(real, p.at[1])})),
         TRUE, TRUE) : p \in raw}

Points(model, s) ==
  IF model = "real" THEN Overlay(s) ELSE Scaled(Raw(model, s), Overlay(s))

\* A division by zero: a close of zero within a cycle, or within the replayed one.
Panics(s) ==
  \/ \E d \in Charted(s) : s[d] = 0
  \/ DeepEnough(s) /\ \E k \in 0..CycleDays : CloseAt(s, Today(s) - CycleDays + k) = 0

\* The three groups of rows, less the empty ones.
Models == <<"real", "replay", "composite">>
Days(g) == IF g.model = "real" THEN Charted(g.series)
           ELSE {Today(g.series) + k : k \in Horizon(g.model, g.series)}
Keys(g) == {Key(d, IF g.model = "real" THEN Halvings ELSE Extended) : d \in Days(g)}
Groups(s)  == {[model |-> Models[n], series |-> s] : n \in 1..3}
Rebuild(s) == {g \in Groups(s) : Days(g) # {}}

-----------------------------------------------------------------------------
NoWalk == [model |-> "none", cut |-> NoCut, cursor |-> NoKey, owed |-> {}]

OverlayInit ==
  /\ candles \in Histories /\ coming = Upserts
  /\ rows = {} /\ work = "none" /\ owner = Nobody
  /\ pc = [p \in Workers \cup Clients |-> "idle"]
  /\ source = [p \in Workers \cup Clients |-> 0]
  /\ series = [w \in Workers |-> <<>>]
  /\ snap = [w \in Workers |-> {}] /\ gone = [w \in Workers |-> {}]
  /\ fresh = [w \in Workers |-> {}]
  /\ walk = [c \in Clients |-> NoWalk] /\ held = {}
  /\ faults = 0

Go(p, step) == pc' = [pc EXCEPT ![p] = step]
Fault == faults < MaxFaults /\ faults' = faults + 1

\* A candle is upserted.
Write ==
  /\ \E c \in coming :
       /\ candles' = {d \in candles : d.secs # c.secs \/ d.ts # c.ts} \cup {c}
       /\ coming' = coming \ {c}
  /\ UNCHANGED <<rows, queued, pc, source, txs, clients, faults>>

-----------------------------------------------------------------------------
(* The item.                                                               *)

\* Mutant: only a coin without points is queued.
EnqueueAnew ==
  /\ work = "none" /\ rows = {} /\ work' = "pending"
  /\ UNCHANGED <<tables, rows, owner, pc, source, txs, clients, faults>>
\* The periodic refresh; a live item absorbs it.
EnqueueCoin ==
  /\ work = "none" /\ work' = "pending"
  /\ UNCHANGED <<tables, rows, owner, pc, source, txs, clients, faults>>

Claim(w) ==
  /\ work = "pending" /\ pc[w] = "idle"
  /\ work' = "claimed" /\ owner' = w /\ Go(w, "native")
  /\ UNCHANGED <<tables, rows, source, txs, clients, faults>>

\* The lease runs out: of a worker that died, or late under one at work.
LeaseLost ==
  /\ work = "claimed" /\ work' = "pending" /\ owner' = Nobody
  /\ IF pc[owner] # "idle" THEN Fault ELSE UNCHANGED faults
  /\ UNCHANGED <<tables, rows, pc, source, txs, clients>>

\* finalize of the queue worker, fenced by the claim.
Settle(w, next) ==
  IF owner = w THEN work' = next /\ owner' = Nobody ELSE UNCHANGED queued

-----------------------------------------------------------------------------
(* load_daily_series, for the recompute and for as_of: three statements.   *)

CutOf(p) == IF p \in Clients THEN walk[p].cut ELSE NoCut

Owed(c, page, more) == [walk EXCEPT ![c] =
  [model |-> @.model, cut |-> @.cut, owed |-> @.owed \ {p.at : p \in page},
   cursor |-> IF more THEN (CHOOSE p \in page : \A q \in page : ~Before(p.at, q.at)).at ELSE NoKey]]

\* Mutant: the cursor is compared by its cycle alone.
PastCycle(points, key) == {p \in points : key = NoKey \/ p.at[1] > key[1]}
\* The points after a cursor.
Past(points, key) == {p \in points : key = NoKey \/ Before(key, p.at)}
\* The first Limit of them.
FirstOf(points) ==
  {p \in points : Cardinality({q \in points : Before(q.at, p.at)}) < Limit}

\* One page of a walk over points: ORDER BY the key, LIMIT + 1, paginate.
Page(c, points) ==
  \E rest \in {Past(points, walk[c].cursor)} : \E page \in {FirstOf(rest)} :
    /\ walk' = Owed(c, page, page # rest)
    /\ Go(c, IF page # rest THEN "asked" ELSE "idle")

\* The permit is dropped with the future that holds it.
Release(c, answered) == held' = held \ {c}

\* The series is there; what is computed from it takes no await.
Loaded(p, s) ==
  /\ UNCHANGED <<tables, rows, snap, gone, fresh, queued, faults>>
  /\ IF p \in Workers
     THEN /\ UNCHANGED clients
          /\ IF Panics(s) THEN Go(p, "idle") /\ UNCHANGED series
             ELSE Go(p, "delete") /\ series' = [series EXCEPT ![p] = s]
     ELSE /\ UNCHANGED series /\ Release(p, ~Panics(s))
          /\ IF Panics(s)
             THEN walk' = [walk EXCEPT ![p] = NoWalk] /\ Go(p, "idle")
             ELSE \E shown \in {Points("real", s) \cup Points(walk[p].model, s)} : Page(p, shown)

ReadNative(p) ==
  /\ pc[p] = "native" /\ UNCHANGED source
  /\ \E native \in {Recorded(DaySecs, CutOf(p))} :
       IF native # {} THEN Loaded(p, Daily(native))
       ELSE /\ Go(p, "coverage")
            /\ UNCHANGED <<tables, rows, queued, txs, clients, faults>>

ReadCoverage(p) ==
  /\ pc[p] = "coverage"
  /\ IF Divisors = {} THEN UNCHANGED source /\ Loaded(p, <<>>)
     ELSE /\ source' = [source EXCEPT ![p] = Widest] /\ Go(p, "finer")
          /\ UNCHANGED <<tables, rows, queued, txs, clients, faults>>

ReadFiner(p) ==
  /\ pc[p] = "finer" /\ source' = [source EXCEPT ![p] = 0]
  /\ \E fine \in {Recorded(source[p], CutOf(p))} : Loaded(p, Daily(fine))

-----------------------------------------------------------------------------
(* recompute_cycle_overlay: DELETE and three INSERTs in one transaction,   *)
(* READ COMMITTED.                                                         *)

Inserting == {"insert_real", "insert_replay", "insert_composite"}
StepOf    == <<"insert_real", "insert_replay", "insert_composite", "commit">>
Others(w) == Workers \ {w}

\* What the DELETE covers: all models of the coin.
Seen(w) == rows

\* The DELETE sees what is committed when it begins ...
Delete(w) ==
  /\ pc[w] = "delete" /\ snap' = [snap EXCEPT ![w] = Seen(w)] /\ Go(w, "lock")
  /\ UNCHANGED <<tables, rows, queued, source, series, gone, fresh, clients, faults>>

\* ... and waits for the locks of another transaction's DELETE; what that one removed
\* is gone, what it inserted the statement does not see.
Lock(w) ==
  /\ pc[w] = "lock" /\ \A v \in Others(w) : gone[v] \cap snap[w] = {}
  /\ gone' = [gone EXCEPT ![w] = snap[w]] /\ snap' = [snap EXCEPT ![w] = {}]
  /\ Go(w, "insert_real")
  /\ UNCHANGED <<tables, rows, queued, source, series, fresh, clients, faults>>

\* Two groups with a primary key in common.
Clash(g, h) == g.model = h.model /\ Keys(g) \cap Keys(h) # {}

RolledBack(w) ==
  /\ gone' = [gone EXCEPT ![w] = {}] /\ fresh' = [fresh EXCEPT ![w] = {}]
  /\ snap' = [snap EXCEPT ![w] = {}] /\ series' = [series EXCEPT ![w] = <<>>]
  /\ Go(w, "idle")

\* An INSERT: it waits where another open transaction deleted or inserted its keys,
\* and fails where a committed row has them.
Insert(w) ==
  \E n \in {i \in 1..3 : pc[w] = StepOf[i]} :
  \E g \in {[model |-> Models[n], series |-> series[w]]} :
    /\ \A v \in Others(w) : \A h \in gone[v] \cup fresh[v] : ~Clash(g, h)
    /\ IF \E h \in rows \ gone[w] : Clash(g, h)
       THEN RolledBack(w) /\ (\E next \in {"pending", "none"} : Settle(w, next))
       ELSE /\ fresh' = [fresh EXCEPT ![w] = @ \cup ({g} \cap Rebuild(series[w]))]
            /\ Go(w, StepOf[n + 1]) /\ UNCHANGED <<queued, series, snap, gone>>
    /\ UNCHANGED <<tables, rows, source, clients, faults>>

\* A client is owed the real points that stood all through its walk.
Standing(g) == IF g.model = "real" THEN Keys(g) ELSE {}
OwedStill(table) ==
  [c \in Clients |-> IF walk[c].cut = NoCut
     THEN [walk[c] EXCEPT !.owed = @ \cap UNION {Standing(g) : g \in table}] ELSE walk[c]]

Commit(w) ==
  /\ pc[w] = "commit"
  /\ rows' = (rows \ gone[w]) \cup fresh[w]
  /\ walk' = OwedStill(rows')
  /\ snap' = [v \in Workers |-> snap[v] \ gone[w]]
  /\ gone' = [gone EXCEPT ![w] = {}] /\ fresh' = [fresh EXCEPT ![w] = {}]
  /\ series' = [series EXCEPT ![w] = <<>>]
  /\ Go(w, "idle") /\ Settle(w, "none")
  /\ UNCHANGED <<tables, source, held, faults>>

\* A statement fails.
Fails(w) ==
  /\ pc[w] # "idle" /\ Fault /\ RolledBack(w)
  /\ source' = [source EXCEPT ![w] = 0]
  /\ \E next \in {"pending", "none"} : Settle(w, next)
  /\ UNCHANGED <<tables, rows, clients>>

\* The process ends; the database rolls back, the claim stands.
Dies(w) ==
  /\ pc[w] # "idle" /\ Fault /\ RolledBack(w)
  /\ source' = [source EXCEPT ![w] = 0]
  /\ UNCHANGED <<tables, rows, queued, clients>>

-----------------------------------------------------------------------------
(* list_overlay_for_model: a client follows next_cursor.                   *)

Ask(c) ==
  /\ pc[c] = "idle"
  /\ \E m \in Asked, cut \in Cuts \cup {NoCut} :
       walk' = [walk EXCEPT ![c] = [model |-> m, cut |-> cut, cursor |-> NoKey,
         owed |-> IF cut = NoCut THEN UNION {Standing(g) : g \in rows} ELSE {}]]
  /\ Go(c, "asked")
  /\ UNCHANGED <<tables, rows, queued, source, txs, held, faults>>

\* Without as_of: one SELECT over 'real' and the model.
TablePage(c) ==
  /\ pc[c] = "asked" /\ walk[c].cut = NoCut
  /\ \E shown \in {UNION {Points(g.model, g.series) :
                        g \in {h \in rows : h.model \in {"real", walk[c].model}}}} :
       Page(c, shown)
  /\ UNCHANGED <<tables, rows, queued, source, txs, held, faults>>

\* compute_as_of_page: a permit, then the series.
Acquire(c) ==
  /\ pc[c] = "asked" /\ walk[c].cut # NoCut /\ Cardinality(held) < Permits
  /\ held' = held \cup {c} /\ Go(c, "native")
  /\ UNCHANGED <<tables, rows, queued, source, txs, walk, faults>>

\* A query fails, or the client is gone.
BreakOff(c) ==
  /\ pc[c] # "idle" /\ Fault /\ Release(c, FALSE) /\ Go(c, "idle")
  /\ source' = [source EXCEPT ![c] = 0]
  /\ walk' = [walk EXCEPT ![c] = NoWalk]
  /\ UNCHANGED <<tables, rows, queued, txs>>

-----------------------------------------------------------------------------
Load(p)    == ReadNative(p) \/ ReadCoverage(p) \/ ReadFiner(p)
Rebuilds(w) == Load(w) \/ Delete(w) \/ Lock(w) \/ Insert(w) \/ Commit(w)
Reads(c)   == TablePage(c) \/ Load(c)

OverlayNext ==
  \/ Write \/ EnqueueCoin \/ LeaseLost
  \/ \E w \in Workers : Claim(w) \/ Rebuilds(w) \/ Fails(w) \/ Dies(w)
  \/ \E c \in Clients : Ask(c) \/ Acquire(c) \/ Reads(c) \/ BreakOff(c)

OverlaySpec == OverlayInit /\ [][OverlayNext]_overlayVars

\* The refresh ticks, a free worker claims, statements return, a dead worker's lease runs
\* out; the semaphore is fair.  Nothing says that a client asks.
OrphanLost == owner # Nobody /\ pc[owner] = "idle" /\ LeaseLost
OverlayFairSpec ==
  /\ OverlaySpec /\ WF_overlayVars(EnqueueCoin) /\ WF_overlayVars(OrphanLost)
  /\ WF_overlayVars(\E w \in Workers : Claim(w))
  /\ WF_overlayVars(\E w \in Workers : Rebuilds(w))
  /\ \A c \in Clients : WF_overlayVars(Reads(c)) /\ SF_overlayVars(Acquire(c))

-----------------------------------------------------------------------------
(* Properties.                                                             *)

OverlaySteps == {"idle", "asked", "native", "coverage", "finer", "delete", "lock", "commit"} \cup Inserting

\* The type of the state.
OverlayTypeOK ==
  /\ coming \subseteq Upserts /\ work \in {"none", "pending", "claimed"}
  /\ owner \in Workers \cup {Nobody} /\ (owner # Nobody <=> work = "claimed")
  /\ pc \in [Workers \cup Clients -> OverlaySteps]
  /\ \A p \in Workers \cup Clients : source[p] > 0 <=> pc[p] = "finer"
  /\ \A c \in Clients : c \in held <=> pc[c] \in {"native", "coverage", "finer"}
  /\ Cardinality(held) <= Permits /\ faults \in 0..MaxFaults

\* What a reader can see is one recompute's work as a whole, whatever two replicas that
\* rebuild the same points do to each other (REQ-CYCLE-042) -- except where the first
\* candle of a native day replaced the whole series and the two chart no day in common:
\* then no primary key stops the second.
OneRebuild ==
  \A g, h \in rows :
    /\ {f \in rows : f.series = g.series} = Rebuild(g.series)
    /\ g.series = h.series \/ Charted(g.series) \cap Charted(h.series) = {}

\* The points of the table that one series gave.
GivenBy(s) == UNION {Points(g.model, s) : g \in {h \in rows : h.series = s}}

\* The order of the keys is the order of the days, real points first, and no key stands
\* for two days: what the cursor of a walk over real and projected points rests on.
KeysFollowDays ==
  \A s \in {g.series : g \in rows} : \A p, q \in GivenBy(s) :
    /\ p.day < q.day => Before(p.at, q.at)
    /\ ~p.projected /\ q.projected => p.day < q.day

\* Within a cycle the points, projected ones included, are on one scale: the anchor of
\* the real points is the unit of all, and nothing lies below the low.
OneScale ==
  \A s \in {g.series : g \in rows} : \A p, q \in GivenBy(s) : p.at[1] = q.at[1] =>
    /\ ~p.projected => Same(Times(p.price, q.norm), Times(q.price, p.norm))
    /\ q.low[1] >= q.low[2]

\* The points of a coin fit together: they are of one rebuild, their keys have the order of
\* their days, and their prices the scale of their cycle (recompute_cycle_overlay).
PointsFit == OverlayTypeOK /\ OneRebuild /\ KeysFollowDays /\ OneScale

\* A page walk passes over no real point that stood all through it, across the rebuilds
\* and candles that come in between.
NothingPassedOver ==
  \A c \in Clients :
    /\ pc[c] = "idle" => walk[c].owed = {}
    /\ walk[c].cursor # NoKey => \A k \in walk[c].owed : Before(walk[c].cursor, k)

SeriesNow ==
  LET native == Recorded(DaySecs, NoCut) IN
  IF native # {} THEN Daily(native)
  ELSE IF Divisors = {} THEN <<>> ELSE Daily(Recorded(Widest, NoCut))

\* Once the candles stand still, and no close among them is zero, the table comes to
\* show them and stays so: no stale rebuild has the last word.
CatchesUp == <>[](Panics(SeriesNow) \/ rows = Rebuild(SeriesNow))

\* Every request is answered or broken off, if others failed before it (REQ-API-412).
WalksEnd == \A c \in Clients : pc[c] # "idle" ~> pc[c] = "idle"

\* The overlay comes to show the candles, and every request for it is answered or broken
\* off, whoever else fails.
Progress == CatchesUp /\ WalksEnd
=============================================================================
