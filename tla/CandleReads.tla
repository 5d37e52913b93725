---------------------------- MODULE CandleReads ----------------------------
(***************************************************************************)
(* GET /v1/coins/{id}/candles (src/api/candles.rs) followed by a client    *)
(* from the first page to a null next_cursor, while candles are written.   *)
(*                                                                         *)
(* A page is several statements without a transaction: is there a native   *)
(* row of the interval; if not, what spans do the finer series cover; then *)
(* the rows.  Instants are slots; a bucket of the target is Target of them *)
(* and is named by its first.                                              *)
(***************************************************************************)
EXTENDS Integers, FiniteSets, FiniteSetsExt

CONSTANTS
  LastSlot,       \* bound: the last slot of time
  Target,         \* slots of a bucket: target_secs
  Sources,        \* the finer intervals, by their slots
  Limit,          \* of a page
  MaxSourceRows,  \* MAX_SOURCE_ROWS
  Windows,        \* [start, end] of requests, or Unbounded for either
  Unbounded,
  Histories,      \* [Sources -> slots]: the candles at the first request
  MaxWrites       \* bound: candles written while the walk is on

ASSUME ReadsAssumption ==
  /\ {LastSlot, Target, Limit, MaxSourceRows, MaxWrites} \subseteq Nat
  /\ LastSlot > 0 /\ Target > 0 /\ Limit > 0
  /\ \A s \in Sources : s \in 1..(Target - 1) /\ Target % s = 0
  /\ \A w \in Windows : {w.start, w.end} \subseteq Int \cup {Unbounded}
  /\ \A h \in Histories : /\ h \in [Sources -> SUBSET (0..LastSlot)]
                          /\ \A s \in Sources : \A t \in h[s] : t % s = 0

\* A bucket, and a row more, fits into the cap on source rows (10,080 into 50,000).
ASSUME CapAssumption == MaxSourceRows > Target

VARIABLES
  series,   \* [Sources -> slots that have a candle]
  native,   \* buckets with a row of the target interval
  now,      \* the slot of the wall clock
  window,   \* the request's
  pc,       \* "probe", "cover", "fold", "native": the statement that is next
  source,   \* the interval select_source_interval chose, 0 before
  clock,    \* now, as captured before the choice
  cursor,   \* below it; LastSlot + 1 without
  page,     \* the items of the last page
  given,    \* buckets the client has been given
  done,     \* next_cursor was null
  whole,    \* history: [Sources -> closed buckets complete at the first request]
  standing, \* history: native rows there since the first request
  paths,    \* history: the series pages were read from; Target for native
  skipped,  \* history: buckets behind a cursor that was not that of an item
  cut,      \* history: a bucket was folded from a part of its rows
  writes    \* budget used

store   == <<series, native, now>>
history == <<whole, standing>>
readsVars == <<store, window, pc, source, clock, cursor, page, given, done, history, paths, skipped, cut, writes>>

Bucket(t) == t - (t % Target)
Buckets   == {Bucket(t) : t \in 0..LastSlot}
Slots(b)  == b..(b + Target - 1)
Closed(b, t) == b + Target <= t
Has(b, S, s) == Cardinality(Slots(b) \cap S) >= Target \div s

WindowStart  == IF window.start = Unbounded THEN 0 ELSE window.start
WindowEnd    == IF window.end = Unbounded THEN LastSlot ELSE window.end
InWindow(b) == WindowStart <= b /\ b <= WindowEnd

\* The k largest of S.
Newest(k, S) == {x \in S : Cardinality({y \in S : y > x}) < k}

Null == [items |-> {}, more |-> FALSE, next |-> 0]

\* paginate: limit + 1 were asked for.
Paginate(S) ==
  IF Cardinality(S) > Limit
  THEN [items |-> Newest(Limit, S), more |-> TRUE, next |-> Min(Newest(Limit, S))]
  ELSE [items |-> S, more |-> FALSE, next |-> 0]

-----------------------------------------------------------------------------
(* The choice of the source.                                               *)

Stored == {s \in Sources : series[s] # {}}

\* The older end of what is asked for.
Floor ==
  IF window.start # Unbounded THEN window.start ELSE Min({Min(series[s]) : s \in Stored})

\* How much of [floor, now] the series does not reach.
Miss(s) == Max({Min(series[s]) - Floor, 0}) + Max({now - Max(series[s]), 0})

\* select_source_interval; 0 when no stored interval divides the target.
SelectSource ==
  IF Stored = {} THEN 0
  ELSE CHOOSE s \in Stored : \A r \in Stored :
         Miss(s) < Miss(r) \/ (Miss(s) = Miss(r) /\ s >= r)

-----------------------------------------------------------------------------
(* The pages.                                                              *)

RowCap(s) == Min({(Limit + 1) * (Target \div s), MaxSourceRows})

\* The upper margin of one bucket.
SourceEnd == WindowEnd + Target
\* The lower margin of one bucket.
SourceStart == WindowStart - Target

\* Mutant: the cursor's own row is read again.
BelowOrAt(t) == t <= cursor
\* ts < cursor.
Below(t) == t < cursor

RowsRead(s) ==
  Newest(RowCap(s), {t \in series[s] : Below(t) /\ t >= SourceStart /\ t < SourceEnd})

\* aggregate_candles: a closed bucket must be complete, one still forming need not.
Fold(R, s) == {b \in {Bucket(t) : t \in R} : Closed(b, clock) => Has(b, R, s)}

\* Mutant: a page is followed by another only if it is full.
FoldedIsLast(R, s) == Paginate({b \in Fold(R, s) : InWindow(b)})
\* The page folded from R: a full read goes on behind its oldest bucket.
FoldedPage(R, s) ==
  LET agg == {b \in Fold(R, s) : InWindow(b)}
  IN IF Cardinality(R) >= RowCap(s) /\ Cardinality(agg) <= Limit
     THEN [items |-> agg, more |-> TRUE,
           next |-> IF agg # {} THEN Min(agg) ELSE Bucket(Min(R))]
     ELSE Paginate(agg)

Give(p) ==
  /\ page' = p.items /\ given' = given \cup p.items
  /\ done' = ~p.more
  /\ cursor' = IF p.more THEN p.next ELSE cursor
  /\ skipped' = IF p.more /\ p.items = {} THEN skipped \cup {p.next} ELSE skipped

-----------------------------------------------------------------------------
ReadsInit ==
  /\ series \in Histories /\ native = {} /\ now \in {LastSlot - 1, LastSlot}
  /\ window \in Windows
  /\ pc = "probe" /\ source = 0 /\ clock = 0
  /\ cursor = LastSlot + 1 /\ page = {} /\ given = {} /\ done = FALSE
  /\ whole = [s \in Sources |-> {b \in Buckets : Closed(b, now) /\ Has(b, series[s], s)}]
  /\ standing = {} /\ paths = {} /\ skipped = {} /\ cut = FALSE /\ writes = 0

\* The EXISTS probe, over the whole interval and not over the page.
ProbeNative ==
  /\ ~done /\ pc = "probe"
  /\ pc' = IF native # {} THEN "native" ELSE "cover"
  /\ standing' = IF cursor > LastSlot THEN native ELSE standing
  /\ UNCHANGED <<store, window, source, clock, cursor, page, given, done, whole, paths, skipped, cut, writes>>

NativePage ==
  /\ pc = "native" /\ pc' = "probe"
  /\ \E p \in {Paginate(Newest(Limit + 1, {b \in native : Below(b) /\ InWindow(b)}))} : Give(p)
  /\ paths' = paths \cup {Target}
  /\ UNCHANGED <<store, window, source, clock, history, cut, writes>>

\* interval_coverage and select_source_interval.
Cover ==
  /\ pc = "cover"
  /\ clock' = now /\ source' = SelectSource
  /\ IF SelectSource = 0
     THEN pc' = "probe" /\ Give(Null)
     ELSE pc' = "fold" /\ UNCHANGED <<cursor, page, given, done, skipped>>
  /\ UNCHANGED <<store, window, history, paths, cut, writes>>

FoldPage ==
  /\ pc = "fold" /\ pc' = "probe"
  /\ \E R \in {RowsRead(source)} : \E p \in {FoldedPage(R, source)} :
       /\ Give(p)
       /\ cut' = (cut \/ \E b \in p.items : R \cap Slots(b) # series[source] \cap Slots(b))
  /\ paths' = paths \cup {source}
  /\ source' = 0
  /\ UNCHANGED <<store, window, clock, history, writes>>

-----------------------------------------------------------------------------
(* Meanwhile.                                                              *)

Write == writes < MaxWrites /\ writes' = writes + 1

\* A collector stores a candle of a finer interval.
StoreCandle(s, t) ==
  /\ ~done /\ t % s = 0 /\ t <= now /\ t \notin series[s] /\ Write
  /\ series' = [series EXCEPT ![s] = @ \cup {t}]
  /\ UNCHANGED <<native, now, window, pc, source, clock, cursor, page, given, done, history, paths, skipped, cut>>

\* A rollup or a provider stores a row of the target, or a rollup deletes one.
StoreNative(b) ==
  /\ ~done /\ b \notin native /\ Write /\ native' = native \cup {b}
  /\ UNCHANGED <<series, now, window, pc, source, clock, cursor, page, given, done, history, paths, skipped, cut>>

DropNative(b) ==
  /\ ~done /\ b \in native /\ Write /\ native' = native \ {b}
  /\ standing' = standing \ {b}
  /\ UNCHANGED <<series, now, window, pc, source, clock, cursor, page, given, done, whole, paths, skipped, cut>>

Tick ==
  /\ ~done /\ now < LastSlot /\ now' = now + 1
  /\ UNCHANGED <<series, native, window, pc, source, clock, cursor, page, given, done, history, paths, skipped, cut, writes>>

Serve == ProbeNative \/ NativePage \/ Cover \/ FoldPage

ReadsNext ==
  \/ Serve
  \/ \E s \in Sources, t \in 0..LastSlot : StoreCandle(s, t)
  \/ \E b \in Buckets : StoreNative(b) \/ DropNative(b)
  \/ Tick

ReadsSpec == ReadsInit /\ [][ReadsNext]_readsVars

\* The client asks for the next page and the statements end.
ReadsFairSpec == ReadsSpec /\ WF_readsVars(Serve)

-----------------------------------------------------------------------------
(* Properties.                                                             *)

\* The type of the state.
ReadsTypeOK ==
  /\ \A s \in Sources : series[s] \subseteq {t \in 0..LastSlot : t % s = 0}
  /\ native \subseteq Buckets /\ now \in 0..LastSlot /\ window \in Windows
  /\ pc \in {"probe", "cover", "fold", "native"} /\ source \in Sources \cup {0}
  /\ clock \in 0..LastSlot /\ cursor \in 0..(LastSlot + 1)
  /\ page \subseteq Buckets /\ given \subseteq Buckets /\ done \in BOOLEAN
  /\ whole \in [Sources -> SUBSET Buckets] /\ standing \subseteq Buckets
  /\ paths \subseteq Sources \cup {Target} /\ skipped \subseteq Buckets
  /\ cut \in BOOLEAN /\ writes \in 0..MaxWrites

Walk == INSTANCE KeysetWalk WITH Last <- LastSlot

\* No bucket comes twice and every cursor is older than the one before, although the
\* series a page is read from is chosen anew and may change (REQ-API-214).
RefinesWalk == Walk!Spec

\* The walk ends: pages with nothing in them lead on, and to the end (REQ-API-406).
WalkEnds == <>done

\* An item is folded from all the rows its bucket has, although the read is cut by the
\* cursor, by the window and by the cap (REQ-API-209, REQ-API-405).
FoldsWhole == ~cut

\* A walk over one kind of rows meets every bucket that could be given from the start: of
\* the native rows each, of the folded ones each that no empty page has passed.
EveryBucketIsMet ==
  done =>
    /\ paths = {Target} => \A b \in standing : InWindow(b) => b \in given
    /\ Target \notin paths =>
         \A b \in Buckets : InWindow(b) /\ (\A s \in paths : b \in whole[s]) /\ paths # {}
           => b \in given \cup skipped

\* A walk of pages gives every bucket and every row of it, although rows come in and the
\* series that is read changes between two pages.
PagesAreWhole == ReadsTypeOK /\ FoldsWhole /\ EveryBucketIsMet
=============================================================================
