----------------------------- MODULE RangeWalk ------------------------------
(***************************************************************************)
(* What one backfill chunk stores when its pages come from providers of    *)
(* different depth, granularity and paging (src/providers/binance.rs,      *)
(* bitstamp.rs, coingecko.rs; process_chunk of src/collectors/backfill.rs).*)
(* BackfillChunks treats the leases, crashes and retries of a chunk, here  *)
(* a page is one step: it is answered, or fails and is asked for again.    *)
(*                                                                         *)
(* Instants are seconds since an instant all granularities divide, but the *)
(* month, which opens as the calendar says.  A cursor c resumes one        *)
(* nanosecond behind c, which every request truncates away again and only  *)
(* the filter sees; chunks begin on whole seconds.                         *)
(***************************************************************************)
EXTENDS Integers, Sequences, FiniteSets, FiniteSetsExt

CONSTANTS
  Orders,      \* the providers as declared: sequences of Kinds
  Depths,      \* [first, last]: instants between which a provider may have candles
  Limit,       \* OHLC page of Binance and of Bitstamp (1000)
  SkipCandles, \* EMPTY_PAGE_SKIP_CANDLES (1000)
  HourlySpan,  \* coingecko_range_max_span (31 and 180 days)
  DailySpan,
  Deep,        \* [start, listing]: dates of the deep-history window
  Startup,     \* [start, end]: the lookback window at the start of the process
  Intervals,   \* seconds a coin may be polled at
  Months,      \* the calendar: when each month opens, one after the other
  MaxAside     \* bound: outages, interval changes and recent fetches during the walk

\* CoinGecko twice, by its tier.
Kinds == {"binance", "bitstamp", "analyst", "demo"}
None  == -1

ASSUME WalkAssumption ==
  /\ Orders \subseteq Seq(Kinds) /\ Depths \subseteq [first : Nat, last : Nat]
  /\ {Limit, SkipCandles, HourlySpan, DailySpan} \subseteq Nat \ {0} /\ MaxAside \in Nat
  /\ Deep \in [start : Nat, listing : Nat] /\ Startup \in [start : Nat, end : Nat]
  /\ Intervals \subseteq Nat \ {0}
  /\ Months \in Seq(Nat) /\ \A j, k \in 1..Len(Months) : j < k => Months[j] < Months[k]

\* A page holds more than the candle at the cursor; a skip and a daily range reach no further
\* than a page of Bitstamp's; the listing is a date.
ASSUME PageAssumption ==
  /\ Limit > 1 /\ SkipCandles <= Limit /\ DailySpan <= Limit * 86400
  /\ Deep.listing % 86400 = 0

VARIABLES
  listed,   \* build_chain
  depth,    \* [1..Len(listed) -> Depths]
  window,   \* of the chunk: [interval, start, end]; interval 0 is NULL
  poll,     \* the coin's effective_candle_interval_secs
  cursor,   \* None is NULL
  done,
  candles,  \* rows of coin_candles: [stamp, ts]
  passed,   \* history: what every answered page moved the cursor over
  aside     \* budget used

walkVars == <<listed, depth, window, poll, cursor, done, candles, passed, aside>>

-----------------------------------------------------------------------------
(* Granularities.                                                          *)

\* The interval vocabulary, ApiInterval.
Secs == [s \in {"1m", "3m", "5m", "15m", "30m", "1h", "2h", "4h", "6h", "8h", "12h", "1d", "3d", "4d", "1w"} |->
  CASE s = "1m" -> 60 [] s = "3m" -> 180 [] s = "5m" -> 300 [] s = "15m" -> 900 [] s = "30m" -> 1800
    [] s = "1h" -> 3600 [] s = "2h" -> 7200 [] s = "4h" -> 14400 [] s = "6h" -> 21600 [] s = "8h" -> 28800
    [] s = "12h" -> 43200 [] s = "1d" -> 86400 [] s = "3d" -> 259200 [] s = "4d" -> 345600 [] s = "1w" -> 604800]

\* What the bands of the providers are taken to last: Binance's month is none of these
\* intervals, and thirty days.
Month  == 2592000
Lasts  == [s \in DOMAIN Secs \cup {"1M"} |-> IF s = "1M" THEN Month ELSE Secs[s]]
Klines == {"1m", "3m", "5m", "15m", "30m", "1h", "2h", "4h", "6h", "8h", "12h", "1d", "3d", "1w", "1M"}
Steps  == Klines \ {"8h", "1w", "1M"}
Distance(a, b) == IF a < b THEN b - a ELSE a - b

\* The nearest of the bands, the finer of two at the same distance.
Snap(bands, secs) ==
  CHOOSE s \in bands : \A r \in bands :
    \/ Distance(Lasts[s], secs) < Distance(Lasts[r], secs)
    \/ Distance(Lasts[s], secs) = Distance(Lasts[r], secs) /\ Lasts[s] <= Lasts[r]

\* What can be asked for, and what each upstream makes of it.
Asked  == Intervals \cup {86400}
Kline  == [s \in Asked |-> Snap(Klines, s)]
Step   == [s \in Asked |-> Snap(Steps, s)]
Ranges == [s \in Asked |-> Snap({"1h", "1d"}, s)]

\* The stamp of /ohlc/range, whose parameter is "hourly" or "daily".
RangeStamp(secs) == Ranges[secs]

\* What a range request of a provider stamps on its candles.
StampOf(p, secs) ==
  CASE p = "binance" -> Kline[secs] [] p = "bitstamp" -> Step[secs] [] OTHER -> RangeStamp(secs)

\* What its upstream spaces them by; months stand for the calendar's.
GridOf(p, secs) ==
  Lasts[CASE p = "binance" -> Kline[secs] [] p = "bitstamp" -> Step[secs] [] OTHER -> Ranges[secs]]

-----------------------------------------------------------------------------
(* Requests and the pages that answer them.                                *)

\* When the k-th candle of a grid opens, and which is the first from an instant on and
\* the last up to one.
Opens(grid, k) == IF grid = Month THEN Months[k] ELSE k * grid
Ceiling(grid, t) ==
  IF grid = Month THEN Cardinality({k \in 1..Len(Months) : Months[k] < t}) + 1 ELSE (t + grid - 1) \div grid
Floor(grid, t) ==
  IF grid = Month THEN Cardinality({k \in 1..Len(Months) : Months[k] <= t}) ELSE t \div grid

\* The candles of a provider between two instants, counted on a grid: the
\* first, the last, and the instants from one such count to another.
First(i, grid, from) == Ceiling(grid, Max({depth[i].first, from}))
Last(i, grid, to)    == Floor(grid, Min({depth[i].last, to}))
Instants(a, b, grid) == {Opens(grid, k) : k \in a..b}
Has(i, grid, from, to) == Instants(First(i, grid, from), Last(i, grid, to), grid)

\* Mutant: the whole window is asked of Bitstamp.
PageEndOpen(start, end, step) == Max({start, end})
\* page_end_secs: no more than a page from start on.
PageEnd(start, end, step) == Max({start, Min({end, start + Limit * step})})

Minute(t) == t - (t % 60)

\* The last instant a request reaches, and the first.
Reach(p, start, end, secs) ==
  CASE p = "binance"  -> end
    [] p = "bitstamp" -> PageEnd(start, end, GridOf(p, secs))
    [] OTHER -> Minute(Min({end, start + (IF GridOf(p, secs) = 86400 THEN DailySpan ELSE HourlySpan)}))
From(p, start) == IF p = "analyst" THEN Minute(start) ELSE start

\* Of the candles a..b in the window Binance answers with the oldest, Bitstamp
\* with the newest, and neither with more than a page; CoinGecko with all.
KlinesPage(a, b, grid) == Instants(a, Min({b, a + Limit - 1}), grid)
OhlcPage(a, b, grid)   == Instants(Max({a, b - Limit + 1}), b, grid)

UpstreamPage(i, start, end, secs) ==
  LET p    == listed[i]
      grid == GridOf(p, secs)
      from == First(i, grid, From(p, start))
      to   == Last(i, grid, Reach(p, start, end, secs))
  IN CASE p = "binance"  -> KlinesPage(from, to, grid)
       [] p = "bitstamp" -> OhlcPage(from, to, grid)
       [] OTHER          -> Instants(from, to, grid)

\* The row a page leaves of a candle: the stamp is the provider's.
Candle(stamp, t) == [stamp |-> stamp, ts |-> t]

\* The recent path of the demo tier: the days asked for decide the granularity.
Band == [s \in Asked |-> Snap({"30m", "4h", "4d"}, s)]
DaysFor(stamp, days) ==
  CASE stamp = "30m" -> 1 [] stamp = "4h" -> Min({30, Max({2, days})}) [] OTHER -> Max({31, days})
AutoGrid(days) == IF days = 1 THEN 1800 ELSE IF days <= 30 THEN 14400 ELSE 345600

-----------------------------------------------------------------------------
(* The walk.                                                               *)

\* The second before it, lest Binance answer with its first candle.
DeepEnd(listing) == listing - 1

DeepChunk    == [interval |-> 86400, start |-> Deep.start, end |-> DeepEnd(Deep.listing)]
StartupChunk == [interval |-> 0, start |-> Startup.start, end |-> Startup.end]

WalkInit ==
  /\ listed \in Orders /\ depth \in [1..Len(listed) -> Depths]
  /\ window \in {DeepChunk, StartupChunk} /\ window.start < window.end
  /\ poll \in Intervals
  /\ cursor = None /\ done = FALSE /\ candles = {} /\ passed = {} /\ aside = 0

\* resolve_interval_secs.
Interval == IF window.interval # 0 THEN window.interval ELSE poll
Start    == IF cursor = None THEN window.start ELSE cursor
\* The filter, to which the nanosecond counts.
Wanted(t) == t < window.end /\ IF cursor = None THEN t >= Start ELSE t > Start

Ranged == {i \in 1..Len(listed) : listed[i] # "demo"}

\* next_cursor_for_page: the newest candle, else a skip.
NextCursorForPage(kept) == IF kept = {} THEN Min({Start + SkipCandles * Interval, window.end}) ELSE Max(kept)

Answers(i) == UpstreamPage(i, Start, window.end, Interval) # {}

Aside == aside < MaxAside /\ aside' = aside + 1

\* process_chunk and the finalize of its page; by is 0 if all answered empty.
Take(by, down) ==
  /\ ~done
  /\ IF down = {} THEN UNCHANGED aside ELSE Aside
  /\ \E kept \in {IF by = 0 THEN {} ELSE {t \in UpstreamPage(by, Start, window.end, Interval) : Wanted(t)}} :
        /\ candles' = candles \cup {Candle(StampOf(listed[by], Interval), t) : t \in kept}
        /\ cursor' = NextCursorForPage(kept)
        /\ done' = (NextCursorForPage(kept) >= window.end)
        /\ passed' = passed \cup
             {[from |-> Start, first |-> cursor = None, to |-> NextCursorForPage(kept), by |-> by, down |-> down, secs |-> Interval]}
  /\ UNCHANGED <<listed, depth, window, poll>>

\* chain_fetch_ohlc_range: the first page that is not empty counts, and the
\* empty one only if nobody failed; down are those that do.
TakePage(down) ==
  \/ \E by \in Ranged \ down : Answers(by) /\ (\A i \in Ranged \ down : i < by => ~Answers(i)) /\ Take(by, down)
  \/ down = {} /\ (\A i \in Ranged : ~Answers(i)) /\ Take(0, {})

FetchPage == \E down \in SUBSET Ranged : TakePage(down)

\* fetch_ohlc: the candle item of the queue asks for seven days up to now, a
\* window without bounds for ninety; both exchanges count what fits, a page at most.
RecentDays == {7, 90}
Fitting(days, grid) == Max({1, Min({Limit, (days * 86400) \div grid})})
\* Without bounds an exchange answers with its n newest candles.
NewestKlines(i, grid, n) ==
  LET b == Last(i, grid, Startup.end)
  IN Instants(Max({First(i, grid, 0), b - n + 1}), b, grid)
Recent(i, days) ==
  LET p     == listed[i]
      stamp == IF p \in {"analyst", "demo"} THEN Band[poll] ELSE StampOf(p, poll)
      grid  == IF p \in {"analyst", "demo"} THEN AutoGrid(DaysFor(stamp, days)) ELSE GridOf(p, poll)
  IN {Candle(stamp, t) : t \in NewestKlines(i, grid, Fitting(days, grid))}

FetchRecent ==
  /\ Aside
  /\ \E i \in 1..Len(listed), days \in RecentDays : candles' = candles \cup Recent(i, days)
  /\ UNCHANGED <<listed, depth, window, poll, cursor, done, passed>>

\* PATCH live_poll_interval between two pages.
ChangeInterval ==
  /\ Aside
  /\ poll' \in Intervals \ {poll}
  /\ UNCHANGED <<listed, depth, window, cursor, done, candles, passed>>

WalkNext == FetchPage \/ FetchRecent \/ ChangeInterval

\* The worker comes back to the chunk, and an outage of the providers ends.
WalkFairness == WF_walkVars(TakePage({}))
WalkSpec == WalkInit /\ [][WalkNext]_walkVars /\ WalkFairness

-----------------------------------------------------------------------------
(* Properties.                                                             *)

\* The cursor stays in the window and settles at its end
\* (next_cursor_for_page caps the skip at range_end).
WalkTypeOK ==
  /\ window.end \in Nat /\ window.interval \in {0, 86400} /\ poll \in Intervals
  /\ cursor = None \/ cursor \in window.start..window.end
  /\ done <=> cursor = window.end
  /\ \A p \in passed : p.from <= p.to /\ p.by \in Ranged \cup {0} /\ p.down \subseteq Ranged

\* A provider's candle the cursor has moved over is stored, unless a provider
\* before it in the chain answered that page, or it failed, or the page was
\* beyond the reach of its own request; or it is the one candle at the start
\* of the window that a full Bitstamp window, which holds one candle more than
\* a page, leaves out.
NothingLost ==
  \A p \in passed : \A i \in Ranged : \A t \in Has(i, GridOf(listed[i], p.secs), p.from, p.to) :
    ((p.first \/ t > p.from) /\ t < window.end) =>
      \/ Candle(StampOf(listed[i], p.secs), t) \in candles
      \/ p.by \in 1..(i - 1)
      \/ i \in p.down
      \/ t > Reach(listed[i], p.from, window.end, p.secs)
      \/ listed[i] = "bitstamp" /\ t = window.start

\* The deep window is filled from Bitstamp, if no request failed, whatever stands
\* before it in the chain and begins with the listing (main.rs ends the window a
\* second before for this), as Binance does wherever it stands: only its very first
\* day may be missing.
DeepIsContiguous ==
  \A i \in Ranged :
    (/\ done /\ window.interval # 0 /\ listed[i] = "bitstamp"
     /\ \A p \in passed : p.down = {}
     /\ \A j \in Ranged : j < i \/ listed[j] = "binance" => depth[j].first >= Deep.listing)
    => \A t \in Has(i, 86400, Deep.start + 1, Deep.listing - 1) : Candle("1d", t) \in candles

\* A series holds candles of its own granularity only: what is stamped is in
\* the vocabulary of ApiInterval and on its grid, whichever endpoint answered
\* and whatever the interval asked for was snapped to.  The exception is Binance's
\* month: a coin polled less often than half way from a week to thirty days gets
\* candles under a stamp that is no ApiInterval, and nobody else does.
SeriesOnGrid ==
  \A c \in candles :
    \/ c.stamp \in DOMAIN Secs /\ c.ts % Secs[c.stamp] = 0
    \/ /\ c.stamp = "1M" /\ \E k \in 1..Len(Months) : c.ts = Months[k]
       /\ (\E i \in 1..Len(listed) : listed[i] = "binance") /\ \E s \in Intervals : s > 1598400

\* The walk ends, over gaps, late listings and stale last candles.
WalkEnds == <>done

\* What a walk leaves behind it is the history that its providers have: nothing is missing
\* between two pages or at the seam of the deep window and the listing, every series is on
\* the grid of its stamp, and the cursor is where it says (process_chunk).
HistoryIsWhole == WalkTypeOK /\ SeriesOnGrid /\ NothingLost /\ DeepIsContiguous
=============================================================================
