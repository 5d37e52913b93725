------------------------------- MODULE Answers -------------------------------
(***************************************************************************)
(* What the providers make of the answers of their upstreams               *)
(* (src/providers/coingecko.rs, binance.rs, bitstamp.rs in the frame of    *)
(* transport.rs), and what is kept of quotes and market snapshots.         *)
(* RangeWalk has the requests for candles, Pacer what a slot costs.        *)
(*                                                                         *)
(* A number on the wire is its shape.  The price observed at an instant is *)
(* named by the instant; upstreams answer from caches, that is, late.      *)
(***************************************************************************)
EXTENDS Integers, SequencesExt

CONSTANTS
  Lanes,        \* calls under way at once, of all workers and handlers
  LastInstant,  \* bound: the clock
  MaxRows,      \* bound: rows of an answer
  ResultCap,    \* results a search is asked for
  Venue, OtherVenue,
  MaxCalls      \* bound: calls

ASSUME AnswersAssumption == {LastInstant, MaxRows, ResultCap, MaxCalls} \subseteq Nat

VARIABLES
  clock,
  call,       \* [Lanes -> what was asked of whom]
  closed,     \* providers under a cooldown
  quotes,     \* coin_quotes: [ts, price]
  snapshots,  \* coin_market_snapshots: [ts, price, cap]
  last,       \* the last answer, and what was made of it
  guessed,    \* history: instants that were put on prices without one
  given,      \* history: instants of readable CoinGecko prices, by table
  limited,    \* history: providers that said 429 and were not yet waited for
  calls       \* budget used

ansVars == <<clock, call, closed, quotes, snapshots, last, guessed, given, limited, calls>>

Shapes   == {"plain", "exponent", "junk", "absent"}
Statuses == {200, 404, 429, 500}
CoinGeckoServes == {"spot", "market", "metadata", "page", "search", "tickers", "derivatives"}
BinanceServes   == {"spot", "page"}
BitstampServes  == {"page"}

\* What a provider does not serve it is not asked for, or answers NotSupported.
Serves   == [coingecko |-> CoinGeckoServes, binance |-> BinanceServes, bitstamp |-> BitstampServes]
Names    == DOMAIN Serves
Unasked  == [to |-> "nobody", kind |-> "nothing"]
Silence  == [to |-> "nobody", kind |-> "nothing", status |-> 0, wire |-> <<>>, made |-> <<>>, ok |-> FALSE]

\* What an answer of each kind may hold.  Symbols of derivatives, in their order: the base
\* (with a separator or without), BTCDOM, BTCUSDT.  An interest of -1 cannot be read.
PricedItem == [price : Shapes, extra : Shapes, dated : BOOLEAN]
Detail     == Shapes
TickerItem == [fit : BOOLEAN, volume : 0..1]
DerivItem  == [symbol : 1..3, interest : {-1} \cup 0..1, venue : {Venue, OtherVenue}]
Items == [page |-> Shapes, search |-> BOOLEAN, tickers |-> TickerItem, derivatives |-> DerivItem]
Wires(kind) ==
  IF kind \in {"spot", "market"} THEN PricedItem
  ELSE IF kind = "metadata" THEN Detail ELSE BoundedSeq(Items[kind], MaxRows)

-----------------------------------------------------------------------------
(* Conversions.                                                            *)

\* decimal_from_number falls back to scientific notation; the parsers of strings do not.
ReadsNumber(shape) == shape \in {"plain", "exponent"}
ReadsString(shape) == shape = "plain"
Reads(p, shape) == IF p = "coingecko" THEN ReadsNumber(shape) ELSE ReadsString(shape)

\* normalise_market_item degrades the optional fields to None; Binance's ticker must
\* have its volume and its bid and ask.
NeedsExtra(p) == p = "binance"

Priced(p, w) == Reads(p, w.price) /\ (NeedsExtra(p) => Reads(p, w.extra))

\* Mutant: what is asked now is of now.
StampNow(w, of) == clock
\* last_updated or closeTime, else Utc::now().
Stamp(w, of) == IF w.dated THEN of ELSE clock

\* A page is collected whole, or one row fails it.
PageOf(p, rows) == [ok |-> \A n \in DOMAIN rows : Reads(p, rows[n]), made |-> rows]

\* The coins of a search that have their fields, of the first ones.
SearchOf(rows) == SelectSeq(SubSeq(rows, 1, Min({ResultCap, Len(rows)})), LAMBDA named : named)

\* fetch_coin_tickers, by their places: no stale, odd or unnamed pair, by volume, cut.
TickersOf(rows) ==
  LET fit       == {n \in DOMAIN rows : rows[n].fit}
      before(n) == {m \in fit : rows[m].volume > rows[n].volume \/ (rows[m].volume = rows[n].volume /\ m < n)}
  IN [k \in 1..Min({ResultCap, Cardinality(fit)}) |-> CHOOSE n \in fit : Cardinality(before(n)) = k - 1]

\* symbol_matches_base: the base, a separator after it, a quote currency after it.
Denotes(symbol) == symbol # 2

\* deriv_open_interest: nothing counts like zero.
Interest(row) == Max({0, row.interest})

\* select_deriv_ticker: on the venue if there is one, the most interest, the last symbol.
Chosen(rows) ==
  LET fits   == {n \in DOMAIN rows : Denotes(rows[n].symbol)}
      there  == {n \in fits : rows[n].venue = Venue}
      those  == IF there = {} THEN fits ELSE there
      Key(n) == <<Interest(rows[n]), rows[n].symbol, n>>
  IN CHOOSE n \in those : \A m \in those \ {n} :
       \/ Key(m)[1] < Key(n)[1]
       \/ Key(m)[1] = Key(n)[1] /\ (Key(m)[2] < Key(n)[2] \/ (Key(m)[2] = Key(n)[2] /\ m < n))

\* fetch_derivatives: nothing found is an error, and so is a field of the one found that
\* does not parse (normalise_deriv_ticker).
DerivativeOf(rows) ==
  IF \A n \in DOMAIN rows : ~Denotes(rows[n].symbol) THEN [ok |-> FALSE, made |-> <<>>]
  ELSE [ok |-> rows[Chosen(rows)].interest >= 0, made |-> <<rows[Chosen(rows)]>>]

\* A 200: what the endpoint's normaliser makes of the body.
Body(p, kind, w) ==
  CASE kind \in {"spot", "market"} -> [ok |-> Priced(p, w), made |-> <<>>]
    [] kind = "metadata" -> [ok |-> TRUE, made |-> <<Reads(p, w)>>]
    [] kind = "page" -> PageOf(p, w)
    [] kind = "search" -> [ok |-> TRUE, made |-> SearchOf(w)]
    [] kind = "tickers" -> [ok |-> TRUE, made |-> TickersOf(w)]
    [] kind = "derivatives" -> DerivativeOf(w)

\* Everything else: get_json, Bitstamp's unknown pair, the searches that degrade to
\* nothing.
Outcome(p, kind, status, w) ==
  IF status = 200 THEN Body(p, kind, w)
  ELSE [ok |-> kind \in {"search", "tickers"} \/ (status = 404 /\ p = "bitstamp"), made |-> <<>>]

-----------------------------------------------------------------------------
AnsInit ==
  /\ clock = 0 /\ call = [c \in Lanes |-> Unasked] /\ closed = {}
  /\ quotes = {} /\ snapshots = {} /\ last = Silence
  /\ guessed = {} /\ given = [t \in {"spot", "market"} |-> {}] /\ limited = {} /\ calls = 0

\* acquire_slot and the request.
Ask(c, p, kind) ==
  /\ call[c] = Unasked /\ p \notin closed
  /\ calls < MaxCalls /\ calls' = calls + 1
  /\ call' = [call EXCEPT ![c] = [to |-> p, kind |-> kind]]
  /\ last' = Silence
  /\ UNCHANGED <<clock, closed, quotes, snapshots, guessed, given, limited>>

\* The client hands a 429 on as RateLimited, whatever the endpoint.
Heard(kind, status) == status = 429

\* The row that a worker stores, over one of the same instant.
Keep(table, row) == {r \in table : r.ts # row.ts} \cup {row}

\* What is upserted of a quote, and of a snapshot.
QuoteOf(w, of)       == [ts |-> Stamp(w, of), price |-> of]
SnapshotOf(p, w, of) == [ts |-> Stamp(w, of), price |-> of, cap |-> Reads(p, w.extra)]

\* dispatch_item, by kind of item: without a value, or with an upsert that fails, the item
\* is tried again later and nothing is stored.
QuoteItem(kind, kept, w, of) ==
  IF kind = "spot" /\ kept THEN quotes' = Keep(quotes, QuoteOf(w, of)) ELSE UNCHANGED quotes
MarketItem(p, kind, kept, w, of) ==
  IF kind = "market" /\ kept THEN snapshots' = Keep(snapshots, SnapshotOf(p, w, of)) ELSE UNCHANGED snapshots

\* A price of CoinGecko with its instant that can be read, by the wire.
Readable(p, status, w) == status = 200 /\ p = "coingecko" /\ w.price \in {"plain", "exponent"} /\ w.dated

\* The answer, through paced: a 429 closes the provider for the fleet unless the
\* database does not take the signal.  A price is of any instant so far.
Reply(c, status, w, of) ==
  LET p == call[c].to  kind == call[c].kind  priced == kind \in {"spot", "market"} IN
  /\ call[c] # Unasked /\ of <= clock
  /\ call' = [call EXCEPT ![c] = Unasked]
  /\ \E out \in {Outcome(p, kind, status, w)}, stored \in BOOLEAN :
       /\ ~stored => out.ok /\ priced
       /\ last' = [to |-> p, kind |-> kind, status |-> status, wire |-> w, made |-> out.made, ok |-> out.ok]
       /\ QuoteItem(kind, out.ok /\ stored, w, of) /\ MarketItem(p, kind, out.ok /\ stored, w, of)
       /\ guessed' = IF priced /\ out.ok /\ stored /\ ~w.dated THEN guessed \cup {Stamp(w, of)} ELSE guessed
       /\ given' = IF priced /\ stored /\ Readable(p, status, w) THEN [given EXCEPT ![kind] = @ \cup {of}] ELSE given
  /\ \/ /\ closed' = IF Heard(kind, status) THEN closed \cup {p} ELSE closed
        /\ limited' = IF status = 429 THEN limited \cup {p} ELSE limited
     \/ Heard(kind, status) /\ UNCHANGED <<closed, limited>>
  /\ UNCHANGED <<clock, calls>>

\* The request times out, or the connection breaks.
Fail(c) ==
  /\ call[c] # Unasked /\ call' = [call EXCEPT ![c] = Unasked]
  /\ UNCHANGED <<clock, closed, quotes, snapshots, last, guessed, given, limited, calls>>

\* The cooldown runs out.
Reopened(p) ==
  /\ p \in closed \cup limited /\ closed' = closed \ {p} /\ limited' = limited \ {p}
  /\ UNCHANGED <<clock, call, quotes, snapshots, last, guessed, given, calls>>

Passes ==
  /\ clock < LastInstant /\ clock' = clock + 1
  /\ UNCHANGED <<call, closed, quotes, snapshots, last, guessed, given, limited, calls>>

Answered(c) ==
  \E status \in Statuses : \E of \in IF call[c].kind \in {"spot", "market"} /\ status = 200 THEN 0..clock ELSE {0} :
    \E w \in IF status = 200 THEN Wires(call[c].kind) ELSE {<<>>} : Reply(c, status, w, of)

AnsNext ==
  \/ \E c \in Lanes : Fail(c) \/ (call[c] # Unasked /\ Answered(c))
  \/ \E c \in Lanes, p \in Names : \E kind \in Serves[p] : Ask(c, p, kind)
  \/ \E p \in Names : Reopened(p)
  \/ Passes

AnsSpec == AnsInit /\ [][AnsNext]_ansVars

-----------------------------------------------------------------------------
QuoteRow    == [ts : 0..LastInstant, price : 0..LastInstant]
SnapshotRow == [ts : 0..LastInstant, price : 0..LastInstant, cap : BOOLEAN]

\* The types, and one row for an instant.
AnsTypeOK ==
  /\ clock \in 0..LastInstant /\ calls \in 0..MaxCalls
  /\ closed \subseteq Names /\ limited \subseteq Names
  /\ \A c \in Lanes : call[c] = Unasked \/ (call[c].to \in Names /\ call[c].kind \in Serves[call[c].to])
  /\ quotes \subseteq QuoteRow /\ snapshots \subseteq SnapshotRow
  /\ \A q, r \in quotes : q.ts = r.ts => q = r

\* No row dates a price before it was observed, and only one without a time of its own
\* is dated later, when it was asked for (REQ-PROV-072/076): across caches, late answers
\* and two providers that write to one series.
PriceHasItsTime ==
  \A q \in quotes \cup snapshots : q.price <= q.ts /\ (q.price = q.ts \/ q.ts \in guessed)

\* One field that does not parse costs that field: a price of CoinGecko that can be read
\* is stored at its instant, whatever stands beside it (REQ-PROV-074/075, F-23), unless the
\* database takes no row.
OneFieldOneLoss ==
  /\ \A t \in given["spot"] : \E q \in quotes : q.ts = t
  /\ \A t \in given["market"] : \E s \in snapshots : s.ts = t
  /\ last.kind = "metadata" /\ last.status = 200 => last.ok

\* A page without an error is the whole page: the backfill moves its cursor over it.
PageIsWhole == last.kind = "page" /\ last.ok /\ last.status = 200 => Len(last.made) = Len(last.wire)

\* After a 429 nobody asks that provider again until the cooldown is over, if the
\* database took the signal: no endpoint keeps a 429 to itself (REQ-PROV-050/054, F-10).
QuietAfter429 ==
  [][\A c \in Lanes : call[c] = Unasked /\ call'[c] # Unasked => call'[c].to \notin limited]_ansVars

\* The pairs of a coin are those with the most volume: nothing unfit among them, no fit
\* one left out for a smaller one or for nothing (REQ-PROV-005).
TickersAreBest ==
  last.kind = "tickers" /\ last.status = 200 =>
    LET shown == ToSet(last.made)
        fit   == {n \in DOMAIN last.wire : last.wire[n].fit}
    IN /\ shown \subseteq fit /\ Cardinality(shown) = Min({ResultCap, Cardinality(fit)})
       /\ \A m \in shown, n \in fit \ shown : last.wire[m].volume >= last.wire[n].volume
       /\ \A m, n \in DOMAIN last.made : m < n => last.wire[last.made[m]].volume >= last.wire[last.made[n]].volume

\* The derivative of BTC is never one of BTCDOM, is of the venue where it has one, and the
\* order of the answer decides neither its interest nor its symbol (REQ-PROV-077/078).
DerivativeIsOfBase ==
  last.kind = "derivatives" /\ last.ok =>
    LET one  == last.made[1]
        fits == {n \in DOMAIN last.wire : last.wire[n].symbol # 2}
    IN /\ one.symbol # 2
       /\ \A n \in fits : last.wire[n].venue = Venue => one.venue = Venue
       /\ \A n \in fits : last.wire[n].venue = one.venue \/ one.venue = OtherVenue =>
            \/ one.interest > Interest(last.wire[n])
            \/ one.interest = Interest(last.wire[n]) /\ one.symbol >= last.wire[n].symbol

\* What is stored is what the upstream said: its instants, its rows and its choice, one bad
\* field or a 429 included (normalise_market_item, normalise_ohlc_item, paced).
AnswersTell ==
  /\ [](AnsTypeOK /\ PriceHasItsTime /\ OneFieldOneLoss /\ PageIsWhole /\ TickersAreBest /\ DerivativeIsOfBase)
  /\ QuietAfter429
=============================================================================
