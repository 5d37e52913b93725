------------------------------ MODULE Listings ------------------------------
(***************************************************************************)
(* The keyset listings besides candles: GET /v1/coins (src/api/coins.rs),  *)
(* /quotes (src/api/quotes.rs) and /market (src/api/coin_market.rs), each  *)
(* followed by a client to its end while rows are written and time passes, *)
(* and the two other readers of the current quote.                         *)
(*                                                                         *)
(* A row is its currency and its key: an instant, newest first, or for     *)
(* coins Horizon less the rank of the id, which ascends.  Parameters that  *)
(* do not parse, and unknown coins, get an error and read nothing.         *)
(***************************************************************************)
EXTENDS Integers, FiniteSets, FiniteSetsExt

CONSTANTS
  Horizon,       \* bound: the last instant
  Currencies, AnyCurrency,   \* of quotes and market; that of a coin's row
  Span, Day,     \* 48 and 24 hours
  PageLimit,
  Starts, Ends, Unset,       \* parameters that clients send
  MaxAdds        \* bound: rows written while the walk is on

ASSUME ListingsAssumption ==
  {Horizon, Span, Day, PageLimit} \subseteq Nat \ {0} /\ Day < Span /\ MaxAdds \in Nat

VARIABLES
  instant,  \* now()
  table,    \* [kinds -> rows]
  ask,      \* the request: kind, currency, start, end
  at,       \* "exists" or "select": the statement that is next
  mark,     \* the cursor; Horizon + 1 without
  items,    \* rows of the last page
  over,     \* next_cursor was null
  owed,     \* history: rows of the window that stood all along, not yet given
  adds      \* budget used

listVars == <<instant, table, ask, at, mark, items, over, owed, adds>>

Kinds == {"coins", "quotes", "market"}
Instants == 0..Horizon
CurrenciesOf(kind) == IF kind = "coins" THEN {AnyCurrency} ELSE Currencies
Row(kind) == [cur : CurrenciesOf(kind), key : Instants]

-----------------------------------------------------------------------------
(* The statements.                                                         *)

\* Mutant: the currency is no filter.
OfAnyCurrency(kind, c) == table[kind]
\* One currency, so that no two rows share a key.
OfCurrency(kind, c) == {r \in table[kind] : r.cur = c}

\* ts >= now() - interval '48 hours'.
FreshSince == instant - Span

\* The lower bound: the parameter's, or 48 hours on the first page of quotes.
LowerBound(kind, start, end, first) ==
  IF start # Unset THEN start
  ELSE IF kind = "quotes" /\ first THEN (IF end # Unset THEN end ELSE instant) - Span
  ELSE 0
UpperBound(end) == IF end # Unset THEN end ELSE Horizon

Asked(first) ==
  {r \in OfCurrency(ask.kind, ask.cur) : r.key >= LowerBound(ask.kind, ask.start, ask.end, first) /\ r.key <= UpperBound(ask.end)}

\* ORDER BY the key DESC LIMIT k.
FirstRows(k, S) ==
  IF Cardinality(S) <= k THEN S
  ELSE CHOOSE T \in kSubset(k, S) : \A r \in T, q \in S \ T : q.key <= r.key

\* ts < cursor, coin_id > cursor.
PastMark(S) == {r \in S : r.key < mark}

\* paginate: limit + 1 rows were read.
Paged(S) ==
  LET read == FirstRows(PageLimit + 1, S)  shown == FirstRows(PageLimit, read) IN
  /\ items' = shown /\ over' = (read = shown)
  /\ mark' = IF read = shown THEN mark ELSE Min({r.key : r \in shown})

\* get_latest_quote: the key of the current quote, or none.
LatestQuote(c) ==
  LET fresh == {r \in table["quotes"] : r.cur = c /\ r.key >= FreshSince} IN
  IF fresh = {} THEN Unset ELSE Max({r.key : r \in fresh})

\* list_latest_quotes, of an active coin: the current quote and the price a day before.
OverviewQuote(c) ==
  LET fresh == {r \in table["quotes"] : r.cur = c /\ r.key >= instant - Span}
      now  == Max({r.key : r \in fresh})
      older == {r \in table["quotes"] : r.cur = c /\ r.key >= instant - Day /\ r.key < now}
  IN IF fresh = {} THEN [now |-> Unset, open |-> Unset]
     ELSE [now |-> now, open |-> IF older = {} THEN Unset ELSE Min({r.key : r \in older})]

\* get_coin_market_latest: the newest snapshot of the currency, however old.
LatestSnapshot(c) ==
  LET of == OfCurrency("market", c) IN
  IF of = {} THEN Unset ELSE (CHOOSE r \in of : \A q \in of : q.key <= r.key).key

-----------------------------------------------------------------------------
ListInit ==
  /\ instant \in {Horizon - 1, Horizon}
  /\ \E past \in SUBSET {r \in Row("quotes") : r.key < Horizon} :
       table = [k \in Kinds |-> IF k = "coins" THEN {[r EXCEPT !.cur = AnyCurrency] : r \in past} ELSE past]
  /\ \E kind \in Kinds : \E c \in CurrenciesOf(kind) : \E start \in Starts, end \in Ends :
       ask = IF kind = "coins" THEN [kind |-> kind, cur |-> c, start |-> Unset, end |-> Unset]
             ELSE [kind |-> kind, cur |-> c, start |-> start, end |-> end]
  /\ at = "exists" /\ mark = Horizon + 1 /\ items = {} /\ over = FALSE
  /\ owed = {} /\ adds = 0

\* ensure_coin_exists, a statement of its own.  The list of coins needs none.
Exists ==
  /\ ~over /\ at = "exists" /\ at' = "select"
  /\ UNCHANGED <<instant, table, ask, mark, items, over, owed, adds>>

\* A page.  The client then owns a cursor, and asks again with the same parameters.
SelectPage ==
  /\ at = "select" /\ at' = "exists"
  /\ \E asked \in {Asked(mark > Horizon)} :
       /\ Paged(PastMark(asked))
       /\ owed' = (IF mark > Horizon THEN asked ELSE owed) \ items'
  /\ UNCHANGED <<instant, table, ask, adds>>

\* A collector stores a row, of now or late; an operator registers a coin.
AddRow(kind) ==
  /\ ~over /\ adds < MaxAdds /\ adds' = adds + 1
  /\ \E r \in Row(kind) \ table[kind] :
       /\ kind # "coins" => r.key <= instant
       /\ table' = [table EXCEPT ![kind] = @ \cup {r}]
  /\ UNCHANGED <<instant, ask, at, mark, items, over, owed>>

Later ==
  /\ ~over /\ instant < Horizon /\ instant' = instant + 1
  /\ UNCHANGED <<table, ask, at, mark, items, over, owed, adds>>

ListNext == Exists \/ SelectPage \/ AddRow(ask.kind) \/ Later

ListSpec == ListInit /\ [][ListNext]_listVars

-----------------------------------------------------------------------------
\* Every variable keeps its type, and a page has at most as many rows as were asked for.
ListTypeOK ==
  /\ instant \in Instants /\ \A k \in Kinds : table[k] \subseteq Row(k)
  /\ at \in {"exists", "select"} /\ mark \in 0..(Horizon + 1) /\ over \in BOOLEAN
  /\ items \subseteq table[ask.kind] /\ Cardinality(items) <= PageLimit /\ owed \subseteq table[ask.kind] /\ adds \in 0..MaxAdds

ListWalk == INSTANCE KeysetWalk
  WITH Last <- Horizon, page <- {r.key : r \in items}, cursor <- mark, done <- over

\* Keys come in one order, none twice, whatever is written meanwhile (REQ-API-070).
ListRefinesWalk == ListWalk!Spec

\* Whoever follows the cursors to the end has seen every row that was in the window of the
\* first page, also where rows of two currencies share an instant (REQ-API-401).
WindowIsServed == over => owed = {}

\* The three readers of the current quote agree on whether there is one and which: the
\* latest route, the overview, and the head of an unbounded listing (REQ-API-400..404).
\* The latest snapshot is the head of its listing (REQ-API-051/052).
OneCurrentQuote ==
  \A c \in Currencies :
    LET keys(kind) == {r.key : r \in {q \in table[kind] : q.cur = c /\ q.key >= LowerBound(kind, Unset, Unset, TRUE)}}
        head(kind) == IF keys(kind) = {} THEN Unset ELSE Max(keys(kind))
    IN
    /\ OverviewQuote(c).now = LatestQuote(c) /\ LatestQuote(c) = head("quotes")
    /\ LatestSnapshot(c) = head("market")
    /\ OverviewQuote(c).open = Unset \/ OverviewQuote(c).open < LatestQuote(c)

\* A listing gives every row of its window, and its head is the current quote, or snapshot, of all readers.
ListingsAreWhole == ListTypeOK /\ WindowIsServed /\ OneCurrentQuote
=============================================================================
