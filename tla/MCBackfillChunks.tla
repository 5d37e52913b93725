--------------------------- MODULE MCBackfillChunks ---------------------------
\* Small instances for TLC of the backfill: of its chunks and, in behaviours of its own, of
\* the RangeWalk through one of them.
EXTENDS BackfillChunks, RangeWalk

CONSTANTS r1, r2, a

\* One provider that answers from its start on, two candles at a time, with a
\* gap: Binance.
Ascending == <<[data |-> {0, 1, 2, 5}, span |-> 6, cap |-> 2, newest |-> FALSE]>>
\* The deep window: the exchange has nothing in it, the deep source answers
\* windows as wide as its page and starts after the range does: Bitstamp.
DeepSound == <<[data |-> {}, span |-> 6, cap |-> 2, newest |-> FALSE],
          [data |-> {1, 2, 5}, span |-> 2, cap |-> 2, newest |-> TRUE]>>

AllSound    == {Ascending, DeepSound}
ASSUME ChainsAreSeamless == \A providers \in Chains : Seamless(providers)

-----------------------------------------------------------------------------
(* Of the walk.                                                            *)

Day == 86400
MCChains ==
  {<<"binance", "bitstamp">>, <<"analyst", "binance", "bitstamp">>, <<"bitstamp", "analyst">>, <<"demo", "bitstamp">>, <<"analyst", "binance">>}
\* From before either window, from the listing on, from within the startup
\* window, gone early, late and between two days.
MCDepths == {[first |-> 0, last |-> 40 * Day], [first |-> 10 * Day, last |-> 40 * Day],
             [first |-> 20 * Day + 20000, last |-> 40 * Day],
             [first |-> Day, last |-> 5 * Day], [first |-> 4 * Day + 100, last |-> 9 * Day]}
MCDeep == [start |-> 0, listing |-> 10 * Day]
\* Eleven hours up to a quarter past an hour, and in them the first of a month.
MCStartup == [start |-> 20 * Day - 6200, end |-> 20 * Day + 33300]
MCMonths == <<20 * Day, 51 * Day>>
\* The last is snapped to Binance's month.
MCIntervals == {3600, 10800, 2000000}

VARIABLE side   \* "chunks" or "walk": which of the two takes the steps

EitherVars == <<side, vars, walkVars>>
\* A walk that is over.
Idle == /\ listed = <<"demo">> /\ depth = <<[first |-> 0, last |-> 40 * Day]>>
        /\ window = DeepChunk /\ poll = 3600 /\ cursor = window.end /\ done = TRUE
        /\ candles = {} /\ passed = {} /\ aside = 0
EitherInit ==
  \/ side = "chunks" /\ Init /\ Idle
  \/ side = "walk" /\ WalkInit /\ Init /\ chain = [c \in Coins |-> Ascending]
EitherNext ==
  \/ side = "chunks" /\ Next /\ UNCHANGED <<side, walkVars>>
  \/ side = "walk" /\ WalkNext /\ UNCHANGED <<side, vars>>
\* The side that idles has nothing to do: no chunk is there to claim, the walk is done.
EitherSpec == EitherInit /\ [][EitherNext]_EitherVars /\ Fairness /\ WalkFairness

\* A walk comes to its end: through takeovers, soft skips and pages with nothing in them
\* (advance_cursor, next_cursor_for_page).
EveryWalkEnds == EveryChunkSettles /\ WalkEnds
=============================================================================
