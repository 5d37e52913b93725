--------------------------- MODULE MCCycleOverlay ---------------------------
\* A small instance of CycleOverlay for TLC.
EXTENDS CycleOverlay

CONSTANTS w1, w2, c1

Candle(s, t, p) == [secs |-> s, ts |-> t, close |-> p]

\* Two instants to a day; halvings on days 1 and 3, the next one estimated for day 5; a
\* cycle of two days.
Dates == <<1, 3>>

\* Half-days from before the first halving on, a gap on day 2; a coarser series that is
\* short; no candle at all.
Deep  == {Candle(1, 0, 2), Candle(1, 1, 1), Candle(1, 3, 2), Candle(1, 6, 1)}
Fresh == {Candle(2, 2, 1), Candle(1, 4, 2), Candle(1, 5, 1)}

SomeHistories == {Deep, Fresh, {}}

\* A day closes at zero; the first native day arrives, or another, later one.
SomeUpserts == {Candle(1, 7, 0), Candle(2, 4, 2)}

FlatPath(s, k) == <<2 + (k % 2), 1>>
=============================================================================
