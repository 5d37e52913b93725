------------------------------ MODULE MCRollup ------------------------------
\* Small instances of what is computed from candles, for TLC: of Rollup and, in
\* behaviours of its own, of Projection.
EXTENDS Rollup, Projection

VARIABLE side   \* "rollup" or "projection": which of the two takes the steps

EitherInit == side \in {"rollup", "projection"} /\ Init /\ ProjInit

EitherNext ==
  \/ side = "rollup" /\ Next /\ UNCHANGED <<side, projVars>>
  \/ side = "projection" /\ ProjNext /\ UNCHANGED <<side, vars>>

EitherSpec == EitherInit /\ [][EitherNext]_<<side, vars, projVars>>

\* The logarithms of 1 to 13.
LogTable == <<0, 30, 48, 60, 70, 78, 85, 90, 95, 100, 104, 108, 111>>
LogOf(days) == LogTable[days]

\* Two halvings and the estimated one; one anchor before the history.
Dates == <<3, 6, 11>>
AnchorOf(day) == -40
=============================================================================
