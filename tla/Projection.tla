----------------------------- MODULE Projection -----------------------------
(***************************************************************************)
(* The composite projection (src/collectors/cycle_projection.rs): a power  *)
(* law fitted to the logarithms of the daily closes, a damped component of *)
(* the halving cycle, a term that leads today's price back to the model,   *)
(* and bands from the quantiles of past errors, refitted as days pass.     *)
(*                                                                         *)
(* Prices are their logarithms, so a quotient of prices is a difference.   *)
(* A Decimal is an integer, Unit times its value; only its places are few. *)
(* A day counts from genesis.                                              *)
(***************************************************************************)
EXTENDS Integers, Sequences, FiniteSets, FiniteSetsExt

CONSTANTS
  Unit,          \* 1 as a Decimal
  Log(_),        \* log10 of a number of days
  Levels,        \* logarithms of the closes there may be
  FirstDay, LastDay,   \* bound: days of the history
  ZeroDays,      \* bound: days that may close at zero
  Halvings,      \* projected_halving_dates, ascending
  CycleDays,     \* CYCLE_DAYS
  AssumedLen,    \* ASSUMED_CYCLE_LEN
  Bins,          \* NBINS
  MinCycleObs, MinSamples,   \* MIN_CYCLE_OBS, MIN_BAND_SAMPLES
  AmpFloor, Shrink, Rho,     \* amp_floor, shrink, the daily mean reversion
  GridStep,      \* BAND_GRID_STEP
  AnchorDays,    \* CALIBRATION_ANCHORS: their days ...
  AnchorLog(_), AnchorWeight,   \* ... logarithms and weight
  ZeroClose      \* a close of zero, which has no logarithm

ASSUME ProjectionAssumption ==
  /\ {Unit, CycleDays, AssumedLen, Bins, GridStep, MinSamples, MinCycleObs, AnchorWeight, AmpFloor} \subseteq Nat \ {0}
  /\ Rho \in 0..Unit /\ Shrink \in 0..Unit /\ Levels \subseteq Int /\ {FirstDay, LastDay} \subseteq Int
  /\ Halvings \in Seq(Int) /\ \A i, j \in 1..Len(Halvings) : i < j => Halvings[i] < Halvings[j]
  /\ IsFiniteSet(AnchorDays) /\ \A d \in AnchorDays : AnchorLog(d) \in Int
  /\ \A d \in AnchorDays \cup (FirstDay..(LastDay + CycleDays)) : d \in Int /\ Log(d) \in Int

VARIABLES
  daily,   \* [days with a close -> its logarithm, or ZeroClose]
  today,   \* the last day that passed
  model,   \* <<the fitted model>>, or <<>> when there is none
  path     \* the projected points

projVars == <<daily, today, model, path>>

Times(a, b) == (a * b) \div Unit
Over(a, b)  == (a * Unit) \div b
Abs(a)      == IF a < 0 THEN -a ELSE a
Total(f)    == MapThenSumSet(LAMBDA x : f[x], DOMAIN f)
Least(S)    == CHOOSE x \in S : \A y \in S : x <= y
Greatest(S) == CHOOSE x \in S : \A y \in S : x >= y
Clamp(x, lo, hi) == Greatest({lo, Least({x, hi})})

-----------------------------------------------------------------------------
(* Numeric helpers.                                                        *)

\* weighted_ols over points i with x[i], y[i], w[i]: <<intercept, slope>> in a sequence,
\* which is empty when the x do not vary.
Mean(v, w) == Total([i \in DOMAIN v |-> v[i] * w[i]]) \div Total(w)
Spread(u, v, w, mu, mv) == Total([i \in DOMAIN u |-> w[i] * (u[i] - mu) * (v[i] - mv)])
Line(mx, my, slope) == <<my - Times(slope, mx), slope>>
LineAbout(x, y, w, mx, my) ==
  IF Spread(x, x, w, mx, mx) <= 0 THEN <<>>
  ELSE << Line(mx, my, Over(Spread(x, y, w, mx, my), Spread(x, x, w, mx, mx))) >>
Ols(x, y, w) == IF x = <<>> THEN <<>> ELSE LineAbout(x, y, w, Mean(x, w), Mean(y, w))

\* quantile of an ascending sequence, q in Units.
Quantile(sorted, q) ==
  LET pos == q * (Len(sorted) - 1)
      i   == Clamp(pos \div Unit, 0, Len(sorted) - 1)
      j   == Clamp(i + 1, 0, Len(sorted) - 1)
  IN sorted[i + 1] + Times(pos % Unit, sorted[j + 1] - sorted[i + 1])

\* phase_of: the cycle, 0 before the first halving, and how far it has gone.
CycleAt(day) == Cardinality({i \in 1..Len(Halvings) : Halvings[i] <= day})
Phase(day) ==
  LET c == CycleAt(day)
      length == IF c < Len(Halvings) THEN Halvings[c + 1] - Halvings[c] ELSE AssumedLen
  IN Least({Over(day - Halvings[c], length), Unit - 1})

\* interp_bins: between the centres of two bins; <<>> where neither has a value.
InterpBins(curve, phase) ==
  LET x  == phase * Bins - Unit \div 2
      lo == Clamp(x \div Unit, 0, Bins - 1)
      hi == Clamp((x \div Unit) + 1, 0, Bins - 1)
      there == {lo, hi} \cap DOMAIN curve
  IN IF there = {} THEN <<>>
     ELSE IF Cardinality(there) = 1 THEN <<curve[CHOOSE b \in there : TRUE]>>
     ELSE <<curve[lo] + Times(x % Unit, curve[hi] - curve[lo])>>

-----------------------------------------------------------------------------
(* The fitted model.                                                       *)

Spine(m, day) == m.a + Times(m.b, Log(day))

\* amp_target: the amplitudes of the cycles extrapolated, not below the floor.
AmpOn(fit, amps, cycle) ==
  IF Cardinality(DOMAIN amps) >= 2 /\ fit # <<>>
  THEN Greatest({fit[1][1] + fit[1][2] * cycle, AmpFloor})
  ELSE amps[Greatest(DOMAIN amps)]
AmpTarget(m, cycle) ==
  AmpOn(Ols([c \in DOMAIN m.amps |-> c * Unit], m.amps, [c \in DOMAIN m.amps |-> 1]), m.amps, cycle)

\* What a past cycle is scaled by to have the target's amplitude.
Scale(m, c, target) == IF m.amps[c] > AmpFloor THEN Over(target, m.amps[c]) ELSE Unit

\* The mean over the cycles with a value at the phase, found: [cycles -> <<>> or <<value>>].
ComponentOf(m, found, target) ==
  LET with  == {c \in DOMAIN found : found[c] # <<>>}
  IN IF with = {} THEN 0
     ELSE Times(Shrink, Total([c \in with |-> Times(Scale(m, c, target), found[c][1])])) \div Cardinality(with)

CycleComponent(m, day) ==
  IF CycleAt(day) = 0 \/ m.curves = <<>> THEN 0
  ELSE ComponentOf(m, [c \in DOMAIN m.curves |-> InterpBins(m.curves[c], Phase(day))], AmpTarget(m, CycleAt(day)))

\* The calibration anchors that lie before the stored history.
AnchorsBefore(s) == {d \in AnchorDays : \A e \in DOMAIN s : d < e}

\* assign_cycle knows no estimated halving, assign_cycle_in no day before the first one.
RealCycle(day)  == Least({CycleAt(day), Len(Halvings) - 1})
PointCycle(day) == Greatest({CycleAt(day), 1})

BinOf(day) == Least({(Phase(day) * Bins) \div Unit, Bins - 1})

\* The residuals of a cycle by bin, and the peaks of the curves.
CurveOf(residual, days) ==
  [b \in {BinOf(d) : d \in days} |->
     LET there == {d \in days : BinOf(d) = b} IN Total([d \in there |-> residual[d]]) \div Cardinality(there)]
WithCurves(spine, curves) ==
  [a |-> spine[1], b |-> spine[2], curves |-> curves,
   amps |-> [c \in DOMAIN curves |-> Greatest({curves[c][b] : b \in DOMAIN curves[c]})]]
OnSpine(s, spine) ==
  LET days(c) == {d \in DOMAIN s : CycleAt(d) = c}
      cycles  == {c \in 1..Len(Halvings) : Cardinality(days(c)) >= MinCycleObs}
  IN WithCurves(spine,
       [c \in cycles |-> CurveOf([d \in DOMAIN s |-> s[d] - Spine([a |-> spine[1], b |-> spine[2]], d)], days(c))])

SpineOf(s, points) ==
  Ols([d \in points |-> Log(d)],
      [d \in points |-> IF d \in DOMAIN s THEN s[d] ELSE AnchorLog(d)],
      [d \in points |-> IF d \in DOMAIN s THEN 1 ELSE AnchorWeight])

\* fit_model: <<the model>>, or <<>>.
FitOn(s, spine) == IF spine = <<>> THEN <<>> ELSE << OnSpine(s, spine[1]) >>
FitModel(s) == FitOn(s, SpineOf(s, DOMAIN s \cup AnchorsBefore(s)))

-----------------------------------------------------------------------------
(* The bands.                                                              *)

\* rho to the k-th.
RhoTo[k \in 0..CycleDays] == IF k = 0 THEN Unit ELSE Times(RhoTo[k - 1], Rho)

Horizons == {k \in 1..CycleDays : k % GridStep = 0 \/ k = CycleDays}

\* The distance of a quantile from the median, the mean of two samples'.
HalfWidth(errors, changes, q) ==
  LET half == Unit \div 2 IN
  ((Quantile(errors, q) - Quantile(errors, half))
    + (Quantile(changes, q) - Quantile(changes, half))) \div 2

\* The values of samples <<day, value>> in ascending order: the n-th is the one with fewer
\* than n below it.
Ascending(samples) ==
  LET below(v) == {s \in samples : s[2] < v}
      upTo(v)  == {s \in samples : s[2] <= v}
  IN [n \in 1..Cardinality(samples) |->
       CHOOSE v \in {s[2] : s \in samples} : Cardinality(below(v)) < n /\ n <= Cardinality(upTo(v))]

\* build_band_grid: [horizons with enough samples -> <<lower, upper offset>>]; r are the
\* residuals of the spine, c the cycle's components.
Offsets(errors, changes) ==
  <<HalfWidth(errors, changes, Unit \div 10), HalfWidth(errors, changes, (9 * Unit) \div 10)>>
GridOn(r, c) ==
  LET pairs(k) == {d \in DOMAIN r : d + k \in DOMAIN r}
      missed(k, d) == r[d + k] - (c[d + k] + Times(r[d] - c[d], RhoTo[k]))
  IN [k \in {h \in Horizons : Cardinality(pairs(h)) >= MinSamples} |->
       Offsets(Ascending({<<d, missed(k, d)>> : d \in pairs(k)}), Ascending({<<d, r[d + k] - r[d]>> : d \in pairs(k)}))]
BandGrid(m, s) == GridOn([d \in DOMAIN s |-> s[d] - Spine(m, d)], [d \in DOMAIN s |-> CycleComponent(m, d)])

\* offsets_at: linear between grid points, from zero today; beyond the last one, its own.
OffsetsAt(grid, k) ==
  LET below == {h \in DOMAIN grid : h < k}
      above == {h \in DOMAIN grid : h >= k}
      ka == IF below = {} THEN 0 ELSE Greatest(below)
      at(side) == IF below = {} THEN 0 ELSE grid[ka][side]
      kb == Least(above)
      between(side) == at(side) + Times(Over(k - ka, kb - ka), grid[kb][side] - at(side))
  IN IF above = {} THEN <<at(1), at(2)>> ELSE <<between(1), between(2)>>

-----------------------------------------------------------------------------
(* project_composite.                                                      *)

Newest(s)    == Greatest(DOMAIN s)
FitInput(s)  == [d \in {e \in DOMAIN s : s[e] # ZeroClose} |-> s[d]]
DeepHistory(s) == s # <<>> /\ Newest(s) - Least(DOMAIN s) >= CycleDays

\* compute_overlay comes first, and divides by a close of zero within a cycle.
OverlayFails(s) == \E d \in DOMAIN s : s[d] = ZeroClose /\ RealCycle(d) > 0

\* The model for a history that has one and whose last close is positive.
Fitted(s) ==
  IF ~DeepHistory(s) \/ OverlayFails(s) \/ s[Newest(s)] = ZeroClose THEN <<>> ELSE FitModel(FitInput(s))

\* Mutant: the continuity term forgets the cycle component.
GapOfSpine(m, s) == s[Newest(s)] - Spine(m, Newest(s))
\* g0, how far today's price is from the model.
Gap(m, s) == s[Newest(s)] - Spine(m, Newest(s)) - CycleComponent(m, Newest(s))

DayAhead(s, k) == Newest(s) + k

\* The center line, from the gap g0, and the points around it; off are the bands' offsets.
CenterOf(m, s, gap) ==
  [k \in 1..CycleDays |->
     Spine(m, DayAhead(s, k)) + CycleComponent(m, DayAhead(s, k)) + Times(gap, RhoTo[k])]
PointsOn(s, center, off) ==
  LET cycle(k) == PointCycle(DayAhead(s, k))
      mates(k) == {j \in 1..CycleDays : cycle(j) = cycle(k)}
      real(k)  == {d \in DOMAIN s : RealCycle(d) = cycle(k)}
      anchor(k) == IF real(k) # {} THEN s[Least(real(k))] ELSE center[Least(mates(k))]
      low(k)    == Least({s[d] : d \in real(k)} \cup {center[j] : j \in mates(k)})
  IN [k \in 1..CycleDays |->
       [day |-> DayAhead(s, k), cycle |-> cycle(k),
        p10 |-> center[k] + off[k][1], p50 |-> center[k], p90 |-> center[k] + off[k][2],
        normHalving |-> center[k] - anchor(k), normLow |-> center[k] - low(k)]]
OffsetsOn(grid) == [k \in 1..CycleDays |-> OffsetsAt(grid, k)]
ProjectComposite(m, s) == PointsOn(s, CenterOf(m, s, Gap(m, s)), OffsetsOn(BandGrid(m, FitInput(s))))

-----------------------------------------------------------------------------
ProjInit == daily = <<>> /\ today = FirstDay - 1 /\ model = <<>> /\ path = <<>>

\* The recompute of a history.
Recompute(s) ==
  \E fit \in {Fitted(s)} :
    /\ model' = fit
    /\ path' = IF fit = <<>> THEN <<>> ELSE ProjectComposite(fit[1], s)

\* A day passes, with a close or without, and the projection is made anew.
DayWithClose(close) ==
  /\ today < LastDay /\ today' = today + 1
  /\ close = ZeroClose => today' \in ZeroDays
  /\ daily' = [d \in DOMAIN daily \cup {today'} |-> IF d = today' THEN close ELSE daily[d]]
  /\ Recompute(daily')

DayWithout ==
  /\ today < LastDay /\ today' = today + 1
  /\ UNCHANGED daily /\ Recompute(daily)

\* The history is over; another begins.
AnotherHistory == today = LastDay /\ daily' = <<>> /\ today' = FirstDay - 1 /\ model' = <<>> /\ path' = <<>>

ProjNext == (\E close \in Levels \cup {ZeroClose} : DayWithClose(close)) \/ DayWithout \/ AnotherHistory

ProjSpec == ProjInit /\ [][ProjNext]_projVars

-----------------------------------------------------------------------------
\* A projection begins the day after the last close and covers a cycle, in the cycles of
\* the halving list with the estimated one, which it does not leave (REQ-CYCLE-061, -063).
PathTypeOK ==
  /\ DOMAIN daily \subseteq FirstDay..today
  /\ path # <<>> => /\ DOMAIN path = 1..CycleDays
                    /\ path[1].day = Newest(daily) + 1
                    /\ \A k \in 2..CycleDays : /\ path[k].day = path[k - 1].day + 1
                                               /\ path[k].cycle - path[k - 1].cycle \in {0, 1}

\* The bands contain the median path, whatever gaps and jumps the history has
\* (REQ-CYCLE-064; "never swapped", project_composite).
BandsOrdered ==
  \A k \in DOMAIN path : path[k].p10 <= path[k].p50 /\ path[k].p50 <= path[k].p90

\* Half a unit of the last place for each rounding on the way.
Rounding == 6

\* The path leaves from today's price: the first step is that of the model and the part
\* of the gap that one day closes ("the centre path MUST remain continuous at the join").
JoinIsContinuous ==
  path # <<>> =>
    LET m == model[1]  t == Newest(daily) IN
    Abs(path[1].p50 - daily[t]) <=
      Abs(Spine(m, t + 1) - Spine(m, t)) + Abs(CycleComponent(m, t + 1) - CycleComponent(m, t))
        + Times(Unit - Rho, Abs(Gap(m, daily))) + Rounding

\* No projected day's cycle component rises above the amplitude extrapolated for its
\* cycle, shrunk: past cycles that went higher are damped (amp_target, cycle_component).
PeaksAreDamped ==
  path # <<>> /\ model[1].amps # <<>> =>
    \A k \in DOMAIN path :
      CycleComponent(model[1], path[k].day)
        <= Times(Shrink, Greatest({AmpTarget(model[1], path[k].cycle), AmpFloor})) + Rounding

\* What project_composite promises of a path, for every history it is given: its days, its
\* bands, its first step and its peaks.
PathIsSound == PathTypeOK /\ BandsOrdered /\ JoinIsContinuous /\ PeaksAreDamped
=============================================================================
