---------------------------- MODULE RollupProofs ----------------------------
(***************************************************************************)
(* Native wins, nothing is fabricated, types, and parity: for every bucket *)
(* width, walk width and history, and whatever lands between two           *)
(* statements. And what a projection promises of its path, for every       *)
(* history of closes, list of halvings and constant of the fit.            *)
(***************************************************************************)
EXTENDS Rollup, Projection, FiniteSetTheorems, WellFoundedInduction, TLAPS

\* A function from the buckets.
IsRows(f) == f = [b \in Buckets |-> f[b]]

\* Every row, stored or in hand, is folded from candles of its bucket the source has.
Folded ==
  /\ IsRows(roll) /\ IsRows(emit)
  /\ \A b \in Buckets : roll[b] \subseteq src \cap SlotsOf(b)
  /\ \A b \in Buckets : emit[b] \subseteq src \cap SlotsOf(b)

\* A bucket has a provider's row or a rollup row.
OneRow == native \subseteq Buckets /\ \A b \in native : roll[b] = {}

IInv == Folded /\ OneRow

\* A fold of some of the source holds candles of the source only.
LEMMA FoldIsFolded ==
  ASSUME Folded, NEW S, S \subseteq src, NEW t
  PROVE  /\ IsRows(Fold(S, t))
         /\ \A b \in Buckets : Fold(S, t)[b] \subseteq src \cap SlotsOf(b)
BY DEF Folded, Fold, IsRows

\* The guarded upsert of such a fold keeps both, and every provider's row.
LEMMA GuardedKeeps ==
  ASSUME IInv, RollupGuarded(emit), src' = src
  PROVE  /\ IsRows(roll') /\ native' = native
         /\ \A b \in Buckets : roll'[b] \subseteq src \cap SlotsOf(b)
         /\ \A b \in native : roll'[b] = roll[b]
BY DEF IInv, Folded, OneRow, RollupGuarded, IsRows

LEMMA NoEmit == /\ IsRows([b \in Buckets |-> {}])
                /\ \A S, b \in Buckets : [c \in Buckets |-> {}][b] \subseteq S
BY DEF IsRows

\* Every step keeps the invariant, and the provider's rows.
LEMMA Step ==
  ASSUME IInv, [Next]_vars
  PROVE  IInv' /\ native \subseteq native' /\ (\A b \in native : roll'[b] = {})
<1> USE DEF Still, IsRows
<1>1. CASE Upsert \/ PutWindow
  <2>1. RollupGuarded(emit) /\ src' = src /\ emit' = [b \in Buckets |-> {}]
    BY <1>1 DEF Upsert, PutWindow
  <2> QED BY <2>1, GuardedKeeps, NoEmit DEF IInv, Folded, OneRow
<1>2. CASE ReadSource \/ ReadWindow
  <2>1. UNCHANGED <<src, roll, native>> BY <1>2 DEF ReadSource, ReadWindow
  <2>2. emit' = emit \/ \E S \in SUBSET src, t \in {clock} : emit' = Fold(S, t)
    BY <1>2 DEF ReadSource, ReadWindow
  <2>3. IsRows(emit') /\ \A b \in Buckets : emit'[b] \subseteq src \cap SlotsOf(b)
    BY <2>2, FoldIsFolded DEF IInv, Folded
  <2> QED BY <2>1, <2>3 DEF IInv, Folded, OneRow
<1>3. CASE DeleteOne
  <2>1. PICK b \in prev : roll' = [roll EXCEPT ![b] = {}] BY <1>3 DEF DeleteOne
  <2>2. UNCHANGED <<src, native, emit>> BY <1>3 DEF DeleteOne
  <2> QED BY <2>1, <2>2 DEF IInv, Folded, OneRow
<1>4. CASE NativeRow
  <2>1. PICK b \in Buckets : native' = native \cup {b} /\ roll' = [roll EXCEPT ![b] = {}]
    BY <1>4 DEF NativeRow
  <2>2. UNCHANGED <<src, emit>> BY <1>4 DEF NativeRow, Stale, run
  <2> QED BY <2>1, <2>2 DEF IInv, Folded, OneRow
<1>5. CASE Refresh \/ BackfillBehind \/ LateCandle
  <2>1. UNCHANGED <<roll, native, emit>>
    BY <1>5 DEF Refresh, BackfillBehind, LateCandle, Stale, run
  <2>2. src \subseteq src' BY <1>5 DEF Refresh, BackfillBehind, LateCandle
  <2> QED BY <2>1, <2>2 DEF IInv, Folded, OneRow, IsRows
<1>6. CASE Die \/ Complete
  <2>1. UNCHANGED table /\ emit' = [b \in Buckets |-> {}] BY <1>6 DEF Die, Complete, Reset
  <2> QED BY <2>1, NoEmit DEF IInv, Folded, OneRow, table
<1>7. CASE \/ Start \/ ReadMax \/ ReadEarliest \/ ReadPreviouslyMaterialized \/ ReadLow
           \/ ReadLowMaterialized \/ Enqueue \/ EnqueueFails \/ PeriodicRefresh \/ Tick
           \/ UNCHANGED vars
  <2>1. UNCHANGED <<src, roll, native, emit>>
    BY <1>7 DEF Start, ReadMax, ReadEarliest, ReadPreviouslyMaterialized, ReadLow,
         ReadLowMaterialized, Enqueue, EnqueueFails, PeriodicRefresh, Tick, Stale, vars, table, run
  <2> QED BY <2>1 DEF IInv, Folded, OneRow
<1> QED BY <1>1, <1>2, <1>3, <1>4, <1>5, <1>6, <1>7 DEF Next, Run

\* Nothing is fabricated: a rollup row holds only candles of its bucket that the
\* source has, and never stands beside a provider's row (materialize_from_source).
THEOREM InvHolds == Spec => []IInv
<1>1. Init => IInv BY DEF Init, IInv, Folded, OneRow, IsRows
<1>2. IInv /\ [Next]_vars => IInv' BY Step
<1> QED BY <1>1, <1>2, PTL DEF Spec

\* No step of a run removes or replaces a provider's row (RollupGuarded, the
\* scoped read and the scoped DELETE).
THEOREM NativeIsKept == Spec => NativeWins
<1> DEFINE Kept == native \subseteq native' /\ \A b \in native : roll'[b] = {}
<1>1. IInv /\ [Next]_vars => [Kept]_vars BY Step
<1>2. IInv /\ [Next]_vars => IInv' BY Step
<1>3. Init => IInv BY DEF Init, IInv, Folded, OneRow, IsRows
<1> QED BY <1>1, <1>2, <1>3, PTL DEF Spec, NativeWins

-----------------------------------------------------------------------------
(* Types.  The instants a run keeps come from the least and greatest slots *)
(* and buckets of the table, so these must exist and lie in range.         *)

\* The order of the naturals has no infinite descent.
LEMMA NatOrder ==
  ASSUME NEW S, S \subseteq Nat, S # {}
  PROVE  \E n \in S : \A m \in S : n <= m
<1>1. PICK n \in S : \A m \in S : ~(<<m, n>> \in OpToRel(<, Nat))
  BY WFMin, NatLessThanWellFounded
<1>2. OpToRel(<, Nat) = {ss \in Nat \X Nat : ss[1] < ss[2]}
  BY DEF OpToRel
<1>3. ASSUME NEW m \in S PROVE n <= m
  <2>1. ~(<<m, n>> \in {ss \in Nat \X Nat : ss[1] < ss[2]})
    BY <1>1, <1>2, Zenon
  <2>2. ~(m < n)
    BY <2>1
  <2> QED
    BY <2>2
<1> QED
  BY <1>3

\* MIN(ts) of something is the first of its instants.
LEMMA LowestIs ==
  ASSUME NEW S, S \subseteq Nat, S # {}
  PROVE  Lowest(S) \in S /\ \A t \in S : Lowest(S) <= t
<1>1. \E s \in S : \A t \in S : s <= t
  BY NatOrder
<1> QED
  BY <1>1 DEF Lowest

\* MAX(ts) of something bounded is the last of its instants.
LEMMA HighestIs ==
  ASSUME NEW n \in Nat, NEW S, S \subseteq 1..n, S # {}
  PROVE  Highest(S) \in S /\ \A t \in S : Highest(S) >= t
<1> DEFINE M == {n - s : s \in S}
<1>1. M \subseteq Nat /\ M # {}
  <2>1. \A s \in S : n - s \in Nat
    OBVIOUS
  <2>2. PICK s \in S : TRUE
    OBVIOUS
  <2>3. n - s \in M
    BY <2>2
  <2> QED
    BY <2>1, <2>3
<1>2. PICK m \in M : \A k \in M : m <= k
  BY <1>1, NatOrder
<1>3. PICK s \in S : m = n - s
  OBVIOUS
<1>4. \A t \in S : s >= t
  <2> TAKE t \in S
  <2>1. n - t \in M
    OBVIOUS
  <2>2. n - s <= n - t
    BY <1>2, <1>3, <2>1
  <2> QED
    BY <2>2
<1> QED
  BY <1>4 DEF Highest

\* Slots and widths are numbers; buckets and weeks begin within the table.
LEMMA Widths ==
  /\ Last * N \in Nat /\ Chunk \in Nat /\ Slots \subseteq Nat
  /\ \A b \in Buckets : FirstSlot(b) \in Nat /\ FirstSlot(b) <= Last * N
  /\ \A s \in Slots : WeekStart(s) \in Nat
<1> USE RollupAssumption
<1>1. Last * N \in Nat /\ Chunk \in Nat
  BY DEF Chunk
<1>2. ASSUME NEW b \in Buckets PROVE FirstSlot(b) \in Nat /\ FirstSlot(b) <= Last * N
  <2>1. b \in 1..Last
    BY DEF Buckets
  <2>2. PICK d \in Nat : Last = (b - 1) + 1 + d
    <3>1. Last - b \in Nat
      BY <2>1
    <3> QED
      BY <2>1, <3>1
  <2> DEFINE B == b - 1
  <2>3. B \in Nat
    BY <2>1
  <2> HIDE DEF B
  <2>4. Last * N = B * N + N + d * N
    BY <2>2, <2>3 DEF B
  <2>5. B * N \in Nat /\ d * N \in Nat
    BY <2>2, <2>3
  <2>6. B * N + 1 <= Last * N
    BY <2>4, <2>5
  <2> QED
    BY <2>5, <2>6 DEF FirstSlot, B
<1>3. Slots \subseteq Nat
  BY <1>1 DEF Slots
<1>4. ASSUME NEW s \in Slots PROVE WeekStart(s) \in Nat
  <2> DEFINE w == Week * N
  <2>1. w \in Nat \ {0}
    OBVIOUS
  <2>2. s \in Nat /\ s >= 1
    BY <1>1 DEF Slots
  <2> HIDE DEF w
  <2>3. (s - 1) % w \in Nat /\ (s - 1) % w <= s - 1
    BY <2>1, <2>2
  <2> QED
    BY <2>2, <2>3 DEF WeekStart, w
<1> QED
  BY <1>1, <1>2, <1>3, <1>4

\* The instants and buckets of TypeOK, and what ReadLow leaves to the step after it.
Numbers ==
  /\ src \subseteq Slots /\ native \subseteq Buckets /\ now \in Slots
  /\ prev \subseteq Buckets
  /\ pc \in Steps /\ clock \in 0..(Last * N) /\ at \in Nat /\ ceil \in 0..(Last * N)
  /\ pc = "low" => at \in Slots

Flags == {refreshed, queued, repair, fresh, blind} \subseteq BOOLEAN

Counts == budget \in [{"block", "late", "native", "fault"} -> Nat]

LEMMA NumbersKept == Numbers /\ [Next]_vars => Numbers'
<1> SUFFICES ASSUME Numbers, [Next]_vars PROVE Numbers'
  OBVIOUS
<1> USE Widths DEF Numbers, Steps, Goto, Still
<1>1. CASE ReadMax
  <2>1. Materialized # {} => Highest(Materialized) \in Buckets
    BY HighestIs, RollupAssumption DEF Materialized, Buckets
  <2> QED
    BY <1>1, <2>1 DEF ReadMax, item
<1>2. CASE ReadEarliest \/ ReadLow
  <2>1. src # {} => Lowest(src) \in Slots
    BY LowestIs
  <2> QED
    BY <1>2, <2>1 DEF ReadEarliest, ReadLow, item
<1>3. CASE ReadLowMaterialized
  <2>1. Materialized # {} => Lowest(Materialized) \in Buckets
    BY LowestIs, RollupAssumption DEF Materialized, Buckets
  <2>2. RepairDue => Materialized # {}
    BY DEF RepairDue
  <2> QED
    BY <1>3, <2>1, <2>2 DEF ReadLowMaterialized, item
<1>4. CASE Upsert \/ PutWindow
  <2>1. native' \subseteq Buckets
    BY <1>4 DEF Upsert, PutWindow, RollupGuarded
  <2>2. PutWindow => at' \in Nat
    BY DEF PutWindow
  <2> QED
    BY <1>4, <2>1, <2>2 DEF Upsert, PutWindow, Deletes, item
<1>5. CASE Refresh \/ BackfillBehind \/ LateCandle
  <2>1. src # {} => Lowest(src) \in Slots
    BY LowestIs
  <2>2. src' \subseteq Slots
    <3>1. CASE Refresh
      BY <3>1 DEF Refresh
    <3>2. CASE BackfillBehind
      <4>1. src # {} /\ src' \subseteq src \cup (1..(Lowest(src) - 1))
        BY <3>2, Zenon DEF BackfillBehind
      <4>2. 1..(Lowest(src) - 1) \subseteq Slots
        BY <2>1, <4>1 DEF Slots
      <4> QED
        BY <4>1, <4>2
    <3>3. CASE LateCandle
      BY <2>1, <3>3 DEF LateCandle, Slots
    <3> QED
      BY <1>5, <3>1, <3>2, <3>3
  <2> QED
    BY <1>5, <2>2 DEF Refresh, BackfillBehind, LateCandle, Stale, run
<1>6. CASE Tick
  <2>1. now' \in Slots
    BY <1>6 DEF Tick, Slots
  <2> QED
    BY <1>6, <2>1 DEF Tick, table, Stale, run
<1>7. CASE NativeRow
  BY <1>7 DEF NativeRow, Stale, run
<1>8. CASE Start
  BY <1>8 DEF Start, table, Slots
<1>9. CASE ReadPreviouslyMaterialized \/ ReadSource \/ ReadWindow \/ DeleteOne
  BY <1>9 DEF ReadPreviouslyMaterialized, ReadSource, ReadWindow, DeleteOne, Materialized, item
<1>10. CASE Complete \/ Die
  <2>1. 0 \in Nat /\ 0 \in 0..(Last * N) /\ "idle" \in Steps
    OBVIOUS
  <2>2. /\ src' = src /\ native' = native /\ now' = now /\ pc' = "idle" /\ clock' = 0
        /\ prev' = {} /\ at' = 0 /\ ceil' = 0
    BY <1>10 DEF Complete, Die, Reset, table
  <2> QED
    BY <2>1, <2>2
<1>11. CASE Enqueue \/ EnqueueFails \/ PeriodicRefresh \/ UNCHANGED vars
  BY <1>11 DEF Enqueue, EnqueueFails, PeriodicRefresh, vars, table, run
<1> QED
  BY <1>1, <1>2, <1>3, <1>4, <1>5, <1>6, <1>7, <1>8, <1>9, <1>10, <1>11 DEF Next, Run

LEMMA FlagsKept == Flags /\ [Next]_vars => Flags'
<1> SUFFICES ASSUME Flags, [Next]_vars PROVE Flags'
  OBVIOUS
<1>1. /\ refreshed \in BOOLEAN /\ queued \in BOOLEAN /\ repair \in BOOLEAN
      /\ fresh \in BOOLEAN /\ blind \in BOOLEAN
  BY DEF Flags
<1>2. refreshed' \in BOOLEAN
  BY <1>1, Zenon DEF Next, Run, Still, Start, ReadMax, ReadEarliest, ReadPreviouslyMaterialized,
     ReadSource, Upsert, DeleteOne, ReadLow, ReadLowMaterialized, ReadWindow, PutWindow,
     Complete, Die, Refresh, Enqueue, EnqueueFails, PeriodicRefresh, BackfillBehind,
     LateCandle, NativeRow, Tick, item, vars
<1>3. queued' \in BOOLEAN
  BY <1>1, Zenon DEF Next, Run, Still, Start, ReadMax, ReadEarliest, ReadPreviouslyMaterialized,
     ReadSource, Upsert, DeleteOne, ReadLow, ReadLowMaterialized, ReadWindow, PutWindow,
     Complete, Die, Refresh, Enqueue, EnqueueFails, PeriodicRefresh, BackfillBehind,
     LateCandle, NativeRow, Tick, item, vars
<1>4. repair' \in BOOLEAN
  BY <1>1, Zenon DEF Next, Run, Still, Start, ReadMax, ReadEarliest, ReadPreviouslyMaterialized,
     ReadSource, Upsert, DeleteOne, ReadLow, ReadLowMaterialized, ReadWindow, PutWindow,
     Complete, Die, Reset, Refresh, Enqueue, EnqueueFails, PeriodicRefresh, BackfillBehind,
     LateCandle, NativeRow, Tick, Stale, run, vars
<1>5. fresh' \in BOOLEAN
  BY <1>1, Zenon DEF Next, Run, Still, Start, ReadMax, ReadEarliest, ReadPreviouslyMaterialized,
     ReadSource, Upsert, DeleteOne, ReadLow, ReadLowMaterialized, ReadWindow, PutWindow,
     Complete, Die, Refresh, Enqueue, EnqueueFails, PeriodicRefresh, BackfillBehind,
     LateCandle, NativeRow, Tick, Stale, vars
<1>6. blind' \in BOOLEAN
  BY <1>1, Zenon DEF Next, Run, Still, Start, ReadMax, ReadEarliest, ReadPreviouslyMaterialized,
     ReadSource, Upsert, DeleteOne, ReadLow, ReadLowMaterialized, ReadWindow, PutWindow,
     Complete, Die, Refresh, Enqueue, EnqueueFails, PeriodicRefresh, BackfillBehind,
     LateCandle, NativeRow, Tick, vars
<1> QED
  BY <1>2, <1>3, <1>4, <1>5, <1>6 DEF Flags

LEMMA CountsKept == Counts /\ [Next]_vars => Counts'
BY DEF Counts, Use, Next, Run, Still, Start, ReadMax, ReadEarliest, ReadPreviouslyMaterialized,
   ReadSource, Upsert, DeleteOne, ReadLow, ReadLowMaterialized, ReadWindow, PutWindow,
   Complete, Die, Refresh, Enqueue, EnqueueFails, PeriodicRefresh, BackfillBehind,
   LateCandle, NativeRow, Tick, vars

\* Types, for every width, walk and history: what a run remembers from one
\* statement to the next is in range, and every row holds slots of its own bucket.
THEOREM TypeCorrect == Spec => []TypeOK
<1>1. Init => IInv /\ Numbers /\ Flags /\ Counts
  <2>1. Init => IInv
    BY DEF Init, IInv, Folded, OneRow, IsRows
  <2>2. Init => Numbers
    BY Widths, RollupAssumption DEF Init, Numbers, Steps
  <2>3. Init => Flags
    BY Zenon DEF Init, Flags
  <2>4. Init => Counts
    BY DEF Init, Counts
  <2> QED
    BY <2>1, <2>2, <2>3, <2>4
<1>2. IInv /\ [Next]_vars => IInv'
  BY Step
<1>3. IInv /\ Numbers /\ Flags /\ Counts => TypeOK
  BY DEF IInv, Folded, IsRows, Numbers, Flags, Counts, TypeOK
<1> QED
  BY <1>1, <1>2, <1>3, NumbersKept, FlagsKept, CountsKept, PTL DEF Spec

-----------------------------------------------------------------------------
(* Arithmetic of slots, buckets, weeks and chunks.                         *)

\* A product with the width is monotone.
LEMMA TimesIs ==
  ASSUME NEW a \in Int, NEW b \in Int, a <= b
  PROVE  a * N \in Int /\ b * N \in Int /\ a * N <= b * N
<1> USE RollupAssumption
<1>1. b - a \in Nat
  OBVIOUS
<1>2. PICK d \in Nat : b = a + d
  BY <1>1
<1>3. b * N = a * N + d * N
  BY <1>2
<1>4. d * N \in Nat
  OBVIOUS
<1> QED
  BY <1>3, <1>4

LEMMA Quotient ==
  ASSUME NEW s \in Nat, NEW w \in Nat \ {0}
  PROVE  /\ s \div w \in Nat /\ s % w \in Nat
         /\ s = (s \div w) * w + (s % w) /\ s % w < w
OBVIOUS

\* The slots of a bucket, and the bucket of a slot.
LEMMA InSlots ==
  ASSUME NEW b \in Int, NEW s
  PROVE  s \in SlotsOf(b) <=> s \in Int /\ (b - 1) * N < s /\ s <= b * N
<1>1. (b - 1) * N \in Int /\ b * N \in Int
  BY TimesIs
<1> DEFINE f == (b - 1) * N
           l == b * N
<1> HIDE DEF f, l
<1>2. s \in (f + 1)..l <=> s \in Int /\ f < s /\ s <= l
  BY <1>1 DEF f, l
<1> QED
  BY <1>2 DEF SlotsOf, FirstSlot, f, l

LEMMA BucketIs ==
  ASSUME NEW s \in Nat \ {0}
  PROVE  BucketOf(s) \in Nat \ {0} /\ s \in SlotsOf(BucketOf(s))
<1> USE RollupAssumption
<1> DEFINE q == (s - 1) \div N
           r == (s - 1) % N
<1>1. q \in Nat /\ r \in Nat /\ s - 1 = q * N + r /\ r < N
  BY Quotient
<1>2. BucketOf(s) = q + 1
  BY DEF BucketOf
<1> HIDE DEF q, r
<1>3. (q + 1) * N = q * N + N /\ q * N \in Nat
  BY <1>1
<1>4. s \in SlotsOf(q + 1)
  BY <1>1, <1>3, InSlots
<1> QED
  BY <1>1, <1>2, <1>4

\* Order of slots and order of buckets.
LEMMA Before ==
  ASSUME NEW b \in Int, NEW c \in Int, NEW s \in SlotsOf(b), NEW t \in SlotsOf(c), s <= t
  PROVE  b <= c
<1>1. CASE c < b
  <2>1. c * N <= (b - 1) * N
    BY <1>1, TimesIs
  <2> QED
    BY <2>1, InSlots, TimesIs
<1> QED
  BY <1>1

LEMMA OneBucket ==
  ASSUME NEW b \in Int, NEW c \in Int, NEW s \in SlotsOf(b), s \in SlotsOf(c)
  PROVE  b = c
<1>1. b <= c /\ c <= b
  BY Before, InSlots
<1> QED
  BY <1>1

LEMMA FirstIs ==
  ASSUME NEW b \in Int
  PROVE  /\ FirstSlot(b) \in SlotsOf(b) /\ b * N \in SlotsOf(b)
         /\ \A s \in SlotsOf(b) : FirstSlot(b) <= s
<1> USE RollupAssumption
<1>1. b * N = (b - 1) * N + N /\ (b - 1) * N \in Int
  OBVIOUS
<1> QED
  BY <1>1, InSlots DEF FirstSlot

\* WHERE ts >= a bucket's start.
LEMMA FromStart ==
  ASSUME NEW b \in Int, NEW w \in Int, NEW s \in SlotsOf(b)
  PROVE  s >= FirstSlot(w) <=> w <= b
<1>1. FirstSlot(w) \in SlotsOf(w) /\ FirstSlot(w) \in Int /\ s \in Int
  BY FirstIs, InSlots
<1>2. s >= FirstSlot(w) => w <= b
  BY <1>1, Before
<1>3. ASSUME w <= b PROVE s >= FirstSlot(w)
  <2>1. (w - 1) * N <= (b - 1) * N
    BY <1>3, TimesIs
  <2> QED
    BY <2>1, InSlots, TimesIs DEF FirstSlot
<1> QED
  BY <1>2, <1>3

LEMMA BucketOfFirst ==
  ASSUME NEW w \in Nat \ {0}
  PROVE  FirstSlot(w) \in Nat \ {0} /\ BucketOf(FirstSlot(w)) = w
<1>1. FirstSlot(w) \in Nat \ {0}
  <2>1. (w - 1) * N \in Nat
    BY RollupAssumption
  <2> QED
    BY <2>1 DEF FirstSlot
<1> QED
  BY <1>1, BucketIs, OneBucket, FirstIs

LEMMA ClosedIs ==
  ASSUME NEW b \in Int, NEW t \in Nat \ {0}
  PROVE  Closed(b, t) <=> b < BucketOf(t)
<1> DEFINE c == BucketOf(t)
<1>1. c \in Nat \ {0} /\ t \in SlotsOf(c)
  BY BucketIs
<1> HIDE DEF c
<1>2. ASSUME b < c PROVE b * N < t
  <2>1. b * N <= (c - 1) * N
    BY <1>1, <1>2, TimesIs
  <2> QED
    BY <1>1, <2>1, InSlots, TimesIs
<1>3. ASSUME c <= b PROVE t <= b * N
  <2>1. c * N <= b * N
    BY <1>1, <1>3, TimesIs
  <2> QED
    BY <1>1, <2>1, InSlots, TimesIs
<1>4. b * N \in Int
  BY TimesIs
<1> QED
  BY <1>1, <1>2, <1>3, <1>4 DEF Closed, c

K == ChunkWeeks * Week

LEMMA ChunkIs ==
  ASSUME NEW w \in Nat \ {0}
  PROVE  K \in Nat \ {0} /\ FirstSlot(w) + Chunk = FirstSlot(w + K)
<1> USE RollupAssumption
<1>1. K \in Nat \ {0}
  BY DEF K
<1>2. Chunk = K * N
  BY DEF Chunk, K
<1> HIDE DEF K
<1>3. (w + K - 1) * N = (w - 1) * N + K * N
  BY <1>1
<1>4. (w - 1) * N \in Nat /\ K * N \in Nat
  BY <1>1
<1> QED
  BY <1>1, <1>2, <1>3, <1>4 DEF FirstSlot

LEMMA WeekIs ==
  ASSUME NEW s \in Nat \ {0}
  PROVE  \E w \in Nat \ {0} : WeekStart(s) = FirstSlot(w) /\ w <= BucketOf(s)
<1> USE RollupAssumption
<1> DEFINE M == Week * N
<1>1. M \in Nat \ {0}
  OBVIOUS
<1> HIDE DEF M
<1> DEFINE q == (s - 1) \div M
           r == (s - 1) % M
           w == q * Week + 1
<1>2. q \in Nat /\ r \in Nat /\ s - 1 = q * M + r
  BY <1>1, Quotient
<1>3. WeekStart(s) = s - r
  BY DEF WeekStart, M
<1> HIDE DEF q, r
<1>4. q * M = (w - 1) * N /\ w \in Nat \ {0} /\ (w - 1) * N \in Nat
  BY <1>2 DEF M
<1> HIDE DEF w
<1>5. WeekStart(s) = FirstSlot(w) /\ FirstSlot(w) <= s
  BY <1>2, <1>3, <1>4 DEF FirstSlot
<1>6. w <= BucketOf(s)
  BY <1>4, <1>5, BucketIs, FromStart
<1> QED
  BY <1>4, <1>5, <1>6

-----------------------------------------------------------------------------
(* Set parity.  One part of the invariant for each step of a run says what *)
(* is right already, what will be written, and what history that lands     *)
(* behind all rows may still change: no bucket with a row at or before it. *)


\* The buckets the clock, the walk and its end are in.
Forming == BucketOf(now)
From    == BucketOf(at)
Upto    == BucketOf(ceil)

\* What the row of a closed bucket should hold, and whether it does.
Whole(b) == IF b \in native \/ ~(SlotsOf(b) \subseteq src) THEN {} ELSE SlotsOf(b)
Right(b) == roll[b] = Whole(b)
\* The row of a bucket that is not closed is what there is of it.
Forms(b) == roll[b] = IF b \in native THEN {} ELSE src \cap SlotsOf(b)
\* No row at b or before it: the next run that repairs will look there.
Behind(b) == \E l \in Materialized : l <= b
Bare(b)   == \A l \in Buckets : l < b => roll[l] = {} /\ emit[l] = {}

\* The fold in hand for a closed bucket is that of the source, or history came in behind
\* all rows since it was read.
Exact(b)    == emit[b] = IF SlotsOf(b) \subseteq src THEN SlotsOf(b) ELSE {}
Gathered(b) == Exact(b) \/ (emit[b] = {} /\ Bare(b))

\* Between two rows the table is right, and after an undisturbed run everywhere.
Between == \A b \in Buckets, m \in Materialized : b < m /\ Behind(b) => Right(b)
Resting ==
  /\ Between
  /\ fresh /\ pc \in {"idle", "complete"} => InParity \/ Materialized = {}

\* The forward recompute, up to its upsert.
Forward ==
  /\ From \in Buckets /\ at = FirstSlot(From) /\ From <= Forming
  /\ src \cap SlotsOf(From) # {}
  /\ \A m \in Materialized : m <= From
  /\ \A b \in Buckets : b < From /\ Behind(b) => Right(b)
  /\ pc # "prev" => prev \subseteq {From} /\ (From \in Materialized => From \in prev)
  /\ pc = "upsert" =>
       /\ \A b \in Buckets : b < From => emit[b] = {}
       /\ \A b \in Buckets : From <= b /\ b < Forming => Gathered(b)
       /\ From = Forming => emit[From] # {}
       /\ fresh => \A b \in Buckets : Forming <= b => emit[b] = src \cap SlotsOf(b)

\* Its deletes, and the look for history behind the first row.
Trailing ==
  /\ \A b \in Buckets : b < Forming /\ b \notin prev /\ Behind(b) => Right(b)
  /\ \A b \in prev :
       b < Forming /\ (Whole(b) = {} \/ \A l \in Buckets : l < b => roll[l] = {})
  /\ fresh => \A b \in Buckets : Forming <= b => Forms(b)
  /\ pc = "low" => prev = {} /\ (fresh => src # {} /\ at = Lowest(src))

\* A walk over all history or, in a repair, up to the first row.
Walk ==
  /\ From \in Nat \ {0} /\ at = FirstSlot(From)
  /\ \A b \in Buckets : b < Forming /\ b < From /\ Behind(b) => Right(b)
  /\ ~repair => ceil = clock /\ \A m \in Materialized : m < From
  /\ repair =>
       /\ Upto \in Buckets /\ ceil = FirstSlot(Upto)
       /\ \A b \in Buckets : Upto <= b /\ b < Forming => Right(b)
       /\ src \cap SlotsOf(Upto) # {} /\ (Upto < Forming => SlotsOf(Upto) \subseteq src)
       /\ \A m \in Materialized : m < From \/ Upto <= m
  /\ pc = "put" =>
       /\ \A b \in Buckets : b < From \/ From + K <= b => emit[b] = {}
       /\ \A b \in Buckets : From <= b /\ b < From + K /\ b < Forming => Gathered(b)
  /\ fresh =>
       /\ \A b \in Buckets : b < From /\ b < Forming => Right(b)
       /\ \A b \in Buckets : Forming <= b /\ (repair \/ b < From) => Forms(b)
       /\ pc = "put" => \A b \in Buckets : From <= b /\ b < From + K =>
            IF b < Forming THEN Exact(b) ELSE emit[b] = src \cap SlotsOf(b)

\* One part for each step of a run; nothing is claimed once a row went wrong for good.
Tracked ==
  /\ src \subseteq 1..now
  /\ fresh /\ pc # "idle" => clock = now
  /\ repair => pc \in {"walk", "put", "complete"}
  /\ ~blind =>
     /\ pc # "idle" => clock \in Slots /\ BucketOf(clock) = Forming
     /\ pc \in {"idle", "max", "complete"} => Resting
     /\ pc = "earliest" => Materialized = {}
     /\ pc \in {"prev", "source", "upsert"} => Forward
     /\ pc \in {"delete", "low"} => Trailing
     /\ pc \in {"walk", "put"} => Walk

Inv == IInv /\ Numbers /\ Flags /\ Tracked

-----------------------------------------------------------------------------
LEMMA BucketsAre ==
  /\ Buckets \subseteq Nat \ {0}
  /\ \A b \in Buckets : SlotsOf(b) # {}
  /\ Slots \subseteq Nat \ {0}
<1>1. Buckets \subseteq Nat \ {0}
  BY RollupAssumption DEF Buckets
<1>2. Slots \subseteq Nat \ {0}
  BY Widths DEF Slots
<1> QED
  BY <1>1, <1>2, FirstIs

LEMMA BucketNat == \A b \in Buckets : b \in Nat /\ b >= 1
BY BucketsAre

LEMMA SlotNat == Numbers => /\ now \in Nat /\ now >= 1
                            /\ \A s \in src : s \in Nat /\ s >= 1
BY BucketsAre DEF Numbers

LEMMA FormingIs == Numbers => Forming \in Nat \ {0}
BY BucketIs, BucketsAre DEF Numbers, Forming

\* What the source has is not of a bucket to come.
LEMMA NothingToCome ==
  ASSUME Numbers, src \subseteq 1..now, NEW b \in Buckets, src \cap SlotsOf(b) # {}
  PROVE  b <= Forming
<1>1. PICK s \in src \cap SlotsOf(b) : TRUE
  OBVIOUS
<1>2. now \in SlotsOf(Forming) /\ Forming \in Int /\ b \in Int /\ s <= now
  BY <1>1, BucketIs, BucketsAre DEF Numbers, Forming
<1> QED
  BY <1>1, <1>2, Before

LEMMA FoldIs ==
  ASSUME NEW S, NEW t \in Nat \ {0}, NEW b \in Buckets
  PROVE  Fold(S, t)[b] =
           IF b < BucketOf(t) /\ S \cap SlotsOf(b) # SlotsOf(b) THEN {} ELSE S \cap SlotsOf(b)
<1>1. Closed(b, t) <=> b < BucketOf(t)
  BY ClosedIs, BucketsAre
<1> QED
  BY <1>1 DEF Fold

\* The source from a bucket on, and the source of one chunk.
LEMMA SourceFrom ==
  ASSUME NEW w \in Nat \ {0}, NEW b \in Buckets
  PROVE  {s \in src : s >= FirstSlot(w)} \cap SlotsOf(b)
           = IF w <= b THEN src \cap SlotsOf(b) ELSE {}
<1>1. \A s \in SlotsOf(b) : s >= FirstSlot(w) <=> w <= b
  BY FromStart, BucketsAre
<1> QED
  BY <1>1

LEMMA SourceOfChunk ==
  ASSUME NEW w \in Nat \ {0}, NEW b \in Buckets
  PROVE  {s \in src : s >= FirstSlot(w) /\ s < FirstSlot(w) + Chunk} \cap SlotsOf(b)
           = IF w <= b /\ b < w + K THEN src \cap SlotsOf(b) ELSE {}
<1>1. FirstSlot(w) + Chunk = FirstSlot(w + K) /\ w + K \in Nat \ {0} /\ b \in Int
  BY ChunkIs, BucketsAre
<1>2. \A s \in SlotsOf(b) : s >= FirstSlot(w) <=> w <= b
  BY FromStart, BucketsAre
<1>3. \A s \in SlotsOf(b) : s >= FirstSlot(w + K) <=> w + K <= b
  BY <1>1, FromStart
<1>4. FirstSlot(w + K) \in Int /\ \A s \in SlotsOf(b) : s \in Int
  BY <1>1, FirstIs, InSlots
<1>5. \A s \in SlotsOf(b) : s < FirstSlot(w + K) <=> b < w + K
  BY <1>1, <1>3, <1>4
<1> HIDE DEF K
<1> QED
  BY <1>1, <1>2, <1>5

\* One upsert of what is in hand.
LEMMA PutIs ==
  ASSUME IInv, RollupGuarded(emit), src' = src, NEW b \in Buckets
  PROVE  /\ roll'[b] = IF emit[b] # {} /\ b \notin native THEN emit[b] ELSE roll[b]
         /\ Whole(b)' = Whole(b) /\ native' = native
BY DEF RollupGuarded, Emitted, Whole, IInv, Folded

LEMMA PutRight ==
  ASSUME IInv, RollupGuarded(emit), src' = src, NEW b \in Buckets, Exact(b),
         roll[b] = {} \/ emit[b] # {} \/ Right(b)
  PROVE  Right(b)'
<1>1. /\ roll'[b] = IF emit[b] # {} /\ b \notin native THEN emit[b] ELSE roll[b]
      /\ Whole(b)' = Whole(b)
  BY PutIs
<1>2. roll'[b] = Whole(b)
  BY <1>1, BucketsAre DEF Exact, Right, Whole, IInv, OneRow
<1> QED
  BY <1>1, <1>2 DEF Right

\* The parity of a settled table, bucket by bucket.
LEMMA ParityIs ==
  ASSUME IInv, Numbers,
         \A b \in Buckets : IF b < Forming THEN Right(b) ELSE Forms(b)
  PROVE  InParity
<1>1. ASSUME NEW b \in Buckets
      PROVE  roll[b] = IF b \in native THEN {} ELSE Fold(src, now)[b]
  <2>1. now \in Nat \ {0}
    BY BucketsAre DEF Numbers
  <2>2. Fold(src, now)[b] =
          IF b < Forming /\ src \cap SlotsOf(b) # SlotsOf(b) THEN {} ELSE src \cap SlotsOf(b)
    <3>1. Fold(src, now)[b] =
            IF b < BucketOf(now) /\ src \cap SlotsOf(b) # SlotsOf(b)
            THEN {} ELSE src \cap SlotsOf(b)
      BY <2>1, FoldIs
    <3> QED
      BY <3>1 DEF Forming
  <2> QED
    BY <2>2 DEF Right, Whole, Forms
<1> QED
  BY <1>1 DEF InParity, IInv, Folded, IsRows

-----------------------------------------------------------------------------
(* What the rest of the system does between two statements of a run: it    *)
(* adds to the source, and a provider's row replaces a rollup row.         *)

\* A closed bucket that can still be completed from behind: no source before it.
Grown(b)  == ~(SlotsOf(b) \subseteq src) /\ \A l \in Buckets : l < b => src \cap SlotsOf(l) = {}
Spared(b) == SlotsOf(b) \cap src' = SlotsOf(b) \cap src \/ Grown(b)

Outside ==
  /\ UNCHANGED run /\ ~fresh' /\ (blind => blind')
  /\ src \subseteq src' /\ src' \subseteq 1..now'
  /\ native \subseteq native'
  /\ \A b \in Buckets : IF b \in native' \ native THEN roll'[b] = {} ELSE roll'[b] = roll[b]
  /\ ~blind' =>
       /\ pc # "idle" => Forming' = Forming
       /\ \A b \in Buckets :
            (pc # "idle" /\ b < Forming) \/ (\E m \in Materialized : b < m) => Spared(b)

LEMMA OutsideFrame ==
  ASSUME Outside
  PROVE  /\ Materialized' \subseteq Materialized
         /\ \A b \in Buckets : /\ Behind(b)' => Behind(b)
                               /\ roll[b] = {} => roll'[b] = {}
                               /\ Bare(b) => Bare(b)'
         /\ From' = From /\ Upto' = Upto
<1>1. \A b \in Buckets : roll[b] = {} => roll'[b] = {}
  BY DEF Outside
<1>2. Materialized' \subseteq Materialized
  BY <1>1 DEF Materialized
<1> QED
  BY <1>1, <1>2 DEF Outside, run, Behind, Bare, From, Upto

\* A right row stays right if there is a row at or before it, or nothing can come in.
LEMMA OutsideRight ==
  ASSUME IInv, Outside, NEW b \in Buckets, Spared(b), Right(b), Behind(b) \/ ~Grown(b)
  PROVE  Right(b)'
<1>1. ~Grown(b)
  <2>1. CASE Behind(b)
    <3>1. PICK l \in Materialized : l <= b
      BY <2>1 DEF Behind
    <3>2. roll[l] # {} /\ roll[l] \subseteq src \cap SlotsOf(l) /\ l \in Buckets
      BY DEF IInv, Folded, Materialized
    <3>3. l = b \/ l < b
      BY <3>1, <3>2, BucketsAre
    <3>4. l = b => SlotsOf(b) \subseteq src
      BY <3>2 DEF Right, Whole
    <3> QED
      BY <3>2, <3>3, <3>4 DEF Grown
  <2> QED
    BY <2>1
<1>2. SlotsOf(b) \subseteq src' <=> SlotsOf(b) \subseteq src
  BY <1>1 DEF Spared
<1>3. CASE b \in native' \ native
  <2>1. roll'[b] = {}
    BY <1>3 DEF Outside
  <2> QED
    BY <1>3, <2>1 DEF Right, Whole
<1>4. CASE b \notin native' \ native
  <2>1. roll'[b] = roll[b] /\ (b \in native' <=> b \in native)
    BY <1>4 DEF Outside
  <2> QED
    BY <1>2, <2>1 DEF Right, Whole
<1> QED
  BY <1>3, <1>4

\* What is in hand for a closed bucket stays gathered.
LEMMA OutsideGathered ==
  ASSUME IInv, Outside, NEW b \in Buckets, Spared(b), Gathered(b)
  PROVE  Gathered(b)'
<1>1. emit' = emit
  BY DEF Outside, run
<1>2. CASE emit[b] = {} /\ Bare(b)
  BY <1>1, <1>2, OutsideFrame DEF Gathered
<1>3. CASE Exact(b) /\ SlotsOf(b) \cap src' = SlotsOf(b) \cap src
  <2>1. SlotsOf(b) \subseteq src' <=> SlotsOf(b) \subseteq src
    BY <1>3
  <2>2. Exact(b)'
    BY <1>1, <1>3, <2>1 DEF Exact
  <2> QED
    BY <2>2 DEF Gathered
<1>4. CASE Exact(b) /\ Grown(b)
  <2>1. emit[b] = {}
    BY <1>4 DEF Exact, Grown
  <2>2. Bare(b)
    BY <1>4 DEF Grown, Bare, IInv, Folded
  <2> QED
    BY <1>1, <2>1, <2>2, OutsideFrame DEF Gathered
<1> QED
  BY <1>2, <1>3, <1>4 DEF Gathered, Spared

LEMMA OutsideKeeps ==
  ASSUME Inv, Outside
  PROVE  Tracked'
<1> USE DEF Inv
<1>1. src' \subseteq 1..now' /\ ~fresh'
  BY DEF Outside
<1>2. repair' => pc' \in {"walk", "put", "complete"}
  BY Zenon DEF Tracked, Outside, run
<1>3. ASSUME ~blind'
      PROVE  /\ pc' # "idle" => clock' \in Slots /\ BucketOf(clock') = Forming'
             /\ pc' \in {"idle", "max", "complete"} => Resting'
             /\ pc' = "earliest" => Materialized' = {}
             /\ pc' \in {"prev", "source", "upsert"} => Forward'
             /\ pc' \in {"delete", "low"} => Trailing'
             /\ pc' \in {"walk", "put"} => Walk'
  <2>1. /\ ~blind
        /\ pc # "idle" => Forming' = Forming
        /\ \A b \in Buckets :
             (pc # "idle" /\ b < Forming) \/ (\E m \in Materialized : b < m) => Spared(b)
    BY <1>3 DEF Outside
  <2>2. /\ pc' = pc /\ clock' = clock /\ prev' = prev /\ emit' = emit /\ at' = at
        /\ ceil' = ceil /\ repair' = repair
    BY DEF Outside, run
  <2>3. /\ pc # "idle" => clock \in Slots /\ BucketOf(clock) = Forming
        /\ pc \in {"idle", "max", "complete"} => Resting
        /\ pc = "earliest" => Materialized = {}
        /\ pc \in {"prev", "source", "upsert"} => Forward
        /\ pc \in {"delete", "low"} => Trailing
        /\ pc \in {"walk", "put"} => Walk
    BY <2>1 DEF Tracked
  <2>4. pc' # "idle" => clock' \in Slots /\ BucketOf(clock') = Forming'
    BY <2>1, <2>2, <2>3
  <2>5. ASSUME pc \in {"idle", "max", "complete"} PROVE Resting'
    <3>1. ASSUME NEW b \in Buckets, NEW m \in Materialized', b < m, Behind(b)'
          PROVE  Right(b)'
      <4>1. m \in Materialized /\ Behind(b)
        BY <3>1, OutsideFrame
      <4>2. Right(b) /\ Spared(b)
        BY <2>1, <2>3, <2>5, <3>1, <4>1 DEF Resting, Between
      <4> QED
        BY <4>1, <4>2, OutsideRight
    <3> QED
      BY <1>1, <3>1 DEF Resting, Between
  <2>6. pc = "earliest" => Materialized' = {}
    BY <2>3, OutsideFrame
  <2>7. ASSUME pc \in {"prev", "source", "upsert"} PROVE Forward'
    <3>1. Forward /\ Forming' = Forming /\ From' = From /\ From \in Nat \ {0}
      BY <2>1, <2>3, <2>7, OutsideFrame, BucketsAre DEF Forward
    <3>2. src' \cap SlotsOf(From) # {} /\ \A m \in Materialized' : m <= From
      BY <3>1, OutsideFrame DEF Forward, Outside
    <3>3. ASSUME NEW b \in Buckets, b < From, Behind(b)' PROVE Right(b)'
      <4>1. b < Forming /\ Behind(b) /\ Right(b)
        BY <3>1, <3>3, OutsideFrame, FormingIs, BucketsAre DEF Forward
      <4> QED
        BY <2>1, <2>7, <4>1, OutsideRight
    <3>4. pc' # "prev" => prev' \subseteq {From} /\ (From \in Materialized' => From \in prev')
      BY <2>2, <3>1, OutsideFrame DEF Forward
    <3>5. pc = "upsert" => \A b \in Buckets : From <= b /\ b < Forming => Gathered(b)'
      BY <2>1, <3>1, OutsideGathered DEF Forward
    <3>6. pc' = "upsert" =>
             /\ \A b \in Buckets : b < From => emit'[b] = {}
             /\ From = Forming => emit'[From] # {}
      BY <2>2, <3>1 DEF Forward
    <3> QED
      BY <1>1, <2>2, <3>1, <3>2, <3>3, <3>4, <3>5, <3>6 DEF Forward
  <2>8. ASSUME pc \in {"delete", "low"} PROVE Trailing'
    <3>1. Trailing /\ Forming' = Forming
      BY <2>1, <2>3, <2>8
    <3>2. ASSUME NEW b \in Buckets, b < Forming, b \notin prev, Behind(b)' PROVE Right(b)'
      <4>1. Behind(b) /\ Right(b)
        BY <3>1, <3>2, OutsideFrame DEF Trailing
      <4> QED
        BY <2>1, <2>8, <3>2, <4>1, OutsideRight
    <3>3. ASSUME NEW b \in prev
          PROVE  b < Forming /\ (Whole(b)' = {} \/ \A l \in Buckets : l < b => roll'[l] = {})
      <4>1. b \in Buckets /\ b < Forming /\ Spared(b)
            /\ (Whole(b) = {} \/ \A l \in Buckets : l < b => roll[l] = {})
        BY <2>1, <2>8, <3>1 DEF Trailing, Numbers
      <4>2. CASE \A l \in Buckets : l < b => roll[l] = {}
        BY <4>1, <4>2, OutsideFrame
      <4>3. CASE Whole(b) = {} /\ Grown(b)
        <5>1. \A l \in Buckets : l < b => roll[l] = {}
          BY <4>3 DEF Grown, IInv, Folded
        <5> QED
          BY <4>1, <5>1, OutsideFrame
      <4>4. CASE Whole(b) = {} /\ SlotsOf(b) \cap src' = SlotsOf(b) \cap src
        <5>1. b \in native \/ ~(SlotsOf(b) \subseteq src')
          BY <4>1, <4>4, BucketsAre DEF Whole
        <5> QED
          BY <4>1, <5>1 DEF Whole, Outside
      <4> QED
        BY <4>1, <4>2, <4>3, <4>4 DEF Spared
    <3>4. pc' = "low" => prev' = {}
      BY <2>2, <3>1 DEF Trailing
    <3> QED
      BY <1>1, <2>2, <3>1, <3>2, <3>3, <3>4 DEF Trailing
  <2>9. ASSUME pc \in {"walk", "put"} PROVE Walk'
    <3>1. Walk /\ Forming' = Forming /\ From' = From /\ Upto' = Upto
      BY <2>1, <2>3, <2>9, OutsideFrame
    <3>2. From \in Nat \ {0} /\ at' = FirstSlot(From)
      BY <2>2, <3>1 DEF Walk
    <3>3. ASSUME NEW b \in Buckets, b < Forming, b < From, Behind(b)' PROVE Right(b)'
      <4>1. Behind(b) /\ Right(b)
        BY <3>1, <3>3, OutsideFrame DEF Walk
      <4> QED
        BY <2>1, <2>9, <3>3, <4>1, OutsideRight
    <3>4. ~repair => ceil' = clock' /\ \A m \in Materialized' : m < From
      BY <2>2, <3>1, OutsideFrame DEF Walk
    <3>5. ASSUME repair
          PROVE  /\ Upto \in Buckets /\ ceil' = FirstSlot(Upto)
                 /\ src' \cap SlotsOf(Upto) # {}
                 /\ (Upto < Forming => SlotsOf(Upto) \subseteq src')
                 /\ \A m \in Materialized' : m < From \/ Upto <= m
      BY <2>2, <3>1, <3>5, OutsideFrame DEF Walk, Outside
    <3>6. ASSUME repair, NEW b \in Buckets, Upto <= b, b < Forming PROVE Right(b)'
      <4>1. /\ Upto \in Buckets /\ Right(b) /\ src \cap SlotsOf(Upto) # {}
            /\ Upto < Forming => SlotsOf(Upto) \subseteq src
        BY <3>1, <3>6 DEF Walk
      <4>2. Upto < b \/ Upto = b
        BY <3>6, <4>1, BucketsAre
      <4>3. ~Grown(b)
        BY <3>6, <4>1, <4>2 DEF Grown
      <4> QED
        BY <2>1, <2>9, <3>6, <4>1, <4>3, OutsideRight
    <3>7. pc' = "put" =>
            /\ \A b \in Buckets : b < From \/ From + K <= b => emit'[b] = {}
            /\ \A b \in Buckets : From <= b /\ b < From + K /\ b < Forming => Gathered(b)'
      BY <2>1, <2>2, <3>1, OutsideGathered DEF Walk
    <3> QED
      BY <1>1, <2>2, <3>1, <3>2, <3>3, <3>4, <3>5, <3>6, <3>7 DEF Walk
  <2> QED
    BY <2>2, <2>4, <2>5, <2>6, <2>7, <2>8, <2>9
<1> QED
  BY <1>1, <1>2, <1>3 DEF Tracked

LEMMA RefreshKeeps == Inv /\ Refresh => Tracked'
<1> SUFFICES ASSUME Inv, Refresh PROVE Outside
  BY OutsideKeeps
<1> USE DEF Inv
<1>1. /\ UNCHANGED <<run, roll, native, now, blind>> /\ ~fresh' /\ src' = src \cup {now}
  BY DEF Refresh, Stale
<1>2. src' \subseteq 1..now'
  BY <1>1, BucketsAre DEF Tracked, Numbers
<1>3. ASSUME NEW b \in Buckets, (pc # "idle" /\ b < Forming) \/ (\E m \in Materialized : b < m)
      PROVE  Spared(b)
  <2>1. b < Forming
    <3>1. ASSUME NEW m \in Materialized PROVE m \in Buckets /\ m <= Forming
      BY NothingToCome DEF Materialized, IInv, Folded, Tracked
    <3> QED
      BY <1>3, <3>1, FormingIs, BucketNat
  <2>2. now \notin SlotsOf(b)
    BY <2>1, BucketIs, OneBucket, BucketsAre DEF Forming, Numbers
  <2> QED
    BY <1>1, <2>2 DEF Spared
<1>4. Forming' = Forming
  BY <1>1 DEF Forming
<1> QED
  BY <1>1, <1>2, <1>3, <1>4 DEF Outside

LEMMA BackfillBehindKeeps == Inv /\ BackfillBehind => Tracked'
<1> SUFFICES ASSUME Inv, BackfillBehind PROVE Outside
  BY OutsideKeeps
<1> USE DEF Inv
<1>1. PICK S \in SUBSET (1..(Lowest(src) - 1)) : src' = src \cup S
  BY DEF BackfillBehind
<1>2. UNCHANGED <<run, roll, native, now, blind>> /\ ~fresh' /\ src # {}
  BY DEF BackfillBehind, Stale
<1>3. Lowest(src) \in src /\ \A t \in src : Lowest(src) <= t
  BY <1>2, LowestIs, BucketsAre DEF Numbers
<1>4. \A s \in S : s \in Nat /\ 1 <= s /\ s < Lowest(src)
  BY <1>1, <1>3, SlotNat
<1>5. src' \subseteq 1..now'
  <2>1. Lowest(src) <= now /\ now \in Nat /\ Lowest(src) \in Nat
    <3>1. src \subseteq 1..now
      BY DEF Tracked
    <3>2. Lowest(src) \in src
      BY <1>3
    <3>3. now \in Nat
      BY SlotNat
    <3>4. Lowest(src) \in 1..now
      BY <3>1, <3>2
    <3> QED
      BY <3>3, <3>4
  <2>2. \A s \in S : s \in 1..now
    BY <1>4, <2>1
  <2> QED
    BY <1>1, <1>2, <2>2 DEF Tracked
<1>6. ASSUME NEW b \in Buckets PROVE Spared(b)
  <2>1. CASE \E s \in S : s \in SlotsOf(b)
    <3>1. PICK s \in S : s \in SlotsOf(b)
      BY <2>1
    <3>2. s \notin src
      BY <1>3, <1>4, SlotNat
    <3>3. ASSUME NEW l \in Buckets, l < b, NEW t \in src \cap SlotsOf(l) PROVE FALSE
      <4>1. s <= t
        BY <1>3, <1>4, SlotNat
      <4>2. b \in Nat /\ l \in Nat /\ t \in SlotsOf(l)
        BY BucketNat
      <4>3. b <= l
        BY <3>1, <4>1, <4>2, Before
      <4> QED
        BY <3>3, <4>2, <4>3
    <3> QED
      BY <3>1, <3>2, <3>3 DEF Spared, Grown
  <2>2. CASE ~\E s \in S : s \in SlotsOf(b)
    BY <1>1, <2>2 DEF Spared
  <2> QED
    BY <2>1, <2>2
<1>7. Forming' = Forming
  BY <1>2 DEF Forming
<1> QED
  BY <1>1, <1>2, <1>5, <1>6, <1>7 DEF Outside

LEMMA LateCandleKeeps == Inv /\ LateCandle => Tracked'
<1> SUFFICES ASSUME Inv, LateCandle PROVE Outside
  BY OutsideKeeps
<1> USE DEF Inv
<1>1. UNCHANGED <<run, roll, native, now>> /\ ~fresh' /\ src # {}
  BY DEF LateCandle, Stale
<1>2. PICK s \in (Lowest(src)..(now - 1)) \ src :
        /\ src' = src \cup {s}
        /\ blind' = (blind \/ pc # "idle" \/ \E b \in Materialized : b > BucketOf(s))
  BY DEF LateCandle
<1>3. s \in Nat \ {0} /\ s <= now
  <2>1. Lowest(src) \in src
    BY <1>1, LowestIs, SlotNat
  <2> QED
    BY <1>2, <2>1, SlotNat
<1>4. src' \subseteq 1..now'
  BY <1>1, <1>2, <1>3, BucketsAre DEF Tracked, Numbers
<1>5. blind => blind'
  BY <1>2, Zenon
<1>6. ASSUME ~blind' PROVE pc = "idle" /\ ~\E m \in Materialized : m > BucketOf(s)
  BY <1>2, <1>6, Zenon
<1>7. ASSUME ~blind', NEW b \in Buckets, NEW m \in Materialized, b < m PROVE Spared(b)
  <2>1. ~(m > BucketOf(s)) /\ m \in Buckets
    BY <1>6, <1>7 DEF Materialized
  <2>2. s \notin SlotsOf(b)
    BY <1>3, <1>7, <2>1, BucketIs, OneBucket, BucketsAre
  <2> QED
    BY <1>2, <2>2 DEF Spared
<1>8. /\ UNCHANGED run /\ src \subseteq src' /\ native \subseteq native'
      /\ \A b \in Buckets : IF b \in native' \ native THEN roll'[b] = {} ELSE roll'[b] = roll[b]
  BY <1>1, <1>2
<1> QED
  BY <1>1, <1>4, <1>5, <1>6, <1>7, <1>8 DEF Outside

LEMMA NativeRowKeeps == Inv /\ NativeRow => Tracked'
<1> SUFFICES ASSUME Inv, NativeRow PROVE Outside
  BY OutsideKeeps
<1> USE DEF Inv
<1>1. UNCHANGED <<run, src, now, blind>> /\ ~fresh'
  BY DEF NativeRow, Stale
<1>2. PICK c \in Buckets \ native : native' = native \cup {c} /\ roll' = [roll EXCEPT ![c] = {}]
  BY DEF NativeRow
<1>3. \A b \in Buckets : IF b \in native' \ native THEN roll'[b] = {} ELSE roll'[b] = roll[b]
  BY <1>2 DEF IInv, Folded, IsRows
<1>4. Forming' = Forming
  BY <1>1 DEF Forming
<1> QED
  BY <1>1, <1>2, <1>3, <1>4 DEF Outside, Spared, Tracked

LEMMA TickKeeps == Inv /\ Tick => Tracked'
<1> SUFFICES ASSUME Inv, Tick PROVE Outside
  BY OutsideKeeps
<1> USE DEF Inv
<1>1. UNCHANGED <<run, src, roll, native>> /\ ~fresh' /\ now' = now + 1
  BY DEF Tick, Stale, table
<1>2. blind' = (blind \/ (pc # "idle" /\ BucketOf(now') # BucketOf(now)))
  BY DEF Tick
<1>3. (blind => blind') /\ (~blind' /\ pc # "idle" => Forming' = Forming)
  BY <1>2, Zenon DEF Forming
<1>4. src' \subseteq 1..now'
  BY <1>1, BucketsAre DEF Tracked, Numbers
<1> QED
  BY <1>1, <1>3, <1>4 DEF Outside, Spared

-----------------------------------------------------------------------------
(* The statements of a run.                                                *)

\* A step that writes no row.
LEMMA Quiet ==
  ASSUME UNCHANGED <<src, roll, native, now>>
  PROVE  /\ Forming' = Forming /\ Materialized' = Materialized
         /\ \A b \in Buckets : /\ Right(b)' <=> Right(b)
                               /\ Behind(b)' <=> Behind(b)
                               /\ Forms(b)' <=> Forms(b)
         /\ InParity' <=> InParity
BY DEF Forming, Materialized, Right, Whole, Behind, Forms, InParity

\* Where the source has nothing there is no row, and none is due.
LEMMA NoSource ==
  ASSUME IInv, NEW b \in Buckets, src \cap SlotsOf(b) = {}
  PROVE  Right(b) /\ Forms(b) /\ roll[b] = {}
<1>1. roll[b] = {} /\ ~(SlotsOf(b) \subseteq src)
  BY BucketsAre DEF IInv, Folded
<1> QED
  BY <1>1 DEF Right, Whole, Forms

LEMMA BeforeFirst ==
  ASSUME Numbers, src # {}, NEW b \in Buckets, b < BucketOf(Lowest(src))
  PROVE  src \cap SlotsOf(b) = {}
<1>1. Lowest(src) \in Nat \ {0} /\ \A t \in src : Lowest(src) <= t
  BY LowestIs, BucketsAre DEF Numbers
<1>2. BucketOf(Lowest(src)) \in Nat \ {0} /\ Lowest(src) \in SlotsOf(BucketOf(Lowest(src)))
  BY <1>1, BucketIs
<1>3. ASSUME NEW t \in src \cap SlotsOf(b) PROVE FALSE
  BY <1>1, <1>2, Before, BucketsAre
<1> QED
  BY <1>3

LEMMA StartKeeps == Inv /\ Start => Tracked'
<1> SUFFICES ASSUME Inv, Start PROVE Tracked'
  OBVIOUS
<1> USE DEF Inv
<1>1. /\ UNCHANGED <<src, roll, native, now, repair, blind>>
      /\ pc = "idle" /\ pc' = "max" /\ clock' = now
  BY DEF Start, table, Goto
<1>2. ASSUME ~blind PROVE Resting'
  <2>1. Resting
    BY <1>1, <1>2 DEF Tracked
  <2> QED
    BY <1>1, <2>1, Quiet DEF Resting, Between
<1>3. clock' \in Slots /\ BucketOf(clock') = Forming'
  BY <1>1 DEF Numbers, Forming
<1>4. ~repair'
  BY <1>1, Zenon DEF Tracked
<1>5. src' \subseteq 1..now'
  BY <1>1 DEF Tracked
<1>6. ~blind' => ~blind
  BY <1>1, Zenon
<1> QED
  BY <1>1, <1>2, <1>3, <1>4, <1>5, <1>6 DEF Tracked

\* What a later statement leaves as it is.
Onward == /\ UNCHANGED <<src, now, clock, fresh, blind>> /\ pc # "idle" /\ pc' # "idle"
          /\ repair' => pc' \in {"walk", "put", "complete"}

LEMMA OnwardKeeps ==
  ASSUME Inv, Onward,
         ~blind =>
           /\ pc' \in {"max", "complete"} => Resting'
           /\ pc' = "earliest" => Materialized' = {}
           /\ pc' \in {"prev", "source", "upsert"} => Forward'
           /\ pc' \in {"delete", "low"} => Trailing'
           /\ pc' \in {"walk", "put"} => Walk'
  PROVE  Tracked'
<1> USE DEF Inv
<1>1. /\ src' = src /\ now' = now /\ clock' = clock /\ pc # "idle" /\ pc' # "idle"
      /\ repair' => pc' \in {"walk", "put", "complete"}
  BY DEF Onward
<1>2. src' \subseteq 1..now'
  BY <1>1 DEF Tracked
<1>3. fresh' /\ pc' # "idle" => clock' = now'
  <2>1. fresh' => fresh
    BY Zenon DEF Onward
  <2> QED
    BY <1>1, <2>1 DEF Tracked
<1>4. ~blind' => ~blind
  BY Zenon DEF Onward
<1>5. ~blind => (clock' \in Slots /\ BucketOf(clock') = Forming')
  BY <1>1 DEF Tracked, Forming
<1> QED
  BY <1>1, <1>2, <1>3, <1>4, <1>5 DEF Tracked

LEMMA ReadMaxKeeps == Inv /\ ReadMax => Tracked'
<1> SUFFICES ASSUME Inv, ReadMax PROVE Tracked'
  OBVIOUS
<1> USE DEF Inv
<1>1. /\ UNCHANGED <<src, roll, native, now, repair, emit, clock>> /\ pc = "max"
      /\ IF Materialized = {} THEN pc' = "earliest"
         ELSE pc' = "prev" /\ at' = FirstSlot(Highest(Materialized))
  BY DEF ReadMax, Still, Goto
<1>2. Onward
  <2>1. ~repair'
    BY <1>1, Zenon DEF Tracked
  <2> QED
    BY <1>1, <2>1 DEF Onward, ReadMax, Still
<1>3. ASSUME ~blind, Materialized # {} PROVE Forward'
  <2> DEFINE h == Highest(Materialized)
  <2>1. h \in Materialized /\ \A m \in Materialized : m <= h
    BY <1>3, HighestIs, RollupAssumption, BucketNat DEF Materialized, Buckets
  <2> HIDE DEF h
  <2>2. h \in Buckets /\ src \cap SlotsOf(h) # {}
    BY <2>1 DEF Materialized, IInv, Folded
  <2>3. at' = FirstSlot(h) /\ From' = h
    BY <1>1, <1>3, <2>2, BucketOfFirst, BucketsAre DEF From, h
  <2>4. h <= Forming
    BY <2>2, NothingToCome DEF Tracked
  <2>5. \A b \in Buckets : b < h /\ Behind(b) => Right(b)
    BY <1>1, <1>3, <2>1 DEF Tracked, Resting, Between
  <2> QED
    BY <1>1, <1>3, <2>1, <2>2, <2>3, <2>4, <2>5, Quiet DEF Forward
<1> QED
  BY <1>1, <1>2, <1>3, Quiet, OnwardKeeps

LEMMA ReadEarliestKeeps == Inv /\ ReadEarliest => Tracked'
<1> SUFFICES ASSUME Inv, ReadEarliest PROVE Tracked'
  OBVIOUS
<1> USE DEF Inv
<1>1. /\ UNCHANGED <<src, roll, native, now, repair, emit, clock>> /\ pc = "earliest"
      /\ IF src = {} THEN pc' = "complete"
         ELSE pc' = "walk" /\ at' = WeekStart(Lowest(src)) /\ ceil' = clock
  BY DEF ReadEarliest, Still, Goto
<1>2. ~repair /\ ~repair'
  BY <1>1, Zenon DEF Tracked
<1>3. Onward
  BY <1>1, <1>2 DEF Onward, ReadEarliest, Still
<1>4. ASSUME ~blind PROVE Materialized = {}
  BY <1>1, <1>4 DEF Tracked
<1>5. ASSUME ~blind PROVE Resting'
  BY <1>1, <1>4, <1>5, Quiet DEF Resting, Between
<1>6. ASSUME ~blind, src # {} PROVE Walk'
  <2>1. Lowest(src) \in Nat \ {0}
    BY <1>6, LowestIs, BucketsAre DEF Numbers
  <2>2. PICK w \in Nat \ {0} : WeekStart(Lowest(src)) = FirstSlot(w) /\ w <= BucketOf(Lowest(src))
    BY <2>1, WeekIs
  <2>3. at' = FirstSlot(w) /\ From' = w
    BY <1>1, <1>6, <2>2, BucketOfFirst DEF From
  <2>4. ASSUME NEW b \in Buckets, b < w PROVE Right(b) /\ Forms(b)
    <3>1. b < BucketOf(Lowest(src))
      BY <2>1, <2>2, <2>4, BucketIs, BucketNat
    <3> QED
      BY <1>6, <3>1, BeforeFirst, NoSource
  <2> QED
    BY <1>1, <1>2, <1>4, <1>6, <2>3, <2>4, Quiet DEF Walk
<1> QED
  BY <1>1, <1>3, <1>5, <1>6, OnwardKeeps

LEMMA ReadPreviouslyMaterializedKeeps == Inv /\ ReadPreviouslyMaterialized => Tracked'
<1> SUFFICES ASSUME Inv, ReadPreviouslyMaterialized PROVE Tracked'
  OBVIOUS
<1> USE DEF Inv
<1>1. /\ UNCHANGED <<src, roll, native, now, repair, emit, clock, at>> /\ pc = "prev"
      /\ prev' = {b \in Materialized : FirstSlot(b) >= at} /\ pc' = "source"
  BY DEF ReadPreviouslyMaterialized, Still, Goto
<1>2. Onward
  <2>1. ~repair'
    BY <1>1, Zenon DEF Tracked
  <2> QED
    BY <1>1, <2>1 DEF Onward, ReadPreviouslyMaterialized, Still
<1>3. ASSUME ~blind PROVE Forward'
  <2>1. Forward /\ From' = From
    BY <1>1, <1>3 DEF Tracked, From
  <2>2. ASSUME NEW b \in Materialized PROVE FirstSlot(b) >= at <=> b = From
    <3>1. b \in Buckets /\ b \in Int /\ From \in Int /\ at = FirstSlot(From) /\ b <= From
      BY <2>1, BucketNat DEF Materialized, Forward
    <3>2. FirstSlot(b) >= FirstSlot(From) <=> From <= b
      BY <3>1, FirstIs, FromStart
    <3> QED
      BY <3>1, <3>2
  <2>3. prev' \subseteq {From} /\ (From \in Materialized => From \in prev')
    BY <1>1, <2>2
  <2> QED
    BY <1>1, <2>1, <2>3, Quiet DEF Forward
<1> QED
  BY <1>1, <1>2, <1>3, OnwardKeeps

LEMMA ReadSourceKeeps == Inv /\ ReadSource => Tracked'
<1> SUFFICES ASSUME Inv, ReadSource PROVE Tracked'
  OBVIOUS
<1> USE DEF Inv
<1>1. /\ UNCHANGED <<src, roll, native, now, repair, clock, prev, at, fresh>> /\ pc = "source"
      /\ emit' = Fold({s \in src : s >= at}, clock) /\ pc' = "upsert"
  BY DEF ReadSource, Still, Goto
<1>2. Onward
  <2>1. ~repair'
    BY <1>1, Zenon DEF Tracked
  <2> QED
    BY <1>1, <2>1 DEF Onward, ReadSource, Still
<1>3. ASSUME ~blind PROVE Forward'
  <2>1. Forward /\ From' = From /\ From \in Nat \ {0}
    BY <1>1, <1>3, BucketsAre DEF Tracked, From, Forward
  <2>2. clock \in Nat \ {0} /\ BucketOf(clock) = Forming
    BY <1>1, <1>3, BucketsAre DEF Tracked
  <2>3. ASSUME NEW b \in Buckets
        PROVE  /\ From <= b => emit'[b] = IF b < Forming /\ src \cap SlotsOf(b) # SlotsOf(b)
                                         THEN {} ELSE src \cap SlotsOf(b)
               /\ ~(From <= b) => emit'[b] = {}
    <3> DEFINE S == {s \in src : s >= at}
    <3>1. S \cap SlotsOf(b) = IF From <= b THEN src \cap SlotsOf(b) ELSE {}
      BY <2>1, SourceFrom DEF Forward
    <3>2. emit'[b] = Fold(S, clock)[b]
      BY <1>1
    <3> HIDE DEF S
    <3>3. Fold(S, clock)[b] = IF b < BucketOf(clock) /\ S \cap SlotsOf(b) # SlotsOf(b)
                              THEN {} ELSE S \cap SlotsOf(b)
      BY <2>2, FoldIs
    <3> QED
      BY <2>2, <3>1, <3>2, <3>3
  <2>4. ASSUME NEW b \in Buckets PROVE b < From => emit'[b] = {}
    <3>1. b < From => ~(From <= b)
      BY <2>1, BucketNat
    <3> QED
      BY <2>3, <3>1
  <2>5. ASSUME NEW b \in Buckets, From <= b, b < Forming PROVE Gathered(b)'
    <3>1. emit'[b] = IF src \cap SlotsOf(b) # SlotsOf(b) THEN {} ELSE src \cap SlotsOf(b)
      BY <2>3, <2>5
    <3>2. Exact(b)'
      BY <1>1, <3>1 DEF Exact
    <3> QED
      BY <3>2 DEF Gathered
  <2>6. ASSUME NEW b \in Buckets, Forming <= b PROVE emit'[b] = src \cap SlotsOf(b)
    <3>1. From <= b /\ ~(b < Forming)
      BY <2>1, <2>6, FormingIs, BucketNat DEF Forward
    <3> QED
      BY <2>3, <3>1
  <2>7. From = Forming => emit'[From] # {}
    BY <2>1, <2>6 DEF Forward
  <2> QED
    BY <1>1, <2>1, <2>4, <2>5, <2>6, <2>7, Quiet DEF Forward
<1> QED
  BY <1>1, <1>2, <1>3, OnwardKeeps

LEMMA UpsertKeeps == Inv /\ Upsert => Tracked'
<1> SUFFICES ASSUME Inv, Upsert PROVE Tracked'
  OBVIOUS
<1> USE DEF Inv
<1>1. /\ UNCHANGED <<src, now, repair, clock, at, fresh>> /\ pc = "upsert" /\ pc' = "delete"
      /\ RollupGuarded(emit) /\ prev' = prev \ Emitted(emit)
  BY DEF Upsert, Deletes, Still, Goto
<1>2. Onward
  <2>1. ~repair'
    BY <1>1, Zenon DEF Tracked
  <2> QED
    BY <1>1, <2>1 DEF Onward, Upsert, Still
<1>3. \A b \in Buckets :
        roll'[b] = IF emit[b] # {} /\ b \notin native THEN emit[b] ELSE roll[b]
  BY <1>1, PutIs
<1>4. native' = native /\ Forming' = Forming
  BY <1>1 DEF RollupGuarded, Forming
<1>5. ASSUME ~blind PROVE Trailing'
  <2>1. Forward
    BY <1>1, <1>5 DEF Tracked
  <2>2. /\ From \in Nat /\ Forming \in Nat /\ From <= Forming
        /\ \A b \in Buckets : b < From => emit[b] = {}
        /\ \A b \in Buckets : From <= b /\ b < Forming => Gathered(b)
    BY <1>1, <2>1, FormingIs, BucketNat DEF Forward
  <2>3. ASSUME NEW b \in Buckets, b < Forming, b \notin prev', Behind(b)' PROVE Right(b)'
    <3>1. CASE b < From
      <4>1. \A l \in Buckets : l <= b => roll'[l] = roll[l]
        BY <1>3, <2>2, <3>1, BucketNat
      <4>2. Behind(b)
        BY <2>3, <4>1 DEF Behind, Materialized
      <4>3. Right(b)
        BY <2>1, <3>1, <4>2 DEF Forward
      <4> QED
        BY <1>1, <1>4, <4>1, <4>3, BucketNat DEF Right, Whole
    <3>2. CASE From <= b
      <4>1. Gathered(b)
        BY <2>2, <2>3, <3>2
      <4>2. ASSUME roll[b] # {} PROVE emit[b] # {}
        <5>1. b \in Materialized /\ b = From
          <6>1. b \in Materialized
            BY <4>2 DEF Materialized
          <6>2. b <= From
            BY <2>1, <6>1, Zenon DEF Forward
          <6> QED
            BY <2>2, <3>2, <6>1, <6>2, BucketNat
        <5>2. b \in prev
          BY <1>1, <2>1, <5>1 DEF Forward
        <5> QED
          BY <1>1, <2>3, <5>2 DEF Emitted
      <4>3. CASE Exact(b)
        BY <1>1, <4>2, <4>3, PutRight
      <4>4. CASE emit[b] = {} /\ Bare(b)
        <5>1. roll[b] = {}
          BY <4>2, <4>4
        <5>2. \A l \in Buckets : l <= b => roll'[l] = {}
          BY <1>3, <4>4, <5>1, BucketNat DEF Bare
        <5> QED
          BY <2>3, <5>2 DEF Behind, Materialized
      <4> QED
        BY <4>1, <4>3, <4>4 DEF Gathered
    <3> QED
      BY <2>2, <3>1, <3>2, BucketNat
  <2>4. ASSUME NEW b \in prev'
        PROVE  b < Forming /\ (Whole(b)' = {} \/ \A l \in Buckets : l < b => roll'[l] = {})
    <3>1. b = From /\ b \in Buckets /\ emit[b] = {}
      BY <1>1, <2>1 DEF Forward, Emitted
    <3>2. b < Forming /\ Gathered(b)
      BY <1>1, <2>1, <2>2, <3>1, BucketNat DEF Forward
    <3>3. CASE Exact(b)
      <4>1. ~(SlotsOf(b) \subseteq src)
        BY <3>1, <3>3, BucketsAre DEF Exact
      <4> QED
        BY <1>1, <3>2, <4>1 DEF Whole
    <3>4. CASE Bare(b)
      <4>1. ASSUME NEW l \in Buckets, l < b PROVE roll'[l] = {}
        <5>1. roll[l] = {} /\ emit[l] = {}
          BY <3>4, <4>1 DEF Bare
        <5> QED
          BY <1>3, <5>1
      <4> QED
        BY <3>2, <4>1
    <3> QED
      BY <3>2, <3>3, <3>4 DEF Gathered
  <2>5. ASSUME fresh, NEW b \in Buckets, Forming <= b PROVE Forms(b)'
    <3>1. emit[b] = src \cap SlotsOf(b)
      BY <1>1, <2>1, <2>5 DEF Forward
    <3>2. roll[b] \subseteq src \cap SlotsOf(b) /\ (b \in native => roll[b] = {})
      BY DEF IInv, Folded, OneRow
    <3>3. roll'[b] = IF b \in native THEN {} ELSE src \cap SlotsOf(b)
      BY <1>3, <3>1, <3>2
    <3> QED
      BY <1>1, <1>4, <3>3 DEF Forms
  <2>6. fresh' => fresh
    BY <1>1, Zenon
  <2> QED
    BY <1>1, <1>4, <2>3, <2>4, <2>5, <2>6 DEF Trailing
<1> QED
  BY <1>1, <1>2, <1>5, OnwardKeeps

LEMMA DeleteOneKeeps == Inv /\ DeleteOne => Tracked'
<1> SUFFICES ASSUME Inv, DeleteOne PROVE Tracked'
  OBVIOUS
<1> USE DEF Inv
<1>1. /\ UNCHANGED <<src, native, now, repair, clock, at, fresh>>
      /\ pc = "delete" /\ pc' = "delete"
  BY DEF DeleteOne, Still
<1>2. PICK c \in prev : roll' = [roll EXCEPT ![c] = {}] /\ prev' = prev \ {c}
  BY DEF DeleteOne
<1>3. Onward
  <2>1. ~repair'
    BY <1>1, Zenon DEF Tracked
  <2> QED
    BY <1>1, <2>1 DEF Onward, DeleteOne, Still
<1>4. c \in Buckets /\ \A b \in Buckets : roll'[b] = IF b = c THEN {} ELSE roll[b]
  BY <1>2 DEF IInv, Folded, IsRows, Numbers
<1>5. Forming' = Forming /\ \A b \in Buckets : Whole(b)' = Whole(b)
  BY <1>1 DEF Forming, Whole
<1>6. ASSUME ~blind PROVE Trailing'
  <2>1. Trailing
    BY <1>1, <1>6 DEF Tracked
  <2>2. ASSUME NEW b \in Buckets, b < Forming, b \notin prev', Behind(b)' PROVE Right(b)'
    <3>1. Behind(b)
      BY <1>4, <2>2 DEF Behind, Materialized
    <3>2. CASE b = c
      <4>1. ~\A l \in Buckets : l < b => roll[l] = {}
        <5>1. PICK l \in Buckets : roll'[l] # {} /\ l <= b
          BY <2>2 DEF Behind, Materialized
        <5>2. l # c /\ roll[l] # {}
          BY <1>4, <5>1
        <5> QED
          BY <3>2, <5>1, <5>2, BucketNat
      <4>2. Whole(b) = {}
        BY <2>1, <3>2, <4>1 DEF Trailing
      <4> QED
        BY <1>4, <1>5, <3>2, <4>2 DEF Right
    <3>3. CASE b # c
      <4>1. Right(b)
        BY <1>2, <2>1, <2>2, <3>1, <3>3 DEF Trailing
      <4> QED
        BY <1>4, <1>5, <3>3, <4>1 DEF Right
    <3> QED
      BY <3>2, <3>3
  <2>3. ASSUME NEW b \in prev'
        PROVE  b < Forming /\ (Whole(b)' = {} \/ \A l \in Buckets : l < b => roll'[l] = {})
    BY <1>2, <1>4, <1>5, <2>1 DEF Trailing, Numbers
  <2>4. ASSUME fresh, NEW b \in Buckets, Forming <= b PROVE Forms(b)'
    <3>1. Forms(b) /\ b # c
      BY <2>1, <2>4, FormingIs, BucketNat DEF Trailing
    <3> QED
      BY <1>1, <1>4, <3>1 DEF Forms
  <2>5. fresh' => fresh
    BY <1>1, Zenon
  <2> QED
    BY <1>1, <1>5, <2>2, <2>3, <2>4, <2>5 DEF Trailing
<1> QED
  BY <1>1, <1>3, <1>6, OnwardKeeps

LEMMA ReadLowKeeps == Inv /\ ReadLow => Tracked'
<1> SUFFICES ASSUME Inv, ReadLow PROVE Tracked'
  OBVIOUS
<1> USE DEF Inv
<1>1. /\ UNCHANGED <<src, roll, native, now, repair, emit, clock, prev, fresh>>
      /\ pc = "delete" /\ prev = {}
      /\ IF src = {} THEN pc' = "complete" ELSE pc' = "low" /\ at' = Lowest(src)
  BY DEF ReadLow, Still, Goto
<1>2. Onward
  <2>1. ~repair'
    BY <1>1, Zenon DEF Tracked
  <2> QED
    BY <1>1, <2>1 DEF Onward, ReadLow, Still
<1>3. ASSUME src = {} PROVE Resting'
  <2>1. Materialized = {}
    BY <1>3 DEF Materialized, IInv, Folded
  <2> QED
    BY <1>1, <2>1, Quiet DEF Resting, Between
<1>4. ASSUME ~blind, src # {} PROVE Trailing'
  <2>1. Trailing
    BY <1>1, <1>4 DEF Tracked
  <2> QED
    BY <1>1, <1>4, <2>1, Quiet DEF Trailing
<1> QED
  BY <1>1, <1>2, <1>3, <1>4, OnwardKeeps

\* No row lies ahead of the forming bucket.
LEMMA RowsAre ==
  ASSUME Inv
  PROVE  \A m \in Materialized : m \in Buckets /\ m <= Forming /\ src \cap SlotsOf(m) # {}
BY NothingToCome DEF Inv, Tracked, Materialized, IInv, Folded

LEMMA ReadLowMaterializedKeeps == Inv /\ ReadLowMaterialized => Tracked'
<1> SUFFICES ASSUME Inv, ReadLowMaterialized PROVE Tracked'
  OBVIOUS
<1> USE DEF Inv
<1> DEFINE L == Lowest(Materialized)
<1>1. /\ UNCHANGED <<src, roll, native, now, emit, clock, prev, fresh>> /\ pc = "low"
      /\ IF RepairDue THEN pc' = "walk" /\ repair' /\ at' = WeekStart(at) /\ ceil' = FirstSlot(L)
         ELSE pc' = "complete"
  BY DEF ReadLowMaterialized, Still, Goto
<1>2. Onward
  BY <1>1 DEF Onward, ReadLowMaterialized, Still
<1>3. Materialized # {} => L \in Materialized /\ \A m \in Materialized : L <= m
  BY LowestIs, BucketNat DEF Materialized
<1> HIDE DEF L
<1>4. at \in Nat \ {0}
  BY <1>1, BucketsAre DEF Numbers
<1>5. fresh' => fresh
  BY <1>1, Zenon
<1>6. ASSUME ~blind
      PROVE  /\ \A b \in Buckets : b < Forming /\ Behind(b) => Right(b)
             /\ fresh => /\ \A b \in Buckets : Forming <= b => Forms(b)
                         /\ src # {} /\ at = Lowest(src)
  BY <1>1, <1>6 DEF Tracked, Trailing
<1>7. ASSUME ~blind, fresh, NEW b \in Buckets, b < BucketOf(at) PROVE Right(b)
  BY <1>6, <1>7, BeforeFirst, NoSource
<1>8. ASSUME ~blind, RepairDue PROVE Walk'
  <2>1. L \in Buckets /\ L <= Forming /\ Materialized # {} /\ roll[L] # {}
    BY <1>3, <1>8, RowsAre DEF RepairDue, Materialized
  <2>2. PICK w \in Nat \ {0} : WeekStart(at) = FirstSlot(w) /\ w <= BucketOf(at)
    BY <1>4, WeekIs
  <2>3. at' = FirstSlot(w) /\ From' = w
    BY <1>1, <1>8, <2>2, BucketOfFirst DEF From
  <2>4. ceil' = FirstSlot(L) /\ Upto' = L
    BY <1>1, <1>8, <2>1, BucketOfFirst, BucketsAre DEF Upto
  <2>5. ASSUME NEW b \in Buckets, L <= b, b < Forming PROVE Right(b)
    BY <1>3, <1>6, <1>8, <2>1, <2>5 DEF Behind
  <2>6. L < Forming => SlotsOf(L) \subseteq src
    BY <2>1, <2>5, BucketNat DEF Right, Whole
  <2>7. src \cap SlotsOf(L) # {}
    BY <1>3, <2>1, RowsAre
  <2>8. ASSUME fresh, NEW b \in Buckets, b < w PROVE Right(b)
    BY <1>4, <1>7, <1>8, <2>2, <2>8, BucketIs, BucketNat
  <2> QED
    BY <1>1, <1>3, <1>5, <1>6, <1>8, <2>1, <2>3, <2>4, <2>5, <2>6, <2>7, <2>8, Quiet DEF Walk
<1>9. ASSUME ~blind, ~RepairDue PROVE Resting'
  <2>1. Between
    BY <1>6, <1>9, RowsAre, FormingIs, BucketNat DEF Between
  <2>2. ASSUME fresh, Materialized # {} PROVE InParity
    <3>1. ~(BucketOf(at) < L) /\ L \in Materialized
      BY <1>3, <1>9, <2>2 DEF RepairDue, L
    <3>2. ASSUME NEW b \in Buckets, b < Forming PROVE Right(b)
      <4>1. CASE b < L
        <5>1. b < BucketOf(at)
          BY <1>4, <3>1, <4>1, BucketIs, BucketNat DEF Materialized
        <5> QED
          BY <1>7, <1>9, <2>2, <5>1
      <4>2. CASE L <= b
        BY <1>6, <1>9, <3>1, <3>2, <4>2 DEF Behind
      <4> QED
        BY <3>1, <4>1, <4>2, BucketNat DEF Materialized
    <3> QED
      BY <1>6, <1>9, <2>2, <3>2, ParityIs, FormingIs, BucketNat
  <2> QED
    BY <1>1, <1>5, <2>1, <2>2, Quiet DEF Resting, Between
<1> QED
  BY <1>1, <1>2, <1>8, <1>9, OnwardKeeps

\* A walk that is through has been over every closed bucket it is about.
LEMMA WalkIsThrough ==
  ASSUME Inv, Walk, clock \in Slots, BucketOf(clock) = Forming, ~(at <= ceil)
  PROVE  IF repair THEN Upto < From ELSE Forming < From
<1> USE DEF Inv
<1>1. From \in Nat \ {0} /\ at = FirstSlot(From) /\ FirstSlot(From) \in Nat
  BY BucketOfFirst DEF Walk
<1>2. CASE repair
  <2>1. Upto \in Buckets /\ Upto \in Nat /\ ceil = FirstSlot(Upto)
    BY <1>2, BucketNat DEF Walk
  <2>2. FirstSlot(Upto) \in SlotsOf(Upto) /\ FirstSlot(Upto) \in Int
    BY <2>1, FirstIs, InSlots
  <2>3. ~(FirstSlot(Upto) >= FirstSlot(From))
    BY <1>1, <2>1, <2>2
  <2>4. ~(From <= Upto)
    BY <1>1, <2>1, <2>2, <2>3, FromStart
  <2> QED
    BY <1>1, <1>2, <2>1, <2>4
<1>3. CASE ~repair
  <2>1. ceil = clock /\ clock \in Nat \ {0}
    BY <1>3, BucketsAre DEF Walk
  <2>2. clock \in SlotsOf(Forming) /\ Forming \in Nat \ {0}
    BY <2>1, BucketIs
  <2>3. ~(clock >= FirstSlot(From))
    BY <1>1, <2>1
  <2>4. ~(From <= Forming)
    BY <1>1, <2>2, <2>3, FromStart
  <2> QED
    BY <1>1, <1>3, <2>2, <2>4
<1> QED
  BY <1>2, <1>3

LEMMA ReadWindowKeeps == Inv /\ ReadWindow => Tracked'
<1> SUFFICES ASSUME Inv, ReadWindow PROVE Tracked'
  OBVIOUS
<1> USE DEF Inv
<1>1. /\ UNCHANGED <<src, roll, native, now, repair, clock, prev, at, ceil, fresh>> /\ pc = "walk"
      /\ IF at <= ceil
         THEN pc' = "put" /\ emit' = Fold({s \in src : s >= at /\ s < at + Chunk}, clock)
         ELSE pc' = "complete"
  BY DEF ReadWindow, Still, Goto
<1>2. Onward
  BY <1>1 DEF Onward, ReadWindow, Still
<1>3. fresh' => fresh
  BY <1>1, Zenon
<1>4. ASSUME ~blind PROVE Walk /\ clock \in Slots /\ BucketOf(clock) = Forming
  BY <1>1, <1>4 DEF Tracked
<1>5. ASSUME ~blind, ~(at <= ceil) PROVE Resting'
  <2>1. Walk /\ (IF repair THEN Upto < From ELSE Forming < From)
    BY <1>4, <1>5, WalkIsThrough
  <2>2. From \in Nat /\ Forming \in Nat /\ (repair => Upto \in Nat)
    BY <2>1, FormingIs, BucketNat DEF Walk
  <2>3. ASSUME NEW b \in Buckets, b < Forming, Behind(b) PROVE Right(b)
    <3>1. b < From \/ (repair /\ Upto <= b)
      BY <2>1, <2>2, <2>3, BucketNat
    <3> QED
      BY <2>1, <2>3, <3>1 DEF Walk
  <2>4. Between
    BY <2>2, <2>3, RowsAre, BucketNat DEF Between
  <2>5. ASSUME fresh, NEW b \in Buckets, b < Forming PROVE Right(b)
    <3>1. b < From \/ (repair /\ Upto <= b)
      BY <2>1, <2>2, <2>5, BucketNat
    <3> QED
      BY <2>1, <2>5, <3>1 DEF Walk
  <2>6. ASSUME fresh, NEW b \in Buckets, Forming <= b PROVE Forms(b)
    <3>1. CASE repair \/ b < From
      BY <2>1, <2>6, <3>1 DEF Walk
    <3>2. CASE ~(repair \/ b < From)
      <4>1. ~(b <= Forming)
        BY <2>1, <2>2, <3>2, BucketNat
      <4>2. src \cap SlotsOf(b) = {}
        BY <4>1, NothingToCome DEF Tracked
      <4> QED
        BY <4>2, NoSource
    <3> QED
      BY <3>1, <3>2
  <2>7. fresh => InParity
    BY <2>2, <2>5, <2>6, ParityIs, BucketNat
  <2> QED
    BY <1>1, <1>3, <2>4, <2>7, Quiet DEF Resting, Between
<1>6. ASSUME ~blind, at <= ceil PROVE Walk'
  <2>1. Walk /\ From' = From /\ Upto' = Upto /\ From \in Nat \ {0} /\ at = FirstSlot(From)
    BY <1>1, <1>4, <1>6 DEF Walk, From, Upto
  <2>2. clock \in Nat \ {0} /\ BucketOf(clock) = Forming
    BY <1>4, <1>6, BucketsAre
  <2>3. ASSUME NEW b \in Buckets
        PROVE  /\ From <= b /\ b < From + K =>
                    emit'[b] = IF b < Forming /\ src \cap SlotsOf(b) # SlotsOf(b)
                               THEN {} ELSE src \cap SlotsOf(b)
               /\ ~(From <= b /\ b < From + K) => emit'[b] = {}
    <3> DEFINE S == {s \in src : s >= at /\ s < at + Chunk}
    <3>1. S \cap SlotsOf(b) = IF From <= b /\ b < From + K THEN src \cap SlotsOf(b) ELSE {}
      BY <2>1, SourceOfChunk
    <3>2. emit'[b] = Fold(S, clock)[b]
      BY <1>1, <1>6
    <3> HIDE DEF S
    <3>3. Fold(S, clock)[b] = IF b < BucketOf(clock) /\ S \cap SlotsOf(b) # SlotsOf(b)
                              THEN {} ELSE S \cap SlotsOf(b)
      BY <2>2, FoldIs
    <3> HIDE DEF K
    <3> QED
      BY <2>2, <3>1, <3>2, <3>3
  <2>4. K \in Nat
    BY ChunkIs, <2>1
  <2> HIDE DEF K
  <2>5. ASSUME NEW b \in Buckets, b < From \/ From + K <= b PROVE emit'[b] = {}
    <3>1. ~(From <= b /\ b < From + K)
      BY <2>1, <2>4, <2>5, BucketNat
    <3> QED
      BY <2>3, <3>1
  <2>6. ASSUME NEW b \in Buckets, From <= b, b < From + K, b < Forming
        PROVE  Exact(b)' /\ Gathered(b)'
    <3>1. emit'[b] = IF src \cap SlotsOf(b) # SlotsOf(b) THEN {} ELSE src \cap SlotsOf(b)
      BY <2>3, <2>6
    <3>2. Exact(b)'
      BY <1>1, <3>1 DEF Exact
    <3> QED
      BY <3>2 DEF Gathered
  <2>7. ASSUME NEW b \in Buckets, From <= b, b < From + K, ~(b < Forming)
        PROVE  emit'[b] = src \cap SlotsOf(b)
    BY <2>3, <2>7
  <2> QED
    BY <1>1, <1>3, <2>1, <2>5, <2>6, <2>7, Quiet DEF Walk
<1> QED
  BY <1>1, <1>2, <1>5, <1>6, OnwardKeeps

LEMMA PutWindowKeeps == Inv /\ PutWindow => Tracked'
<1> SUFFICES ASSUME Inv, PutWindow PROVE Tracked'
  OBVIOUS
<1> USE DEF Inv
<1>1. /\ UNCHANGED <<src, now, repair, clock, ceil, fresh>> /\ pc = "put" /\ pc' = "walk"
      /\ RollupGuarded(emit) /\ at' = at + Chunk
  BY DEF PutWindow, Still, Goto
<1>2. Onward
  BY <1>1 DEF Onward, PutWindow, Still
<1>3. /\ \A b \in Buckets :
           roll'[b] = IF emit[b] # {} /\ b \notin native THEN emit[b] ELSE roll[b]
      /\ \A b \in Buckets : Whole(b)' = Whole(b)
  BY <1>1, PutIs
<1>4. native' = native /\ Forming' = Forming /\ Upto' = Upto
  BY <1>1 DEF RollupGuarded, Forming, Upto
<1>5. fresh' => fresh
  BY <1>1, Zenon
<1>6. ASSUME ~blind PROVE Walk'
  <2>1. Walk /\ From \in Nat \ {0}
    BY <1>1, <1>6 DEF Tracked, Walk
  <2>2. K \in Nat \ {0} /\ at' = FirstSlot(From + K) /\ From' = From + K
    BY <1>1, <2>1, ChunkIs, BucketOfFirst DEF Walk, From
  <2> HIDE DEF K
  <2>3. /\ \A b \in Buckets : b < From \/ From + K <= b => emit[b] = {}
        /\ \A b \in Buckets : From <= b /\ b < From + K /\ b < Forming => Gathered(b)
    BY <1>1, <2>1 DEF Walk
  \* Outside the chunk nothing moved.
  <2>4. ASSUME NEW b \in Buckets, b < From \/ From + K <= b
        PROVE  roll'[b] = roll[b] /\ (Right(b) => Right(b)')
    <3>1. roll'[b] = roll[b] /\ Whole(b)' = Whole(b)
      BY <1>3, <2>3, <2>4
    <3> QED
      BY <3>1 DEF Right
  \* Where there was a row from here on the repair began behind it.
  <2>5. ASSUME NEW b \in Buckets, From <= b, roll[b] # {}
        PROVE  repair /\ Upto <= b /\ (b < Forming => Right(b))
    <3>1. b \in Materialized /\ ~(b < From)
      BY <2>1, <2>5, BucketNat DEF Materialized
    <3> QED
      BY <2>1, <3>1 DEF Walk
  <2>6. ASSUME NEW b \in Buckets, From <= b, b < From + K, b < Forming, Exact(b) PROVE Right(b)'
    BY <1>1, <2>5, <2>6, PutRight
  <2>7. ASSUME NEW b \in Buckets, b < Forming, b < From + K, Behind(b)' PROVE Right(b)'
    <3>1. CASE b < From
      <4>1. \A l \in Buckets : l <= b => roll'[l] = roll[l]
        BY <2>1, <2>4, <3>1, BucketNat
      <4>2. Behind(b)
        BY <2>7, <4>1 DEF Behind, Materialized
      <4> QED
        BY <2>1, <2>4, <2>7, <3>1, <4>2 DEF Walk
    <3>2. CASE From <= b /\ Exact(b)
      BY <2>6, <2>7, <3>2
    <3>3. CASE From <= b /\ emit[b] = {} /\ Bare(b)
      <4>1. roll'[b] = roll[b]
        BY <1>3, <3>3
      <4>2. ASSUME NEW l \in Buckets, l < b PROVE roll'[l] = {}
        BY <1>3, <3>3, <4>2 DEF Bare
      <4>3. roll[b] # {}
        <5>1. PICK l \in Buckets : roll'[l] # {} /\ l <= b
          BY <2>7 DEF Behind, Materialized
        <5> QED
          BY <4>1, <4>2, <5>1, BucketNat
      <4>4. Right(b)
        BY <2>5, <2>7, <3>3, <4>3
      <4> QED
        BY <1>3, <4>1, <4>4 DEF Right
    <3>4. b < From \/ From <= b
      BY <2>1, BucketNat
    <3> QED
      BY <2>3, <2>7, <3>1, <3>2, <3>3, <3>4 DEF Gathered
  <2>8. ASSUME repair, NEW b \in Buckets, Upto <= b, b < Forming PROVE Right(b)'
    <3>1. Right(b)
      BY <2>1, <2>8 DEF Walk
    <3>2. CASE b < From \/ From + K <= b
      BY <2>4, <3>1, <3>2
    <3>3. CASE Exact(b)
      BY <1>1, <3>1, <3>3, PutRight
    <3>4. CASE emit[b] = {}
      BY <1>3, <3>1, <3>4 DEF Right
    <3>5. (b < From \/ From + K <= b) \/ (From <= b /\ b < From + K)
      BY <2>1, <2>2, BucketNat
    <3> QED
      BY <2>3, <2>8, <3>2, <3>3, <3>4, <3>5 DEF Gathered
  <2>9. ASSUME NEW m \in Materialized'
        PROVE  m < From + K \/ (repair /\ Upto <= m)
    <3>1. m \in Buckets /\ roll'[m] # {}
      BY DEF Materialized
    <3>2. CASE From + K <= m
      <4>1. roll[m] # {} /\ From <= m
        BY <2>1, <2>2, <2>4, <3>1, <3>2, BucketNat
      <4> QED
        BY <2>5, <3>1, <4>1
    <3> QED
      BY <2>1, <2>2, <3>1, <3>2, BucketNat
  <2>10. ASSUME fresh
         PROVE  /\ \A b \in Buckets : b < From /\ b < Forming => Right(b)
                /\ \A b \in Buckets : Forming <= b /\ (repair \/ b < From) => Forms(b)
                /\ \A b \in Buckets : From <= b /\ b < From + K =>
                     IF b < Forming THEN Exact(b) ELSE emit[b] = src \cap SlotsOf(b)
    BY <1>1, <2>1, <2>10 DEF Walk
  <2>11. ASSUME fresh, NEW b \in Buckets, b < From + K, b < Forming PROVE Right(b)'
    <3>1. CASE b < From
      BY <2>4, <2>10, <2>11, <3>1
    <3>2. CASE From <= b
      BY <2>6, <2>10, <2>11, <3>2
    <3> QED
      BY <2>1, <3>1, <3>2, BucketNat
  <2>12. ASSUME fresh, NEW b \in Buckets, Forming <= b, repair \/ b < From + K PROVE Forms(b)'
    <3>1. roll[b] \subseteq src \cap SlotsOf(b) /\ (b \in native => roll[b] = {})
      BY DEF IInv, Folded, OneRow
    <3>2. CASE From <= b /\ b < From + K
      <4>1. ~(b < Forming)
        BY <2>12, FormingIs, BucketNat
      <4>2. emit[b] = src \cap SlotsOf(b)
        BY <2>10, <2>12, <3>2, <4>1
      <4>3. roll'[b] = IF b \in native THEN {} ELSE src \cap SlotsOf(b)
        BY <1>3, <3>1, <4>2
      <4> QED
        BY <1>1, <1>4, <4>3 DEF Forms
    <3>3. CASE b < From \/ From + K <= b
      <4>1. repair \/ b < From
        BY <2>1, <2>2, <2>12, <3>3, BucketNat
      <4>2. Forms(b)
        BY <2>10, <2>12, <4>1
      <4>3. roll'[b] = roll[b]
        BY <2>4, <3>3
      <4> QED
        BY <1>1, <1>4, <4>2, <4>3 DEF Forms
    <3>4. (b < From \/ From + K <= b) \/ (From <= b /\ b < From + K)
      BY <2>1, <2>2, BucketNat
    <3> QED
      BY <3>2, <3>3, <3>4
  <2>13. repair =>
           /\ Upto \in Buckets /\ ceil' = FirstSlot(Upto)
           /\ src' \cap SlotsOf(Upto) # {} /\ (Upto < Forming => SlotsOf(Upto) \subseteq src')
    BY <1>1, <2>1 DEF Walk
  <2>14. ~repair => ceil' = clock'
    BY <1>1, <2>1 DEF Walk
  <2>15. repair' <=> repair
    BY <1>1, Zenon
  <2>16. From + K \in Nat \ {0}
    BY <2>1, <2>2
  <2> QED
    BY <1>1, <1>4, <1>5, <2>2, <2>7, <2>8, <2>9, <2>11, <2>12, <2>13, <2>14, <2>15, <2>16 DEF Walk
<1> QED
  BY <1>1, <1>2, <1>6, OnwardKeeps

LEMMA CompleteKeeps == Inv /\ Complete => Tracked'
<1> SUFFICES ASSUME Inv, Complete PROVE Tracked'
  OBVIOUS
<1> USE DEF Inv
<1>1. /\ UNCHANGED <<src, roll, native, now, fresh, blind>> /\ pc = "complete" /\ pc' = "idle"
      /\ repair' = FALSE
  BY DEF Complete, Reset, table, Goto
<1>2. ASSUME ~blind PROVE Resting'
  <2>1. Resting
    BY <1>1, <1>2 DEF Tracked
  <2>2. fresh' => fresh
    BY <1>1, Zenon
  <2> QED
    BY <1>1, <2>1, <2>2, Quiet DEF Resting, Between
<1>3. ~blind' => ~blind
  BY <1>1, Zenon
<1>4. src' \subseteq 1..now'
  BY <1>1 DEF Tracked
<1> QED
  BY <1>1, <1>2, <1>3, <1>4 DEF Tracked

\* A run that dies leaves the rows as a later one expects them, unless it died between
\* its upsert and its last delete, or in a repair.
LEMMA DieKeeps == Inv /\ Die => Tracked'
<1> SUFFICES ASSUME Inv, Die PROVE Tracked'
  OBVIOUS
<1> USE DEF Inv
<1>1. /\ UNCHANGED <<src, roll, native, now>> /\ pc # "idle" /\ pc' = "idle"
      /\ repair' = FALSE /\ ~fresh'
  BY DEF Die, Reset, table, Goto
<1>2. blind' = (blind \/ (pc = "delete" /\ prev # {}) \/ repair)
  BY DEF Die
<1>3. ~blind' => ~blind /\ ~(pc = "delete" /\ prev # {}) /\ ~repair
  BY <1>2, Zenon
<1>4. ASSUME ~blind, ~(pc = "delete" /\ prev # {}), ~repair PROVE Between
  <2>1. CASE pc \in {"max", "complete"}
    BY <1>4, <2>1 DEF Tracked, Resting
  <2>2. CASE pc = "earliest"
    BY <1>4, <2>2 DEF Tracked, Between
  <2>3. CASE pc \in {"prev", "source", "upsert"}
    <3>1. Forward /\ From \in Nat
      BY <1>4, <2>3, BucketNat DEF Tracked, Forward
    <3>2. ASSUME NEW b \in Buckets, NEW m \in Materialized, b < m PROVE b < From
      <4>1. m \in Nat /\ b \in Nat /\ m <= From
        BY <3>1, RowsAre, BucketNat DEF Forward
      <4> QED
        BY <3>1, <3>2, <4>1
    <3> QED
      BY <3>1, <3>2 DEF Forward, Between
  <2>4. CASE pc \in {"delete", "low"}
    <3>1. Trailing /\ prev = {}
      BY <1>4, <2>4 DEF Tracked, Trailing
    <3> QED
      BY <3>1, RowsAre, FormingIs, BucketNat DEF Trailing, Between
  <2>5. CASE pc \in {"walk", "put"}
    <3>1. Walk /\ From \in Nat
      BY <1>4, <2>5 DEF Tracked, Walk
    <3> QED
      BY <1>4, <3>1, RowsAre, FormingIs, BucketNat DEF Walk, Between
  <2>6. pc \in Steps
    BY DEF Numbers
  <2> QED
    BY <1>1, <2>1, <2>2, <2>3, <2>4, <2>5, <2>6 DEF Steps
<1>5. src' \subseteq 1..now'
  BY <1>1 DEF Tracked
<1> QED
  BY <1>1, <1>3, <1>4, <1>5, Quiet DEF Tracked, Resting, Between

LEMMA TrackedKept == Inv /\ [Next]_vars => Tracked'
<1> SUFFICES ASSUME Inv, [Next]_vars PROVE Tracked'
  OBVIOUS
<1>1. CASE Enqueue \/ EnqueueFails \/ PeriodicRefresh \/ UNCHANGED vars
  <2>1. UNCHANGED <<src, roll, native, now, pc, clock, prev, emit, at, ceil, repair, fresh, blind>>
    BY <1>1 DEF Enqueue, EnqueueFails, PeriodicRefresh, vars, table, run
  <2> QED
    BY <2>1 DEF Inv, Tracked, Resting, Between, Forward, Trailing, Walk, Materialized, Behind, Right,
       Whole, Forms, InParity, From, Upto, Forming, Gathered, Exact, Bare
<1> QED
  BY <1>1, StartKeeps, ReadMaxKeeps, ReadEarliestKeeps, ReadPreviouslyMaterializedKeeps,
     ReadSourceKeeps, UpsertKeeps, DeleteOneKeeps, ReadLowKeeps, ReadLowMaterializedKeeps,
     ReadWindowKeeps, PutWindowKeeps, CompleteKeeps, DieKeeps, RefreshKeeps, BackfillBehindKeeps,
     LateCandleKeeps, NativeRowKeeps, TickKeeps DEF Next, Run

\* Set parity for every width, week, chunk and history: a run over a table nobody changed
\* meanwhile leaves the fold of the source, however many runs died, backfills landed and
\* provider rows came before it, unless a row went wrong for good (blind).
THEOREM ParityHolds == Spec => []ParityWhenSettled
<1>1. Init => Inv
  <2>1. Init => IInv
    BY DEF Init, IInv, Folded, OneRow, IsRows
  <2>2. Init => Numbers
    BY Widths, RollupAssumption DEF Init, Numbers, Steps
  <2>3. Init => Flags
    BY Zenon DEF Init, Flags
  <2>4. Init => Tracked
    BY DEF Init, Tracked, Resting, Between, Materialized
  <2> QED
    BY <2>1, <2>2, <2>3, <2>4 DEF Inv
<1>2. Inv /\ [Next]_vars => Inv'
  BY Step, NumbersKept, FlagsKept, TrackedKept DEF Inv
<1>3. Inv => ParityWhenSettled
  BY DEF Inv, Tracked, Resting, ParityWhenSettled, Settled
<1> QED
  BY <1>1, <1>2, <1>3, PTL DEF Spec

(***************************************************************************)
(* The projection: bands that contain the median, a path that leaves from  *)
(* today's price and peaks that are damped, for every history, every list  *)
(* of halvings and every value of the parameters.  First, recursion and    *)
(* sums: by the least counterexample, for want of induction.               *)
(***************************************************************************)

\* A definition by recursion along p, which comes nearer to the bases with every step: at x it
\* is F of x and of the value at p[x].
Recurs(D, top, rank, p, B, F, base) ==
  /\ base \in Int /\ top \in Nat /\ rank \in [D -> 0..top] /\ p \in [D -> D] /\ F \in [D -> [Int -> Int]]
  /\ \A x \in D : x \notin B => rank[p[x]] < rank[x]

\* There is such a function.
LEMMA RecursionIs ==
  ASSUME NEW D, NEW top, NEW rank, NEW p, NEW B, NEW F, NEW base,
         Recurs(D, top, rank, p, B, F, base)
  PROVE  \E g \in [D -> Int] : \A x \in D : g[x] = IF x \in B THEN base ELSE F[x][g[p[x]]]
<1> USE DEF Recurs
<1> DEFINE Up(n) == {x \in D : rank[x] < n}
<1> DEFINE Meets(g, n) == \A x \in Up(n) : g[x] = IF x \in B THEN base ELSE F[x][g[p[x]]]
<1> DEFINE Met(n) == \E g \in [D -> Int] : Meets(g, n)
<1>1. Met(0)
  <2>1. [x \in D |-> base] \in [D -> Int]
    OBVIOUS
  <2>2. Up(0) = {}
    OBVIOUS
  <2> QED
    BY <2>1, <2>2
<1>2. ASSUME NEW n \in Nat, Met(n) PROVE Met(n + 1)
  <2>1. PICK g \in [D -> Int] : Meets(g, n)
    BY <1>2
  <2> DEFINE h == [x \in D |-> IF x \in B THEN base ELSE F[x][g[p[x]]]]
  <2>2. h \in [D -> Int]
    <3>1. \A x \in D : F[x] \in [Int -> Int] /\ g[p[x]] \in Int
      OBVIOUS
    <3>2. \A x \in D : F[x][g[p[x]]] \in Int
      BY <3>1
    <3> QED
      BY <3>2
  <2>3. \A x \in Up(n) : h[x] = g[x]
    BY <2>1
  <2>4. \A x \in Up(n + 1) : x \notin B => p[x] \in Up(n)
    <3>1. \A x \in D : rank[x] \in 0..top /\ p[x] \in D
      OBVIOUS
    <3> QED
      BY <3>1
  <2>5. Meets(h, n + 1)
    <3> TAKE x \in Up(n + 1)
    <3>1. h[x] = IF x \in B THEN base ELSE F[x][g[p[x]]]
      OBVIOUS
    <3>2. x \notin B => h[p[x]] = g[p[x]]
      BY <2>3, <2>4
    <3> HIDE DEF h
    <3> QED
      BY <3>1, <3>2
  <2> HIDE DEF Meets, h
  <2> QED
    BY <2>2, <2>5
<1>3. Met(top + 1)
  <2> DEFINE Bad == {n \in Nat : ~Met(n)}
  <2> HIDE DEF Met
  <2>1. Bad = {}
    <3> SUFFICES ASSUME Bad # {} PROVE FALSE
      OBVIOUS
    <3>1. PICK n \in Bad : \A m \in Bad : n <= m
      <4>1. Bad \subseteq Nat
        OBVIOUS
      <4> HIDE DEF Bad
      <4> QED
        BY <4>1, NatOrder
    <3>2. n # 0 /\ n \in Nat
      BY <1>1, <3>1
    <3>3. n - 1 \in Nat /\ n - 1 \notin Bad
      BY <3>1, <3>2
    <3>4. Met(n - 1)
      BY <3>3
    <3>5. Met((n - 1) + 1)
      BY <1>2, <3>3, <3>4
    <3>6. (n - 1) + 1 = n
      BY <3>2
    <3> QED
      BY <3>1, <3>5, <3>6
  <2> QED
    BY <2>1
<1>4. PICK g \in [D -> Int] : Meets(g, top + 1)
  BY <1>3
<1>5. Up(top + 1) = D
  <2>1. \A x \in D : rank[x] \in 0..top
    OBVIOUS
  <2> QED
    BY <2>1
<1>6. \A x \in D : g[x] = IF x \in B THEN base ELSE F[x][g[p[x]]]
  BY <1>4, <1>5
<1> QED
  BY <1>4, <1>6

\* One less in a finite set.
LEMMA OneLess ==
  ASSUME NEW S, IsFiniteSet(S), NEW s \in SUBSET S
  PROVE  /\ IsFiniteSet(s) /\ Cardinality(s) \in 0..Cardinality(S) /\ Cardinality(S) \in Nat
         /\ \A x \in s : s \ {x} \in SUBSET S /\ Cardinality(s \ {x}) = Cardinality(s) - 1
<1>1. IsFiniteSet(s) /\ Cardinality(s) <= Cardinality(S)
  BY FS_Subset
<1>2. Cardinality(s) \in Nat /\ Cardinality(S) \in Nat
  BY <1>1, FS_CardinalityType
<1>3. ASSUME NEW x \in s PROVE Cardinality(s \ {x}) = Cardinality(s) - 1
  BY <1>1, FS_RemoveElement
<1> QED
  BY <1>1, <1>2, <1>3

\* A sum is a number: at most n times a bound on its n terms, and not negative when they are not,
\* positive when one of them is.
LEMMA TotalIs ==
  ASSUME NEW f, IsFiniteSet(DOMAIN f), \A x \in DOMAIN f : f[x] \in Int
  PROVE  /\ Total(f) \in Int
         /\ \A b \in Int : (\A x \in DOMAIN f : f[x] <= b) => Total(f) <= Cardinality(DOMAIN f) * b
         /\ (\A x \in DOMAIN f : f[x] >= 0) =>
              Total(f) >= 0 /\ ((\E x \in DOMAIN f : f[x] > 0) => Total(f) > 0)
<1> DEFINE S == DOMAIN f
<1> DEFINE Pick(s) == CHOOSE x \in s : TRUE
<1> DEFINE it == CHOOSE g : g = [s \in SUBSET S |-> IF s = {} THEN 0 ELSE f[Pick(s)] + g[s \ {Pick(s)}]]
<1>1. Total(f) = it[S]
  BY DEF Total, MapThenSumSet, MapThenFoldSet
<1>2. it = [s \in SUBSET S |-> IF s = {} THEN 0 ELSE f[Pick(s)] + it[s \ {Pick(s)}]]
  <2> DEFINE D == SUBSET S
  <2> DEFINE rank == [s \in D |-> Cardinality(s)]
  <2> DEFINE p == [s \in D |-> s \ {Pick(s)}]
  <2> DEFINE F == [s \in D |-> [v \in Int |-> IF s = {} THEN 0 ELSE f[Pick(s)] + v]]
  <2> DEFINE top == Cardinality(S)
  <2> DEFINE B == {{}}
  <2> DEFINE zero == 0
  <2>1. top \in Nat /\ rank \in [D -> 0..top] /\ \A s \in D : s \notin B => rank[p[s]] < rank[s]
    <3>1. \A s \in D : Cardinality(s) \in 0..top /\ top \in Nat
      BY OneLess
    <3>2. \A s \in D : s # {} => Pick(s) \in s /\ Pick(s) \in S
      OBVIOUS
    <3>3. \A s \in D : s # {} => s \ {Pick(s)} \in D /\ Cardinality(s \ {Pick(s)}) = Cardinality(s) - 1
      BY <3>2, OneLess
    <3> HIDE DEF Pick, top
    <3> QED
      BY <3>1, <3>3
  <2>2. p \in [D -> D]
    OBVIOUS
  <2>3. F \in [D -> [Int -> Int]]
    <3>1. \A s \in D : s # {} => f[Pick(s)] \in Int
      OBVIOUS
    <3> HIDE DEF Pick
    <3> QED
      BY <3>1
  <2>4. Recurs(D, top, rank, p, B, F, zero)
    <3> HIDE DEF D, top, B, rank, p, F
    <3> QED
      BY <2>1, <2>2, <2>3 DEF Recurs
  <2>5. PICK g \in [D -> Int] : \A s \in D : g[s] = IF s \in B THEN zero ELSE F[s][g[p[s]]]
    <3> HIDE DEF D, top, B, rank, p, F, zero
    <3> QED
      BY <2>4, RecursionIs
  <2>6. \A s \in D : g[p[s]] \in Int
    BY <2>2, <2>5
  <2>7. g = [s \in SUBSET S |-> IF s = {} THEN 0 ELSE f[Pick(s)] + g[s \ {Pick(s)}]]
    <3>1. \A s \in D : g[s] = IF s = {} THEN 0 ELSE f[Pick(s)] + g[s \ {Pick(s)}]
      <4> TAKE s \in D
      <4>1. g[s] = IF s \in B THEN zero ELSE F[s][g[p[s]]]
        BY <2>5
      <4>2. p[s] = s \ {Pick(s)}
        OBVIOUS
      <4>3. s # {} => F[s][g[p[s]]] = f[Pick(s)] + g[p[s]]
        BY <2>6
      <4> HIDE DEF Pick, F, p
      <4> QED
        BY <4>1, <4>2, <4>3
    <3> HIDE DEF Pick
    <3> QED
      BY <2>5, <3>1
  <2> HIDE DEF Pick
  <2> QED
    BY <2>7
<1> DEFINE Sums(s) ==
      /\ it[s] \in Int
      /\ \A b \in Int : (\A x \in s : f[x] <= b) => it[s] <= Cardinality(s) * b
      /\ (\A x \in s : f[x] >= 0) => it[s] >= 0 /\ ((\E x \in s : f[x] > 0) => it[s] > 0)
<1> HIDE DEF it
<1>3. \A s \in SUBSET S : Sums(s)
  <2> DEFINE Bad == {s \in SUBSET S : ~Sums(s)}
  <2> DEFINE sizes == {Cardinality(s) : s \in Bad}
  <2> SUFFICES ASSUME Bad # {} PROVE FALSE
    <3> HIDE DEF Sums
    <3> QED
      OBVIOUS
  <2>1. \A s \in SUBSET S : Cardinality(s) \in Nat
    BY OneLess
  <2>2. PICK n \in sizes : \A m \in sizes : n <= m
    <3>1. sizes \subseteq Nat /\ sizes # {}
      <4> HIDE DEF Sums
      <4> QED
        BY <2>1
    <3> HIDE DEF sizes
    <3> QED
      BY <3>1, NatOrder
  <2>3. PICK s \in Bad : n = Cardinality(s)
    OBVIOUS
  <2>4. s \in SUBSET S /\ ~Sums(s)
    OBVIOUS
  <2>5. s # {}
    <3>1. it[{}] = 0
      BY <1>2
    <3>2. Cardinality({}) = 0
      BY FS_EmptySet
    <3> QED
      BY <2>4, <3>1, <3>2
  <2> DEFINE x == Pick(s)
  <2> DEFINE r == s \ {x}
  <2>6. x \in s /\ f[x] \in Int
    BY <2>4, <2>5
  <2>7. it[s] = f[x] + it[r]
    BY <1>2, <2>4, <2>5
  <2> HIDE DEF x
  <2>8. r \in SUBSET S /\ Cardinality(r) = Cardinality(s) - 1
    BY <2>4, <2>6, OneLess
  <2>9. Sums(r)
    <3> SUFFICES ASSUME ~Sums(r) PROVE FALSE
      OBVIOUS
    <3> HIDE DEF Sums, r
    <3>1. Cardinality(r) \in sizes
      BY <2>8
    <3> HIDE DEF sizes
    <3> QED
      BY <2>1, <2>2, <2>3, <2>4, <2>8, <3>1
  <2>10. Sums(s)
    <3>1. it[s] \in Int
      BY <2>6, <2>7, <2>9
    <3>2. ASSUME NEW b \in Int, \A y \in s : f[y] <= b PROVE it[s] <= Cardinality(s) * b
      <4>1. it[r] <= Cardinality(r) * b /\ it[r] \in Int
        BY <2>9, <3>2
      <4>2. f[x] <= b
        BY <2>6, <3>2
      <4>3. Cardinality(r) * b + b = Cardinality(s) * b
        BY <2>1, <2>4, <2>8
      <4>4. Cardinality(r) * b \in Int /\ Cardinality(s) * b \in Int
        BY <2>1, <2>4, <2>8
      <4> QED
        BY <2>6, <2>7, <4>1, <4>2, <4>3, <4>4
    <3>3. ASSUME \A y \in s : f[y] >= 0
          PROVE  it[s] >= 0 /\ ((\E y \in s : f[y] > 0) => it[s] > 0)
      <4>1. it[r] \in Int /\ it[r] >= 0 /\ f[x] >= 0 /\ ((\E y \in r : f[y] > 0) => it[r] > 0)
        BY <2>6, <2>9, <3>3
      <4>2. ASSUME NEW y \in s, f[y] > 0 PROVE it[s] > 0
        <5>1. CASE y = x
          BY <2>6, <2>7, <4>1, <4>2, <5>1
        <5>2. CASE y # x
          BY <2>6, <2>7, <4>1, <4>2, <5>2
        <5> QED
          BY <5>1, <5>2
      <4> QED
        BY <2>6, <2>7, <4>1, <4>2
    <3> QED
      BY <3>1, <3>2, <3>3
  <2> QED
    BY <2>4, <2>10
<1> QED
  <2>1. Sums(S)
    BY <1>3
  <2> QED
    BY <1>1, <2>1

(***************************************************************************)
(* Division and products.                                                  *)

\* A product keeps the order of what it multiplies by something that is not negative.
LEMMA Scales ==
  ASSUME NEW a \in Int, NEW b \in Int, a <= b, NEW n \in Nat
  PROVE  n * a \in Int /\ n * b \in Int /\ n * a <= n * b
<1>1. b - a \in Nat
  OBVIOUS
<1>2. PICK d \in Nat : b = a + d
  BY <1>1
<1>3. n * b = n * a + n * d
  BY <1>2
<1>4. n * d \in Nat /\ n * a \in Int
  OBVIOUS
<1> QED
  BY <1>3, <1>4

\* Only the lesser of two has the lesser product.
LEMMA ScalesBack ==
  ASSUME NEW a \in Int, NEW b \in Int, NEW n \in Nat \ {0}, n * a < n * b
  PROVE  a < b
<1> SUFFICES ASSUME b <= a PROVE FALSE
  OBVIOUS
<1>1. n * b \in Int /\ n * a \in Int /\ n * b <= n * a
  BY Scales
<1> QED
  BY <1>1

\* A quotient is rounded down.
LEMMA DivIs ==
  ASSUME NEW a \in Int, NEW n \in Nat \ {0}
  PROVE  /\ a \div n \in Int /\ a % n \in 0..(n - 1)
         /\ n * (a \div n) \in Int /\ n * (a \div n) <= a /\ a < n * (a \div n) + n
         /\ a = n * (a \div n) + (a % n)
OBVIOUS

\* A quotient is at most a number that times the divisor reaches the dividend, and at least one
\* that does not exceed it.
LEMMA DivBounds ==
  ASSUME NEW a \in Int, NEW n \in Nat \ {0}, NEW q \in Int
  PROVE  /\ a <= n * q => a \div n <= q
         /\ n * q <= a => q <= a \div n
<1> DEFINE d == a \div n
<1>1. d \in Int /\ n * d \in Int /\ n * d <= a /\ a < n * d + n
  BY DivIs
<1> HIDE DEF d
<1>2. n * q \in Int /\ n * (q + 1) = n * q + n /\ n * (d + 1) = n * d + n
  BY <1>1
<1>3. ASSUME a <= n * q PROVE d <= q
  <2>1. n * d < n * (q + 1)
    BY <1>1, <1>2, <1>3
  <2>2. d < q + 1
    BY <1>1, <2>1, ScalesBack
  <2> QED
    BY <1>1, <2>2
<1>4. ASSUME n * q <= a PROVE q <= d
  <2>1. n * q < n * (d + 1)
    BY <1>1, <1>2, <1>4
  <2>2. q < d + 1
    BY <1>1, <2>1, ScalesBack
  <2> QED
    BY <1>1, <2>2
<1> QED
  BY <1>3, <1>4 DEF d

\* A quotient keeps the order of its dividends.
LEMMA DivKeeps ==
  ASSUME NEW a \in Int, NEW b \in Int, a <= b, NEW n \in Nat \ {0}
  PROVE  a \div n <= b \div n
<1>1. a \div n \in Int /\ n * (a \div n) <= b
  BY DivIs
<1> QED
  BY <1>1, DivBounds

\* The Decimals of the projection are numbers, its counts are positive.
LEMMA Units ==
  /\ Unit \in Nat \ {0} /\ CycleDays \in Nat \ {0} /\ AssumedLen \in Nat \ {0} /\ Bins \in Nat \ {0}
  /\ GridStep \in Nat \ {0} /\ MinSamples \in Nat \ {0} /\ MinCycleObs \in Nat \ {0}
  /\ AnchorWeight \in Nat \ {0} /\ AmpFloor \in Nat \ {0}
  /\ Rho \in 0..Unit /\ Shrink \in 0..Unit /\ FirstDay \in Int /\ LastDay \in Int
BY ProjectionAssumption

\* A part of a Decimal: the product with a number between 0 and 1 lies between 0 and it.
LEMMA PartOf ==
  ASSUME NEW r \in 0..Unit, NEW d \in Int
  PROVE  /\ Times(r, d) \in Int
         /\ d >= 0 => 0 <= Times(r, d) /\ Times(r, d) <= d
         /\ d <= 0 => d <= Times(r, d) /\ Times(r, d) <= 0
<1> DEFINE p == r * d
<1>0. r \in Nat /\ Unit \in Nat \ {0} /\ Unit - r \in Nat
  BY Units
<1>1. p \in Int /\ Unit * 0 = 0 /\ Unit * d \in Int /\ (Unit - r) * d = Unit * d - p /\ r * 0 = 0 /\ (Unit - r) * 0 = 0
  BY <1>0
<1>2. d >= 0 => 0 <= p /\ p <= Unit * d
  <2> SUFFICES ASSUME d >= 0 PROVE 0 <= p /\ p <= Unit * d
    OBVIOUS
  <2>1. r * 0 <= r * d
    BY <1>0, Scales
  <2>2. (Unit - r) * 0 <= (Unit - r) * d
    BY <1>0, Scales
  <2> HIDE DEF p
  <2> QED
    BY <1>1, <2>1, <2>2 DEF p
<1>3. d <= 0 => Unit * d <= p /\ p <= 0
  <2> SUFFICES ASSUME d <= 0 PROVE Unit * d <= p /\ p <= 0
    OBVIOUS
  <2>1. r * d <= r * 0
    BY <1>0, Scales
  <2>2. (Unit - r) * d <= (Unit - r) * 0
    BY <1>0, Scales
  <2> QED
    BY <1>1, <2>1, <2>2
<1>4. Times(r, d) = p \div Unit
  BY DEF Times
<1> HIDE DEF p
<1>5. p \div Unit \in Int
  BY <1>0, <1>1, DivIs
<1>6. /\ p <= Unit * d => p \div Unit <= d
      /\ p <= Unit * 0 => p \div Unit <= 0
      /\ Unit * d <= p => d <= p \div Unit
      /\ Unit * 0 <= p => 0 <= p \div Unit
  BY <1>0, <1>1, DivBounds
<1> QED
  BY <1>1, <1>2, <1>3, <1>4, <1>5, <1>6

\* A product of numbers is a number; what is not negative keeps the order.
LEMMA TimesIsInt ==
  ASSUME NEW a \in Int, NEW b \in Int
  PROVE  Times(a, b) \in Int
<1>1. a * b \in Int
  OBVIOUS
<1> HIDE DEF Times
<1> QED
  BY <1>1, Units, DivIs DEF Times

LEMMA TimesKeeps ==
  ASSUME NEW n \in Nat, NEW a \in Int, NEW b \in Int, a <= b
  PROVE  Times(n, a) <= Times(n, b)
<1>1. n * a \in Int /\ n * b \in Int /\ n * a <= n * b
  BY Scales
<1> QED
  BY <1>1, Units, DivKeeps DEF Times

LEMMA OverIs ==
  ASSUME NEW a \in Int, NEW b \in Nat \ {0}
  PROVE  Over(a, b) \in Int
<1>1. a * Unit \in Int
  BY Units
<1> QED
  BY <1>1, DivIs DEF Over

\* Part of the way from one number to another lies between them.
LEMMA Toward ==
  ASSUME NEW r \in 0..Unit, NEW a \in Int, NEW b \in Int
  PROVE  /\ a + Times(r, b - a) \in Int
         /\ a <= b => a <= a + Times(r, b - a) /\ a + Times(r, b - a) <= b
         /\ b <= a => b <= a + Times(r, b - a) /\ a + Times(r, b - a) <= a
<1>1. \A d \in Int : /\ Times(r, d) \in Int
                     /\ d >= 0 => 0 <= Times(r, d) /\ Times(r, d) <= d
                     /\ d <= 0 => d <= Times(r, d) /\ Times(r, d) <= 0
  BY PartOf
<1>2. PICK d \in Int : d = b - a
  OBVIOUS
<1>3. PICK t \in Int : t = Times(r, d)
  BY <1>1
<1>4. (d >= 0 => 0 <= t /\ t <= d) /\ (d <= 0 => d <= t /\ t <= 0)
  BY <1>1, <1>2, <1>3
<1>5. a + t \in Int /\ (a <= b => a <= a + t /\ a + t <= b) /\ (b <= a => b <= a + t /\ a + t <= a)
  BY <1>2, <1>3, <1>4
<1>6. Times(r, b - a) = t
  BY <1>2, <1>3
<1> QED
  BY <1>5, <1>6

(***************************************************************************)
(* Extremes.                                                               *)

LEMMA ImageFinite ==
  ASSUME NEW S, IsFiniteSet(S), NEW f
  PROVE  IsFiniteSet({f[x] : x \in S})
<1> DEFINE T == {f[x] : x \in S}
<1> DEFINE g == [x \in S |-> f[x]]
<1>1. g \in Surjection(S, T)
  BY DEF Surjection
<1> HIDE DEF g, T
<1>2. IsFiniteSet(T)
  BY <1>1, FS_Surjection
<1> QED
  BY <1>2 DEF T

\* A finite set of numbers has a least.
LEMMA LeastIs ==
  ASSUME NEW S, IsFiniteSet(S), S \subseteq Int, S # {}
  PROVE  Least(S) \in S /\ \A y \in S : Least(S) <= y
<1> DEFINE Under(x) == {y \in S : y < x}
<1> DEFINE ranks == {Cardinality(Under(x)) : x \in S}
<1>1. \A x \in S : IsFiniteSet(Under(x)) /\ Cardinality(Under(x)) \in Nat
  <2> TAKE x \in S
  <2>1. Under(x) \subseteq S
    OBVIOUS
  <2>2. IsFiniteSet(Under(x))
    BY <2>1, FS_Subset
  <2> QED
    BY <2>2, FS_CardinalityType
<1>2. PICK n \in ranks : \A m \in ranks : n <= m
  <2>1. ranks \subseteq Nat /\ ranks # {}
    BY <1>1
  <2> QED
    BY <2>1, NatOrder
<1>3. PICK x \in S : n = Cardinality(Under(x))
  OBVIOUS
<1>4. \A y \in S : x <= y
  <2> SUFFICES ASSUME NEW y \in S, y < x PROVE FALSE
    OBVIOUS
  <2>0. \A z \in S : z \in Int
    OBVIOUS
  <2>1. Under(y) \subseteq Under(x) /\ y \in Under(x) /\ y \notin Under(y)
    <3>1. \A z \in S : z < y => z < x
      BY <2>0
    <3>2. ~(y < y)
      BY <2>0
    <3> QED
      BY <3>1, <3>2
  <2>2. Cardinality(Under(y)) <= Cardinality(Under(x)) /\ Cardinality(Under(y)) # Cardinality(Under(x))
    <3> HIDE DEF Under
    <3> QED
      BY <1>1, <2>1, FS_Subset
  <2>3. n <= Cardinality(Under(y))
    BY <1>2
  <2> HIDE DEF Under
  <2> QED
    BY <1>1, <1>3, <2>2, <2>3
<1> QED
  BY <1>4 DEF Least

\* And a greatest.
LEMMA GreatestIs ==
  ASSUME NEW S, IsFiniteSet(S), S \subseteq Int, S # {}
  PROVE  Greatest(S) \in S /\ \A y \in S : Greatest(S) >= y
<1> DEFINE minus == [x \in S |-> 0 - x]
<1> DEFINE T == {minus[x] : x \in S}
<1>1. IsFiniteSet(T)
  <2> HIDE DEF minus
  <2> QED
    BY ImageFinite
<1>2. T \subseteq Int /\ T # {}
  <2>1. \A x \in S : minus[x] \in Int
    OBVIOUS
  <2> HIDE DEF minus
  <2> QED
    BY <2>1
<1>3. Least(T) \in T /\ \A y \in T : Least(T) <= y
  <2> HIDE DEF T
  <2> QED
    BY <1>1, <1>2, LeastIs
<1>4. PICK x \in S : Least(T) = 0 - x
  BY <1>3
<1>5. \A y \in S : x >= y
  <2> TAKE y \in S
  <2>1. 0 - y \in T
    OBVIOUS
  <2>2. 0 - x <= 0 - y
    BY <1>3, <1>4, <2>1
  <2> QED
    BY <2>2
<1> QED
  BY <1>5 DEF Greatest

\* Of two numbers.
LEMMA OfTwo ==
  ASSUME NEW a \in Int, NEW b \in Int
  PROVE  /\ Least({a, b}) = IF a <= b THEN a ELSE b
         /\ Greatest({a, b}) = IF a <= b THEN b ELSE a
<1>1. IsFiniteSet({a, b})
  <2>1. IsFiniteSet({a}) /\ {a, b} = {a} \cup {b}
    BY FS_Singleton
  <2> QED
    BY <2>1, FS_AddElement
<1>2. Least({a, b}) \in {a, b} /\ \A y \in {a, b} : Least({a, b}) <= y
  BY <1>1, LeastIs
<1>3. Greatest({a, b}) \in {a, b} /\ \A y \in {a, b} : Greatest({a, b}) >= y
  BY <1>1, GreatestIs
<1> QED
  BY <1>2, <1>3

LEMMA ClampIs ==
  ASSUME NEW x \in Int, NEW lo \in Int, NEW hi \in Int, lo <= hi
  PROVE  Clamp(x, lo, hi) = IF x < lo THEN lo ELSE IF x > hi THEN hi ELSE x
<1>1. Least({x, hi}) = IF x <= hi THEN x ELSE hi
  BY OfTwo
<1> DEFINE l == Least({x, hi})
<1>2. l \in Int
  BY <1>1
<1> HIDE DEF l
<1>3. Greatest({lo, l}) = IF lo <= l THEN l ELSE lo
  BY <1>2, OfTwo
<1> QED
  BY <1>1, <1>3 DEF l, Clamp

(***************************************************************************)
(* Samples in ascending order, and their quantiles.                        *)

IsSamples(S) == IsFiniteSet(S) /\ S # {} /\ \A s \in S : s[2] \in Int

Ascends(q) ==
  /\ DOMAIN q = 1..Len(q) /\ Len(q) \in Nat \ {0} /\ \A n \in 1..Len(q) : q[n] \in Int
  /\ \A n, m \in 1..Len(q) : n <= m => q[n] <= q[m]

LEMMA AscendingIs ==
  ASSUME NEW S, IsSamples(S)
  PROVE  Ascends(Ascending(S))
<1> DEFINE Below(v) == {s \in S : s[2] < v}
<1> DEFINE UpTo(v) == {s \in S : s[2] <= v}
<1> DEFINE V == {s[2] : s \in S}
<1> DEFINE size == Cardinality(S)
<1> DEFINE Is(n, v) == v \in V /\ Cardinality(Below(v)) < n /\ n <= Cardinality(UpTo(v))
<1>1. IsFiniteSet(S) /\ size \in Nat \ {0} /\ V \subseteq Int /\ V # {}
  <2>1. IsFiniteSet(S) /\ V \subseteq Int /\ V # {}
    BY DEF IsSamples
  <2>2. size \in Nat /\ size # 0
    BY FS_CardinalityType, FS_EmptySet DEF IsSamples
  <2> QED
    BY <2>1, <2>2
<1>2. \A v \in V : /\ Cardinality(Below(v)) \in Nat /\ Cardinality(UpTo(v)) \in Nat
                   /\ IsFiniteSet(Below(v)) /\ IsFiniteSet(UpTo(v))
  <2> TAKE v \in V
  <2>1. Below(v) \subseteq S /\ UpTo(v) \subseteq S
    OBVIOUS
  <2> HIDE DEF Below, UpTo
  <2>2. IsFiniteSet(Below(v)) /\ IsFiniteSet(UpTo(v))
    BY <1>1, <2>1, FS_Subset
  <2> QED
    BY <2>2, FS_CardinalityType
<1>3. ASSUME NEW n \in 1..size PROVE \E v \in V : Is(n, v)
  <2> DEFINE Enough == {v \in V : n <= Cardinality(UpTo(v))}
  <2>1. IsFiniteSet(V)
    <3> DEFINE second == [s \in S |-> s[2]]
    <3>1. IsFiniteSet({second[s] : s \in S})
      <4> HIDE DEF second
      <4> QED
        BY <1>1, ImageFinite
    <3>2. V = {second[s] : s \in S}
      OBVIOUS
    <3> QED
      BY <3>1, <3>2
  <2>2. Enough # {}
    <3> DEFINE top == Greatest(V)
    <3>1. top \in V /\ \A v \in V : top >= v
      <4> HIDE DEF V
      <4> QED
        BY <1>1, <2>1, GreatestIs
    <3> HIDE DEF top
    <3>2. \A s \in S : s[2] <= top
      <4>1. \A s \in S : s[2] \in V /\ s[2] \in Int
        BY DEF IsSamples
      <4> QED
        BY <1>1, <3>1, <4>1
    <3>3. UpTo(top) = S
      BY <3>2
    <3>4. n <= Cardinality(UpTo(top))
      BY <1>1, <3>3
    <3> HIDE DEF UpTo, V
    <3> QED
      BY <3>1, <3>4
  <2>3. PICK v \in Enough : \A w \in Enough : v <= w
    <3>1. IsFiniteSet(Enough) /\ Enough \subseteq Int
      <4>1. Enough \subseteq V
        OBVIOUS
      <4> HIDE DEF Enough, V
      <4> QED
        BY <1>1, <2>1, <4>1, FS_Subset
    <3> HIDE DEF Enough
    <3> QED
      BY <2>2, <3>1, LeastIs
  <2>4. v \in V /\ v \in Int /\ n <= Cardinality(UpTo(v))
    BY <1>1
  <2>5. Cardinality(Below(v)) < n
    <3> SUFFICES ASSUME n <= Cardinality(Below(v)) PROVE FALSE
      <4> HIDE DEF Below, UpTo, V
      <4> QED
        BY <1>2, <2>4
    <3>1. Below(v) # {}
      <4>1. Cardinality(Below(v)) # 0
        BY <1>2, <2>4
      <4> HIDE DEF Below
      <4> QED
        BY <4>1, FS_EmptySet
    <3> DEFINE W == {s[2] : s \in Below(v)}
    <3>2. W \subseteq V /\ W # {}
      BY <3>1
    <3>3. PICK w \in W : \A u \in W : w >= u
      <4>1. IsFiniteSet(W) /\ W \subseteq Int
        <5> HIDE DEF W, V
        <5> QED
          BY <1>1, <2>1, <3>2, FS_Subset
      <4> HIDE DEF W
      <4> QED
        BY <3>2, <4>1, GreatestIs
    <3>4. w \in V /\ w \in Int /\ w < v
      BY <1>1, <3>2
    <3>5. Below(v) \subseteq UpTo(w)
      <4> SUFFICES ASSUME NEW s \in Below(v) PROVE s \in UpTo(w)
        BY Zenon
      <4>1. s[2] \in W /\ s \in S /\ s[2] \in Int
        BY DEF IsSamples
      <4>2. w >= s[2]
        BY <3>3, <4>1
      <4> QED
        BY <3>4, <4>1, <4>2
    <3>6. Cardinality(Below(v)) <= Cardinality(UpTo(w))
      <4> HIDE DEF Below, UpTo
      <4> QED
        BY <1>2, <3>4, <3>5, FS_Subset
    <3>7. w \in Enough
      <4> HIDE DEF Below, UpTo, V
      <4> QED
        BY <1>2, <2>4, <3>4, <3>6
    <3>8. v <= w
      BY <2>3, <3>7
    <3> QED
      BY <2>4, <3>4, <3>8
  <2> QED
    BY <2>4, <2>5
<1> DEFINE A == Ascending(S)
<1>4. A = [n \in 1..size |-> CHOOSE v \in V : Cardinality(Below(v)) < n /\ n <= Cardinality(UpTo(v))]
  BY DEF Ascending
<1>5. \A n \in 1..size : Is(n, A[n])
  <2> TAKE n \in 1..size
  <2>1. A[n] = CHOOSE v \in V : Cardinality(Below(v)) < n /\ n <= Cardinality(UpTo(v))
    BY <1>4
  <2> HIDE DEF A, Below, UpTo, V
  <2> QED
    BY <1>3, <2>1
<1>6. DOMAIN A = 1..size /\ Len(A) = size
  <2>1. DOMAIN A = 1..size
    BY <1>4
  <2>2. A \in [1..size -> Int]
    <3> HIDE DEF A
    <3> QED
      BY <1>1, <1>5, <2>1, <1>4
  <2>3. A \in Seq(Int) /\ size \in Nat
    <3> HIDE DEF A, size
    <3> QED
      BY <1>1, <2>2
  <2> HIDE DEF A, size
  <2>4. Len(A) = size
    BY <2>1, <2>3
  <2> QED
    BY <2>1, <2>4
<1> HIDE DEF A
<1>7. ASSUME NEW n \in 1..size, NEW m \in 1..size, n <= m PROVE A[n] <= A[m]
  <2>1. Is(n, A[n]) /\ Is(m, A[m]) /\ A[n] \in Int /\ A[m] \in Int
    BY <1>1, <1>5
  <2> SUFFICES ASSUME A[m] < A[n] PROVE FALSE
    BY <2>1
  <2>2. UpTo(A[m]) \subseteq Below(A[n])
    <3> SUFFICES ASSUME NEW s \in UpTo(A[m]) PROVE s \in Below(A[n])
      BY Zenon
    <3>1. s[2] \in Int /\ s[2] <= A[m]
      BY DEF IsSamples
    <3> QED
      BY <2>1, <3>1
  <2>3. Cardinality(UpTo(A[m])) <= Cardinality(Below(A[n]))
    <3> HIDE DEF Below, UpTo
    <3> QED
      BY <1>2, <2>1, <2>2, FS_Subset
  <2>4. /\ Cardinality(UpTo(A[m])) \in Nat /\ Cardinality(Below(A[n])) \in Nat
        /\ Cardinality(Below(A[n])) < n /\ m <= Cardinality(UpTo(A[m]))
    BY <1>2, <2>1
  <2> HIDE DEF Below, UpTo
  <2> QED
    BY <1>7, <2>3, <2>4
<1> QED
  <2>1. \A n \in 1..size : A[n] \in Int
    BY <1>1, <1>5
  <2> HIDE DEF size
  <2> QED
    BY <1>1, <1>6, <1>7, <2>1 DEF Ascends, A

\* The place of a quantile among the samples.
Place(q, sorted) == q * (Len(sorted) - 1)

LEMMA PlaceIs ==
  ASSUME NEW sorted, Ascends(sorted), NEW q \in 0..Unit
  PROVE  LET pos == Place(q, sorted)  i == pos \div Unit IN
         /\ pos \in Int /\ i \in 0..(Len(sorted) - 1) /\ pos % Unit \in 0..Unit
         /\ pos = Unit * i + (pos % Unit) /\ Unit * i \in Int
         /\ \E j \in i..(Len(sorted) - 1) :
              /\ i < Len(sorted) - 1 => j = i + 1
              /\ Quantile(sorted, q) = sorted[i + 1] + Times(pos % Unit, sorted[j + 1] - sorted[i + 1])
<1> DEFINE l == Len(sorted) - 1
<1> DEFINE pos == q * l
<1> DEFINE i == pos \div Unit
<1>1. l \in Nat /\ q \in Nat /\ Unit \in Nat \ {0} /\ Unit - q \in Nat
  BY Units DEF Ascends
<1> HIDE DEF l
<1>2. pos \in Int /\ pos <= Unit * l /\ Unit * 0 <= pos
  <2>1. l * q <= l * Unit
    BY <1>1, Scales
  <2>2. l * q = q * l /\ l * Unit = Unit * l /\ q * l \in Nat
    BY <1>1
  <2> QED
    BY <1>1, <2>1, <2>2
<1> HIDE DEF pos
<1>3. i \in 0..l /\ pos % Unit \in 0..Unit /\ pos = Unit * i + (pos % Unit) /\ Unit * i \in Int
  <2>1. /\ i \in Int /\ pos % Unit \in 0..(Unit - 1) /\ pos = Unit * i + (pos % Unit) /\ Unit * i \in Int
    BY <1>1, <1>2, DivIs
  <2>2. i <= l /\ 0 <= i
    BY <1>1, <1>2, DivBounds
  <2> QED
    BY <1>1, <2>1, <2>2
<1> DEFINE j == Clamp(i + 1, 0, l)
<1> HIDE DEF i
<1>4. Clamp(i, 0, l) = i
  BY <1>1, <1>3, ClampIs
<1>5. j = IF i + 1 > l THEN l ELSE i + 1
  BY <1>1, <1>3, ClampIs
<1>6. Quantile(sorted, q) = sorted[i + 1] + Times(pos % Unit, sorted[j + 1] - sorted[i + 1])
  BY <1>4 DEF Quantile, i, pos, l
<1>7. j \in i..l /\ (i < l => j = i + 1)
  BY <1>1, <1>3, <1>5
<1> HIDE DEF j
<1> QED
  BY <1>2, <1>3, <1>6, <1>7 DEF Place, pos, i, l

\* A quantile lies between its two samples, and a higher one is not below a lower one.
LEMMA QuantileIs ==
  ASSUME NEW sorted, Ascends(sorted), NEW p \in 0..Unit, NEW q \in 0..Unit, p <= q
  PROVE  /\ Quantile(sorted, p) \in Int /\ Quantile(sorted, q) \in Int
         /\ Quantile(sorted, p) <= Quantile(sorted, q)
<1> DEFINE l == Len(sorted) - 1
<1> DEFINE P == Place(p, sorted)
<1> DEFINE Q == Place(q, sorted)
<1> DEFINE i == P \div Unit
<1> DEFINE k == Q \div Unit
<1>0. Unit \in Nat \ {0} /\ l \in Nat
  BY Units DEF Ascends
<1>1. PICK j \in i..l :
        /\ P \in Int /\ i \in 0..l /\ P % Unit \in 0..Unit
        /\ P = Unit * i + (P % Unit) /\ Unit * i \in Int
        /\ i < l => j = i + 1
        /\ Quantile(sorted, p) = sorted[i + 1] + Times(P % Unit, sorted[j + 1] - sorted[i + 1])
  BY PlaceIs
<1>2. PICK h \in k..l :
        /\ Q \in Int /\ k \in 0..l /\ Q % Unit \in 0..Unit
        /\ Q = Unit * k + (Q % Unit) /\ Unit * k \in Int
        /\ k < l => h = k + 1
        /\ Quantile(sorted, q) = sorted[k + 1] + Times(Q % Unit, sorted[h + 1] - sorted[k + 1])
  BY PlaceIs
<1>3. P <= Q
  <2>1. l * p <= l * q /\ l * p = p * l /\ l * q = q * l
    BY <1>0, Scales
  <2> QED
    BY <2>1 DEF Place
<1> DEFINE r == P % Unit
<1> DEFINE s == Q % Unit
<1> HIDE DEF P, Q
<1>4. i <= k
  BY <1>0, <1>1, <1>2, <1>3, DivKeeps
<1> HIDE DEF i, k, r, s
<1>5. \A n \in 0..l : sorted[n + 1] \in Int
  BY <1>0 DEF Ascends, l
<1>6. \A n, m \in 0..l : n <= m => sorted[n + 1] <= sorted[m + 1]
  BY <1>0 DEF Ascends, l
<1> HIDE DEF l
<1>7. j \in 0..l /\ h \in 0..l /\ i <= j /\ k <= h
  BY <1>0, <1>1, <1>2
<1>8. /\ r \in 0..Unit /\ s \in 0..Unit
      /\ Quantile(sorted, p) = sorted[i + 1] + Times(r, sorted[j + 1] - sorted[i + 1])
      /\ Quantile(sorted, q) = sorted[k + 1] + Times(s, sorted[h + 1] - sorted[k + 1])
  BY <1>1, <1>2 DEF r, s
<1>9. /\ Quantile(sorted, p) \in Int
      /\ sorted[i + 1] <= Quantile(sorted, p) /\ Quantile(sorted, p) <= sorted[j + 1]
  <2>1. PICK a \in Int, b \in Int : a = sorted[i + 1] /\ b = sorted[j + 1] /\ a <= b
    BY <1>1, <1>5, <1>6, <1>7
  <2>2. a + Times(r, b - a) \in Int /\ a <= a + Times(r, b - a) /\ a + Times(r, b - a) <= b
    BY <1>8, <2>1, Toward
  <2> QED
    BY <1>8, <2>1, <2>2
<1>10. /\ Quantile(sorted, q) \in Int
       /\ sorted[k + 1] <= Quantile(sorted, q) /\ Quantile(sorted, q) <= sorted[h + 1]
  <2>1. PICK a \in Int, b \in Int : a = sorted[k + 1] /\ b = sorted[h + 1] /\ a <= b
    BY <1>2, <1>5, <1>6, <1>7
  <2>2. a + Times(s, b - a) \in Int /\ a <= a + Times(s, b - a) /\ a + Times(s, b - a) <= b
    BY <1>8, <2>1, Toward
  <2> QED
    BY <1>8, <2>1, <2>2
<1>11. CASE i < k
  <2>1. j <= k
    BY <1>0, <1>1, <1>2, <1>7, <1>11
  <2>2. sorted[j + 1] <= sorted[k + 1] /\ sorted[j + 1] \in Int /\ sorted[k + 1] \in Int
    BY <1>2, <1>5, <1>6, <1>7, <2>1
  <2> QED
    BY <1>9, <1>10, <2>2
<1>12. CASE i = k
  <2>1. r <= s
    BY <1>1, <1>2, <1>3, <1>12 DEF r, s
  <2>2. h = j
    BY <1>0, <1>1, <1>2, <1>12
  <2>3. PICK d \in Nat : d = sorted[j + 1] - sorted[i + 1]
    BY <1>1, <1>5, <1>6, <1>7
  <2>4. Times(d, r) <= Times(d, s)
    BY <1>8, <2>1, TimesKeeps
  <2>5. Times(d, r) = Times(r, d) /\ Times(d, s) = Times(s, d)
    <3>1. d * r = r * d /\ d * s = s * d
      BY <1>8
    <3> QED
      BY <3>1 DEF Times
  <2>6. Times(r, d) \in Int /\ Times(s, d) \in Int /\ sorted[i + 1] \in Int
    BY <1>1, <1>5, <1>8, PartOf
  <2>7. /\ Quantile(sorted, p) = sorted[i + 1] + Times(r, d)
        /\ Quantile(sorted, q) = sorted[i + 1] + Times(s, d)
    BY <1>8, <1>12, <2>2, <2>3
  <2> QED
    BY <1>9, <1>10, <2>4, <2>5, <2>6, <2>7
<1> QED
  BY <1>1, <1>2, <1>4, <1>9, <1>10, <1>11, <1>12

\* The offsets of the bands: the lower one not above the median, the upper one not below it.
IsOffsets(o) == o[1] \in Int /\ o[2] \in Int /\ o[1] <= 0 /\ 0 <= o[2]

LEMMA OffsetsAre ==
  ASSUME NEW errors, NEW changes, Ascends(errors), Ascends(changes)
  PROVE  IsOffsets(Offsets(errors, changes))
<1> DEFINE half == Unit \div 2
<1> DEFINE low == Unit \div 10
<1> DEFINE high == (9 * Unit) \div 10
<1>1. half \in 0..Unit /\ low \in 0..Unit /\ high \in 0..Unit /\ low <= half /\ half <= high
  BY Units
<1> DEFINE side(q) == (Quantile(errors, q) - Quantile(errors, half)) + (Quantile(changes, q) - Quantile(changes, half))
<1> HIDE DEF half, low, high
<1>2. \A e \in {errors, changes} :
        /\ Quantile(e, low) \in Int /\ Quantile(e, half) \in Int /\ Quantile(e, high) \in Int
        /\ Quantile(e, low) <= Quantile(e, half) /\ Quantile(e, half) <= Quantile(e, high)
  BY <1>1, QuantileIs
<1>3. side(low) \in Int /\ side(low) <= 0 /\ side(high) \in Int /\ 0 <= side(high)
  BY <1>2
<1>4. HalfWidth(errors, changes, low) = side(low) \div 2 /\ HalfWidth(errors, changes, high) = side(high) \div 2
  BY DEF HalfWidth, half
<1> HIDE DEF side
<1>5. /\ side(low) \div 2 \in Int /\ side(low) \div 2 <= 0
      /\ side(high) \div 2 \in Int /\ 0 <= side(high) \div 2
  BY <1>3
<1> QED
  BY <1>4, <1>5 DEF Offsets, IsOffsets, low, high

IsGrid(grid) == DOMAIN grid \subseteq 1..CycleDays /\ \A h \in DOMAIN grid : IsOffsets(grid[h])

\* Between grid points, and beyond them, the offsets keep their sides.
LEMMA OffsetsAtAre ==
  ASSUME NEW grid, IsGrid(grid), NEW k \in 1..CycleDays
  PROVE  IsOffsets(OffsetsAt(grid, k))
<1> DEFINE below == {h \in DOMAIN grid : h < k}
<1> DEFINE above == {h \in DOMAIN grid : h >= k}
<1> DEFINE ka == IF below = {} THEN 0 ELSE Greatest(below)
<1> DEFINE kb == Least(above)
<1> DEFINE from(side) == IF below = {} THEN 0 ELSE grid[ka][side]
<1> DEFINE upto(side) == from(side) + Times(Over(k - ka, kb - ka), grid[kb][side] - from(side))
<1>0. OffsetsAt(grid, k) = IF above = {} THEN <<from(1), from(2)>> ELSE <<upto(1), upto(2)>>
  BY DEF OffsetsAt
<1>1. CycleDays \in Nat /\ IsFiniteSet(below) /\ IsFiniteSet(above) /\ below \subseteq Int /\ above \subseteq Int
  <2>1. CycleDays \in Nat /\ IsFiniteSet(1..CycleDays)
    BY Units, FS_Interval
  <2>2. below \subseteq 1..CycleDays /\ above \subseteq 1..CycleDays
    BY DEF IsGrid
  <2> QED
    BY <2>1, <2>2, FS_Subset
<1>2. ka \in 0..(k - 1) /\ (below # {} => ka \in DOMAIN grid)
  <2>1. CASE below = {}
    BY <1>1, <2>1
  <2>2. CASE below # {}
    <3>1. ka \in below
      <4> HIDE DEF below
      <4> QED
        BY <1>1, <2>2, GreatestIs
    <3> QED
      BY <1>1, <2>2, <3>1 DEF IsGrid
  <2> QED
    BY <2>1, <2>2
<1> HIDE DEF ka
<1>3. /\ from(1) \in Int /\ from(1) <= 0 /\ from(2) \in Int /\ 0 <= from(2)
  BY <1>2 DEF IsGrid, IsOffsets
<1>4. CASE above = {}
  BY <1>0, <1>3, <1>4 DEF IsOffsets
<1>5. CASE above # {}
  <2>1. kb \in above
    <3> HIDE DEF above
    <3> QED
      BY <1>1, <1>5, LeastIs
  <2>2. kb \in DOMAIN grid /\ kb \in Int /\ k <= kb /\ kb - ka \in Nat \ {0} /\ k - ka \in Nat /\ k - ka <= kb - ka
    BY <1>1, <1>2, <2>1
  <2> HIDE DEF kb, from
  <2> DEFINE part == Over(k - ka, kb - ka)
  <2>3. part \in 0..Unit
    <3> DEFINE a == k - ka
    <3> DEFINE b == kb - ka
    <3>1. a \in Nat /\ b \in Nat \ {0} /\ a <= b /\ Unit \in Nat \ {0}
      BY <2>2, Units
    <3> HIDE DEF a, b
    <3>2. Unit * a <= Unit * b /\ Unit * a = a * Unit /\ Unit * b = b * Unit /\ a * Unit \in Int /\ b * 0 <= a * Unit
      BY <3>1, Scales
    <3>3. b * Unit \in Int /\ (a * Unit) \div b \in Int
      BY <3>1, <3>2, DivIs
    <3>4. (a * Unit) \div b <= Unit /\ 0 <= (a * Unit) \div b
      BY <3>1, <3>2, <3>3, DivBounds
    <3> QED
      BY <3>1, <3>3, <3>4 DEF Over, a, b
  <2> HIDE DEF part
  <2>4. grid[kb][1] \in Int /\ grid[kb][1] <= 0 /\ grid[kb][2] \in Int /\ 0 <= grid[kb][2]
    BY <2>2 DEF IsGrid, IsOffsets
  <2>5. upto(1) \in Int /\ upto(1) <= 0
    <3>1. PICK a \in Int, b \in Int : a = from(1) /\ b = grid[kb][1]
      BY <1>3, <2>4
    <3>2. a <= 0 /\ b <= 0
      BY <1>3, <2>4, <3>1
    <3>3. PICK x : x = a + Times(part, b - a)
      OBVIOUS
    <3>4. x \in Int /\ (a <= b => a <= x /\ x <= b) /\ (b <= a => b <= x /\ x <= a)
      BY <2>3, <3>3, Toward
    <3>5. x \in Int /\ x <= 0
      BY <3>2, <3>4
    <3> QED
      BY <3>1, <3>3, <3>5 DEF part
  <2>6. upto(2) \in Int /\ 0 <= upto(2)
    <3>1. PICK a \in Int, b \in Int : a = from(2) /\ b = grid[kb][2]
      BY <1>3, <2>4
    <3>2. 0 <= a /\ 0 <= b
      BY <1>3, <2>4, <3>1
    <3>3. PICK x : x = a + Times(part, b - a)
      OBVIOUS
    <3>4. x \in Int /\ (a <= b => a <= x /\ x <= b) /\ (b <= a => b <= x /\ x <= a)
      BY <2>3, <3>3, Toward
    <3>5. x \in Int /\ 0 <= x
      BY <3>2, <3>4
    <3> QED
      BY <3>1, <3>3, <3>5 DEF part
  <2> HIDE DEF upto
  <2> QED
    BY <1>0, <1>5, <2>5, <2>6 DEF IsOffsets
<1> QED
  BY <1>4, <1>5

(***************************************************************************)
(* Cycles and phases.                                                      *)

\* A day lies in no cycle, or in one of the list; the next day in the same or in the next.
LEMMA CycleIs ==
  ASSUME NEW day \in Int
  PROVE  /\ CycleAt(day) \in 0..Len(Halvings) /\ Len(Halvings) \in Nat
         /\ CycleAt(day + 1) - CycleAt(day) \in {0, 1}
<1> DEFINE Until(d) == {i \in 1..Len(Halvings) : Halvings[i] <= d}
<1>1. /\ Len(Halvings) \in Nat
      /\ \A i \in 1..Len(Halvings) : Halvings[i] \in Int
      /\ \A i, j \in 1..Len(Halvings) : i < j => Halvings[i] < Halvings[j]
  BY ProjectionAssumption
<1>2. IsFiniteSet(1..Len(Halvings)) /\ Cardinality(1..Len(Halvings)) = Len(Halvings)
  <2>1. PICK n \in Nat : n = Len(Halvings)
    BY <1>1
  <2>2. IsFiniteSet(1..n) /\ Cardinality(1..n) = IF 1 > n THEN 0 ELSE n - 1 + 1
    BY FS_Interval, 1 \in Int, n \in Int
  <2> QED
    BY <2>1, <2>2
<1>3. \A d \in Int : /\ IsFiniteSet(Until(d)) /\ Cardinality(Until(d)) \in 0..Len(Halvings)
                     /\ CycleAt(d) = Cardinality(Until(d))
  <2> TAKE d \in Int
  <2>1. Until(d) \subseteq 1..Len(Halvings)
    OBVIOUS
  <2>2. CycleAt(d) = Cardinality(Until(d))
    BY DEF CycleAt
  <2> HIDE DEF Until
  <2>3. IsFiniteSet(Until(d)) /\ Cardinality(Until(d)) <= Len(Halvings) /\ Cardinality(Until(d)) \in Nat
    BY <1>2, <2>1, FS_Subset, FS_CardinalityType
  <2> QED
    BY <1>1, <2>2, <2>3
<1>4. Cardinality(Until(day + 1)) - Cardinality(Until(day)) \in {0, 1}
  <2>1. CASE \E i \in 1..Len(Halvings) : Halvings[i] = day + 1
    <3>1. PICK i \in 1..Len(Halvings) : Halvings[i] = day + 1
      BY <2>1
    <3>2. \A j \in 1..Len(Halvings) : j # i => Halvings[j] # day + 1
      BY <1>1, <3>1
    <3>3. \A j \in 1..Len(Halvings) : Halvings[j] <= day + 1 <=> (Halvings[j] <= day \/ j = i)
      BY <1>1, <3>1, <3>2
    <3>4. Until(day + 1) = Until(day) \cup {i} /\ i \notin Until(day)
      BY <3>1, <3>3
    <3> HIDE DEF Until
    <3>5. Cardinality(Until(day + 1)) = Cardinality(Until(day)) + 1
      BY <1>3, <3>4, FS_AddElement
    <3> QED
      BY <1>1, <1>3, <3>5
  <2>2. CASE ~\E i \in 1..Len(Halvings) : Halvings[i] = day + 1
    <3>1. \A j \in 1..Len(Halvings) : Halvings[j] <= day + 1 <=> Halvings[j] <= day
      BY <1>1, <2>2
    <3>2. Until(day + 1) = Until(day)
      BY <3>1
    <3> HIDE DEF Until
    <3>3. Cardinality(Until(day)) \in Int
      BY <1>1, <1>3
    <3> QED
      BY <3>2, <3>3
  <2> QED
    BY <2>1, <2>2
<1> HIDE DEF Until
<1> QED
  BY <1>1, <1>3, <1>4

LEMMA PhaseIs ==
  ASSUME NEW day \in Int, CycleAt(day) # 0
  PROVE  Phase(day) \in Int
<1> DEFINE c == CycleAt(day)
<1> DEFINE length == IF c < Len(Halvings) THEN Halvings[c + 1] - Halvings[c] ELSE AssumedLen
<1>1. c \in 1..Len(Halvings) /\ Len(Halvings) \in Nat
  BY CycleIs
<1> HIDE DEF c
<1>2. Halvings[c] \in Int
  BY <1>1, ProjectionAssumption
<1>3. length \in Nat \ {0}
  <2>1. CASE c < Len(Halvings)
    <3>1. c + 1 \in 1..Len(Halvings)
      BY <1>1, <2>1
    <3>2. Halvings[c] < Halvings[c + 1] /\ Halvings[c + 1] \in Int
      <4>1. /\ \A i \in 1..Len(Halvings) : Halvings[i] \in Int
            /\ \A i, j \in 1..Len(Halvings) : i < j => Halvings[i] < Halvings[j]
        BY ProjectionAssumption
      <4>2. c < c + 1
        BY <1>1
      <4> QED
        BY <1>1, <3>1, <4>1, <4>2
    <3> QED
      BY <1>2, <2>1, <3>2
  <2>2. CASE ~(c < Len(Halvings))
    BY <2>2, Units
  <2> QED
    BY <2>1, <2>2
<1>4. Phase(day) = Least({Over(day - Halvings[c], length), Unit - 1})
  BY DEF Phase, c
<1> HIDE DEF length
<1>5. Over(day - Halvings[c], length) \in Int /\ Unit - 1 \in Int
  BY <1>2, <1>3, OverIs, Units
<1>6. Least({Over(day - Halvings[c], length), Unit - 1}) \in Int
  BY <1>5, OfTwo
<1> QED
  BY <1>4, <1>6

LEMMA BinIs ==
  ASSUME NEW day \in Int, CycleAt(day) # 0
  PROVE  BinOf(day) \in Int
<1>1. Phase(day) * Bins \in Int /\ Bins - 1 \in Int /\ Unit \in Nat \ {0}
  BY PhaseIs, Units
<1>2. (Phase(day) * Bins) \div Unit \in Int
  BY <1>1, DivIs
<1> QED
  BY <1>1, <1>2, OfTwo DEF BinOf

\* A curve that has values, which are numbers.
IsCurve(curve) == /\ IsFiniteSet(DOMAIN curve) /\ DOMAIN curve # {}
                  /\ \A b \in DOMAIN curve : b \in Int /\ curve[b] \in Int

\* What it has at a phase is nothing, or a number not above its peak.
LEMMA InterpIs ==
  ASSUME NEW curve, IsCurve(curve), NEW phase \in Int, NEW top \in Int,
         \A b \in DOMAIN curve : curve[b] <= top
  PROVE  InterpBins(curve, phase) # <<>> =>
           InterpBins(curve, phase)[1] \in Int /\ InterpBins(curve, phase)[1] <= top
<1> DEFINE x == phase * Bins - Unit \div 2
<1> DEFINE lo == Clamp(x \div Unit, 0, Bins - 1)
<1> DEFINE hi == Clamp((x \div Unit) + 1, 0, Bins - 1)
<1> DEFINE there == {lo, hi} \cap DOMAIN curve
<1>1. InterpBins(curve, phase) =
        IF there = {} THEN <<>>
        ELSE IF Cardinality(there) = 1 THEN <<curve[CHOOSE b \in there : TRUE]>>
        ELSE <<curve[lo] + Times(x % Unit, curve[hi] - curve[lo])>>
  BY DEF InterpBins
<1>2. x \in Int /\ Unit \in Nat \ {0}
  BY Units
<1> HIDE DEF x
<1>3. x % Unit \in 0..Unit
  <2>1. x % Unit \in 0..(Unit - 1)
    BY <1>2, DivIs
  <2> QED
    BY <1>2, <2>1
<1> HIDE DEF lo, hi
<1>4. CASE there = {}
  BY <1>1, <1>4
<1>5. CASE there # {} /\ Cardinality(there) = 1
  <2> DEFINE b == CHOOSE b \in there : TRUE
  <2>1. b \in DOMAIN curve
    BY <1>5
  <2> HIDE DEF b
  <2>2. curve[b] \in Int /\ curve[b] <= top
    BY <2>1 DEF IsCurve
  <2> HIDE DEF there
  <2>3. InterpBins(curve, phase) = <<curve[b]>>
    BY <1>1, <1>5 DEF b
  <2> QED
    BY <2>2, <2>3
<1>6. CASE there # {} /\ Cardinality(there) # 1
  <2>1. \A b : Cardinality({b}) = 1
    BY FS_Singleton
  <2>2. there # {lo} /\ there # {hi}
    BY <1>6, <2>1
  <2>3. lo \in DOMAIN curve /\ hi \in DOMAIN curve
    BY <1>6, <2>2
  <2>4. PICK a \in Int, b \in Int : a = curve[lo] /\ b = curve[hi] /\ a <= top /\ b <= top
    BY <2>3 DEF IsCurve
  <2>5. PICK v : v = a + Times(x % Unit, b - a)
    OBVIOUS
  <2>6. v \in Int /\ (a <= b => v <= b) /\ (b <= a => v <= a)
    BY <1>3, <2>5, Toward
  <2>7. v \in Int /\ v <= top
    BY <2>4, <2>6
  <2> HIDE DEF there
  <2>8. InterpBins(curve, phase) = <<v>>
    BY <1>1, <1>6, <2>4, <2>5
  <2> QED
    BY <2>7, <2>8
<1> QED
  BY <1>4, <1>5, <1>6

(***************************************************************************)
(* The fits.                                                               *)

\* A square with a positive weight.
LEMMA Square ==
  ASSUME NEW w \in Nat \ {0}, NEW e \in Int
  PROVE  w * e * e \in Int /\ w * e * e >= 0 /\ (e # 0 => w * e * e > 0)
<1>1. PICK n \in Nat : (n = e \/ n = 0 - e) /\ (e # 0 => n # 0)
  <2>1. CASE e >= 0
    BY <2>1
  <2>2. CASE e < 0
    <3>1. 0 - e \in Nat /\ 0 - e # 0
      BY <2>2
    <3> QED
      BY <3>1
  <2> QED
    BY <2>1, <2>2
<1>2. e * e = n * n
  BY <1>1
<1>3. n * n \in Nat /\ (n # 0 => n * n # 0)
  OBVIOUS
<1>4. w * e * e = w * (n * n)
  <2>1. w * e * e = w * (e * e)
    OBVIOUS
  <2> QED
    BY <1>2, <2>1
<1>5. PICK q \in Nat : q = n * n
  BY <1>3
<1>6. w * q \in Nat /\ (q # 0 => w * q # 0)
  OBVIOUS
<1> QED
  BY <1>1, <1>3, <1>4, <1>5, <1>6

\* The points of a fit: as many numbers x, y and weights as there are points, not none.
ArePoints(x, y, w) ==
  /\ IsFiniteSet(DOMAIN x) /\ DOMAIN x # {} /\ DOMAIN y = DOMAIN x /\ DOMAIN w = DOMAIN x
  /\ \A i \in DOMAIN x : x[i] \in Int /\ y[i] \in Int /\ w[i] \in Nat \ {0}

IsLine(fit) == fit # <<>> /\ fit[1][1] \in Int /\ fit[1][2] \in Int

LEMMA MeanIs ==
  ASSUME NEW v, NEW w, IsFiniteSet(DOMAIN v), DOMAIN v # {}, DOMAIN w = DOMAIN v,
         \A i \in DOMAIN v : v[i] \in Int /\ w[i] \in Nat \ {0}
  PROVE  Mean(v, w) \in Int
<1> DEFINE f == [i \in DOMAIN v |-> v[i] * w[i]]
<1>1. Total(f) \in Int
  <2>1. IsFiniteSet(DOMAIN f) /\ \A i \in DOMAIN f : f[i] \in Int
    OBVIOUS
  <2> HIDE DEF f
  <2> QED
    BY <2>1, TotalIs
<1>2. Total(w) \in Int /\ Total(w) > 0
  <2>1. (\A i \in DOMAIN w : w[i] \in Int /\ w[i] >= 0) /\ \E i \in DOMAIN w : w[i] > 0
    OBVIOUS
  <2> QED
    BY <2>1, TotalIs
<1>3. Mean(v, w) = Total(f) \div Total(w)
  BY DEF Mean
<1> HIDE DEF f
<1>4. Total(w) \in Nat \ {0}
  BY <1>2
<1> QED
  BY <1>1, <1>3, <1>4, DivIs

LEMMA SpreadIs ==
  ASSUME NEW u, NEW v, NEW w, IsFiniteSet(DOMAIN u), NEW mu \in Int, NEW mv \in Int,
         \A i \in DOMAIN u : u[i] \in Int /\ v[i] \in Int /\ w[i] \in Nat \ {0}
  PROVE  Spread(u, v, w, mu, mv) \in Int
<1> DEFINE f == [i \in DOMAIN u |-> w[i] * (u[i] - mu) * (v[i] - mv)]
<1>1. IsFiniteSet(DOMAIN f) /\ \A i \in DOMAIN f : f[i] \in Int
  OBVIOUS
<1>2. Spread(u, v, w, mu, mv) = Total(f)
  BY DEF Spread
<1> HIDE DEF f
<1> QED
  BY <1>1, <1>2, TotalIs

\* A fit is a line, and there is one when the x vary.
LEMMA OlsIs ==
  ASSUME NEW x, NEW y, NEW w, ArePoints(x, y, w)
  PROVE  /\ Ols(x, y, w) # <<>> => IsLine(Ols(x, y, w))
         /\ (\E i, j \in DOMAIN x : x[i] # x[j]) => Ols(x, y, w) # <<>>
<1> DEFINE mx == Mean(x, w)
<1> DEFINE my == Mean(y, w)
<1> DEFINE sxx == Spread(x, x, w, mx, mx)
<1> DEFINE sxy == Spread(x, y, w, mx, my)
<1>1. mx \in Int /\ my \in Int
  BY MeanIs DEF ArePoints
<1> HIDE DEF mx, my
<1>2. sxx \in Int /\ sxy \in Int
  BY <1>1, SpreadIs DEF ArePoints
<1>3. x # <<>>
  BY DEF ArePoints
<1>4. Ols(x, y, w) = IF sxx <= 0 THEN <<>> ELSE << Line(mx, my, Over(sxy, sxx)) >>
  BY <1>3 DEF Ols, LineAbout, mx, my
<1>5. ASSUME NEW i \in DOMAIN x, NEW j \in DOMAIN x, x[i] # x[j] PROVE sxx > 0
  <2> DEFINE f == [k \in DOMAIN x |-> w[k] * (x[k] - mx) * (x[k] - mx)]
  <2>1. sxx = Total(f)
    BY DEF Spread
  <2>2. \A k \in DOMAIN x : f[k] \in Int /\ f[k] >= 0 /\ (x[k] # mx => f[k] > 0)
    <3> TAKE k \in DOMAIN x
    <3>1. w[k] \in Nat \ {0} /\ x[k] - mx \in Int /\ (x[k] # mx => x[k] - mx # 0)
      BY <1>1 DEF ArePoints
    <3> DEFINE e == x[k] - mx
    <3>2. w[k] * e * e \in Int /\ w[k] * e * e >= 0 /\ (e # 0 => w[k] * e * e > 0)
      <4> HIDE DEF e
      <4> QED
        BY <3>1, Square DEF e
    <3> QED
      BY <3>1, <3>2
  <2>3. IsFiniteSet(DOMAIN f) /\ DOMAIN f = DOMAIN x
    BY DEF ArePoints
  <2>4. \E k \in DOMAIN f : f[k] > 0
    BY <1>5, <2>2
  <2> HIDE DEF f, sxx
  <2>5. Total(f) > 0
    BY <2>2, <2>3, <2>4, TotalIs
  <2> QED
    BY <2>1, <2>5
<1> HIDE DEF sxx, sxy
<1>6. ASSUME sxx > 0 PROVE IsLine(Ols(x, y, w))
  <2> DEFINE slope == Over(sxy, sxx)
  <2>1. slope \in Int
    BY <1>2, <1>6, OverIs
  <2> HIDE DEF slope
  <2>2. Times(slope, mx) \in Int
    BY <1>1, <2>1, TimesIsInt
  <2>3. Line(mx, my, slope) = <<my - Times(slope, mx), slope>> /\ my - Times(slope, mx) \in Int
    BY <1>1, <2>2 DEF Line
  <2>4. Ols(x, y, w) = << Line(mx, my, slope) >>
    BY <1>2, <1>4, <1>6 DEF slope
  <2> QED
    BY <2>1, <2>3, <2>4 DEF IsLine
<1>7. Ols(x, y, w) # <<>> => sxx > 0
  BY <1>2, <1>4
<1>8. IsLine(Ols(x, y, w)) => Ols(x, y, w) # <<>>
  BY DEF IsLine
<1> QED
  BY <1>5, <1>6, <1>7, <1>8

(***************************************************************************)
(* The model.                                                              *)

\* Numbers for some days of the history.
IsSeries(s) == DOMAIN s \subseteq FirstDay..LastDay /\ \A d \in DOMAIN s : s[d] \in Int

\* A line and, for the cycles that have one, a curve and its peak.
IsModel(m) ==
  /\ m.a \in Int /\ m.b \in Int
  /\ DOMAIN m.curves \subseteq 1..Len(Halvings) /\ (m.curves # <<>> => DOMAIN m.curves # {})
  /\ DOMAIN m.amps = DOMAIN m.curves /\ (m.amps # <<>> => DOMAIN m.amps # {})
  /\ \A c \in DOMAIN m.curves :
       /\ IsCurve(m.curves[c]) /\ m.amps[c] \in Int
       /\ \A b \in DOMAIN m.curves[c] : m.curves[c][b] <= m.amps[c]

LEMMA DaysAre ==
  /\ IsFiniteSet(FirstDay..LastDay) /\ IsFiniteSet(1..Len(Halvings))
  /\ \A d \in FirstDay..LastDay : d \in FirstDay..(LastDay + CycleDays)
  /\ \A d \in FirstDay..(LastDay + CycleDays) : d \in Int /\ Log(d) \in Int
<1>1. FirstDay \in Int /\ LastDay \in Int /\ CycleDays \in Nat /\ Len(Halvings) \in Int
  BY Units, ProjectionAssumption
<1>2. IsFiniteSet(FirstDay..LastDay) /\ IsFiniteSet(1..Len(Halvings))
  BY <1>1, FS_Interval
<1>3. \A d \in FirstDay..(LastDay + CycleDays) : d \in Int /\ Log(d) \in Int
  BY ProjectionAssumption
<1>4. \A d \in FirstDay..LastDay : d \in FirstDay..(LastDay + CycleDays)
  BY <1>1
<1> QED
  BY <1>2, <1>3, <1>4

LEMMA SpineIs ==
  ASSUME NEW m, m.a \in Int, m.b \in Int, NEW d \in FirstDay..(LastDay + CycleDays)
  PROVE  Spine(m, d) \in Int
<1>1. Log(d) \in Int
  BY DaysAre
<1>2. Times(m.b, Log(d)) \in Int
  BY <1>1, TimesIsInt
<1> QED
  BY <1>2 DEF Spine

\* The curve of a cycle that has days.
LEMMA CurveIs ==
  ASSUME NEW residual, NEW days, IsFiniteSet(days), days # {},
         \A d \in days : d \in Int /\ residual[d] \in Int /\ CycleAt(d) # 0
  PROVE  IsCurve(CurveOf(residual, days))
<1> DEFINE bin == [d \in days |-> BinOf(d)]
<1> DEFINE bins == {bin[d] : d \in days}
<1> DEFINE there(b) == {d \in days : BinOf(d) = b}
<1> DEFINE curve == [b \in bins |-> Total([d \in there(b) |-> residual[d]]) \div Cardinality(there(b))]
<1>1. IsFiniteSet(bins)
  <2> HIDE DEF bin
  <2> QED
    BY ImageFinite
<1>2. bins = {BinOf(d) : d \in days}
  OBVIOUS
<1>3. CurveOf(residual, days) = curve
  BY <1>2 DEF CurveOf
<1>4. bins \subseteq Int /\ bins # {}
  BY <1>2, BinIs
<1>5. ASSUME NEW b \in bins PROVE Total([d \in there(b) |-> residual[d]]) \div Cardinality(there(b)) \in Int
  <2>1. there(b) \subseteq days /\ there(b) # {}
    BY <1>2
  <2>2. IsFiniteSet(there(b))
    <3> HIDE DEF there
    <3> QED
      BY <2>1, FS_Subset
  <2> HIDE DEF there
  <2>3. Cardinality(there(b)) \in Nat /\ Cardinality(there(b)) # 0
    BY <2>1, <2>2, FS_CardinalityType, FS_EmptySet
  <2> DEFINE f == [d \in there(b) |-> residual[d]]
  <2>4. IsFiniteSet(DOMAIN f) /\ \A d \in DOMAIN f : f[d] \in Int
    BY <2>1, <2>2
  <2>5. Total(f) \in Int
    <3> HIDE DEF f
    <3> QED
      BY <2>4, TotalIs
  <2> HIDE DEF f
  <2>6. Total(f) \div Cardinality(there(b)) \in Int
    BY <2>3, <2>5, DivIs
  <2> QED
    BY <2>6 DEF f
<1> HIDE DEF bins, there
<1>6. DOMAIN curve = bins /\ \A b \in bins : curve[b] \in Int
  BY <1>5
<1> HIDE DEF curve
<1> QED
  BY <1>1, <1>3, <1>4, <1>6 DEF IsCurve

\* What is made of a line and a history is a model.
LEMMA OnSpineIs ==
  ASSUME NEW s, IsSeries(s), NEW spine, spine[1] \in Int, spine[2] \in Int
  PROVE  IsModel(OnSpine(s, spine))
<1> DEFINE line == [a |-> spine[1], b |-> spine[2]]
<1> DEFINE days(c) == {d \in DOMAIN s : CycleAt(d) = c}
<1> DEFINE cycles == {c \in 1..Len(Halvings) : Cardinality(days(c)) >= MinCycleObs}
<1> DEFINE residual == [d \in DOMAIN s |-> s[d] - Spine(line, d)]
<1> DEFINE curves == [c \in cycles |-> CurveOf(residual, days(c))]
<1> DEFINE amps == [c \in cycles |-> Greatest({curves[c][b] : b \in DOMAIN curves[c]})]
<1>1. OnSpine(s, spine) = [a |-> spine[1], b |-> spine[2], curves |-> curves, amps |-> amps]
  BY DEF OnSpine, WithCurves
<1>2. line.a \in Int /\ line.b \in Int
  OBVIOUS
<1>3. \A d \in DOMAIN s : residual[d] \in Int /\ d \in Int
  <2> HIDE DEF line
  <2>1. \A d \in DOMAIN s : d \in Int /\ s[d] \in Int /\ Spine(line, d) \in Int
    BY <1>2, SpineIs, DaysAre DEF IsSeries
  <2> QED
    BY <2>1
<1> HIDE DEF residual
<1>4. ASSUME NEW c \in cycles PROVE IsCurve(CurveOf(residual, days(c)))
  <2>1. c # 0 /\ Cardinality(days(c)) >= MinCycleObs
    OBVIOUS
  <2>2. days(c) \subseteq FirstDay..LastDay /\ \A d \in days(c) : d \in DOMAIN s /\ CycleAt(d) = c
    BY DEF IsSeries
  <2> HIDE DEF days, cycles
  <2>3. IsFiniteSet(days(c))
    BY <2>2, DaysAre, FS_Subset
  <2>4. days(c) # {}
    BY <2>1, Units, FS_EmptySet
  <2> QED
    BY <1>3, <2>1, <2>2, <2>3, <2>4, CurveIs
<1> HIDE DEF days
<1>5. \A c \in cycles : curves[c] = CurveOf(residual, days(c))
  OBVIOUS
<1>6. cycles \subseteq 1..Len(Halvings) /\ DOMAIN curves = cycles /\ DOMAIN amps = cycles
  OBVIOUS
<1>7. (curves # <<>> => cycles # {}) /\ (amps # <<>> => cycles # {})
  <2> SUFFICES ASSUME cycles = {} PROVE curves = <<>> /\ amps = <<>>
    OBVIOUS
  <2> QED
    OBVIOUS
<1> HIDE DEF cycles
<1>8. ASSUME NEW c \in cycles
      PROVE  /\ IsCurve(curves[c]) /\ amps[c] \in Int
             /\ \A b \in DOMAIN curves[c] : curves[c][b] <= amps[c]
  <2> DEFINE C == curves[c]
  <2> DEFINE V == {C[b] : b \in DOMAIN C}
  <2>1. IsCurve(C)
    BY <1>4, <1>5
  <2>2. amps[c] = Greatest(V)
    OBVIOUS
  <2> HIDE DEF curves, amps, C
  <2>3. IsFiniteSet(V)
    BY <2>1, ImageFinite DEF IsCurve
  <2>4. V \subseteq Int /\ V # {} /\ \A b \in DOMAIN C : C[b] \in V
    BY <2>1 DEF IsCurve
  <2> HIDE DEF V
  <2>5. Greatest(V) \in V /\ \A v \in V : Greatest(V) >= v
    BY <2>3, <2>4, GreatestIs
  <2>6. amps[c] \in Int /\ \A b \in DOMAIN C : C[b] <= amps[c]
    BY <2>2, <2>4, <2>5
  <2> QED
    BY <2>1, <2>6 DEF C
<1> HIDE DEF curves, amps
<1> DEFINE m == OnSpine(s, spine)
<1>9. m.a = spine[1] /\ m.b = spine[2] /\ m.curves = curves /\ m.amps = amps
  BY <1>1
<1> HIDE DEF m
<1>10. IsModel(m)
  BY <1>6, <1>7, <1>8, <1>9 DEF IsModel
<1> QED
  BY <1>10 DEF m

LEMMA FitIs ==
  ASSUME NEW s, IsSeries(s), DOMAIN s # {}, FitModel(s) # <<>>
  PROVE  IsModel(FitModel(s)[1])
<1> DEFINE points == DOMAIN s \cup AnchorsBefore(s)
<1> DEFINE x == [d \in points |-> Log(d)]
<1> DEFINE y == [d \in points |-> IF d \in DOMAIN s THEN s[d] ELSE AnchorLog(d)]
<1> DEFINE w == [d \in points |-> IF d \in DOMAIN s THEN 1 ELSE AnchorWeight]
<1>1. AnchorsBefore(s) \subseteq AnchorDays
  BY DEF AnchorsBefore
<1>2. IsFiniteSet(points) /\ points # {}
  <2>1. IsFiniteSet(DOMAIN s)
    BY DaysAre, FS_Subset DEF IsSeries
  <2>2. IsFiniteSet(AnchorsBefore(s))
    BY <1>1, ProjectionAssumption, FS_Subset
  <2> QED
    BY <2>1, <2>2, FS_Union
<1>3. \A d \in points : x[d] \in Int /\ y[d] \in Int /\ w[d] \in Nat \ {0}
  <2> TAKE d \in points
  <2>1. d \in DOMAIN s => Log(d) \in Int /\ s[d] \in Int
    BY DaysAre DEF IsSeries
  <2>2. d \notin DOMAIN s => Log(d) \in Int /\ AnchorLog(d) \in Int
    BY <1>1, ProjectionAssumption
  <2> HIDE DEF points
  <2> QED
    BY <2>1, <2>2, Units
<1>4. DOMAIN x = points /\ DOMAIN y = points /\ DOMAIN w = points
  OBVIOUS
<1>5. SpineOf(s, points) = Ols(x, y, w)
  BY DEF SpineOf
<1> HIDE DEF points, x, y, w
<1>6. ArePoints(x, y, w)
  BY <1>2, <1>3, <1>4 DEF ArePoints
<1> DEFINE fit == SpineOf(s, points)
<1>7. fit # <<>> => fit[1][1] \in Int /\ fit[1][2] \in Int
  BY <1>5, <1>6, OlsIs DEF IsLine
<1>8. FitModel(s) = IF fit = <<>> THEN <<>> ELSE << OnSpine(s, fit[1]) >>
  BY DEF FitModel, FitOn, points
<1> HIDE DEF fit
<1> QED
  BY <1>7, <1>8, OnSpineIs

(***************************************************************************)
(* The cycle component.                                                    *)

\* The amplitude that a cycle is expected to have: with two past ones, at least the floor; with
\* one, that one.
LEMMA TargetIs ==
  ASSUME NEW m, IsModel(m), DOMAIN m.curves # {}, NEW cycle \in Int
  PROVE  /\ AmpTarget(m, cycle) \in Int
         /\ \A c \in DOMAIN m.amps : AmpFloor <= AmpTarget(m, cycle) \/ AmpTarget(m, cycle) = m.amps[c]
<1> DEFINE D == DOMAIN m.amps
<1> DEFINE x == [c \in D |-> c * Unit]
<1> DEFINE w == [c \in D |-> 1]
<1> DEFINE fit == Ols(x, m.amps, w)
<1>1. D \subseteq 1..Len(Halvings) /\ D # {} /\ Len(Halvings) \in Nat /\ Unit \in Nat \ {0} /\ AmpFloor \in Nat
  BY Units, ProjectionAssumption DEF IsModel
<1>2. IsFiniteSet(D) /\ D \subseteq Int
  BY <1>1, DaysAre, FS_Subset
<1>3. \A c \in D : m.amps[c] \in Int
  BY DEF IsModel
<1>4. ArePoints(x, m.amps, w)
  <2>1. \A c \in D : c * Unit \in Int
    BY <1>1, <1>2
  <2> QED
    BY <1>1, <1>2, <1>3, <2>1 DEF ArePoints
<1>5. AmpTarget(m, cycle) =
        IF Cardinality(D) >= 2 /\ fit # <<>>
        THEN Greatest({fit[1][1] + fit[1][2] * cycle, AmpFloor})
        ELSE m.amps[Greatest(D)]
  BY DEF AmpTarget, AmpOn
<1>6. fit # <<>> => fit[1][1] \in Int /\ fit[1][2] \in Int
  <2> HIDE DEF x, w
  <2> QED
    BY <1>4, OlsIs DEF IsLine
<1>7. ASSUME NEW c \in D, NEW e \in D, c # e PROVE fit # <<>>
  <2>1. x[c] # x[e]
    <3>1. c \in Int /\ e \in Int
      BY <1>2
    <3>2. c * Unit # e * Unit
      <4>1. c * Unit = Unit * c /\ e * Unit = Unit * e
        BY <1>1, <3>1
      <4>2. CASE c < e
        <5>1. Unit * (c + 1) <= Unit * e /\ Unit * (c + 1) = Unit * c + Unit
          BY <1>1, <3>1, <4>2, Scales
        <5> QED
          BY <1>1, <3>1, <4>1, <5>1
      <4>3. CASE e < c
        <5>1. Unit * (e + 1) <= Unit * c /\ Unit * (e + 1) = Unit * e + Unit
          BY <1>1, <3>1, <4>3, Scales
        <5> QED
          BY <1>1, <3>1, <4>1, <5>1
      <4> QED
        BY <1>7, <3>1, <4>2, <4>3
    <3> QED
      BY <3>2
  <2>2. c \in DOMAIN x /\ e \in DOMAIN x
    OBVIOUS
  <2> HIDE DEF x, w
  <2> QED
    BY <1>4, <2>1, <2>2, OlsIs
<1> HIDE DEF fit
<1>8. CASE Cardinality(D) >= 2 /\ fit # <<>>
  <2>1. PICK a \in Int : a = fit[1][1] + fit[1][2] * cycle
    BY <1>6, <1>8
  <2>2. AmpTarget(m, cycle) = Greatest({a, AmpFloor})
    BY <1>5, <1>8, <2>1
  <2>3. AmpTarget(m, cycle) = IF a <= AmpFloor THEN AmpFloor ELSE a
    <3>1. AmpFloor \in Int
      BY <1>1
    <3>2. Greatest({a, AmpFloor}) = IF a <= AmpFloor THEN AmpFloor ELSE a
      BY <3>1, OfTwo
    <3> QED
      BY <2>2, <3>2
  <2> QED
    BY <1>1, <2>3
<1>9. CASE ~(Cardinality(D) >= 2 /\ fit # <<>>)
  <2> DEFINE last == Greatest(D)
  <2>1. last \in D
    <3> HIDE DEF D
    <3> QED
      BY <1>1, <1>2, GreatestIs
  <2>2. AmpTarget(m, cycle) = m.amps[last]
    BY <1>5, <1>9
  <2>3. \A c \in D : c = last
    <3> SUFFICES ASSUME NEW c \in D, c # last PROVE FALSE
      OBVIOUS
    <3>1. fit # <<>>
      BY <1>7, <2>1
    <3>2. Cardinality({c, last}) = 2 /\ {c, last} \subseteq D
      <4>1. IsFiniteSet({c}) /\ Cardinality({c}) = 1 /\ {c, last} = {c} \cup {last}
        BY FS_Singleton
      <4>2. Cardinality({c} \cup {last}) = Cardinality({c}) + 1
        BY <3>1, <4>1, FS_AddElement
      <4> HIDE DEF last, D
      <4> QED
        BY <2>1, <4>1, <4>2
    <3> DEFINE two == {c, last}
    <3>3. Cardinality(two) <= Cardinality(D) /\ Cardinality(D) \in Nat
      <4> HIDE DEF two, D
      <4> QED
        BY <1>2, <3>2, FS_Subset, FS_CardinalityType DEF two
    <3> QED
      BY <1>9, <3>1, <3>2, <3>3
  <2> HIDE DEF last
  <2> QED
    BY <1>3, <2>1, <2>2, <2>3
<1> QED
  BY <1>8, <1>9

\* A past cycle's value, scaled, is at most the target or the floor.
LEMMA TermIs ==
  ASSUME NEW m, NEW c, NEW target \in Int, NEW v \in Int, m.amps[c] \in Int, v <= m.amps[c],
         AmpFloor <= target \/ target = m.amps[c], NEW top \in Int, target <= top, AmpFloor <= top
  PROVE  Times(Scale(m, c, target), v) \in Int /\ Times(Scale(m, c, target), v) <= top
<1>0. PICK amp \in Int : amp = m.amps[c]
  OBVIOUS
<1>1. Unit \in Nat \ {0} /\ AmpFloor \in Nat \ {0}
  BY Units
<1>2. CASE amp > AmpFloor
  <2>1. amp \in Nat \ {0} /\ target \in Nat
    BY <1>0, <1>1, <1>2
  <2>2. PICK p \in Nat : p = target * Unit
    BY <1>1, <2>1
  <2>3. PICK sc : sc = p \div amp
    OBVIOUS
  <2>4. Scale(m, c, target) = sc
    BY <1>0, <1>2, <2>2, <2>3 DEF Scale, Over
  <2>5. sc \in Int /\ amp * sc <= p /\ amp * sc \in Int
    <3>1. p \div amp \in Int /\ amp * (p \div amp) <= p /\ amp * (p \div amp) \in Int
      <4>1. \A a \in Int : a \div amp \in Int /\ amp * (a \div amp) <= a /\ amp * (a \div amp) \in Int
        BY <2>1, DivIs
      <4> QED
        BY <4>1
    <3> QED
      BY <2>3, <3>1
  <2>6. 0 <= sc
    <3>1. amp * 0 <= p
      BY <2>1, <2>2
    <3> QED
      BY <2>1, <2>2, <2>3, <3>1, DivBounds
  <2>7. Times(sc, v) <= Times(sc, amp)
    <3>1. v <= amp /\ sc \in Nat
      BY <1>0, <2>5, <2>6
    <3> QED
      BY <3>1, TimesKeeps
  <2>8. Times(sc, amp) <= target
    <3>1. PICK q \in Int : q = sc * amp
      BY <2>5
    <3>2. q = amp * sc /\ p = Unit * target
      BY <1>1, <2>1, <2>2, <2>5, <3>1
    <3>3. q <= Unit * target
      BY <2>5, <3>2
    <3>4. q \div Unit <= target
      BY <1>1, <3>3, DivBounds
    <3> QED
      BY <3>1, <3>4 DEF Times
  <2>9. Times(sc, v) \in Int /\ Times(sc, amp) \in Int
    BY <2>5, TimesIsInt
  <2> QED
    BY <2>4, <2>7, <2>8, <2>9
<1>3. CASE ~(amp > AmpFloor)
  <2>1. Scale(m, c, target) = Unit
    BY <1>0, <1>3 DEF Scale
  <2>2. PICK p \in Int : p = Unit * v
    BY <1>1
  <2>3. p \div Unit <= v /\ p \div Unit \in Int
    BY <1>1, <2>2, DivIs, DivBounds
  <2>4. Times(Unit, v) \in Int /\ Times(Unit, v) <= v
    BY <2>2, <2>3 DEF Times
  <2> QED
    BY <1>0, <1>1, <1>3, <2>1, <2>4
<1> QED
  BY <1>2, <1>3

\* The mean of n terms, shrunk, is at most a bound of theirs, shrunk.
LEMMA MeanOfTerms ==
  ASSUME NEW total \in Int, NEW n \in Nat \ {0}, NEW top \in Int, total <= n * top
  PROVE  Times(Shrink, total) \div n \in Int /\ Times(Shrink, total) \div n <= Times(Shrink, top)
<1>1. Unit \in Nat \ {0} /\ Shrink \in Nat
  BY Units
<1>2. PICK s \in Int : s = Shrink * top
  BY <1>1
<1>3. PICK a \in Int : a = Shrink * total
  BY <1>1
<1>4. PICK x \in Int : x = Times(Shrink, total) /\ Unit * x <= a /\ Unit * x \in Int
  <2>1. a \div Unit \in Int /\ Unit * (a \div Unit) <= a /\ Unit * (a \div Unit) \in Int
    BY <1>1, DivIs
  <2> QED
    BY <1>3, <2>1 DEF Times
<1>5. PICK q \in Int : q = x \div n /\ n * q <= x /\ n * q \in Int
  BY DivIs
<1>6. a <= n * s
  <2>1. PICK b \in Int : b = n * top
    OBVIOUS
  <2>2. Shrink * total <= Shrink * b
    BY <1>1, <2>1, Scales
  <2>3. Shrink * b = n * s
    <3>1. Shrink * (n * top) = n * (Shrink * top)
      BY <1>1
    <3> QED
      BY <1>2, <2>1, <3>1
  <2> QED
    BY <1>3, <2>2, <2>3
<1>7. PICK u \in Int : u = Unit * q
  BY <1>1
<1>8. n * u <= n * s
  <2>1. PICK z \in Int : z = n * q
    BY <1>5
  <2>2. Unit * z <= Unit * x
    BY <1>1, <1>5, <2>1, Scales
  <2>3. Unit * z = n * u
    <3>1. Unit * (n * q) = n * (Unit * q)
      BY <1>1
    <3> QED
      BY <1>7, <2>1, <3>1
  <2>4. n * s \in Int /\ n * u \in Int
    OBVIOUS
  <2> QED
    BY <1>4, <1>6, <2>2, <2>3, <2>4
<1>9. u <= s
  <2> SUFFICES ASSUME s < u PROVE FALSE
    OBVIOUS
  <2>1. n * (s + 1) <= n * u /\ n * (s + 1) = n * s + n
    BY Scales
  <2>2. n * s \in Int /\ n * u \in Int
    OBVIOUS
  <2> QED
    BY <1>8, <2>1, <2>2
<1>10. q <= s \div Unit
  BY <1>1, <1>7, <1>9, DivBounds
<1> QED
  BY <1>2, <1>4, <1>5, <1>10 DEF Times

\* The component of a day is a number, and no higher than the amplitude of its cycle.
LEMMA ComponentIs ==
  ASSUME NEW m, IsModel(m), NEW day \in Int
  PROVE  /\ CycleComponent(m, day) \in Int
         /\ m.amps # <<>> =>
              CycleComponent(m, day)
                <= Times(Shrink, Greatest({AmpTarget(m, PointCycle(day)), AmpFloor})) + Rounding
<1> DEFINE cycle == CycleAt(day)
<1> DEFINE found == [c \in DOMAIN m.curves |-> InterpBins(m.curves[c], Phase(day))]
<1> DEFINE top(c) == Greatest({AmpTarget(m, c), AmpFloor})
<1>1. cycle \in Nat /\ AmpFloor \in Nat \ {0} /\ Shrink \in Nat /\ Unit \in Nat \ {0}
  BY CycleIs, Units
<1>2. PointCycle(day) \in Int /\ (cycle # 0 => PointCycle(day) = cycle)
  <2> HIDE DEF cycle
  <2>1. Greatest({cycle, 1}) = IF cycle <= 1 THEN 1 ELSE cycle
    <3>1. cycle \in Int /\ 1 \in Int
      BY <1>1
    <3> QED
      BY <3>1, OfTwo
  <2> QED
    BY <1>1, <2>1 DEF PointCycle, cycle
<1> HIDE DEF cycle
<1>3. ASSUME DOMAIN m.curves # {}, NEW c \in Int
      PROVE  top(c) \in Int /\ AmpTarget(m, c) \in Int /\ AmpTarget(m, c) <= top(c) /\ AmpFloor <= top(c)
  <2>1. PICK a \in Int : a = AmpTarget(m, c)
    BY <1>3, TargetIs
  <2>2. Greatest({a, AmpFloor}) = IF a <= AmpFloor THEN AmpFloor ELSE a
    BY <1>1, OfTwo
  <2>3. top(c) = IF a <= AmpFloor THEN AmpFloor ELSE a
    BY <2>1, <2>2
  <2> HIDE DEF top
  <2> QED
    BY <1>1, <2>1, <2>3
<1>4. CASE cycle = 0 \/ m.curves = <<>>
  <2>1. CycleComponent(m, day) = 0
    BY <1>4 DEF CycleComponent, cycle
  <2>2. ASSUME m.amps # <<>> PROVE Times(Shrink, top(PointCycle(day))) \in Int /\ 0 <= Times(Shrink, top(PointCycle(day)))
    <3>1. top(PointCycle(day)) \in Int /\ AmpFloor <= top(PointCycle(day))
      BY <1>2, <1>3, <2>2 DEF IsModel
    <3> HIDE DEF top
    <3>2. PICK t \in Nat : t = top(PointCycle(day))
      BY <1>1, <3>1
    <3>3. Shrink \in 0..Unit
      BY Units
    <3> QED
      BY <3>2, <3>3, PartOf
  <2> HIDE DEF top
  <2>3. Rounding = 6
    BY DEF Rounding
  <2> QED
    BY <2>1, <2>2, <2>3 DEF top
<1>5. CASE cycle # 0 /\ m.curves # <<>>
  <2> DEFINE target == AmpTarget(m, cycle)
  <2> DEFINE with == {c \in DOMAIN found : found[c] # <<>>}
  <2> DEFINE f == [c \in with |-> Times(Scale(m, c, target), found[c][1])]
  <2> DEFINE T == top(cycle)
  <2>1. CycleComponent(m, day) = IF with = {} THEN 0 ELSE Times(Shrink, Total(f)) \div Cardinality(with)
    BY <1>5 DEF CycleComponent, ComponentOf, cycle
  <2>2. DOMAIN m.curves # {} /\ DOMAIN m.curves \subseteq 1..Len(Halvings)
    BY <1>5 DEF IsModel
  <2>3. T \in Int /\ target \in Int /\ target <= T /\ AmpFloor <= T
    BY <1>1, <1>3, <2>2
  <2>4. \A c \in DOMAIN m.curves : AmpFloor <= target \/ target = m.amps[c]
    BY <1>1, <2>2, TargetIs DEF IsModel
  <2> HIDE DEF T, target
  <2>5. ASSUME NEW c \in with PROVE f[c] \in Int /\ f[c] <= T
    <3>1. c \in DOMAIN m.curves /\ InterpBins(m.curves[c], Phase(day)) # <<>>
      OBVIOUS
    <3>2. /\ IsCurve(m.curves[c]) /\ m.amps[c] \in Int
          /\ \A b \in DOMAIN m.curves[c] : m.curves[c][b] <= m.amps[c]
      BY <3>1 DEF IsModel
    <3>3. Phase(day) \in Int
      BY <1>5, PhaseIs DEF cycle
    <3>4. PICK v \in Int : v = InterpBins(m.curves[c], Phase(day))[1] /\ v <= m.amps[c]
      BY <3>1, <3>2, <3>3, InterpIs
    <3>5. f[c] = Times(Scale(m, c, target), v)
      BY <3>1, <3>4
    <3>6. Times(Scale(m, c, target), v) \in Int /\ Times(Scale(m, c, target), v) <= T
      BY <2>3, <2>4, <3>1, <3>2, <3>4, TermIs
    <3> HIDE DEF f
    <3> QED
      BY <3>5, <3>6
  <2>6. IsFiniteSet(with)
    <3>1. with \subseteq 1..Len(Halvings)
      BY <2>2
    <3> HIDE DEF with
    <3> QED
      BY <3>1, DaysAre, FS_Subset
  <2>7. DOMAIN f = with
    OBVIOUS
  <2> HIDE DEF f, with
  <2>8. Cardinality(with) \in Nat /\ (with # {} => Cardinality(with) # 0)
    BY <2>6, FS_CardinalityType, FS_EmptySet
  <2>9. Total(f) \in Int /\ Total(f) <= Cardinality(with) * T
    BY <2>3, <2>5, <2>6, <2>7, TotalIs
  <2>10. Times(Shrink, T) \in Int /\ 0 <= Times(Shrink, T)
    <3>1. T >= 0 /\ Shrink \in 0..Unit
      BY <1>1, <2>3, Units
    <3> QED
      BY <2>3, <3>1, PartOf
  <2>11. CycleComponent(m, day) \in Int /\ CycleComponent(m, day) <= Times(Shrink, T)
    <3>1. CASE with = {}
      BY <2>1, <2>10, <3>1
    <3>2. CASE with # {}
      <4>1. PICK n \in Nat \ {0} : n = Cardinality(with)
        BY <2>8, <3>2
      <4>2. PICK x \in Int : x = Total(f) /\ x <= n * T
        BY <2>9, <4>1
      <4>3. Times(Shrink, x) \div n \in Int /\ Times(Shrink, x) \div n <= Times(Shrink, T)
        BY <2>3, <4>2, MeanOfTerms
      <4> QED
        BY <2>1, <3>2, <4>1, <4>2, <4>3
    <3> QED
      BY <3>1, <3>2
  <2>12. T = top(PointCycle(day))
    BY <1>2, <1>5 DEF T
  <2>13. Rounding = 6
    BY DEF Rounding
  <2> HIDE DEF top
  <2> QED
    BY <2>10, <2>11, <2>12, <2>13 DEF top
<1> QED
  BY <1>4, <1>5

(***************************************************************************)
(* The bands and the join.                                                 *)

\* The powers of rho are numbers, the first is rho.
LEMMA RhoIs ==
  /\ \A k \in 0..CycleDays : RhoTo[k] \in Int
  /\ RhoTo[1] = Rho
<1> DEFINE D == 0..CycleDays
<1>0. CycleDays \in Nat \ {0} /\ Rho \in Int /\ Unit \in Nat \ {0}
  BY Units
<1>1. RhoTo = [k \in D |-> IF k = 0 THEN Unit ELSE Times(RhoTo[k - 1], Rho)]
  <2> DEFINE rank == [k \in D |-> k]
  <2> DEFINE p == [k \in D |-> IF k = 0 THEN 0 ELSE k - 1]
  <2> DEFINE F == [k \in D |-> [v \in Int |-> Times(v, Rho)]]
  <2> DEFINE B == {0}
  <2>1. CycleDays \in Nat /\ Unit \in Int /\ rank \in [D -> 0..CycleDays] /\ p \in [D -> D]
    BY <1>0
  <2>2. F \in [D -> [Int -> Int]]
    BY <1>0, TimesIsInt
  <2>3. \A k \in D : k \notin B => rank[p[k]] < rank[k]
    BY <1>0
  <2>4. Recurs(D, CycleDays, rank, p, B, F, Unit)
    <3> HIDE DEF D, rank, p, B, F
    <3> QED
      BY <2>1, <2>2, <2>3 DEF Recurs
  <2>5. PICK g \in [D -> Int] : \A k \in D : g[k] = IF k \in B THEN Unit ELSE F[k][g[p[k]]]
    <3> HIDE DEF D, rank, p, B, F
    <3> QED
      BY <2>4, RecursionIs
  <2>6. \A k \in D : g[k] = IF k = 0 THEN Unit ELSE Times(g[k - 1], Rho)
    <3> TAKE k \in D
    <3>1. CASE k = 0
      BY <2>5, <3>1
    <3>2. CASE k # 0
      <4>1. k - 1 \in D /\ p[k] = k - 1 /\ g[k - 1] \in Int
        BY <1>0, <3>2
      <4>2. F[k][g[k - 1]] = Times(g[k - 1], Rho)
        BY <4>1
      <4> HIDE DEF F, p
      <4> QED
        BY <2>5, <3>2, <4>1, <4>2
    <3> QED
      BY <3>1, <3>2
  <2>7. g = [k \in D |-> IF k = 0 THEN Unit ELSE Times(g[k - 1], Rho)]
    BY <2>6
  <2> HIDE DEF D
  <2> QED
    BY <2>7 DEF RhoTo, D
<1>2. RhoTo[0] = Unit /\ \A k \in 0..CycleDays : k # 0 => RhoTo[k] = Times(RhoTo[k - 1], Rho)
  BY <1>0, <1>1
<1>3. \A k \in 0..CycleDays : RhoTo[k] \in Int
  <2> DEFINE Bad == {k \in 0..CycleDays : RhoTo[k] \notin Int}
  <2> SUFFICES ASSUME Bad # {} PROVE FALSE
    OBVIOUS
  <2>1. PICK k \in Bad : \A j \in Bad : k <= j
    <3>1. Bad \subseteq Nat
      BY <1>0
    <3> HIDE DEF Bad
    <3> QED
      BY <3>1, NatOrder
  <2>2. k # 0 /\ k \in 0..CycleDays
    BY <1>0, <1>2
  <2>3. k - 1 \in 0..CycleDays /\ k - 1 \notin Bad
    BY <1>0, <2>1, <2>2
  <2>4. RhoTo[k - 1] \in Int
    BY <2>3
  <2>5. Times(RhoTo[k - 1], Rho) \in Int
    BY <1>0, <2>4, TimesIsInt
  <2> QED
    BY <1>2, <2>1, <2>2, <2>5
<1>4. RhoTo[1] = Rho
  <2>1. RhoTo[1] = Times(Unit, Rho)
    <3>1. 1 \in 0..CycleDays /\ 1 - 1 = 0
      BY <1>0
    <3> QED
      BY <1>2, <3>1
  <2>2. PICK p \in Int : p = Unit * Rho
    BY <1>0
  <2>3. p \div Unit \in Int /\ p \div Unit <= Rho /\ Rho <= p \div Unit
    BY <1>0, <2>2, DivIs, DivBounds
  <2>4. p \div Unit = Rho
    BY <1>0, <2>3
  <2> QED
    BY <2>1, <2>2, <2>4 DEF Times
<1> QED
  BY <1>3, <1>4

LEMMA GridIs ==
  ASSUME NEW r, NEW c, IsFiniteSet(DOMAIN r),
         \A d \in DOMAIN r : d \in Int /\ r[d] \in Int /\ c[d] \in Int
  PROVE  IsGrid(GridOn(r, c))
<1> DEFINE pairs(k) == {d \in DOMAIN r : d + k \in DOMAIN r}
<1> DEFINE missed(k, d) == r[d + k] - (c[d + k] + Times(r[d] - c[d], RhoTo[k]))
<1> DEFINE errors(k) == {<<d, missed(k, d)>> : d \in pairs(k)}
<1> DEFINE changes(k) == {<<d, r[d + k] - r[d]>> : d \in pairs(k)}
<1> DEFINE G == GridOn(r, c)
<1>1. G = [k \in {h \in Horizons : Cardinality(pairs(h)) >= MinSamples} |->
            Offsets(Ascending(errors(k)), Ascending(changes(k)))]
  BY DEF GridOn
<1>2. DOMAIN G = {h \in Horizons : Cardinality(pairs(h)) >= MinSamples}
  BY <1>1
<1>3. ASSUME NEW k \in 1..CycleDays, Cardinality(pairs(k)) >= MinSamples
      PROVE  IsSamples(errors(k)) /\ IsSamples(changes(k))
  <2>1. pairs(k) \subseteq DOMAIN r /\ \A d \in pairs(k) : d \in DOMAIN r /\ d + k \in DOMAIN r
    OBVIOUS
  <2> DEFINE err == [d \in pairs(k) |-> <<d, missed(k, d)>>]
  <2> DEFINE chg == [d \in pairs(k) |-> <<d, r[d + k] - r[d]>>]
  <2>2. errors(k) = {err[d] : d \in pairs(k)} /\ changes(k) = {chg[d] : d \in pairs(k)}
    OBVIOUS
  <2>3. RhoTo[k] \in Int
    <3>1. k \in 0..CycleDays
      BY Units
    <3> QED
      BY <3>1, RhoIs
  <2> HIDE DEF pairs
  <2>4. ASSUME NEW d \in pairs(k) PROVE missed(k, d) \in Int /\ r[d + k] - r[d] \in Int
    <3>1. r[d] \in Int /\ c[d] \in Int /\ r[d + k] \in Int /\ c[d + k] \in Int
      BY <2>1
    <3>2. r[d] - c[d] \in Int
      BY <3>1
    <3>3. Times(r[d] - c[d], RhoTo[k]) \in Int
      BY <2>3, <3>2, TimesIsInt
    <3> QED
      BY <3>1, <3>3
  <2> HIDE DEF missed
  <2>5. IsFiniteSet(pairs(k)) /\ pairs(k) # {}
    <3>1. IsFiniteSet(pairs(k))
      BY <2>1, FS_Subset
    <3>2. Cardinality(pairs(k)) # 0
      BY <1>3, Units
    <3> QED
      BY <3>1, <3>2, FS_EmptySet
  <2>6. (\A s \in errors(k) : s[2] \in Int) /\ (\A s \in changes(k) : s[2] \in Int)
    BY <2>4
  <2>7. errors(k) # {} /\ changes(k) # {}
    BY <2>5
  <2>8. IsFiniteSet({err[d] : d \in pairs(k)}) /\ IsFiniteSet({chg[d] : d \in pairs(k)})
    <3> HIDE DEF err, chg
    <3> QED
      BY <2>5, ImageFinite
  <2> HIDE DEF errors, changes, err, chg
  <2> QED
    BY <2>2, <2>6, <2>7, <2>8 DEF IsSamples
<1>4. ASSUME NEW k \in DOMAIN G PROVE k \in 1..CycleDays /\ IsOffsets(G[k])
  <2>1. k \in 1..CycleDays /\ Cardinality(pairs(k)) >= MinSamples
    BY <1>2 DEF Horizons
  <2>2. G[k] = Offsets(Ascending(errors(k)), Ascending(changes(k)))
    BY <1>1, <1>2
  <2> HIDE DEF pairs, missed, errors, changes, G
  <2>3. IsSamples(errors(k)) /\ IsSamples(changes(k))
    BY <1>3, <2>1
  <2>4. Ascends(Ascending(errors(k))) /\ Ascends(Ascending(changes(k)))
    BY <2>3, AscendingIs
  <2> QED
    BY <2>1, <2>2, <2>4, OffsetsAre
<1> HIDE DEF G
<1>5. IsGrid(G)
  BY <1>4 DEF IsGrid
<1> QED
  BY <1>5 DEF G

\* What a day leaves of a gap differs from it by the part that the day closes.
LEMMA GapCloses ==
  ASSUME NEW g \in Int
  PROVE  /\ Times(g, Rho) \in Int /\ Abs(g) \in Int /\ Times(Unit - Rho, Abs(g)) \in Int
         /\ Times(g, Rho) - g <= Times(Unit - Rho, Abs(g)) + 1
         /\ 0 - (Times(Unit - Rho, Abs(g)) + 1) <= Times(g, Rho) - g
<1>1. Unit \in Nat \ {0} /\ Rho \in Nat /\ Unit - Rho \in Nat
  BY Units
<1>2. PICK a \in Nat : a = Abs(g) /\ g <= a /\ 0 - a <= g
  BY DEF Abs
<1>3. PICK n \in Nat : n = Unit - Rho
  BY <1>1
<1>4. PICK q \in Int : q = g * Rho
  BY <1>1
<1>5. PICK e \in Int : e = n * g
  BY <1>3
<1>6. PICK f \in Int : f = n * a
  BY <1>2, <1>3
<1>7. q = Unit * g - e /\ Unit * g \in Int
  <2>1. g * Rho = Unit * g - (Unit - Rho) * g
    BY <1>1
  <2> QED
    BY <1>1, <1>3, <1>4, <1>5, <2>1
<1>8. e <= f /\ 0 - f <= e
  <2>1. n * g <= n * a
    BY <1>2, <1>3, Scales
  <2>2. n * (0 - a) <= n * g /\ n * (0 - a) = 0 - n * a
    BY <1>2, <1>3, Scales
  <2> QED
    BY <1>5, <1>6, <2>1, <2>2
<1>9. PICK x \in Int : x = Times(g, Rho) /\ Unit * x <= q /\ q < Unit * x + Unit /\ Unit * x \in Int
  <2>1. q \div Unit \in Int /\ Unit * (q \div Unit) <= q /\ q < Unit * (q \div Unit) + Unit /\ Unit * (q \div Unit) \in Int
    BY <1>1, DivIs
  <2>2. Times(g, Rho) = q \div Unit
    BY <1>4 DEF Times
  <2> QED
    BY <2>1, <2>2
<1>10. PICK y \in Int : y = Times(Unit - Rho, Abs(g)) /\ Unit * y <= f /\ f < Unit * y + Unit /\ Unit * y \in Int
  <2>1. f \div Unit \in Int /\ Unit * (f \div Unit) <= f /\ f < Unit * (f \div Unit) + Unit /\ Unit * (f \div Unit) \in Int
    BY <1>1, DivIs
  <2>2. Times(Unit - Rho, Abs(g)) = f \div Unit
    BY <1>2, <1>3, <1>6 DEF Times
  <2> QED
    BY <2>1, <2>2
<1>11. x - g < y + 1
  <2>1. Unit * (x - g) = Unit * x - Unit * g /\ Unit * (y + 1) = Unit * y + Unit
    BY <1>1
  <2>2. Unit * (x - g) < Unit * (y + 1)
    BY <1>1, <1>7, <1>8, <1>9, <1>10, <2>1
  <2>3. x - g \in Int /\ y + 1 \in Int
    OBVIOUS
  <2> QED
    BY <1>1, <2>2, <2>3, ScalesBack
<1>12. 0 - (y + 2) < x - g
  <2>1. Unit * (x - g) = Unit * x - Unit * g /\ Unit * (0 - (y + 2)) = 0 - (Unit * y + Unit + Unit)
    BY <1>1
  <2>2. Unit * (0 - (y + 2)) < Unit * (x - g)
    BY <1>1, <1>7, <1>8, <1>9, <1>10, <2>1
  <2>3. x - g \in Int /\ 0 - (y + 2) \in Int
    OBVIOUS
  <2> QED
    BY <1>1, <2>2, <2>3, ScalesBack
<1> QED
  BY <1>2, <1>9, <1>10, <1>11, <1>12

\* The sizes of three differences and of their sum.
LEMMA Sizes ==
  ASSUME NEW a \in Int, NEW b \in Int, NEW x \in Int, NEW y \in Int, x <= y + 1, 0 - (y + 1) <= x
  PROVE  Abs(a + b + x) <= Abs(a) + Abs(b) + y + Rounding
BY DEF Abs, Rounding

(***************************************************************************)
(* The path.                                                               *)

\* A history: days with a close, and of those that are not zero its logarithm.
IsHistory(s) ==
  /\ DOMAIN s \subseteq FirstDay..LastDay /\ (s # <<>> => DOMAIN s # {})
  /\ \A d \in DOMAIN s : s[d] \in Levels \cup {ZeroClose}

\* A history with a model ends with a close that is not zero.
LEMMA FittedIs ==
  ASSUME NEW s, IsHistory(s), Fitted(s) # <<>>
  PROVE  /\ IsModel(Fitted(s)[1]) /\ IsSeries(FitInput(s))
         /\ Newest(s) \in DOMAIN s /\ Newest(s) \in FirstDay..LastDay /\ s[Newest(s)] \in Int
<1>1. DeepHistory(s) /\ s[Newest(s)] # ZeroClose /\ Fitted(s) = FitModel(FitInput(s))
  BY DEF Fitted
<1>2. IsFiniteSet(DOMAIN s) /\ DOMAIN s # {} /\ DOMAIN s \subseteq Int
  <2>1. DOMAIN s # {} /\ DOMAIN s \subseteq FirstDay..LastDay
    BY <1>1 DEF DeepHistory, IsHistory
  <2> QED
    BY <2>1, DaysAre, FS_Subset
<1>3. Newest(s) \in DOMAIN s
  BY <1>2, GreatestIs DEF Newest
<1>4. Levels \subseteq Int
  BY ProjectionAssumption
<1>5. s[Newest(s)] \in Int
  BY <1>1, <1>3, <1>4 DEF IsHistory
<1> DEFINE D == {e \in DOMAIN s : s[e] # ZeroClose}
<1>6. FitInput(s) = [d \in D |-> s[d]]
  BY DEF FitInput
<1>7. D # {} /\ D \subseteq FirstDay..LastDay /\ \A d \in D : s[d] \in Int
  BY <1>1, <1>3, <1>4 DEF IsHistory
<1> HIDE DEF D
<1>8. IsSeries(FitInput(s)) /\ DOMAIN FitInput(s) # {}
  BY <1>6, <1>7 DEF IsSeries
<1>9. IsModel(Fitted(s)[1])
  BY <1>1, <1>8, FitIs
<1> QED
  BY <1>3, <1>5, <1>8, <1>9 DEF IsHistory

LEMMA BandsAre ==
  ASSUME NEW m, IsModel(m), NEW s, IsSeries(s)
  PROVE  IsGrid(BandGrid(m, s))
<1> DEFINE r == [d \in DOMAIN s |-> s[d] - Spine(m, d)]
<1> DEFINE c == [d \in DOMAIN s |-> CycleComponent(m, d)]
<1>1. IsFiniteSet(DOMAIN s)
  BY DaysAre, FS_Subset DEF IsSeries
<1>2. \A d \in DOMAIN s : d \in Int /\ s[d] \in Int /\ Spine(m, d) \in Int
  BY DaysAre, SpineIs DEF IsSeries, IsModel
<1>3. \A d \in DOMAIN s : CycleComponent(m, d) \in Int
  BY <1>2, ComponentIs
<1>4. DOMAIN r = DOMAIN s /\ \A d \in DOMAIN s : r[d] \in Int /\ c[d] \in Int
  BY <1>2, <1>3
<1>5. BandGrid(m, s) = GridOn(r, c)
  BY DEF BandGrid
<1> HIDE DEF r, c
<1> QED
  BY <1>1, <1>2, <1>4, <1>5, GridIs

\* The projection of a history that has a model.
LEMMA ProjectionIs ==
  ASSUME NEW s, IsHistory(s), Fitted(s) # <<>>, NEW m, m = Fitted(s)[1], NEW p, p = ProjectComposite(m, s)
  PROVE  /\ DOMAIN p = 1..CycleDays
         /\ \A k \in 1..CycleDays :
              /\ p[k].day = Newest(s) + k /\ p[k].day \in Int /\ p[k].cycle = PointCycle(Newest(s) + k)
              /\ p[k].p10 <= p[k].p50 /\ p[k].p50 <= p[k].p90
              /\ p[k].p50 = Spine(m, Newest(s) + k) + CycleComponent(m, Newest(s) + k) + Times(Gap(m, s), RhoTo[k])
<1>1. IsModel(m) /\ IsSeries(FitInput(s)) /\ Newest(s) \in FirstDay..LastDay /\ s[Newest(s)] \in Int
  BY FittedIs
<1>2. PICK t \in Int : t = Newest(s)
  BY <1>1
<1>3. FirstDay \in Int /\ LastDay \in Int /\ CycleDays \in Nat \ {0}
  BY Units
<1>4. \A k \in 0..CycleDays : t + k \in FirstDay..(LastDay + CycleDays) /\ t + k \in Int
  BY <1>1, <1>2, <1>3
<1>5. \A k \in 0..CycleDays : Spine(m, t + k) \in Int /\ CycleComponent(m, t + k) \in Int
  BY <1>1, <1>4, SpineIs, ComponentIs DEF IsModel
<1>6. Gap(m, s) \in Int
  <2>1. 0 \in 0..CycleDays /\ t + 0 = t
    BY <1>3
  <2>2. Spine(m, t) \in Int /\ CycleComponent(m, t) \in Int
    BY <1>5, <2>1
  <2> QED
    BY <1>1, <1>2, <2>2 DEF Gap
<1> DEFINE gap == Gap(m, s)
<1> DEFINE center == CenterOf(m, s, gap)
<1> DEFINE off == OffsetsOn(BandGrid(m, FitInput(s)))
<1>7. \A k \in 1..CycleDays : center[k] = Spine(m, t + k) + CycleComponent(m, t + k) + Times(gap, RhoTo[k])
  BY <1>2 DEF CenterOf, DayAhead
<1>8. \A k \in 1..CycleDays : IsOffsets(off[k])
  <2>1. IsGrid(BandGrid(m, FitInput(s)))
    BY <1>1, BandsAre
  <2>2. \A k \in 1..CycleDays : off[k] = OffsetsAt(BandGrid(m, FitInput(s)), k)
    BY DEF OffsetsOn
  <2> HIDE DEF off
  <2> QED
    BY <2>1, <2>2, OffsetsAtAre
<1>9. p = PointsOn(s, center, off)
  BY DEF ProjectComposite
<1> HIDE DEF gap, center, off
<1>10. /\ DOMAIN p = 1..CycleDays
       /\ \A k \in 1..CycleDays :
            /\ p[k].day = DayAhead(s, k) /\ p[k].cycle = PointCycle(DayAhead(s, k))
            /\ p[k].p10 = center[k] + off[k][1] /\ p[k].p50 = center[k] /\ p[k].p90 = center[k] + off[k][2]
  BY <1>9 DEF PointsOn
<1>11. ASSUME NEW k \in 1..CycleDays
       PROVE  /\ p[k].day = Newest(s) + k /\ p[k].day \in Int /\ p[k].cycle = PointCycle(Newest(s) + k)
              /\ p[k].p10 <= p[k].p50 /\ p[k].p50 <= p[k].p90
              /\ p[k].p50 = Spine(m, Newest(s) + k) + CycleComponent(m, Newest(s) + k) + Times(Gap(m, s), RhoTo[k])
  <2>1. k \in 0..CycleDays
    BY <1>3
  <2>2. Times(gap, RhoTo[k]) \in Int
    BY <1>6, <2>1, RhoIs, TimesIsInt DEF gap
  <2>3. center[k] \in Int
    BY <1>5, <1>7, <2>1, <2>2
  <2>4. off[k][1] \in Int /\ off[k][1] <= 0 /\ off[k][2] \in Int /\ 0 <= off[k][2]
    BY <1>8 DEF IsOffsets
  <2>5. p[k].p10 <= p[k].p50 /\ p[k].p50 <= p[k].p90
    BY <1>10, <2>3, <2>4
  <2>6. DayAhead(s, k) = Newest(s) + k
    BY DEF DayAhead
  <2> QED
    BY <1>2, <1>4, <1>7, <1>10, <2>1, <2>5, <2>6 DEF gap
<1> QED
  BY <1>10, <1>11

\* The days of a projected path follow each other, and so do its cycles.
LEMMA PointCycleSteps ==
  ASSUME NEW day \in Int
  PROVE  PointCycle(day + 1) - PointCycle(day) \in {0, 1}
<1>1. PICK c \in Nat : c = CycleAt(day)
  BY CycleIs
<1>2. PICK e \in Nat : e = CycleAt(day + 1)
  <2>1. day + 1 \in Int
    OBVIOUS
  <2> QED
    BY <2>1, CycleIs
<1>3. e - c \in {0, 1}
  BY <1>1, <1>2, CycleIs
<1>4. Greatest({c, 1}) = IF c <= 1 THEN 1 ELSE c
  BY OfTwo, 1 \in Int, c \in Int
<1>5. Greatest({e, 1}) = IF e <= 1 THEN 1 ELSE e
  BY OfTwo, 1 \in Int, e \in Int
<1>6. PointCycle(day) = (IF c <= 1 THEN 1 ELSE c) /\ PointCycle(day + 1) = (IF e <= 1 THEN 1 ELSE e)
  BY <1>1, <1>2, <1>4, <1>5 DEF PointCycle
<1> QED
  BY <1>3, <1>6

\* What is projected is the projection of the history by the model fitted to it.
PathInv ==
  /\ today \in Int /\ FirstDay - 1 <= today /\ DOMAIN daily \subseteq FirstDay..today /\ IsHistory(daily)
  /\ path # <<>> => model = Fitted(daily) /\ model # <<>> /\ path = ProjectComposite(model[1], daily)

LEMMA PathBegins ==
  ASSUME ProjInit
  PROVE  PathInv
<1>1. DOMAIN daily = {} /\ FirstDay - 1 \in Int
  BY Units DEF ProjInit
<1> QED
  BY <1>1 DEF ProjInit, PathInv, IsHistory

LEMMA PathKept ==
  ASSUME PathInv, [ProjNext]_projVars
  PROVE  PathInv'
<1>1. FirstDay \in Int /\ LastDay \in Int
  BY Units
<1>2. ASSUME NEW s, IsHistory(s), daily' = s, Recompute(s)
      PROVE  path' # <<>> => model' = Fitted(daily') /\ model' # <<>> /\ path' = ProjectComposite(model'[1], daily')
  BY <1>2 DEF Recompute
<1>3. CASE \E close \in Levels \cup {ZeroClose} : DayWithClose(close)
  <2>1. PICK close \in Levels \cup {ZeroClose} : DayWithClose(close)
    BY <1>3
  <2>2. /\ today < LastDay /\ today' = today + 1 /\ Recompute(daily')
        /\ daily' = [d \in DOMAIN daily \cup {today'} |-> IF d = today' THEN close ELSE daily[d]]
    BY <2>1 DEF DayWithClose
  <2>3. today \in Int /\ FirstDay - 1 <= today /\ DOMAIN daily \subseteq FirstDay..today
    BY DEF PathInv
  <2>4. DOMAIN daily' = DOMAIN daily \cup {today'}
    BY <2>2
  <2>5. /\ today' \in Int /\ FirstDay - 1 <= today' /\ DOMAIN daily' \subseteq FirstDay..today'
        /\ DOMAIN daily' \subseteq FirstDay..LastDay /\ DOMAIN daily' # {}
    BY <1>1, <2>2, <2>3, <2>4
  <2>6. \A d \in DOMAIN daily' : daily'[d] \in Levels \cup {ZeroClose}
    BY <2>2, <2>4 DEF PathInv, IsHistory
  <2>7. IsHistory(daily')
    BY <2>5, <2>6 DEF IsHistory
  <2> QED
    BY <1>2, <2>2, <2>5, <2>7 DEF PathInv
<1>4. CASE DayWithout
  <2>1. today' = today + 1 /\ daily' = daily /\ Recompute(daily)
    BY <1>4 DEF DayWithout
  <2>2. today' \in Int /\ FirstDay - 1 <= today' /\ DOMAIN daily' \subseteq FirstDay..today' /\ IsHistory(daily')
    BY <1>1, <2>1 DEF PathInv
  <2> QED
    BY <1>2, <2>1, <2>2 DEF PathInv
<1>5. CASE AnotherHistory
  <2>1. daily' = <<>> /\ today' = FirstDay - 1 /\ path' = <<>> /\ DOMAIN daily' = {}
    BY <1>5 DEF AnotherHistory
  <2> QED
    BY <1>1, <2>1 DEF PathInv, IsHistory
<1>6. CASE UNCHANGED projVars
  BY <1>6 DEF projVars, PathInv, IsHistory
<1> QED
  BY <1>3, <1>4, <1>5, <1>6 DEF ProjNext

\* The path of a history with a model is what project_composite promises.
LEMMA PathFollows ==
  ASSUME PathInv
  PROVE  PathIsSound
<1>1. DOMAIN daily \subseteq FirstDay..today
  BY DEF PathInv
<1>2. CASE path = <<>>
  <2>1. DOMAIN path = {}
    BY <1>2
  <2> QED
    BY <1>1, <1>2, <2>1 DEF PathIsSound, PathTypeOK, BandsOrdered, JoinIsContinuous, PeaksAreDamped
<1>3. CASE path # <<>>
  <2> DEFINE m == model[1]
  <2> DEFINE t == Newest(daily)
  <2>1. IsHistory(daily) /\ Fitted(daily) # <<>> /\ m = Fitted(daily)[1] /\ path = ProjectComposite(m, daily)
    BY <1>3 DEF PathInv
  <2>2. CycleDays \in Nat \ {0} /\ 1 \in 1..CycleDays
    BY Units
  <2>3. IsModel(m) /\ t \in FirstDay..LastDay /\ t \in Int /\ daily[t] \in Int
    <3>1. IsModel(m) /\ t \in FirstDay..LastDay /\ daily[t] \in Int
      BY <2>1, FittedIs
    <3> QED
      BY <3>1, DaysAre
  <2> HIDE DEF m
  <2>4. /\ DOMAIN path = 1..CycleDays
        /\ \A k \in 1..CycleDays :
             /\ path[k].day = t + k /\ path[k].day \in Int /\ path[k].cycle = PointCycle(t + k)
             /\ path[k].p10 <= path[k].p50 /\ path[k].p50 <= path[k].p90
             /\ path[k].p50 = Spine(m, t + k) + CycleComponent(m, t + k) + Times(Gap(m, daily), RhoTo[k])
    BY <2>1, ProjectionIs
  <2> HIDE DEF t
  <2>5. PathTypeOK
    <3>1. ASSUME NEW k \in 2..CycleDays
          PROVE  path[k].day = path[k - 1].day + 1 /\ path[k].cycle - path[k - 1].cycle \in {0, 1}
      <4>1. k \in 1..CycleDays /\ k - 1 \in 1..CycleDays
        BY <2>2
      <4>2. PICK d \in Int : d = t + (k - 1)
        BY <2>3
      <4>3. t + k = d + 1
        BY <2>3, <4>2
      <4>4. path[k].day = d + 1 /\ path[k - 1].day = d
        BY <2>4, <4>1, <4>2, <4>3
      <4>5. path[k].cycle = PointCycle(d + 1) /\ path[k - 1].cycle = PointCycle(d)
        BY <2>4, <4>1, <4>2, <4>3
      <4> QED
        BY <4>4, <4>5, PointCycleSteps
    <3>2. path[1].day = Newest(daily) + 1
      BY <2>2, <2>4 DEF t
    <3> QED
      BY <1>1, <2>4, <3>1, <3>2 DEF PathTypeOK
  <2>6. BandsOrdered
    BY <2>4 DEF BandsOrdered
  <2>7. JoinIsContinuous
    <3>1. PICK g : g = Gap(m, daily)
      OBVIOUS
    <3>2. /\ t \in FirstDay..(LastDay + CycleDays) /\ t + 1 \in FirstDay..(LastDay + CycleDays) /\ t + 1 \in Int
      BY <2>2, <2>3, Units
    <3>3. PICK s0 \in Int, s1 \in Int : s0 = Spine(m, t) /\ s1 = Spine(m, t + 1)
      BY <2>3, <3>2, SpineIs DEF IsModel
    <3>4. PICK c0 \in Int, c1 \in Int : c0 = CycleComponent(m, t) /\ c1 = CycleComponent(m, t + 1)
      BY <2>3, <3>2, ComponentIs
    <3>5. g = daily[t] - s0 - c0 /\ g \in Int
      BY <2>3, <3>1, <3>3, <3>4 DEF Gap, t
    <3>6. PICK u \in Int, v \in Int :
            /\ u = Times(g, Rho) /\ v = Times(Unit - Rho, Abs(g))
            /\ u - g <= v + 1 /\ 0 - (v + 1) <= u - g
      BY <3>5, GapCloses
    <3>7. path[1].p50 = s1 + c1 + u
      BY <2>2, <2>4, <3>1, <3>3, <3>4, <3>6, RhoIs
    <3>8. path[1].p50 - daily[t] = (s1 - s0) + (c1 - c0) + (u - g)
      BY <2>3, <3>5, <3>7
    <3>9. Abs((s1 - s0) + (c1 - c0) + (u - g)) <= Abs(s1 - s0) + Abs(c1 - c0) + v + Rounding
      <4>1. PICK a \in Int, b \in Int, x \in Int : a = s1 - s0 /\ b = c1 - c0 /\ x = u - g
        BY <3>5
      <4>2. Abs(a + b + x) <= Abs(a) + Abs(b) + v + Rounding
        BY <3>6, <4>1, Sizes
      <4> QED
        BY <4>1, <4>2
    <3>10. Abs(path[1].p50 - daily[t]) <=
             Abs(Spine(m, t + 1) - Spine(m, t)) + Abs(CycleComponent(m, t + 1) - CycleComponent(m, t))
               + Times(Unit - Rho, Abs(Gap(m, daily))) + Rounding
      BY <3>1, <3>3, <3>4, <3>6, <3>8, <3>9
    <3> QED
      BY <3>10 DEF JoinIsContinuous, m, t
  <2>8. PeaksAreDamped
    <3>1. ASSUME m.amps # <<>>, NEW k \in 1..CycleDays
          PROVE  CycleComponent(m, path[k].day)
                   <= Times(Shrink, Greatest({AmpTarget(m, path[k].cycle), AmpFloor})) + Rounding
      BY <2>3, <2>4, <3>1, ComponentIs
    <3> QED
      BY <2>4, <3>1 DEF PeaksAreDamped, m
  <2> QED
    BY <2>5, <2>6, <2>7, <2>8 DEF PathIsSound
<1> QED
  BY <1>2, <1>3

\* What project_composite promises, for any history: a path covers the days of a cycle from
\* the one after the last close, its bands contain the median, its first step is at most that
\* of the model and the part of the gap one day closes, and no peak is above its damped target.
THEOREM PathHolds == ProjSpec => []PathIsSound
<1>1. ProjInit => PathInv
  BY PathBegins
<1>2. PathInv /\ [ProjNext]_projVars => PathInv'
  BY PathKept
<1>3. PathInv => PathIsSound
  BY PathFollows
<1> QED
  BY <1>1, <1>2, <1>3, PTL DEF ProjSpec
=============================================================================
