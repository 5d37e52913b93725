\* Three buckets of two slots, chunks of two buckets; the clock starts in the second.
\* One backfill behind history, one late candle, one provider row, one fault.
\* Projection: a week of closes at two levels, of zero on its first and last day, with or
\* without gaps, a cycle of five days and two digits to a Decimal.
SPECIFICATION EitherSpec
CONSTANTS
  N = 2
  Week = 1
  ChunkWeeks = 2
  Last = 3
  Begin = 3
  MaxBlocks = 1
  MaxLate = 1
  MaxNative = 1
  MaxFaults = 1
  Unit = 100
  Log <- LogOf
  Levels = {0, 130}
  ZeroDays = {2, 8}
  FirstDay = 2
  LastDay = 8
  Halvings <- Dates
  CycleDays = 5
  AssumedLen = 4
  Bins = 3
  MinCycleObs = 2
  MinSamples = 2
  AmpFloor = 5
  Shrink = 75
  Rho = 80
  GridStep = 2
  AnchorDays = {1}
  AnchorLog <- AnchorOf
  AnchorWeight = 2
  ZeroClose = ZeroClose
INVARIANTS ParityWhenSettled PathIsSound
PROPERTIES NativeWins
