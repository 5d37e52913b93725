\* Two replicas walk one coin's chunk over either chain; one fault, one soft skip, one
\* empty answer of a provider that has the data.
\* The walk: five chains, five depths, pages of three; a walk stops at its end.
SPECIFICATION EitherSpec
CONSTANTS
  r1 = r1
  r2 = r2
  a = a
  Replicas = {r1, r2}
  Coins = {a}
  End = 6
  Skip = 2
  Chains <- AllSound
  MaxAttempts = 2
  MaxFaults = 1
  MaxSkips = 1
  MaxHiccups = 1
  NoReplica = NoReplica
  NoCoin = NoCoin
  NoCursor = NoCursor
  NoPage = NoPage
  Orders <- MCChains
  Depths <- MCDepths
  Limit = 3
  SkipCandles = 3
  HourlySpan = 7200
  DailySpan = 172800
  Deep <- MCDeep
  Startup <- MCStartup
  Intervals <- MCIntervals
  Months <- MCMonths
  MaxAside = 1
INVARIANTS ChunksAreSound CursorSound HistoryIsWhole
PROPERTIES ChunksMoveOn EveryWalkEnds
CHECK_DEADLOCK FALSE
