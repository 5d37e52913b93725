\* Two workers, one client that reads the replay; two upserts, one of them a zero close; one
\* fault.
SPECIFICATION OverlayFairSpec
CONSTANTS
  w1 = w1
  w2 = w2
  c1 = c1
  Workers = {w1, w2}
  Clients = {c1}
  Histories <- SomeHistories
  Upserts <- SomeUpserts
  Halvings <- Dates
  NextHalving = 5
  CycleDays = 2
  DaySecs = 2
  Path <- FlatPath
  Limit = 1
  Asked = {"replay"}
  Cuts = {5}
  Permits = 1
  MaxFaults = 1
  Nobody = Nobody
  NoCut = NoCut
  NoKey = NoKey
INVARIANTS PointsFit NothingPassedOver
PROPERTIES Progress
