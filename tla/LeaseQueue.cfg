\* Two replicas, one of them retired by a rollout; two insertions, one fault, one soft skip.
SPECIFICATION FairSpec
CONSTANTS
  r1 = r1
  r2 = r2
  k1 = k1
  Replicas = {r1, r2}
  Keys = {k1}
  Throttled = {}
  Retiring = {r2}
  MaxAttempts = 2
  MaxRows = 2
  MaxFaults = 1
  MaxSkips = 1
  NoReplica = NoReplica
  NoRow = NoRow
  NoKey = NoKey
INVARIANTS RowsAreSound DrainedLeavesNothing
PROPERTIES RowsAreOwned RefinesLedger EveryRowSettles
