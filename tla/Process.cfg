\* A worker, a relay and a probe; the longest backoff is the drain, as by default.
\* Of the settings: environments that set what meets, and intervals of up to two parts.
SPECIFICATION EitherSpec
CONSTANTS
  worker = worker
  relay = relay
  p1 = p1
  Tasks = {worker, relay}
  Joined = {worker}
  Probes = {p1}
  Grace = 1
  Drain = 3
  Initial = 1
  MaxBackoff = 3
  Healthy = 2
  CacheTtl = 2
  MaxCrashes = 3
  MaxOutages = 1
  Absent = Absent
  Junk = Junk
  NULL = NULL
  Environments <- MCEnvironments
  Amounts = {0, 1, 61, 90}
  MaxParts = 2
INVARIANTS ProbesTellTruth ShutdownInOrder
PROPERTIES ShutdownEnds SettingsAgree
CHECK_DEADLOCK FALSE
