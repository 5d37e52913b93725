\* Two replicas; a severe condition read by a query and a sustained one of the replica.
\* Two writers and two providers; a window that a crash loop at its slowest fits in.
SPECIFICATION EitherSpec
CONSTANTS
  r1 = r1
  r2 = r2
  row = row
  chain = chain
  fatal = fatal
  p1 = p1
  p2 = p2
  w1 = w1
  w2 = w2
  Replicas = {r1, r2}
  Conditions = {row, chain, fatal}
  Queried = {row}
  Sustained = {chain}
  Severe = {row, fatal}
  Fatal = fatal
  Interval = 2
  Sustain = 2
  MaxUpsets = 1
  Names = {p1, p2}
  Writers = {w1, w2}
  FirstBackoff = 1
  MaxBackoff = 3
  HealthyRun = 6
  CrashWindow = 30
  CrashCount = 3
  FailWindow = 3
  FailCount = 2
  StallTime = 4
  BeatEvery = 2
  StreakCount = 3
  MaxRetries = 1
  MaxFails = 3
  MaxLostBeats = 1
INVARIANTS AlarmsStand ConditionsTell
PROPERTIES AlarmsFollow
