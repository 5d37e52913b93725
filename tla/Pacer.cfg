\* Three calls on two replicas; the month ends after three ticks, one fault.
SPECIFICATION FairSpec
CONSTANTS
  c1 = c1
  c2 = c2
  c3 = c3
  a = a
  b = b
  Callers = {c1, c2, c3}
  Replicas = {a, b}
  Home <- MCHome
  MinGap = 1
  Gap = 2
  CooldownLen <- MCCooldownLen
  CreditLimit = 2
  Window = 3
  MaxFaults = 1
INVARIANTS GatesHold BacklogBounded
PROPERTIES CooldownNeverShortened EveryCallReturns
