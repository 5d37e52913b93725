\* Two replicas, one retiring; two served coins and one nobody serves, batches of two.
SPECIFICATION FairSpec
CONSTANTS
  r1 = r1
  r2 = r2
  a = a
  b = b
  x = x
  Replicas = {r1, r2}
  Retiring = {r1}
  Coins = {a, b, x}
  Served = {a, b}
  NoCoin = NoCoin
  Interval = 1
  ClaimTtl = 1
  Widened = 2
  BatchLimit = 2
  StaleAfter = 1
  MaxUpsets = 1
INVARIANTS SoleUnlessLapsed
PROPERTIES EveryCoinIsTended
