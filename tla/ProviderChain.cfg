\* Two workers of one replica on a chain of two, two upsets.
SPECIFICATION FairChainSpec
CONSTANTS
  w1 = w1
  w2 = w2
  p1 = p1
  p2 = p2
  Workers = {w1, w2}
  Chain <- ChainOfTwo
  Kinds <- KindsOfFour
  Supports <- ServedByBoth
  Ohlc = "ohlc"
  OhlcRange = "range"
  Threshold = 1
  MaxUpsets = 2
INVARIANTS AnswersAreEarned ChargedForCause
PROPERTIES RegistryRecovers
