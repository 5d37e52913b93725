\* One worker is enough, and one upset: the pacer refuses between the two slots.
SPECIFICATION ChainSpec
CONSTANTS
  w1 = w1
  w2 = w2
  p1 = p1
  p2 = p2
  Workers = {w1}
  Chain <- ChainOfTwo
  Kinds <- KindsOfFour
  Supports <- ServedByBoth
  Ohlc = "ohlc"
  OhlcRange = "range"
  Threshold = 1
  MaxUpsets = 1
INVARIANT BackpressureIsFree
