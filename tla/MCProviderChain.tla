-------------------------- MODULE MCProviderChain --------------------------
\* Chains of two for TLC; each is the first one for some kind, nobody serves "market".
EXTENDS ProviderChain

CONSTANTS w1, w2, p1, p2

ChainOfTwo  == <<p1, p2>>
KindsOfFour == {"spot", "market", "ohlc", "range"}

ServedByBoth ==
  [k \in KindsOfFour |-> CASE k = "market" -> {} [] k = "ohlc" -> {p2} [] OTHER -> {p1, p2}]
=============================================================================
