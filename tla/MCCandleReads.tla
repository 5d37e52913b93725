--------------------------- MODULE MCCandleReads ---------------------------
\* Small instances of CandleReads for TLC: the finest series has up to Holes holes, the
\* coarser one begins anywhere.  In behaviours of its own, the client reads Listings.
EXTENDS CandleReads, Listings

CONSTANTS Holes, none, usd, eur

VARIABLE side   \* "candles" or "listings": what the client reads

NoListing ==
  /\ instant = Horizon /\ table = [k \in Kinds |-> {}]
  /\ ask = [kind |-> "coins", cur |-> AnyCurrency, start |-> Unset, end |-> Unset]
  /\ at = "exists" /\ mark = Horizon + 1 /\ items = {} /\ over = FALSE /\ owed = {} /\ adds = 0
NoCandles ==
  /\ ReadsInit /\ now = LastSlot /\ window = CHOOSE w \in Windows : TRUE
  /\ series = CHOOSE h \in Histories : TRUE

EitherInit ==
  \/ side = "candles" /\ ReadsInit /\ NoListing
  \/ side = "listings" /\ NoCandles /\ ListInit
EitherVars == <<side, readsVars, listVars>>
EitherNext ==
  \/ side = "candles" /\ ReadsNext /\ UNCHANGED <<side, listVars>>
  \/ side = "listings" /\ ListNext /\ UNCHANGED <<side, readsVars>>
EitherSpec == EitherInit /\ [][EitherNext]_EitherVars /\ WF_readsVars(Serve)

Fine == 1
Coarse == 2
Times == 0..(LastSlot - 1)

MCSources == {Fine, Coarse}
MCHistories ==
  {[s \in MCSources |-> IF s = Fine THEN Times \ H ELSE {t \in Times : t % 2 = 0 /\ t >= a}] :
     H \in UNION {kSubset(k, Times) : k \in 0..Holes}, a \in {0, 6, LastSlot}}
MCWindows ==
  {[start |-> none, end |-> none], [start |-> 4, end |-> none], [start |-> none, end |-> 9]}

\* Bounds of the listings that clients ask for.
Params == {Unset, 1, 3}

\* Both walks are walks over keys that fall: nothing comes twice, and that of the candles
\* ends (REQ-API-070, REQ-API-214, REQ-API-406).
WalksDescendToEnd == RefinesWalk /\ WalkEnds /\ ListRefinesWalk
=============================================================================
