\* Three buckets of four slots, two finer series, one write in the course of a walk.
\* Listings of two currencies over five instants, pages of two rows, one write.
SPECIFICATION EitherSpec
CONSTANTS
  none = none
  Unbounded = none
  LastSlot = 12
  Target = 4
  Sources <- MCSources
  Limit = 1
  MaxSourceRows = 6
  Windows <- MCWindows
  Histories <- MCHistories
  Holes = 2
  MaxWrites = 1
  Unset = Unset
  usd = usd
  eur = eur
  Horizon = 4
  Currencies = {usd, eur}
  AnyCurrency = AnyCurrency
  Span = 2
  Day = 1
  PageLimit = 2
  Starts <- Params
  Ends <- Params
  MaxAdds = 1
INVARIANTS PagesAreWhole ListingsAreWhole
PROPERTIES WalksDescendToEnd
CHECK_DEADLOCK FALSE
