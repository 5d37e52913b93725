\* Two clients that register one coin, two workers, one socket on a channel of one payload.  When
\* both give up, or the bounds are reached, nothing is left to do.
\* Of the requests: two callers, one statement that fails.
\* Of the answers: two calls at once or one after the other, of up to two rows.
SPECIFICATION EitherSpec
CONSTANTS
  q1 = q1
  q2 = q2
  w1 = w1
  w2 = w2
  s1 = s1
  none = none
  Clients = {q1, q2}
  Workers = {w1, w2}
  Values = {1, 2}
  Sockets = {s1}
  Capacity = 1
  MaxRevisions = 2
  MaxInserts = 3
  MaxCommits = 3
  MaxDrops = 1
  lane1 = lane1
  lane2 = lane2
  Lanes = {lane1, lane2}
  LastInstant = 2
  MaxRows = 2
  ResultCap = 1
  Venue = Venue
  OtherVenue = OtherVenue
  MaxCalls = 2
  Callers = {q1, q2}
  Requests <- MCRequests
  NoCoin = NoCoin
  NoRequest = NoRequest
  NoBody = NoBody
  MaxFaults = 1
INVARIANTS StoreIsSound StreamIsSound
PROPERTIES SocketsCatchUp RefinesObject AnswersTell
CHECK_DEADLOCK FALSE
