\* Two clients and one room, with fairness.
CONSTANTS
  c1 = c1
  c2 = c2
  r1 = r1
  Clients = {c1, c2}
  Rooms = {r1}
  None = None
  MaxAsks = 4
  MaxMail = 2
  MaxSaid = 2
  MaxMoves = 1
SPECIFICATION MCSpec
INVARIANTS TypeOK NothingMissed UnknownHasCause
PROPERTIES FeedSpec HeardOrLost
CHECK_DEADLOCK FALSE
