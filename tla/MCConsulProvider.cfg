\* Two services that may change their address, a channel of one event, and a second start, with fairness.
CONSTANTS
  n1 = n1
  n2 = n2
  Nodes = {n1, n2}
  a1 = a1
  a2 = a2
  Addrs = {a1, a2}
  ChanCap = 1
  MaxHist = 3
  MaxStarts = 2
SPECIFICATION MCSpec
INVARIANTS TypeOK MembersAnnounced CrashNeedsOverlap
PROPERTIES ObserverSpec ShowsTheLast
CHECK_DEADLOCK FALSE
