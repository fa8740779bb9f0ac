\* Two prefixes followed through three indexes of Consul, with fairness.
CONSTANTS
  k1 = k1
  k2 = k2
  k3 = k3
  w1 = w1
  w2 = w2
  Keys = {k1, k2, k3}
  Watchers = {w1, w2}
  Under <- TwoPrefixes
  Default = {w1, w2}
  MaxIndex = 3
SPECIFICATION FairSpec
INVARIANTS TypeOK CacheIsSnapshot
PROPERTY SnapshotSpec
PROPERTIES CatchesUp StopsEventually
