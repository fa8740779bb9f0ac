\* One prefix whose watcher may be removed and replaced.
CONSTANTS
  k1 = k1
  k2 = k2
  k3 = k3
  w1 = w1
  w2 = w2
  Keys = {k1, k2}
  Watchers = {w1, w2}
  Under <- OnePrefix
  Default = {w1}
  MaxIndex = 4
SPECIFICATION SpecAPI
INVARIANT PrefixIsSnapshot
