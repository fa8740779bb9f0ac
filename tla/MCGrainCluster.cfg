\* Two nodes with all configurations, one grain and one crash, with fairness.
CONSTANTS
  n1 = n1
  n2 = n2
  g1 = g1
  h1 = h1
  h2 = h2
  Nodes = {n1, n2}
  Grains = {g1}
  FileHosts = {None}
  EnvHosts = {None, h2}
  DefaultHost = h1
  DefaultPort = 3
  Offset = 2
  MaxPort = 9
  FilePorts = {0, 8}
  EnvPorts = {0, 4, 10}
  HTTPPorts = {0, 5}
  None = None
  MaxCrashes = 1
SPECIFICATION FairSpec
INVARIANTS TypeOK ListComplete ListedRan
PROPERTY ListReturns
CHECK_DEADLOCK FALSE
