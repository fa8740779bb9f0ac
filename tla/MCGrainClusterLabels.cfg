\* Two nodes on two hosts, each known to the other by its port only.
CONSTANTS
  n1 = n1
  n2 = n2
  g1 = g1
  h1 = h1
  h2 = h2
  Nodes = {n1, n2}
  Grains = {g1}
  FileHosts = {None}
  EnvHosts = {None, h2}
  DefaultHost = h1
  DefaultPort = 3
  Offset = 2
  MaxPort = 9
  FilePorts = {0}
  EnvPorts = {0}
  HTTPPorts = {0}
  None = None
  MaxCrashes = 1
SPECIFICATION Spec
INVARIANT ListedOnItsNode
CHECK_DEADLOCK FALSE
