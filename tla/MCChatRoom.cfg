\* One room: a log long enough to be trimmed twice and to overshoot, and a capacity
\* that a second create changes.
CONSTANTS
  n1 = n1
  n2 = n2
  r1 = r1
  u1 = u1
  u2 = u2
  Nodes = {n1, n2}
  Rooms = {r1}
  Users = {u1, u2}
  None = None
  Unlisted = Unlisted
  Caps = {0, 1}
  DefaultMax = 2
  HistoryLimit = 3
  PageMax = 3
  PageDefault = 2
  MaxLog = 7
  MaxTime = 1
SPECIFICATION Spec
SYMMETRY Symmetry
INVARIANTS TypeOK PagesAreComplete Overshoot MembersMatchLog ListedNeverOverstates
PROPERTY RoomLogSpec
