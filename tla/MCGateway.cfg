\* Two connections of one user, with fairness.
CONSTANTS
  c1 = c1
  c2 = c2
  u1 = u1
  r1 = r1
  Conns = {c1, c2}
  Users = {u1}
  Rooms = {r1}
  None = None
  MaxMail = 2
SPECIFICATION MCSpec
INVARIANTS TypeOK EntryIsLive RoomViewExact OnlineExact
PROPERTY HandlersReturn
CHECK_DEADLOCK FALSE
