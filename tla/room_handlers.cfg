SPECIFICATION FairSpec
CONSTANTS
  Users = {u1, u2}
  Rooms = {m1, m2}
  Codes = {c1, c2}
  Requests = {r1, r2, r3}
  NULL = NULL
  Ops = {"create", "join", "leave", "kick", "withdraw"}
  OpenRooms = {m1}
  Attempts = 2
  MaxFaults = 0
INVARIANT TypeOK
PROPERTIES
  HandlersEnd
  ImplementsLifecycle
CHECK_DEADLOCK FALSE
