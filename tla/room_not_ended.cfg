SPECIFICATION Spec
CONSTANTS
  Users = {u1, u2}
  Rooms = {m1}
  Codes = {c1}
  Requests = {r1, r2}
  NULL = NULL
  Ops = {"leave", "withdraw"}
  OpenRooms = {m1}
  Attempts = 2
  MaxFaults = 0
PROPERTY LastLeaverEndsRoom
CHECK_DEADLOCK FALSE
