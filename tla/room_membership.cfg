SPECIFICATION Spec
CONSTANTS
  Users = {u1, u2, u3}
  Rooms = {m1}
  Codes = {c1}
  Requests = {r1, r2, r3, r4}
  NULL = NULL
  Ops = {"join", "leave", "kick", "withdraw"}
  OpenRooms = {m1}
  Attempts = 2
  MaxFaults = 1
SYMMETRY Symmetry
INVARIANTS
  AtMostOneHost
  HostlessByWithdrawal
  DeletedRoomIsEmpty
PROPERTY KickedStaysOut
CHECK_DEADLOCK FALSE
