SPECIFICATION FairSpec
CONSTANTS
  Users = {u1}
  Identities = {i1}
  OldSessions = {s1}
  Requests = {r1, r2}
  NULL = NULL
  Ops = {"withdraw"}
  MaxFaults = 0
  MaxTicks = 0
PROPERTY WithdrawalsAreAnswered
CHECK_DEADLOCK FALSE
