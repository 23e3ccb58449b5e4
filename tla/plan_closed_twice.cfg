SPECIFICATION Spec
CONSTANTS
  Users = {u1, u2}
  Plans = {p1}
  Places = {pl1}
  Requests = {r1, r2}
  Workers = {w1}
  NULL = NULL
  Ops = {"close"}
  OpenPlans = {p1}
  MaxChurn = 0
  MaxFaults = 0
INVARIANT ConfirmedOnce
CHECK_DEADLOCK FALSE
