SPECIFICATION FairSpec
CONSTANTS
  Users = {u1, u2}
  Plans = {p1}
  Places = {pl1}
  Requests = {r1, r2}
  Workers = {w1}
  NULL = NULL
  Ops = {"respond", "close"}
  OpenPlans = {p1}
  MaxChurn = 2
  MaxFaults = 0
PROPERTIES
  DuePlansAreConfirmed
  HandlersEnd
CHECK_DEADLOCK FALSE
