SPECIFICATION Spec
CONSTANTS
  Users = {u1, u2}
  Plans = {p1}
  Places = {pl1}
  Requests = {r1, r2, r3, r4}
  Workers = {w1, w2}
  NULL = NULL
  Ops = {"create", "respond", "close", "remind"}
  OpenPlans = {}
  MaxChurn = 1
  MaxFaults = 1
SYMMETRY Symmetry
INVARIANTS
  TypeOK
  OneVotePerMember
  AutoCloseNeverRecloses
  AutoCloseHearsEveryVoter
  NotificationsAreTrue
PROPERTY ImplementsLifecycle
CHECK_DEADLOCK FALSE
