SPECIFICATION Spec
CONSTANTS
  u1 = u1
  u2 = u2
  t1 = t1
  d1 = d1
  n1 = n1
  n2 = n2
  NULL = NULL
  Users = {u1, u2}
  Devices = {d1, d2}
  OldTokens = {t1}
  OldRows <- MCOldRows
  Requests = {r1, r2, r3}
  Types = {"PLAN_REQUESTED", "PLAN_CONFIRMED", "MEMBER_GOING"}
  Toggles = {"PLAN_REQUESTED", "PLAN_CONFIRMED"}
  PushEnabled = TRUE
  OldNotes = {n1, n2}
  OldBatch <- MCOldBatch
  OldOrder <- MCOldOrder
  Patches <- MCPatches
  Occasions <- MCOccasions
  Readers = {u1}
  PageSize = 1
SYMMETRY Symmetry
INVARIANTS
  TypeOK
  PushesFollowTheLastWord
  DiagnosisMatchesDispatch
  ScrollingMissesNothing
CHECK_DEADLOCK FALSE
