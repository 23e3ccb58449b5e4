SPECIFICATION Spec
CONSTANTS
  NULL = NULL
  u1 = u1
  u2 = u2
  g1 = g1
  g2 = g2
  SlotMinutes = 180
  SearchDays = 6
  BusinessStart = 540
  BusinessEnd = 1080
  Users = {u1, u2}
  OldGroups = {g1, g2}
  OldRows <- MCOldRows
  Requests = {r1, r2, r3}
  Bodies <- MCBodies
  Patches <- MCPatches
  Moments <- MCMoments
SYMMETRY Symmetry
INVARIANTS
  TypeOK
  RangesInvertOnlyByOverlap
  DaysAreOfOneRequest
  BusyTimesAreAvoided
  RecommendationIsBest
CHECK_DEADLOCK FALSE
