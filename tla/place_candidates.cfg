SPECIFICATION Spec
CONSTANTS
  p1 = p1
  p2 = p2
  n1 = n1
  n2 = n2
  a1 = a1
  NotANumber = NotANumber
  NULL = NULL
  OldPlaces = {p1, p2}
  OldRows <- MCOldRows
  Requests = {r1, r2, r3}
  Searches <- MCSearches
  OtherBodies <- MCOtherBodies
  Patches <- MCPatches
  Ops = {"create", "update", "delete", "plan", "list", "draw"}
  PageSize = 2
  MaxExcluded = 1
SYMMETRY Symmetry
INVARIANTS
  TypeOK
  DuplicatesOnlyByOverlap
  CoordinatesComeInPairs
  SerialRequestsRespectPlans
  BrowsingMissesNothing
  DrawsGoThroughAll
  SearchedPlacesAreAccepted
CHECK_DEADLOCK FALSE
