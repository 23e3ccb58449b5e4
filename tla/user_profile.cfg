SPECIFICATION Spec
CONSTANTS
  OldImages = {i1, i2}
  Requests = {r1, r2, r3}
  Nicknames = {mina, jun}
  Nickname = mina
  NULL = NULL
  Kept = Kept
SYMMETRY Symmetry
INVARIANTS
  ProfileFollowsTheLastRequest
  FilesMatchRows
CHECK_DEADLOCK FALSE
