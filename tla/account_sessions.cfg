SPECIFICATION Spec
CONSTANTS
  Users = {u1, u2}
  Identities = {i1, i2}
  OldSessions = {s1}
  Requests = {r1, r2, r3}
  NULL = NULL
  Ops = {"login", "reissue", "logout", "withdraw"}
  MaxFaults = 1
  MaxTicks = 1
SYMMETRY Symmetry
INVARIANTS
  TypeOK
  ExchangedOnce
  LoggedOutStaysOut
  OldSessionsEnd
  IdentityHasOneAccount
  SessionMatchesItsToken
PROPERTY ImplementsLifecycle
CHECK_DEADLOCK FALSE
