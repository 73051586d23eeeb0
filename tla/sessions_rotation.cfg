CONSTANTS
  Request = {r1, r2}
  MaxSessions = 1
  MaxSid = 3
  MaxJti = 3
  Enabled = {"login", "refresh", "logout", "revoke", "crash"}
SPECIFICATION Spec
INVARIANTS
  TypeOK
  RotatedTokenIsDead
  RevokedReturnsOnlyByRace
  IndexedSessionsBounded
SYMMETRY RequestSymmetry
CHECK_DEADLOCK FALSE
