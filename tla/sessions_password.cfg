CONSTANTS
  Request = {r1, r2}
  MaxSessions = 2
  MaxSid = 2
  MaxJti = 3
  Enabled = {"login", "refresh", "list", "change", "reset", "ttl"}
SPECIFICATION Spec
INVARIANTS
  LiveSessionIsListed
  RevocationReachesListed
SYMMETRY RequestSymmetry
CHECK_DEADLOCK FALSE
