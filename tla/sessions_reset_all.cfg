CONSTANTS
  Request = {r1}
  MaxSessions = 3
  MaxSid = 1
  MaxJti = 2
  Enabled = {"login", "refresh", "reset", "ttl"}
SPECIFICATION Spec
INVARIANTS
  ResetRevokesEverySession
CHECK_DEADLOCK FALSE
