CONSTANTS
  Caller = {r1, r2, r3}
  MaxAttempts = 3
  MaxFails = 12
  MaxCrashes = 2
SPECIFICATION LockoutSpec
INVARIANTS
  LockoutTypeOK
  CounterWillExpire
  ThresholdLocks
  GuessesBounded
SYMMETRY CallerSymmetry
