--------------------------- MODULE MCLoginLockout ---------------------------
EXTENDS LoginLockout, TLC
CallerSymmetry == Permutations(Caller)
=============================================================================
