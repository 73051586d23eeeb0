----------------------------- MODULE MCSessions -----------------------------
EXTENDS Sessions, TLC
RequestSymmetry == Permutations(Request)
=============================================================================
