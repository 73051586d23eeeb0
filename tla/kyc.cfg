CONSTANTS
  Account = {a1, a2}
  NoAccount = NoAccount
  Request = {r1, r2}
  MaxCrashes = 1
SPECIFICATION Spec
INVARIANTS
  TypeOK
  VerifiedIsArtist
  RoleIsEarned
  LinkedIsKept
SYMMETRY KycSymmetry
