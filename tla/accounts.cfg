CONSTANTS
  User = {u1, u2}
  Email = {e1, e2}
  Username = {n1, n2}
  Name = {n1, n2, s1}
  Token = {k1, k2}
  Request = {r1, r2}
SPECIFICATION Spec
INVARIANTS
  TypeOK
  LinksResetOnce
  
PROPERTY
  PurgesAreDue
SYMMETRY MCSymmetry
