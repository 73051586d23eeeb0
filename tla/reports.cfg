CONSTANTS
  u = u
  a = a
  c = c
  User <- MCUser
  Admin = {a}
  Content = {c}
  Owner <- MCOwner
  Report <- MCReport
  NoOne = NoOne
  Request = {r1, r2}
  MaxReports = 1
  MaxCrashes = 1
SPECIFICATION Spec
INVARIANTS
  TypeOK
  SanctionsAreTaken
  ReporterKnows
SYMMETRY RequestSymmetry
CHECK_DEADLOCK FALSE
