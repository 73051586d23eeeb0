CONSTANTS
  User = {u1, u2}
  Event = {e1}
  Request = {r1, r2}
  MaxVersion = 1
  MaxCrashes = 1
SPECIFICATION FairSpec
INVARIANTS
  TypeOK
  ListingIsCurrent
  ChangesArePublished
PROPERTY
  StalenessEnds
