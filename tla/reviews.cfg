CONSTANTS
  u = u
  t1 = t1
  a1 = a1
  User = {u, b}
  Admin = {b}
  Track <- MCTrack
  Album <- MCAlbum
  By <- MCBy
  Image = {i1, i2}
  Placeholder = Placeholder
  NoAlbum = NoAlbum
  NoImage = NoImage
  Request = {r1}
  Moderator = {m1}
  Draw = {d1}
SPECIFICATION Spec
INVARIANTS
  TypeOK
  OutcomesAreTaken
  PicturesFollowReviews
  SampleSkipsChecked
SYMMETRY ImageSymmetry
