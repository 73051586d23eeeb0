CONSTANTS
  x = x
  t1 = t1
  t2 = t2
  t3 = t3
  a1 = a1
  a2 = a2
  Artist = {x}
  Track <- MCTrack
  Album <- MCAlbum
  By <- MCBy
  NoAlbum = NoAlbum
  Request = {r1, r2}
  TracksMax = 2
  MaxIds = 2
SPECIFICATION Spec
INVARIANTS
  TypeOK
  AlbumWithinMax
  PositionsAreDistinct
SYMMETRY MCSymmetry
CHECK_DEADLOCK FALSE
