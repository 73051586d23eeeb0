CONSTANTS
  s1 = s1
  s2 = s2
  v1 = v1
  TrackSale <- MCTrackSale
  AlbumSale <- MCAlbumSale
  Amount <- MCAmount
  Moments = 2
  LastMoment = 7
  Week = 3
  MonthFirst <- MCMonthFirst
  Days = 2
  Weeks = 2
  Months = 2
  Limit = 1
  MaxPage = 3
SPECIFICATION SalesSpec
INVARIANTS
  SalesTypeOK
  StatisticsCount
  WalkSeesAll
SYMMETRY MCSymmetry
