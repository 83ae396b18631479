SPECIFICATION FairSpec
CONSTANTS
  None = None
  Hour = 3
  PageSize = 2
  MaxPages = 2
  PageBound = 6
  Time <- MCTime
  Listed <- MCListed
  Late <- MCLate
  Interval <- MCInterval
INVARIANTS
  TypeOK
  CompleteExport
  NoOrderTwice
  PagesBounded
PROPERTY FetchEnds
