SPECIFICATION VmmSpec
CONSTANTS
  WordSize = 64
  PageSize = 4
  FrameCount = 8
  Maps <- SmallMaps
  Ranges <- SmallRanges
  Index = {0, 1}
  Pages <- SmallPages
  MaxLent = 2
  Strays = {1}
  Absent = Absent
INVARIANTS
  BookkeepingExact
  ReservedNeverAllocated
  SpaceExact
  FramesAccounted
  TlbFresh
