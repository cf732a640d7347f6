\* The lookup kmain makes, of a disk that dbfmt wrote.
CONSTANTS
  NumNodes      = 6
  regions      <- OneRegion
  Formatted     = {0, 1, 2, 3, 4, 5}
  ColdNodes     = {}
  Sizes         = {1}
  IdStream     <- FreshIds
  MaxDraws      = 4
  DataCap       = 42
  Zero          = Zero
  Junk          = Junk
  Disks        <- DbfmtDisk
  DiskFails     = FALSE
  MaxLookups    = 1
  IntRange      = 1073741824
  OtherAllocs   = 1
  StackFrames   = 4
  StackSectors  = 19
SPECIFICATION DiskSpec
PROPERTY LookupReturns
CHECK_DEADLOCK FALSE
