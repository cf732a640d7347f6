\* Two lookups of a disk that may fail, among other users of the allocator.
CONSTANTS
  NumNodes      = 3
  regions      <- OneRegion
  Formatted     = {0, 1, 2}
  ColdNodes     = {}
  Sizes         = {1, 2}
  IdStream     <- FreshIds
  MaxDraws      = 6
  DataCap       = 14
  Zero          = Zero
  Junk          = Junk
  Disks        <- SmallDisks
  DiskFails     = TRUE
  MaxLookups    = 2
  IntRange      = 1073741824
  OtherAllocs   = 3
  StackFrames   = 4
  StackSectors  = 3
SPECIFICATION DiskSpec
INVARIANTS
  DiskTypeOK
  OverrunHarmless
  ListsFit
  DamageIsListTail
PROPERTIES
  HeaderOnlyFromItsDisk
  ReturnsUnlessType2
CHECK_DEADLOCK FALSE
