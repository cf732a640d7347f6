\* Contents of a block after its neighbour was freed.
CONSTANTS
  NumNodes  = 3
  regions   <- SmallRegions
  Formatted = {0, 1, 2}
  ColdNodes <- ZeroedMemory
  Sizes     = {1, 2}
  IdStream  <- FreshIds
  MaxDraws  = 4
  DataCap   = 9
  Zero      = Zero
  Junk      = Junk
SPECIFICATION Spec
INVARIANT ContentsStable
