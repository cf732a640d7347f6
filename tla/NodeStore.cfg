\* Three nodes in two regions, four allocations of one to three bytes.
CONSTANTS
  NumNodes  = 3
  regions   <- SmallRegions
  Formatted = {0, 1, 2}
  ColdNodes <- ZeroedMemory
  Sizes     = {1, 2, 3}
  IdStream  <- FreshIds
  MaxDraws  = 4
  DataCap   = 9
  Zero      = Zero
  Junk      = Junk
SPECIFICATION Spec
INVARIANTS
  TypeOK
  ExtentsDisjoint
  LiveHandleResolves
  NoLeakedNode
  DamageIsFirstByte
PROPERTIES
  OnlyOwnerFrees
  ExtentsStable
  ImplementsBlockHeap
