\* Three calls of up to two sectors, a device that may fail at any request.
CONSTANTS
  Sectors  <- NearSectors
  Counts    = {0, 1, 2}
  MaxCalls  = 3
  Noise     = Noise
  Nothing   = Nothing
SPECIFICATION Spec
INVARIANTS
  TypeOK
  ReadDelivers
  StridePlaces
  OnlyLastAtRisk
PROPERTIES
  WritesWhereAsked
  WorkDecreases
  CallsReturn
CHECK_DEADLOCK FALSE
