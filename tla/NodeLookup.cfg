\* Every backup graph of three databases whose first entries form no cycle.
CONSTANTS
  Db          = {d1, d2, d3}
  Root        = d1
  NumBackups  = 2
  Null        = Null
  Broken      = Broken
  Worlds     <- AcyclicWorlds
  StackFrames = 4
  NotFound    = NotFound
  Running     = Running
SPECIFICATION Spec
INVARIANTS
  TypeOK
  FindsWhatItSearches
  StackSuffices
PROPERTIES
  LookupIsShort
  Returns
CHECK_DEADLOCK FALSE
