\* Backup lists without null or broken entries and without cycles.
CONSTANTS
  Db          = {d1, d2, d3}
  Root        = d1
  NumBackups  = 2
  Null        = Null
  Broken      = Broken
  Worlds     <- IntactWorlds
  StackFrames = 4
  NotFound    = NotFound
  Running     = Running
SPECIFICATION Spec
INVARIANT AllItemsSearched
CHECK_DEADLOCK FALSE
