\* The tables of the code, with fewer nodes in a region.
CONSTANTS
  MAX_REGION       = 32
  MAX_BACKUP       = 4
  NODES_PER_REGION = 4
  Junk             = Junk
  MAX_REGIONS      = 32
  MAX_BACKUPS      = 32
  NODES_IN_REGION  = 2
  CommandLines    <- SomeCommandLines
  MaxFailures      = 1
  Unwritten        = Unwritten
SPECIFICATION Spec
INVARIANTS
  TypeOK
  ListsAsMeant
  NodesInTheList
  OpenedWhereFormatted
  HeaderMeansComplete
  
CHECK_DEADLOCK FALSE
