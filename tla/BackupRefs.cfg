\* Three databases of two nodes, three nodes added and deleted in any way.
CONSTANTS
  d1 = d1
  d2 = d2
  d3 = d3
  Db          = {d1, d2, d3}
  Root        = d1
  NumBackups  = 2
  Null        = Null
  Broken      = Broken
  Lists      <- SmallLists
  NumNodes    = 2
  Sizes       = {1, 2}
  MaxIds      = 3
  DataCap     = 4
  Zero        = Zero
  Junk        = Junk
  None        = None
SPECIFICATION Spec
INVARIANTS
  TypeOK
  ExtentsApart
  DeletedWhenTold
