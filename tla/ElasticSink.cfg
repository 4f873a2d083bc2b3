SPECIFICATION FairSpec
CONSTANTS
  Programs = {p1, p2}
  NoIndex = NoIndex
  DefaultIndex = "dev_sql"
  EventIndexMap <- LoginMap
  AutoCreateIndexes = TRUE
  ClusterCreates = FALSE
  Kinds <- LoginAndOther
  MaxFaults = 3
INVARIANTS
  TypeOK
  ReturnedIsStored
  
PROPERTIES
  EventuallyOpen
