SPECIFICATION FairSpec
CONSTANTS
  MaxKey = 3
  Stored = 2
  MaxOps = 4
  MaxLoads = 2
  PageSize = 1
  UseSetnx = {TRUE, FALSE}
  Kinds = {"put", "del", "inc"}
  Faults = {"overlap", "refused", "nosnapshot"}
INVARIANTS
  
  DoubledOnlyInLoad
PROPERTIES
  
  LoadEnds
CHECK_DEADLOCK FALSE
