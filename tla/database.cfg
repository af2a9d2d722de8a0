SPECIFICATION FairSpec
CONSTANTS
  Clients = {c1, c2}
  MaxCalls = 3
  MaxKey = 3
  Pages = {0, 1}
  Stored <- MCStored
INVARIANTS
  HandlesAccounted
  SnapshotIsOwn
  PauseHasTimer
PROPERTIES
  TimeoutsEnd
  
CHECK_DEADLOCK FALSE
