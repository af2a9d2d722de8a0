SPECIFICATION FairSpec
CONSTANTS
  MaxSeq = 5
  MaxBatch = 2
  MaxInst = 1
  Limit = 2
  AcceptableLoss = 1
  ExpiresForReq = FALSE
  Faults = {"purge"}
INVARIANTS
  ExactlyOnce
PROPERTIES
  CatchesUp
  ImplementsReplicaLog
