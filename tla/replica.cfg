SPECIFICATION SpecReplica
CONSTANTS
  Keys = {"k1", "k2", "hidden"}
  Hidden = {"hidden"}
  Batches <- MCBatches
  Repairing = {TRUE, FALSE}
  MaxBatches = 2
  MaxOps = 3
INVARIANTS
  ReplicasAgree
  FoldsUnseen
CHECK_DEADLOCK FALSE
