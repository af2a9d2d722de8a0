SPECIFICATION Spec
CONSTANTS
  MaxSeq = 3
  MaxBatch = 2
  MaxInst = 2
  Limit = 2
  AcceptableLoss = 1
  ExpiresForReq = FALSE
  Faults = {"early", "stop", "crash", "detach", "purge", "gone", "werr"}
INVARIANTS
  Accounted
PROPERTIES
  ParsesForward
  ResumesExactly
CHECK_DEADLOCK FALSE
