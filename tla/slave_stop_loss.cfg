SPECIFICATION Spec
CONSTANTS
  MaxSeq = 3
  MaxBatch = 2
  MaxInst = 2
  Limit = 2
  AcceptableLoss = 0
  ExpiresForReq = FALSE
  Faults = {"stop"}
INVARIANTS
  LossWithinAcceptable
CHECK_DEADLOCK FALSE
