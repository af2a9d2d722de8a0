SPECIFICATION FairSpec
CONSTANTS
  MaxRequests = 2
  Shapes <- MCShapes
  Configs <- MCConfigs
  MaxReconfs = 1
  MaxQueue = 1
  Workers = 1
  Faults = {"stop", "ioerror"}
INVARIANTS
  AnswerTellsFate
  InOrder
PROPERTIES
  AfterStop
  
  GetsAnswer
CHECK_DEADLOCK FALSE
