SPECIFICATION FairSpec
CONSTANTS
  Prefix = {"p"}
  Thread = {t1, t2}
  MaxObj = 2
  MaxPrefixes = 0
  Denials = {0, 2}
  Backups = TRUE
  MayStop = TRUE
INVARIANTS
  ClosedOnlyWhileDetaching
  DroppedIsDetaching
  DenialHasTimer
PROPERTIES
  DetachCompletes
  DenialEnds
CHECK_DEADLOCK FALSE
