SPECIFICATION FairSpec
CONSTANTS
  Depth = 2
  ArchiveDepth = 1
  BackupIds <- MCBackupIds
  MaxBackups = 3
  MaxFailures = 2
  MaxArchives = 2
  Faults <- MCFaults
  Absent = Absent
  Null = Null
INVARIANTS
  KeepsAPoint
  ArchiveIsWhole
  RestoresGood
PROPERTY
  TasksEnd
CHECK_DEADLOCK FALSE
