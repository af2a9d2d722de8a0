SPECIFICATION Spec
CONSTANTS
  Depth = 2
  ArchiveDepth = 1
  BackupIds <- MCBackupIds
  MaxBackups = 3
  MaxFailures = 2
  MaxArchives = 2
  Faults <- MCFaults
  Absent = Absent
  Null = Null
INVARIANT
  RestoresWhatWasAsked
CHECK_DEADLOCK FALSE
