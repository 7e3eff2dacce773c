SPECIFICATION Spec
CONSTANTS
  Keys = {1, 2}
  Values = {v}
  Deleted = Deleted
  NotFound = NotFound
  Missing = Missing
  Partial = Partial
  MaxLevels = 3
  FlushThreshold = 1
  L0Trigger = 1
  L1Target = 1
  LevelMultiplier = 1
  TargetFileSize = 1
  TornWrites = TRUE
  MaxFile = 4
  MaxWrites = 2
  MaxFaults = 1
  MaxCrashes = 1
INVARIANTS
  TypeOK
  LiveFilesIntact
  IInv
PROPERTIES
  ReadsStable
CHECK_DEADLOCK FALSE
