SPECIFICATION Spec
CONSTANTS
  Keys = {1}
  Values = {v}
  Deleted = Deleted
  NotFound = NotFound
  Missing = Missing
  Partial = Partial
  MaxLevels = 2
  FlushThreshold = 2
  L0Trigger = 2
  L1Target = 1
  LevelMultiplier = 1
  TargetFileSize = 1
  TornWrites = TRUE
  MaxFile = 2
  MaxWrites = 2
  MaxFaults = 0
  MaxCrashes = 2
INVARIANTS
  AckedDurable
CHECK_DEADLOCK FALSE
