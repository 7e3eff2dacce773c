SPECIFICATION Spec
CONSTANTS
  Keys = {1, 2}
  Values = {v}
  Deleted = Deleted
  NotFound = NotFound
  Missing = Missing
  Partial = Partial
  MaxLevels = 2
  FlushThreshold = 1
  L0Trigger = 1
  L1Target = 1
  LevelMultiplier = 1
  TargetFileSize = 1
  TornWrites = FALSE
  MaxFile = 3
  MaxWrites = 2
  MaxFaults = 1
  MaxCrashes = 0
PROPERTIES
  FailedCompactionKeepsVersion
CHECK_DEADLOCK FALSE
