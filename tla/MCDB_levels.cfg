SPECIFICATION Spec
CONSTANTS
  Keys = {1, 2, 3}
  Values = {v}
  Deleted = Deleted
  NotFound = NotFound
  Missing = Missing
  Partial = Partial
  MaxLevels = 4
  FlushThreshold = 2
  L0Trigger = 1
  L1Target = 1
  LevelMultiplier = 1
  TargetFileSize = 2
  TornWrites = FALSE
  MaxFile = 9
  MaxWrites = 3
  MaxFaults = 0
  MaxCrashes = 0
INVARIANTS
  LevelsDisjoint
  TombstonesReclaimed
PROPERTIES
  ReadsStable
CHECK_DEADLOCK FALSE
