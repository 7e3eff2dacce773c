SPECIFICATION Spec
CONSTANTS
  m = m
  v1 = v1
  v2 = v2
  v3 = v3
  Keys = {1, 2, 3}
  Values = {m, v1, v2, v3}
  Deleted = Deleted
  NotFound = NotFound
  MaxLevels = 3
  L0Trigger = 2
  L1Target = 1
  LevelMultiplier = 1
  TargetFileSize = 1
  MaxFile = 5
  MaxFaults = 1
  Calls <- Gets
INVARIANTS
  GetCatchesCorruption
CHECK_DEADLOCK FALSE
