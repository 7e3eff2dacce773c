SPECIFICATION Spec
CONSTANTS
  Keys = {1, 2}
  Values = {v}
  Deleted = Deleted
  NotFound = NotFound
  Missing = Missing
  Partial = Partial
  MaxLevels = 3
  FlushThreshold = 2
  L0Trigger = 1
  L1Target = 1
  LevelMultiplier = 1
  TargetFileSize = 1
  TornWrites = TRUE
  MaxFile = 4
  MaxWrites = 2
  MaxFaults = 0
  MaxCrashes = 2
INVARIANTS
  ManifestLoadable
  AckedDurableUnlessTorn
  NoOrphans
PROPERTIES
  ImplementsKVStore
CHECK_DEADLOCK FALSE
