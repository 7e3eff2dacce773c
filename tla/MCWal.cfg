SPECIFICATION Spec
CONSTANTS
  Keys = {1, 2}
  Values = {v}
  Deleted = Deleted
  NotFound = NotFound
  Sync = TRUE
  PowerLoss = TRUE
  MaxUnits = 7
  MaxCrashes = 2
INVARIANTS
  TypeOK
  AckedReplayed
  ReplayedWhole
PROPERTIES
  ImplementsLogSpec
CHECK_DEADLOCK FALSE
