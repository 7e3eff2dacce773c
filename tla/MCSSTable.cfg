SPECIFICATION Spec
CONSTANTS
  Keys = {1, 2, 3}
  Values = {v}
  Deleted = Deleted
  NotFound = NotFound
  kMaxLevel = 3
  Overhead = 3
  BitsPerKey = 22
  WordMod = 128
  CountMod = 256
  BlockSize = 2
  Hashes <- SmallHashes
  MaxFaults = 2
INVARIANTS
  TowersLinked
  UsageAccounted
  OpenedIsWhole
  FinishedOpens
  LookupRight
  IterationRight
PROPERTIES
  ImplementsMemTable
CHECK_DEADLOCK FALSE
