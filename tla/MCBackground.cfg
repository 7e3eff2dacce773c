SPECIFICATION Spec
CONSTANTS
  L0Trigger = 2
  L1Target = 1
  MaxL0 = 4
  MaxL1 = 3
INVARIANTS
  TypeOK
  SleepsOnlyWhenIdle
PROPERTIES
  WaitMeansIdle
  WaitReturns
  WorkTakenUp
  CloseReturns
