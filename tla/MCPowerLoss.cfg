SPECIFICATION Spec
CONSTANTS
  Keys = {k1, k2, k3}
  Ordered = FALSE
  MaxFile = 4
INVARIANTS
  AckedSurvivePowerCut
CHECK_DEADLOCK FALSE
