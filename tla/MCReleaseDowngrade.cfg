SPECIFICATION Spec
CONSTANTS
  Jobs = {j1, j2, j3}
  MaxVersion = 2
  FaultSets <- NoFaults
  None = None
PROPERTIES
  NeverDowngrades
CHECK_DEADLOCK FALSE
