SPECIFICATION Spec
CONSTANTS
  v1 = v1
  v2 = v2
  v3 = v3
  VMs <- ThreeVMs
  MaxSignals = 1
  MaxFaults = 0
CHECK_DEADLOCK FALSE
INVARIANTS InterruptGivesFailedReport
