SPECIFICATION Spec
CONSTANTS
  v1 = v1
  v2 = v2
  v3 = v3
  VMs <- ThreeVMs
  MaxSignals = 2
  MaxFaults = 2
CHECK_DEADLOCK FALSE
INVARIANTS TypeOK ReadyIsEarned ExitTellsLatest SandboxesAreReached LeftoversAreReported
PROPERTIES Ends
