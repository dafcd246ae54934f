SPECIFICATION Spec
CONSTANTS
  j1 = j1
  j2 = j2
  v1 = v1
  v2 = v2
  c1 = c1
  c2 = c2
  r = r
  NoJob = NoJob
  NoVM = NoVM
  NoProc = NoProc
  Jobs <- TwoJobs
  VMs <- TwoVMs
  Callers <- TwoCallers
  Reaper = r
  Calls <- DeployAndCleanup
  MaxVMs = 1
  Foreign <- OneForeign
  MaxFaults = 1
SYMMETRY CallersAndJobsAlike
INVARIANTS TypeOK QuotaHeld MachineIsCovered DestroyedIsClean SelectedVMWasBooted LockOrder CleanupPassIsComplete
PROPERTIES WritesHoldBothLocks ImplementsLedger
