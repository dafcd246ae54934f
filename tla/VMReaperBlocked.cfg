SPECIFICATION FairSpec
CONSTANTS
  j1 = j1
  j2 = j2
  v1 = v1
  v2 = v2
  c1 = c1
  c2 = c2
  r = r
  NoJob = NoJob
  NoVM = NoVM
  NoProc = NoProc
  Jobs <- OneJob
  VMs <- TwoVMs
  Callers <- OneCaller
  Reaper = r
  Calls <- DeployAndCleanup
  MaxVMs = 2
  Foreign <- OneForeign
  MaxFaults = 0
PROPERTIES OthersAreReaped
