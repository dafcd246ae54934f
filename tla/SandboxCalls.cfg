SPECIFICATION Spec
CONSTANTS
  Callers = {c1, c2}
  MaxCalls = 4
  MaxFaults = 2
  MaxKills = 1
SYMMETRY Symmetry
INVARIANT TypeOK
INVARIANT SuccessIsLogged
INVARIANT StoppedStaysStopped
INVARIANT RemovedStaysRemoved
CHECK_DEADLOCK FALSE
