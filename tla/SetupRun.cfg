SPECIFICATION Spec
CONSTANTS
  Setups = {s1, s2}
  None = None
  MaxFaults = 2
INVARIANT PassMeansInstalled
PROPERTY SetupRecovers
