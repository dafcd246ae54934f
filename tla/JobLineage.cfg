SPECIFICATION Spec
CONSTANTS
  c1 = c1
  c2 = c2
  p1 = p1
  p2 = p2
  b1 = b1
  b2 = b2
  Procs <- TwoCallers
  Patches <- TwoPatches
  Builds <- TwoBuilds
  NoProc = NoProc
  NoPatch = NoPatch
  NoBuild = NoBuild
  Variants <- FixAndNext
  MaxEdits = 2
  MaxFaults = 1
SYMMETRY Alike
INVARIANTS TypeOK EvidenceChain NewestPatchSelected CompleteIsEarned LoneEditIsCaught
