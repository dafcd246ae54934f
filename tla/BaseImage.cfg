SPECIFICATION Spec
CONSTANTS
  Labs = {a, b}
  Releases = {r1, r2}
  None = None
  MaxCallers = 1
  MaxFaults = 2
INVARIANT TypeOK
INVARIANT BoundBaseIsWhole
PROPERTY OverlaidBaseIsWhole
PROPERTY PreparationRecovers
