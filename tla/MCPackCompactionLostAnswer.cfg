SPECIFICATION Spec
CONSTANTS
  Push = {p1, p2, p3}
  Cmp = {c1, c2}
  Reader = {r1}
  None = None
  FanIn = 2
  MaxFaults = 1
  CatchRuns = TRUE
SYMMETRY Symmetry
INVARIANTS
  ActiveStored
