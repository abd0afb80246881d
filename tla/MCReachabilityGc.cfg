CONSTANTS
  None = None
  Ref = {r1}
  Push = {p1, p2, p3}
  Base = {p1}
  Op = {o1, o2}
  Claim = {c1, c2}
  p1 = p1
  p2 = p2
  p3 = p3
  o1 = o1
  o2 = o2
  Mixes <- MCMixes
SPECIFICATION FairSpec
INVARIANTS
  OperationSound
  RefsReadable
PROPERTIES
  BothEnd
CHECK_DEADLOCK FALSE
