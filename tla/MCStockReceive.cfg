SPECIFICATION LiveSpec
CONSTANTS
    o1 = o1
    o2 = o2
    q1 = q1
    q2 = q2
    q3 = q3
    r1 = r1
    r2 = r2
    Op = {o1, o2}
    Ref = {r1, r2}
    Request = {q1, q2, q3}
    None = None
    Mixes <- MCMixes
    MaxClaims = 2
INVARIANTS
  ArtifactsKept
  OutcomesTrue
  PoolFenced
PROPERTIES
  Settles
CHECK_DEADLOCK FALSE
