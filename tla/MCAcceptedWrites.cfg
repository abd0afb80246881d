SPECIFICATION LiveSpec
CONSTANTS
  main = main
  qual = qual
  c1 = c1
  c2 = c2
  q1 = q1
  q2 = q2
  q3 = q3
  k1 = k1
  k2 = k2
  Ref = {main, qual}
  QualRef = {qual}
  Commit = {c1, c2}
  Request = {q1, q2, q3}
  Probe = Probe
  Key = {k1, k2}
  None = None
  MaxDeliveries = 2
  MaxReceipts = 1
  Mixes <- MCMixes
INVARIANTS
  SnapshotsFaithful
  IngestionOnce
PROPERTIES
  Converges
CHECK_DEADLOCK FALSE
