SPECIFICATION Spec
CONSTANTS
    j1 = j1
    j2 = j2
    j3 = j3
    Jobs = {j1, j2, j3}
    Mixes <- MCMixes
    Faulty <- MCFaulty
    None = None
    MaxReaders = 1
    MaxFaults = 1
INVARIANTS
  RepositoryServed
  NothingLeftBehind
  RoutesConverge
PROPERTIES
  DeletionFinal
CHECK_DEADLOCK FALSE
