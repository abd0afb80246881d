CONSTANTS
    Refs <- MCRefs
    Jobs <- Pushes
    Workers = 3
    RangeAttempts = 3
    MaxDepth = 2
    MaxNodes = 5
    MaxPacks = 3
    MaxObjects = 6
    MaxEdges = 5
    WholeMax = 4
    WholeBudget = 6
    MaxFaults = 3
SPECIFICATION LiveSpec
INVARIANTS
  PlanExact
  OutputsClosed
PROPERTIES
  Ends
CHECK_DEADLOCK FALSE
