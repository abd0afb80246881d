SPECIFICATION LiveSpec
CONSTANTS
  o1 = o1
  o2 = o2
  Op = {o1, o2}
  None = None
  Other = Other
  MaxAttempts = 2
  Mixes <- MCMixes
INVARIANTS
  OutcomesKept
  ExecutionsFenced
PROPERTIES
  Settles
CHECK_DEADLOCK FALSE
