CONSTANTS
    OID <- AllOids
    Object <- Objects
    Jobs <- AllJobs
    HeaderBytes = 2
    TrailerBytes = 2
    HeaderProbe = 4
    ZlibPrefix = 2
    Budget = 3
    TagDepth = 2
SPECIFICATION LiveSpec
INVARIANTS
  RecordsTrue
  VerdictsExact
PROPERTIES
  Settles
CHECK_DEADLOCK FALSE
