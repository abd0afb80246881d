CONSTANTS
    a = a
    b = b
    c = c
    d = d
    o5 = o5
    OID = {a, b, c, d, o5}
    PayloadLength = 3
    VarintStep = 8
    StabilityCap = 16
    SyntheticMax = 3
    OutputMax = 60
    HaveCap = 1
    MissingCap = 1
    MaxRequests = 2
    Requests <- AllRequests
SPECIFICATION LiveSpec
INVARIANTS
  ResponseExact
  PackSound
PROPERTIES
  FetchEnds
CHECK_DEADLOCK FALSE
