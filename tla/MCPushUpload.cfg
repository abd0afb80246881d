SPECIFICATION LiveSpec
CONSTANTS
  Requests <- MCRequests
  HeaderUnits = 2
  TrailerUnits = 2
  PartUnits = 3
  MaxSection = 9
  MaxStock = 14
  MaxChunk = 4
INVARIANTS
  StagedExactly
  ArtifactsOwned
PROPERTIES
  Ends
CHECK_DEADLOCK FALSE
