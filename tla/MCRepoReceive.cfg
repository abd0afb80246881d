SPECIFICATION FairSpec
CONSTANTS
  Ref = {r1}
  Push = {p1, p2}
  None = None
  FanIn = 1
  MaxOutcomes = 1
  MaxRefsVersion = 1
  MaxCrash = 2
INVARIANTS
  TypeOK
  ActivePacksStored
  RefsResolvable
  RecoverySound
PROPERTIES
  PublishedOnce
  ImplementsAtomicPush
  WritersUnblocked
