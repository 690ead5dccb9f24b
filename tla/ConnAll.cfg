SPECIFICATION FairSpec
CONSTANTS
  Scripts <- AllScripts
  BufferSize = 5
  MaxBody = 4
  Timeout = 2
  KeepAlive = 1
INVARIANTS TypeOK InOrder WellFormedServed BodyIntact RequestTimeBounded
PROPERTIES DeliveredIsAnswered ConnectionEnds
CHECK_DEADLOCK FALSE
