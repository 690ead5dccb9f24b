SPECIFICATION Spec
CONSTANTS
  Urls <- MCUrls
  Answers <- MCAnswers
  Addresses = 2
  HostSize = 4
  PathSize = 5
  Chunk = 3
  RawStart = 2
  MaxBody = 4
  MaxSignals = 1
INVARIANTS AskedRight RawFits CallReleases BodyReturned
PROPERTIES CallReturns
CHECK_DEADLOCK FALSE
