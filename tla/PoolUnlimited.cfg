CONSTANTS
  Socks = {s1, s2, s3, s4}
  NoSock = NoSock
  NumWorkers = 2
  MaxConnections = 0
  DefaultCapacity = 2
SPECIFICATION FairSpec
INVARIANTS TypeOK PoolSized Accounting SoleOwner CleanReturn
PROPERTIES ShutdownCompletes AcceptedIsClosed
