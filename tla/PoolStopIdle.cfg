CONSTANTS
  Socks = {s1, s2, s3}
  NoSock = NoSock
  NumWorkers = 2
  MaxConnections = 2
  DefaultCapacity = 1
SPECIFICATION FairSpec
PROPERTIES StopReturns
