SPECIFICATION Spec
CONSTANTS
  Scripts <- TwoGets
  BufferSize = 5
  MaxBody = 4
  Timeout = 2
  KeepAlive = 1
INVARIANTS PipelinedServed
CHECK_DEADLOCK FALSE
