SPECIFICATION Spec
CONSTANTS
  Calls <- AllCalls
  NullFormat = NullFormat
  InitialCap = 2
  SpecSize = 8
  StackSize = 6
  MaxWidth = 8
INVARIANTS BufferBound FormatRight WholeCharacters AllFreed
CHECK_DEADLOCK FALSE
