SPECIFICATION StallSpec
CONSTANTS
  Scripts <- StallScripts
  Base <- Root
  Real <- MCReal
  Kind <- MCKind
  Absent = Absent
  MaxSize = 2
  MaxWrites = 0
  WireCap = 2
PROPERTIES WorkerFreed
CHECK_DEADLOCK FALSE
