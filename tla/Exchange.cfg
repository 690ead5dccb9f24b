SPECIFICATION Spec
CONSTANTS
  Scripts <- MCScripts
  Base <- Root
  Real <- MCReal
  Kind <- MCKind
  Absent = Absent
  MaxSize = 2
  MaxWrites = 1
  WireCap = 2
INVARIANTS AnswersInStep BodiesFreed Contained NoGarbage
PROPERTIES WorkerFreed
CHECK_DEADLOCK FALSE
