SPECIFICATION Spec
CONSTANTS
  Patterns <- ThreeParams
  StaticPrefixes <- None
  Paths <- ThreeWords
  Methods = {"GET"}
  MaxRoutes = 1
  InitialCapacity = 1
  MaxParams = 2
  MemoryFails = FALSE
INVARIANTS ParamsOwned
