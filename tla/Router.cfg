SPECIFICATION Spec
CONSTANTS
  Patterns <- AllPatterns
  StaticPrefixes <- OnePrefix
  Paths <- AllPaths
  Methods = {"GET", "HEAD"}
  MaxRoutes = 2
  InitialCapacity = 1
  MaxParams = 3
  MemoryFails = TRUE
INVARIANTS TypeOK RoutedRight ParamFound ParamsOwned
