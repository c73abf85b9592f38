SPECIFICATION Spec
CONSTANTS
  Functions = {f, g}
  Threads = {t1}
  NoFunction = NoFunction
  MaxPaths = 3
  MaxClock = 2
  MaxEntries = 5
  MaxDepth = 4
SYMMETRY FunctionSymmetry
INVARIANTS
  TypeOK
  DurationWithinWallClock
  CallsMatchContexts
  ReadersAddUp
  RecursionBounded
  ContextTellsTheStack
  DepthMatchesStack
