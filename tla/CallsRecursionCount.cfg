SPECIFICATION Spec
CONSTANTS
  Functions = {f}
  Threads = {t1}
  NoFunction = NoFunction
  MaxPaths = 2
  MaxClock = 0
  MaxEntries = 3
  MaxDepth = 2
INVARIANTS
  RecursionCountsOncePerEntry
