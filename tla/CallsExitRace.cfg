SPECIFICATION Spec
CONSTANTS
  Functions = {f}
  Threads = {t1}
  NoFunction = NoFunction
  MaxPaths = 1
  MaxClock = 1
  MaxEntries = 1
  MaxDepth = 1
INVARIANTS
  ExitedThreadFullyDrained
