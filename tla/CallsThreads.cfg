SPECIFICATION FairSpec
CONSTANTS
  Functions = {f, g}
  Threads = {t1, t2}
  NoFunction = NoFunction
  MaxPaths = 2
  MaxClock = 1
  MaxEntries = 3
  MaxDepth = 2
INVARIANTS
  PathForest
  SelfTimeConserved
  MemoAgrees
PROPERTIES
  ExitedThreadForgotten
