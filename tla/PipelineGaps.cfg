SPECIFICATION Spec
CONSTANTS
  Functions = {f}
  Types = {}
  MaxPaths = 1
  MaxRegisters = 1
  MaxWindows = 5
  Daemons = {d}
  Nobody = Nobody
  Stale = Stale
  MaxStarts = 1
  None = None
  MaxConns = 2
  MaxFaults = 1
INVARIANTS
  GapsAreTheEmittersDrops
CHECK_DEADLOCK FALSE
