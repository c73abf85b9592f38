SPECIFICATION FairSpec
CONSTANTS
  Functions = {f, g}
  Types = {T}
  MaxPaths = 1
  MaxRegisters = 1
  MaxWindows = 3
  Daemons = {d}
  Nobody = Nobody
  Stale = Stale
  MaxStarts = 2
  None = None
  MaxConns = 2
  MaxFaults = 1
INVARIANTS
  RefusedOnlyByAnother
  EveryCallIsNamed
  StacksNamedInTurn
  SentNamesReachTheStore
  OneReadingUnnamedAtMost
  GapsAreNotTheEmittersDrops
CHECK_DEADLOCK FALSE
PROPERTIES
  DeliversWindows
