SPECIFICATION MCSpec
CONSTANTS
  f = f
  g = g
  ty = ty
  Functions = {f}
  Types = {ty}
  PathIds = {}
  NoFunction = NoFunction
  NoReading = NoReading
  None = None
  Connections = {c1, c2}
  FineResolution = 2
  FineCapacity = 2
  CoarseResolution = 4
  CoarseCapacity = 2
  RateWindow = 2
  OverflowChecks = FALSE
  MaxCumulative = 4
  RegisterLists <- RingRegisters
  EventLists <- RingEvents
  Times = {0, 1}
  ContextTimes = {}
  Seqs = {1}
  MaxFrames = 2
INVARIANTS
  ClosedWindowNeverChanges
CHECK_DEADLOCK FALSE
