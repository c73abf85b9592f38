SPECIFICATION MCSpec
CONSTANTS
  f = f
  g = g
  ty = ty
  Functions = {f, g}
  Types = {ty}
  PathIds = {1, 2, 3}
  NoFunction = NoFunction
  NoReading = NoReading
  None = None
  Connections = {c1, c2}
  FineResolution = 2
  FineCapacity = 3
  CoarseResolution = 4
  CoarseCapacity = 2
  RateWindow = 4
  OverflowChecks = FALSE
  MaxCumulative = 3
  RegisterLists <- AnyRegisters
  EventLists <- AnyEvents
  Times = {0, 1, 2, 5, 9}
  ContextTimes = {1, 2}
  Seqs = {1}
  MaxFrames = 4
INVARIANTS
  TypeOK
  EdgesReadTheTree
  SelfReadsTheTree
  TreeWellFormed
  PageReadsTheTree
  RingsContiguous
  CoarseCoversFine
  TotalsMatchCoarse
  NewestReadingWins
  EndedMeansPushed
  PushedInOrder
  EndedExactlyWhenSilent
PROPERTIES
  ContextsKeepTheirNames
CHECK_DEADLOCK FALSE
