SPECIFICATION FairSpec

CONSTANTS
  Processes = {1, 2, 3}
  TargetOf <- OneTarget
  SourceOf <- Sources
  StartOf <- Starts
  Tolerance = 2
  FunctionIds = {f}
  None = None
  NoMember = NoMember
  FineResolution = 1
  FineCapacity = 2
  CoarseResolution = 2
  CoarseCapacity = 1
  UpdateBacklog = 1
  MaxWindows = 2
  Resolutions = {"fine", "coarse"}
  Sockets = {1, 2}
  MaxFrames = 3
  MaxComings = 4
  MaxTurns = 2
  MaxEvents = 4

CHECK_DEADLOCK FALSE

INVARIANTS
  OneProcessPerFeed
  NothingCountedTwice

PROPERTIES
  EndsUpFollowing
