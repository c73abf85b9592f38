SPECIFICATION FairSpec

CONSTANTS
  WordBits = 64
  SubBits = 4
  MaxRawSamples = 2
  Functions = {f, g}
  Pids = {p, q}
  None = None
  Quantum = 2
  MaxRuns = 2
  MaxCalls = 2
  MaxElapsed = 1
  MaxFaults = 2
  MaxDelta = 600

CHECK_DEADLOCK FALSE

INVARIANTS
  NeverMoreThanHappened
  NamedOnceOnEveryConnection

PROPERTIES
  WaitsOut
