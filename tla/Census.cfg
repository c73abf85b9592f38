SPECIFICATION Spec

CONSTANTS
  WordBits = 64
  SubBits = 4
  MaxRawSamples = 2
  Threads = {t1, t2}
  Tokens = {v1, v2, v3}
  Sizes = {7, 1024}
  NoBucket = NoBucket
  Free = Free
  Idle = Idle
  MaxOverlapped = 4
  MaxValue = 3000

SYMMETRY Symmetric

CHECK_DEADLOCK FALSE

INVARIANTS
  CountersMatchTheTokens
  RegisteredOnceAndLanded
  DriftIsWhatOverlapped
