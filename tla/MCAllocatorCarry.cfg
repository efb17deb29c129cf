SPECIFICATION PoolSpec
CONSTANTS
  Goroutines = {g1, g2, g3}
  NoOne = NoOne
  MaxRefs = 1
  NewSizes = {2}
  Sizes = {2}
  AlignedSizes = {}
  MaxRequest = 2
  MinPage = 2
  MaxAlloc = 2
  MaxBuffers = 3
  PosWord = 8
  NodeAlign = 1
  MaxCalls = 5
  PoolSize = 1
  TrimMax = 7
  MaxGets = 2
INVARIANT HeldIntact
CHECK_DEADLOCK FALSE
