SPECIFICATION PoolFairSpec
CONSTANTS
  Goroutines = {g1}
  NoOne = NoOne
  MaxRefs = 2
  NewSizes = {8}
  Sizes = {5}
  AlignedSizes = {2}
  MaxRequest = 5
  MinPage = 2
  MaxAlloc = 8
  MaxBuffers = 3
  PosWord = 32
  NodeAlign = 1
  MaxCalls = 4
  PoolSize = 1
  TrimMax = 7
  MaxGets = 2
PROPERTY PoolCallsReturn
CHECK_DEADLOCK FALSE
