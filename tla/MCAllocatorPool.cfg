SPECIFICATION PoolFairSpec
CONSTANTS
  Goroutines = {g1, g2}
  NoOne = NoOne
  MaxRefs = 2
  NewSizes = {2}
  Sizes = {5}
  AlignedSizes = {2}
  MaxRequest = 5
  MinPage = 2
  MaxAlloc = 8
  MaxBuffers = 3
  PosWord = 32
  NodeAlign = 1
  MaxCalls = 5
  PoolSize = 1
  TrimMax = 7
  MaxGets = 2
INVARIANTS NoOverlap HeldIntact NoCarry NoLeak
PROPERTY PoolCallsReturn
CHECK_DEADLOCK FALSE
