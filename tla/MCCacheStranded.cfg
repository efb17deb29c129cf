SPECIFICATION Spec
CONSTANTS
  a = a
  b = b
  h1 = h1
  h2 = h2
  Clients = {c1}
  NoClient = NoClient
  Keys = {a, b}
  Hashes = {h1, h2}
  KeyHash <- DistinctHash
  ConflictHash <- DistinctConflict
  Costs = {1}
  MaxCosts = {}
  InitMaxCost = 1
  LfuSample = 2
  MaxHits = 1
  WithMetrics = FALSE
  MetricsWord = 16
  BucketDuration = 1
  ShouldUpdate <- NilShouldUpdate
  Coster <- NilCoster
  InternalCost = 0
  TTLs = {1}
  SetBufSize = 1
  Ops = {"Set"}
  MaxCalls = 3
  MaxTime = 3
SYMMETRY Symmetry
CHECK_DEADLOCK FALSE
INVARIANT NoStrandedItem
