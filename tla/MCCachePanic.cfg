SPECIFICATION Spec
CONSTANTS
  a = a
  b = b
  h1 = h1
  h2 = h2
  Clients = {c1, c2}
  NoClient = NoClient
  Keys = {a, b}
  Hashes = {h1, h2}
  KeyHash <- DistinctHash
  ConflictHash <- DistinctConflict
  Costs = {1}
  MaxCosts = {}
  InitMaxCost = 1
  LfuSample = 2
  MaxHits = 1
  WithMetrics = FALSE
  MetricsWord = 16
  BucketDuration = 1
  ShouldUpdate <- NilShouldUpdate
  Coster <- NilCoster
  InternalCost = 0
  TTLs = {0}
  SetBufSize = 1
  Ops = {"Set", "Close"}
  MaxCalls = 2
  MaxTime = 0
SYMMETRY Symmetry
CHECK_DEADLOCK FALSE
INVARIANT NoPanic
