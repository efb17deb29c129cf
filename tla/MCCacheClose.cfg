SPECIFICATION Spec
CONSTANTS
  a = a
  b = b
  h1 = h1
  h2 = h2
  Clients = {c1}
  NoClient = NoClient
  Keys = {a, b}
  Hashes = {h1, h2}
  KeyHash <- DistinctHash
  ConflictHash <- DistinctConflict
  Costs = {0, 1}
  MaxCosts = {1}
  InitMaxCost = 2
  LfuSample = 2
  MaxHits = 1
  WithMetrics = TRUE
  MetricsWord = 4
  BucketDuration = 1
  ShouldUpdate <- NilShouldUpdate
  Coster <- TwoCoster
  InternalCost = 0
  TTLs = {0}
  SetBufSize = 1
  Ops = {"Set", "Del", "Wait", "UpdateMaxCost", "Get", "Clear", "Close"}
  MaxCalls = 4
  MaxTime = 0
SYMMETRY Symmetry
CHECK_DEADLOCK FALSE
INVARIANTS MetricsBalance CloseFreesAll
