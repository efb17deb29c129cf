SPECIFICATION FairSpec
CONSTANTS
  a = a
  b = b
  h1 = h1
  h2 = h2
  Clients = {c1, c2}
  NoClient = NoClient
  Keys = {a}
  Hashes = {h1}
  KeyHash <- OneHash
  ConflictHash <- OneConflict
  Costs = {1}
  MaxCosts = {}
  InitMaxCost = 1
  LfuSample = 2
  MaxHits = 1
  WithMetrics = FALSE
  MetricsWord = 16
  BucketDuration = 1
  ShouldUpdate <- NilShouldUpdate
  Coster <- NilCoster
  InternalCost = 0
  TTLs = {0}
  SetBufSize = 2
  Ops = {"Set", "Del", "Clear", "Wait"}
  MaxCalls = 4
  MaxTime = 0
CHECK_DEADLOCK FALSE
INVARIANTS ValuesFreedOnce CoverInv
PROPERTY CallsReturn
