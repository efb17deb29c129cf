SPECIFICATION FairPolicySpec
CONSTANTS
  Hashes = {h1, h2, h3, h4}
  Costs = {1, 3}
  MaxCosts = {2}
  InitMaxCost = 3
  LfuSample = 5
  MaxHits = 2
  WithMetrics = FALSE
  MetricsWord = 16
INVARIANTS PolicyTypeOK UsedIsTotal NoNeedlessEviction
PROPERTIES CapacityKept AddReturns
