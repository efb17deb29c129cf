SPECIFICATION GetFairSpec
CONSTANTS
  Clients = {c1, c2}
  BufferItems = 2
  ItemsChSize = 1
  MaxGets = 5
INVARIANTS GetTypeOK NoGetCountedTwice GetsAccounted
PROPERTIES BatchStable KeptCounted CloseReturns
CHECK_DEADLOCK FALSE
