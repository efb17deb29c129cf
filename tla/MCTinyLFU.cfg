SPECIFICATION ExactSpec
CONSTANTS
  Hashes <- ThreeKeys
  Seeds = {0, 7}
  NumCounters = 11
  Width = 16
  Slot <- XorMask
  HashSpace <- Bits18
  DoorBits = 512
  SetLocs = 7
INVARIANTS RowsAgree AgingBound NeverUnderestimates
