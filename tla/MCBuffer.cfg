SPECIFICATION BufferSpec
CONSTANTS
  Slices <- MCSlices
  less <- MCless
  Capacities = {0}
  defaultCapacity = 2
  growLimit = 4
  autoMmapAfter = 8
  maxSz = 10
  chunk = 2
  MaxSlices = 5
INVARIANTS IterateMeetsAll RoomKept
PROPERTY BufferImplementsList
CHECK_DEADLOCK FALSE
