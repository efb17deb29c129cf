SPECIFICATION TreeSpec
CONSTANTS
  Keys = {1, 2, 3, 4, 5}
  absoluteMax = 6
  Vals = {1, 2}
  Limits = {2}
  maxKeys = 3
  MaxPages = 14
  pageSize = 4
  padding = 1
  minSize = 20
  growLimit = 28
PROPERTY DeleteBelowDeletesAll
CHECK_DEADLOCK FALSE
