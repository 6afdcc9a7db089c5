SPECIFICATION NoTiesSpec
CONSTANTS
  Node = {1, 2}
  Cli = {}
  Clip = {blank, x, y}
  Blank = blank
  Unset = unset
  DedupeSize = 2
  SyncLoopWindow = 0
  MinChangeInterval = 0
  WatchBuffer = 1
  MaxTime = 7
  MaxCopies = 2
  Faults = {}
SYMMETRY Symmetry
INVARIANT
  AgreeAtRest
CHECK_DEADLOCK FALSE
