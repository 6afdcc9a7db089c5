SPECIFICATION FairRunningSpec
CONSTANTS
  Node = {1, 2}
  Cli = {}
  Clip = {blank, x, y}
  Blank = blank
  Unset = unset
  DedupeSize = 2
  SyncLoopWindow = 1
  MinChangeInterval = 1
  WatchBuffer = 1
  MaxTime = 3
  MaxCopies = 2
  Faults = {}
PROPERTIES
  NewestWins
CHECK_DEADLOCK FALSE
