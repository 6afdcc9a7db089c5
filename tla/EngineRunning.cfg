SPECIFICATION FairRunningSpec
CONSTANTS
  Node = {1, 2}
  Cli = {"cli"}
  Clip = {blank, x, y}
  Blank = blank
  Unset = unset
  DedupeSize = 2
  SyncLoopWindow = 1
  MinChangeInterval = 1
  WatchBuffer = 1
  MaxTime = 3
  MaxCopies = 2
  Faults = {}
INVARIANTS
  CalmCopiesAgree
  CacheNotAhead
  CalmNewsAccepted
  
PROPERTIES
  ComesToRest
  CalmCopySpreads
CHECK_DEADLOCK FALSE
