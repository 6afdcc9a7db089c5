SPECIFICATION Spec
CONSTANTS
  Node = {1, 2}
  Cli = {}
  Clip = {blank, x, y}
  Blank = blank
  Unset = unset
  DedupeSize = 2
  SyncLoopWindow = 1
  MinChangeInterval = 1
  WatchBuffer = 1
  MaxTime = 2
  MaxCopies = 2
  Faults = {"tool", "link", "loss", "restart"}
SYMMETRY Symmetry
INVARIANTS
  PasteMatchesOS
  NoEcho
CHECK_DEADLOCK FALSE
