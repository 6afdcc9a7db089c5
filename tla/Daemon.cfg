SPECIFICATION Spec
CONSTANTS
  Server = {d1, d2, d3}
  Full = {d1, d2}
  Request = {r1, r2}
  Nobody = nobody
  Stale = stale
  MaxSettings = 1
  MaxStarts = 2
INVARIANTS
  TypeOK
  ReadYourWrites
  SocketIsOurs
  CleanStop
SYMMETRY Symmetry
CHECK_DEADLOCK FALSE
