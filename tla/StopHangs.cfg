SPECIFICATION FairSpec
CONSTANTS
  r1 = r1
  Remote = {r1}
  Addr = {a1}
  Serves <- OneNode
  InitJoin = {a1}
  Listening = FALSE
  MaxSpawns = 1
  Conn = {c1, c2}
  None = None
  Inbound = Inbound
  MayStop = TRUE
PROPERTIES
  StopReturns
CHECK_DEADLOCK FALSE
