SPECIFICATION FairSpec
CONSTANTS
  r1 = r1
  Remote = {r1}
  Addr = {a1}
  Serves <- OneNode
  InitJoin = {a1}
  Listening = TRUE
  MaxSpawns = 1
  Conn = {c1, c2}
  None = None
  Inbound = Inbound
  MayStop = TRUE
INVARIANTS
  NoDeadEntry
  HandlersOwnSlots
  NoSelfDeadlock
  StopClosesAll
  OrderlyStop
PROPERTIES
  ImplementsPresence
  Reconnects
  StopReturnsOrderly
CHECK_DEADLOCK FALSE
