SPECIFICATION Spec
CONSTANTS
  Remote = {r1, r2}
  Subscriber = {s1, s2}
  ChannelSize = 2
  MaxEvents = 2
  BufferSize = 3
  NoEvent = NoEvent
  Event <- TopologyEvents
SYMMETRY Symmetry
INVARIANTS
  InTurn
  NothingMissed
PROPERTIES
  ImplementsRecent
CHECK_DEADLOCK FALSE
