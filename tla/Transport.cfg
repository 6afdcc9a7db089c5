SPECIFICATION FairSpec
CONSTANTS
  Session = {s1, s2}
  Client = {a, b}
  Host = host
  SameSecret = {a}
  None = none
  ReadLimit = 1
  MaxMessages = 2
  MaxStopped = 1
INVARIANTS
  Agreed
  HandshakeMoves
  CloseCloses
PROPERTIES
  NoGaps
  AcceptGoesOn
CHECK_DEADLOCK FALSE
