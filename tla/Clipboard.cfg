SPECIFICATION FairWatchSpec
CONSTANTS
  Content = {blank, text}
  Blank = blank
  Unfit = unfit
  Failed = failed
  Installed <- X11Tools
  Strategies <- AllStrategies
  Writer = {w1, w2}
  ChannelSize = 1
  Hops = 1
  MaxCopies = 2
  MaxWrites = 2
  MaxFailures = 1
INVARIANTS
  WatchTypeOK
  OpenWhileListed
  CaughtUp
PROPERTIES
  CatchesUp
  ClosesOnCancel
CHECK_DEADLOCK FALSE
