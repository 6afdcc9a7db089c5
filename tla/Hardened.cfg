SPECIFICATION FairSpec
CONSTANTS
  Caller = {c1, c2}
  Op = {"read", "write"}
  Sizes = {0, 1, 2}
  MaxTokens = 1
  FailureLimit = 2
  MaxAttempts = 2
  MaxCalls = 3
  MaxFlips = 2
INVARIANTS
  TypeOK
  FallbackCounts
  ExtremesRight
  RecoveryComes
PROPERTY
  Recovers
CHECK_DEADLOCK FALSE
