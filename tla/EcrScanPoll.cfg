SPECIFICATION FairSpec
CONSTANTS
  NoReport = NoReport
  Digest = Digest
  Other = Other
  Truths <- MCTruths
  News <- MCNews
  Policies <- MCPolicies
  MaxAttempts = 4
  Delay = 1
  Settle = 2
  Lag = 1
  Faults = {"transient", "denied", "json", "garbled", "moved", "drift", "unsupported", "scan"}
  MaxTime = 4
CHECK_DEADLOCK FALSE
INVARIANT
  TypeOK
PROPERTIES
  VerdictIsEarned
  CleanIsTrue
  PollEnds
