SPECIFICATION FairSpec
CONSTANTS
  alice = alice
  mallory = mallory
  repo = repo
  Users = {alice, mallory}
  NoUser = NoUser
  Repos = {repo}
  ApproverMap <- MCApproverMap
  MinSeconds = 2
  DefaultSeconds = 2
  MaxSeconds = 2
  Requests = {r1, r2}
  Repository = repo
  Inputs <- MCInputs
  FindingSets <- MCFindingSets
  Interval = 1
  Faults = {"tool", "transport", "cancel"}
  Timeouts = {0, 1}
  MaxLag = 1
  MaxTime = 5
CHECK_DEADLOCK FALSE
INVARIANTS
  TypeOK
  BlockNeedsApproval
  HardBlockNeverAsked
  ToldIsTheEnd
  UntrustedIsFlagged
PROPERTIES
  TimeoutIsFinal
  JobEnds
