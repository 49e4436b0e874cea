SPECIFICATION FairSpec
CONSTANTS
  alice = alice
  bob = bob
  mallory = mallory
  repo = repo
  r1 = r1
  Users = {alice}
  NoUser = NoUser
  Repos = {repo}
  ApproverMap <- MCApproverMap
  MinSeconds = 1
  DefaultSeconds = 1
  MaxSeconds = 2
  Requests = {r1}
  RepoOf <- MCRepoOf
  RequestedSeconds = {0}
  Clicks = {c1, c2}
  Workers = {w1}
  Faults = {"slack", "enqueue"}
  MaxTime = 1
CHECK_DEADLOCK FALSE
PROPERTIES
  DecisionIsAudited
  CILearnsTheEnd
