SPECIFICATION FairSpec
CONSTANTS
  mallory = mallory
  repo = repo
  Users = {alice, mallory}
  NoUser = NoUser
  Repos = {repo}
  ApproverMap <- MCApproverMap
  MinSeconds = 1
  DefaultSeconds = 1
  MaxSeconds = 2
  Requests = {r1}
  RepoOf <- MCRepoOf
  RequestedSeconds = {0}
  Clicks = {c1, c2, c3}
  Faults = {"post", "update"}
  MaxTime = 1
CHECK_DEADLOCK FALSE
PROPERTIES
  CILearnsTheEnd
