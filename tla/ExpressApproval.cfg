SPECIFICATION Spec
CONSTANTS
  mallory = mallory
  repo = repo
  Users = {alice, bob, mallory}
  NoUser = NoUser
  Repos = {repo}
  ApproverMap <- MCApproverMap
  MinSeconds = 1
  DefaultSeconds = 1
  MaxSeconds = 2
  Requests = {r1, r2}
  RepoOf <- MCRepoOf
  RequestedSeconds = {0}
  Clicks = {c1, c2}
  Faults = {"post", "update", "github", "crash"}
  MaxTime = 1
CHECK_DEADLOCK FALSE
SYMMETRY Symmetry
INVARIANTS
  ShownIsStored
  ClaimSurvivesToFinalize
PROPERTY
  DiskImplementsApproval
