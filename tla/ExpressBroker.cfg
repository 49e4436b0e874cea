SPECIFICATION Spec
CONSTANTS
  mallory = mallory
  repo = repo
  Users = {alice, bob, mallory}
  NoUser = NoUser
  Repos = {repo}
  ApproverMap <- MCApproverMap
  MinSeconds = 1
  DefaultSeconds = 1
  MaxSeconds = 2
  Requests = {r1}
  RepoOf <- MCRepoOf
  RequestedSeconds = {0, 2}
  Clicks = {c1, c2, c3}
  Faults = {"post", "lost", "update", "github", "disk", "crash"}
  MaxTime = 2
CHECK_DEADLOCK FALSE
SYMMETRY Symmetry
INVARIANTS
  TypeOK
  CINotMisled
  PublishedIsDurable
  OneClickDecides
  KnownRequestIsDurable
