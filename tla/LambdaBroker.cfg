SPECIFICATION Spec
CONSTANTS
  alice = alice
  bob = bob
  mallory = mallory
  repo = repo
  r1 = r1
  Users = {alice, bob, mallory}
  NoUser = NoUser
  Repos = {repo}
  ApproverMap <- MCApproverMap
  MinSeconds = 1
  DefaultSeconds = 1
  MaxSeconds = 2
  Requests = {r1}
  RepoOf <- MCRepoOf
  RequestedSeconds = {0}
  Clicks = {c1, c2}
  Workers = {w1}
  Faults = {"slack", "github", "db", "enqueue", "drop", "crash"}
  MaxTime = 1
SYMMETRY Symmetry
CHECK_DEADLOCK FALSE
INVARIANTS
  TypeOK
  DocumentMatchesItem
  OneClickWins
  PublishedOnceAndTrue
  CIToldTheTruth
  CIFindsItsRequest
  ClaimSurvivesToFinalize
PROPERTIES
  ClaimIsBinding
  RolledBackStaysGone
  ImplementsApproval
