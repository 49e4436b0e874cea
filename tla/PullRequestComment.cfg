SPECIFICATION Spec
CONSTANTS
  NoReport = NoReport
  Absent = Absent
  Trees <- MCTrees
  Base <- MCBase
  SourcePolicy <- MCPolicy
  ImagePolicy <- ExpectedPolicy
  Faults = {}
  MaxRuns = 2
  MaxFaults = 0
CHECK_DEADLOCK FALSE
INVARIANT
  CommentIsHonest
