SPECIFICATION Spec
CONSTANTS
  NoReport = NoReport
  Absent = Absent
  Trees <- MCTrees
  Base <- MCBase
  SourcePolicy <- MCPolicy
  ImagePolicy <- ExpectedPolicy
  Faults = {"scanner", "crash", "build", "http", "history", "mode", "overlap"}
  MaxRuns = 2
  MaxFaults = 1
CHECK_DEADLOCK FALSE
INVARIANTS
  TypeOK
  VerdictIsDeserved
  GreenIsEarned
  CommentIsCurrent
