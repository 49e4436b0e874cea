SPECIFICATION FairSpec
CONSTANTS
  NoReport = NoReport
  NoImage = NoImage
  r1 = r1
  r2 = r2
  clean = clean
  late = late
  fixable = fixable
  Runs = {r1, r2}
  Images = {clean, late, fixable}
  TrivyOf <- MCTrivyOf
  RegistryOf <- MCRegistryOf
  Builds <- MCBuilds
  Faults <- MCFaults
  Setups <- MCSetups
  MaxAttempts = 2
CHECK_DEADLOCK FALSE
INVARIANT
  TypeOK
  OnlyGatedImages
  OutageIsSeen
PROPERTY
  PipelineEnds
