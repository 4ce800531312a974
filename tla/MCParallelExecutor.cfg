\* Interruptions and failed saves anywhere in runs of three ACs, two at a time.
SPECIFICATION FairSpec
CONSTANTS
  Inputs <- MCInputs
  MaxConcurrent = 2
  MaxDepth = 1
  MaxSubAcs = 2
  Misread = {4}
  MaxFaults = 3
INVARIANTS
  TypeOK
  RunsAfterItsDependencies
  RollbackSuffices
  NothingIsRedone
  ResultsAreEarned
PROPERTY
  RunReturns
CHECK_DEADLOCK FALSE
