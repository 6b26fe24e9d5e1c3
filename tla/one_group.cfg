SPECIFICATION Spec
CHECK_DEADLOCK FALSE
CONSTANTS
  BodyLength = 4
  BranchLength = 2
  PairLength = 1
  Programs <- OneGroupPrograms
INVARIANTS
  ReconMatchesSched
  BlocksTerminated
