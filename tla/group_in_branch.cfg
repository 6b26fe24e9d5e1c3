SPECIFICATION Spec
CHECK_DEADLOCK FALSE
CONSTANTS
  BodyLength = 4
  BranchLength = 3
  PairLength = 1
  Programs <- GroupPrograms
INVARIANTS
  BlocksTerminated
