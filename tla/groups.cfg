SPECIFICATION Spec
CHECK_DEADLOCK FALSE
CONSTANTS
  BodyLength = 3
  BranchLength = 3
  PairLength = 3
  Programs <- SomePrograms
INVARIANTS
  TypeOK
  CommittedBeforeInline
  GroupReconciled
  GroupsClosed
