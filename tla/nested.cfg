SPECIFICATION FairSpec
CHECK_DEADLOCK FALSE
CONSTANTS
  m = m
  a = a
  b = b
  c = c
  d = d
  e = e
  Task = {m, a, b, c, d, e}
  NoTask = NoTask
  Type = {"int"}
  HardwareConcurrency = 0
  Main = m
  Children <- NestedProgram
  JoinsAll = TRUE
INVARIANTS
  TypeOK
  SlotAccounting
  WorkersBounded
  SingleOwner
  NoAbort
  ReconOwn
  EnvAlive
  QuiescentExit
PROPERTIES
  Termination
  DestroyReturns
  ImplementsForkJoin
