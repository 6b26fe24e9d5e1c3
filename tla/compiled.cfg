SPECIFICATION ProgramFairSpec
CHECK_DEADLOCK FALSE
CONSTANTS
  BodyLength = 4
  Vars = {"x", "y"}
  Programs <- CompiledPrograms
  Main <- MCMain
  Task <- MCTask
  NoTask <- MCNoTask
  Type = {"int", "void"}
  HardwareConcurrency = 0
INVARIANTS
  SourceStore
  SourceOutput
  NeverAborts
  NothingLeft
PROPERTIES
  Ends
