SPECIFICATION ProgramSpec
CHECK_DEADLOCK FALSE
CONSTANTS
  BodyLength = 3
  Vars = {"x", "y"}
  Programs <- MovedPrograms
  Main <- MCMain
  Task <- MCTask
  NoTask <- MCNoTask
  Type = {"int", "void"}
  HardwareConcurrency = 0
INVARIANTS
  SourceStore
