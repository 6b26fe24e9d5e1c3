SPECIFICATION ProgramSpec
CHECK_DEADLOCK FALSE
CONSTANTS
  BodyLength = 4
  Vars = {"x", "y"}
  Programs <- MergedPrograms
  Main <- MCMain
  Task <- MCTask
  NoTask <- MCNoTask
  Type = {"int", "void"}
  HardwareConcurrency = 0
INVARIANTS
  SourceStore
