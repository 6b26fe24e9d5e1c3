SPECIFICATION Spec
CHECK_DEADLOCK FALSE
CONSTANTS
  Thread = {"t1", "t2"}
  NoThread = "none"
  LongBits = 6
  IntBits = 4
  Arena = 24
  Counts <- MCCounts
  Numbers = {7, 8}
  MaxCalls = 2
INVARIANTS
  NeverGarbled
  ElementsDisjoint
PROPERTIES
  CallsReturn
