SPECIFICATION Spec
CHECK_DEADLOCK FALSE
CONSTANTS
  Names = {"a", "b"}
  FieldNames = {"c", "e", "missing"}
  StructDefs <- MCStructDefs
  Signatures <- MCSignatures
  Admitted = {}
  MaxStack = 2
  MaxPtr = 2
  MaxRecon = 1
INVARIANTS
  TypeOK
  
  DeclaredType
  OperatorsClosed
