CONSTANTS
  Word = 64
  StackSize = 28
  Globals = 3
  CodeSize <- MCCodeSize
  Code <- MCCode
  LocalSize <- MCLocalSize
  Owner <- MCOwner
  DataCells <- MCDataCells
SPECIFICATION Spec
INVARIANT EnvAssertHolds
