CONSTANTS
  MaxQuads = 5
  MaxOpen = 3
  MaxErrors = 1
  MaxExprs = 1
  Reused = TRUE
SPECIFICATION TSpec
INVARIANTS
  BreakOnlyInLoops
  PopsNeverFail
  TTypeOK
  JumpsReachQuads
  FunctionsClosed
  CodeWellFormed
  CrashExplained
