CONSTANTS
  MaxQuads = 8
  MaxOpen = 3
  MaxErrors = 0
  MaxExprs = 2
SPECIFICATION Spec
INVARIANTS
  TypeOK
  JumpsLand
