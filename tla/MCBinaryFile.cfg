CONSTANTS
  Literals <- MCLiterals
  Libs = {1}
  Names = {1}
  MaxTokens = 5
  MaxOpen = 3
  MaxErrors = 1
  StackSize = 4
SPECIFICATION Spec
INVARIANTS
  TypeOK
  FileMeansQuads
  GlobalsReserved
PROPERTIES
  OwnElements
  ThisOfMembers
