CONSTANTS
  MaxQuads = 6
  MaxOpen = 3
  MaxErrors = 1
  MaxExprs = 1
  Reused = TRUE
SPECIFICATION TSpec
INVARIANT JumpsReachAllQuads
