SPECIFICATION Spec
CONSTANTS
  x = x
  y = y
  Names = {x, y}
  MaxSymbols = 4
  MaxDepth = 4
  MaxBlocks = 4
SYMMETRY NameSymmetry
INVARIANTS TypeOK PlaceIsKnown PlacesDistinct LocalsFit NamesResolve
