CONSTANTS
  s1 = s1
  s2 = s2
  t1 = t1
  t2 = t2
  true = true
  retval = retval
  Plain = Plain
  None = None
  Stack = {s1, s2}
  Tables = {t1, t2}
  HashKeys = {0, 1}
  BoolKeys = {true}
  HashSize = 2
  Builtins = {}
  MaxLost = 1
  MaxElements = 2
SYMMETRY MCSymmetry
SPECIFICATION Spec
INVARIANTS
  CountsExact
  CountAssertHolds
PROPERTY ImplementsMemory
