CONSTANTS
  s1 = s1
  s2 = s2
  t1 = t1
  t2 = t2
  true = true
  retval = retval
  Plain = Plain
  None = None
  Stack = {s1}
  Tables = {t1, t2}
  HashKeys = {0}
  BoolKeys = {true}
  HashSize = 1
  Builtins = {"objectcopy"}
  MaxLost = 1
  MaxElements = 2
SPECIFICATION Spec
INVARIANTS
  StackCountAssertHolds
