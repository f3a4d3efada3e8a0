CONSTANTS
  s1 = s1
  s2 = s2
  t1 = t1
  t2 = t2
  true = true
  retval = retval
  Plain = Plain
  None = None
  Stack = {s1, s2}
  Tables = {t1, t2}
  HashKeys = {0}
  BoolKeys = {}
  HashSize = 1
  Builtins = {"objectcopy", "objectmemberkeys", "argument"}
  MaxLost = 0
  MaxElements = 2
SPECIFICATION FairSpec
PROPERTY ClearingEnds
INVARIANTS
  TypeOK
  CountsExact
  SourcesRemain
