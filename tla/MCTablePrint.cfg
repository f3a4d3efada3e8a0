CONSTANTS
  t1 = t1
  t2 = t2
  t3 = t3
  Tables = {t1, t2, t3}
  Plain = Plain
  Null = Null
  Heaps <- MCHeaps
  MaxDepth = 5
  MaxPrints = 2
SPECIFICATION Spec
INVARIANTS
  TypeOK
  ListIsEndOfPath
  IndexMeansEnclosing
  RepeatsOnlyIfForgotten
  ChainsArePrinted
