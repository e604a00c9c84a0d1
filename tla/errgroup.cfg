\* Two groups that share a limiter (internal/errgroup).
SPECIFICATION GroupSpec
CONSTANTS
  t1 = t1
  t2 = t2
  t3 = t3
  u1 = u1
  g1 = g1
  g2 = g2
  Groups = {g1, g2}
  Tasks = {t1, t2, t3, u1}
  GroupOf <- MCGroupOf
  Limit = 2
  None = None
  Main = Main
INVARIANTS
  LimitKept
  WaitTells
PROPERTIES
  WaitReturns
CHECK_DEADLOCK FALSE
