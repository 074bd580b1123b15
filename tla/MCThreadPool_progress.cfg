CONSTANTS
  main = main
  host = host
  w1 = w1
  w2 = w2
  t1 = t1
  t2 = t2
  t3 = t3
  None = None
  Clients = {main}
  Workers = {w1, w2}
  Tasks = {t1, t2, t3}
  Kept = {t1, t2, t3}
  Parent <- NestedParent
  Waiters = {}
  Halters = {main}
  Spurious = {}
SPECIFICATION FairSpec
PROPERTIES EveryTaskSettles JoinReturns ShutdownReturnsUnlessDozing
CHECK_DEADLOCK FALSE
