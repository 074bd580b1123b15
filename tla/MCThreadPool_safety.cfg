CONSTANTS
  main = main
  host = host
  w1 = w1
  w2 = w2
  t1 = t1
  t2 = t2
  t3 = t3
  None = None
  Clients = {main, host}
  Workers = {w1, w2}
  Tasks = {t1, t2, t3}
  Kept = {t1, t3}
  Parent <- NestedParent
  Waiters = {host}
  Halters = {host}
  Spurious = {main, w1, w2}
SYMMETRY Symmetry
SPECIFICATION Spec
INVARIANTS TypeOK NoUseAfterFree RefsExact BoxFollowsHandle JoinSeesOutcome ShutdownRunsAccepted
PROPERTY ImplementsLifecycle
CHECK_DEADLOCK FALSE
