CONSTANTS
  main = main
  other = other
  t1 = t1
  t2 = t2
  t3 = t3
  None = None
  Threads = {main, other}
  Tasks = {t1, t2, t3}
  Kept = {t1, t2, t3}
  Parent <- SplitParent
  Halters = {main}
SPECIFICATION FairSpec
INVARIANTS HandlesSound AwaitAbandonsOnlyOthers
PROPERTIES ImplementsLifecycle AwaitReturns
CHECK_DEADLOCK FALSE
