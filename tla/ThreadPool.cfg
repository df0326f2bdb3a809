SPECIFICATION FairSpec
CHECK_DEADLOCK FALSE
CONSTANTS
  t1 = t1
  t2 = t2
  Main = main
  Threads = {t1, t2}
  Sizes = {1, 2}
  MaxTasks = 4
  MaxBatches = 2
INVARIANTS
  NoEmptyPop
  DrainedAtExit
PROPERTIES
  ImplementsPool
  JoinReturns
  DestructorReturns
