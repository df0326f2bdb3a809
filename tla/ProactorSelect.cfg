SPECIFICATION FairSpec
CHECK_DEADLOCK FALSE
CONSTANTS
  f1 = f1
  f2 = f2
  f3 = f3
  d1 = d1
  d2 = d2
  Files = {f1, f2, f3}
  Fds = {d1, d2}
  None = None
  PollerType = "select"
  Blocking = FALSE
  Cascades = TRUE
  OrderlyExit = TRUE
INVARIANTS
  NoStaleDispatch
  DestroyedOnce
  HeldAreLive
  NoLeakAtExit
PROPERTIES
  DestroyedAreClosed
