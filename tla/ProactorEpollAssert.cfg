SPECIFICATION Spec
CHECK_DEADLOCK FALSE
CONSTANTS
  f1 = f1
  f2 = f2
  d1 = d1
  d2 = d2
  Files = {f1, f2}
  Fds = {d1, d2}
  None = None
  PollerType = "epoll"
  Blocking = TRUE
  Cascades = FALSE
  OrderlyExit = FALSE
INVARIANTS
  PollAssert
