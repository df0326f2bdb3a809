SPECIFICATION Spec
CHECK_DEADLOCK FALSE
CONSTANTS
  Blocks = 4
  Bufs = 2
  Threads = {1, 2}
INVARIANTS
  CallbackFound
