SPECIFICATION Spec
CHECK_DEADLOCK FALSE
CONSTANTS
  Depth = 6
  Maxes <- SomeMaxes
INVARIANTS
  PrimesExact
  NoUseAfterDelete
PROPERTIES
  ImplementsRendezvous
  Ends
