SPECIFICATION FairSpec
CHECK_DEADLOCK FALSE
CONSTANTS
  r1 = r1
  r2 = r2
  w1 = w1
  w2 = w2
  Readers = {r1, r2}
  Writers = {w1, w2}
  Rounds = 2
  MaxWakeups = 1
  NoOne = NoOne
INVARIANTS
  NothingLost
  BarrierSound
PROPERTIES
  ImplementsRWSpec
  Terminates
