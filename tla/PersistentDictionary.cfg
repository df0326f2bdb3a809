SPECIFICATION Spec
CHECK_DEADLOCK FALSE
CONSTANTS
  k1 = k1
  k2 = k2
  v1 = v1
  v2 = v2
  Nothing = nothing
  Short = short
  Keys = {k1, k2}
  Vals = {v1, v2}
  Interval = 2
  MaxOps = 4
  MaxCrashes = 2
SYMMETRY Symmetry
INVARIANTS
  LogExplains
  Openable
  Survives
