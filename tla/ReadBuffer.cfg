SPECIFICATION FairSpec
CONSTANTS
  a = a
  b = b
  nl = nl
  MaxLen = 3
  Inputs <- AllInputs
  Delimiter = nl
  Counts = {0, 2}
  Chunk = 2
  None = None
INVARIANTS
  EofExact
  NothingServable
PROPERTIES
  ImplementsByteStream
  ReadsAreAnswered
