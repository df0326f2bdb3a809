SPECIFICATION Spec
CHECK_DEADLOCK FALSE
CONSTANTS
  MaxTransfers = 3
  FileLists <- Lists
  Weathers <- Weather
CONSTRAINT Histories
INVARIANTS
  ReceivedWhole
  OutcomesAgree
PROPERTIES
  EverythingSettles
