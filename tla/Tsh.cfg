SPECIFICATION FairSpec
CHECK_DEADLOCK FALSE
CONSTANTS
  MaxPids = 2
  MaxJobs = 2
  Worlds <- AllWorlds
INVARIANTS
  ListMatchesChildren
  StatesAgree
  OneForeground
PROPERTIES
  ZombiesAreReaped
  PromptComesBack
