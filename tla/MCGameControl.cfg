SPECIFICATION FairSpec
CONSTANTS
  Settings <- SomeSettings
  Modes = {0}
  Uninitialized <- SomeMemory
  MaxConnections = 2
  MaxChanges = 3
  MaxRequests = 1
INVARIANTS
  Agreement
  IdeInStep
PROPERTIES
  EveryRequestAnswered
CHECK_DEADLOCK FALSE
