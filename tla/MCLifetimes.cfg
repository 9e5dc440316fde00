SPECIFICATION FairSpec
CONSTANTS
  MaxChanges = 3
INVARIANTS
  ActionsAccounted
  EndsWithRoot
PROPERTIES
  ViewPromise
  EverythingEnds
CHECK_DEADLOCK FALSE
