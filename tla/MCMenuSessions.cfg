SPECIFICATION MenuFairSpec
CONSTANT MaxDelegates = 2
INVARIANTS
  MenuTypeOK
  CompletionIsHeard
PROPERTIES
  ButtonsReturn
