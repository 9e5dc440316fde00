SPECIFICATION PropertyFairSpec
CONSTANTS
  Values = {a, b, c}
  Default = a
  MaxSets = 5
  a = a
  b = b
  c = c
INVARIANTS
  PropertyTypeOK
  Agreement
  LastWord
PROPERTIES
  Convergence
CHECK_DEADLOCK FALSE
