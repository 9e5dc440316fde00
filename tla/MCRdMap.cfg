SPECIFICATION FairSpec
CONSTANTS
  Keys = {k1, k2}
  Values = {a, b}
  Absent = none
  MaxChanges = 4
  k1 = k1
  k2 = k2
  a = a
  b = b
  none = none
INVARIANTS
  Agreement
  Bookkeeping
PROPERTIES
  Convergence
CHECK_DEADLOCK FALSE
