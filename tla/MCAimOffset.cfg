SPECIFICATION OffsetFairSpec
CONSTANT Grid = 30
INVARIANTS
  AnglesRight
PROPERTIES
  TurnSettles
