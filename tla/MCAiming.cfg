SPECIFICATION FairSpec
CONSTANTS
  Clients = {c1, c2}
  Server = srv
  Owner = c1
  MaxRpc = 3
  MaxInFlight = 2
INVARIANTS
  TypeOK
  QuiescentAgreement
PROPERTIES
  Convergence
