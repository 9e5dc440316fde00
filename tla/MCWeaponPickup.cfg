SPECIFICATION FairSpec
CONSTANTS
  Clients = {c1, c2}
  Server = srv
  Players = {srv, c1, c2}
  Weapons = {w1, w2}
  None = None
  MaxRpc = 1
INVARIANTS
  TypeOK
  PromptIsOwnOverlap
PROPERTIES
  OwnershipPromise
  EventualAgreement
