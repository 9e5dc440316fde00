SPECIFICATION WireFairSpec
CONSTANTS
  MaxPackages = 3
  MaxConnections = 3
INVARIANTS
  WireTypeOK
  SenderSafe
  ReaderSafe
PROPERTIES
  SenderPromise
  SenderLive
  AllAcknowledged
CHECK_DEADLOCK FALSE
