SPECIFICATION WireFairSpec
CONSTANTS
  MaxPackages = 3
  MaxConnections = 3
INVARIANT ForgottenWasRead
CHECK_DEADLOCK FALSE
