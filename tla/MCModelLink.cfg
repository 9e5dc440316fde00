SPECIFICATION Spec
CONSTANTS
  Threads = {"wire", "main"}
  Senders = {s1}
  MaxSends = 2
  MaxConnections = 2
  MaxBindings = 2
  s1 = s1
INVARIANTS
  TypeOK
  SendSafe
  Handshake
CHECK_DEADLOCK FALSE
