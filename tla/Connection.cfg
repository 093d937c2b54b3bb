SPECIFICATION Spec
CHECK_DEADLOCK FALSE
CONSTANTS
  Clients = {c1}
  MaxConnections = 2
  MaxRequests = 1
  SlowWait = TRUE
  c1 = c1
INVARIANTS
  TypeOK
  MarkIsServed
  StateIsServed
PROPERTIES
  DisconnectNoticed
  ShutdownReturns
