SPECIFICATION Spec
CHECK_DEADLOCK FALSE
CONSTANTS
  Clients = {c1}
  MaxConnections = 1
  MaxRequests = 2
  SlowWait = FALSE
  c1 = c1
PROPERTY ThreadsTerminate
