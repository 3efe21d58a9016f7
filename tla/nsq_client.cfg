SPECIFICATION FairSpec
CONSTANTS
  Callers = {p1, p2}
  NULL = NULL
  Poolsize = 2
  connectionRetries = 2
  IsConsumer = FALSE
  WithClose = TRUE
  MaxDrops = 2
  MaxConns = 4
INVARIANTS
  ConnectionsOk
PROPERTIES
  Reconnects
CHECK_DEADLOCK FALSE
