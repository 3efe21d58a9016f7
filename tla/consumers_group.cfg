SPECIFICATION McSpec
CONSTANTS
  Parts = {"consumers"}
  Producers = {p1, p2, p3}
  NONE = NONE
  Identified = TRUE
  MaxCommands = 3
  MaxHeartbeats = 1
  Threads = {p1, p2}
  NIL = NIL
  NULL = NULL
  NoItem = NoItem
  size <- Sizes
  maxMessages = 2
  ServerMax = 4
  MaxControls = 2
  Groups = {g2}
  Queues = {g2}
  Listeners = {p1, p2}
  Messages = {m1}
  Retries <- SomeRetries
  MaxConsumers = 2
  MaxFailures = 0
  MaxAttempts = 4
  Hosts = {p1, p2}
  MaxResends = 1
  Interval = 1
  MaxWrites = 2
  MaxFaults = 0
INVARIANTS
  GroupOnce
CHECK_DEADLOCK FALSE
