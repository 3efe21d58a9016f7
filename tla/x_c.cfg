SPECIFICATION McFairSpec
CONSTANTS
  Parts = {"cache"}
  Producers = {p1, p2, p3}
  NONE = NONE
  Identified = TRUE
  MaxCommands = 3
  MaxHeartbeats = 1
  Threads = {p1, p2}
  NIL = NIL
  NULL = NULL
  NoItem = NoItem
  size <- Sizes
  maxMessages = 2
  ServerMax = 4
  MaxControls = 2
  Groups = {g1, g2}
  Queues = {g2}
  Listeners = {p1, p2}
  Messages = {m1}
  Retries = {0, 1}
  MaxConsumers = 2
  MaxFailures = 1
  MaxAttempts = 3
  Hosts = {p1, p2}
  MaxResends = 1
  Interval = 2
  MaxWrites = 1
  MaxFaults = 1
PROPERTIES
  AllFinished
  EventuallyCoherent
CHECK_DEADLOCK FALSE
