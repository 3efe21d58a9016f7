SPECIFICATION McSafeSpec
CONSTANTS
  Parts = {"connection", "batches", "consumers", "cache"}
  Producers = {p1, p2, p3}
  NONE = NONE
  Identified = TRUE
  MaxCommands = 3
  MaxHeartbeats = 1
  Threads = {p1, p2}
  NIL = NIL
  NULL = NULL
  NoItem = NoItem
  size <- Sizes
  maxMessages = 2
  ServerMax = 4
  MaxControls = 2
  Groups = {g1, g2}
  Queues = {g2}
  Listeners = {p1, p2}
  Messages = {m1}
  Retries <- SomeRetries
  MaxConsumers = 2
  MaxFailures = 2
  MaxAttempts = 4
  Hosts = {p1, p2}
  MaxResends = 1
  Interval = 1
  MaxWrites = 2
  MaxFaults = 0
SYMMETRY Symmetry
INVARIANTS
  ReportsTheTruth
  OneRequestInFlight
  ExactlyOnce
  BatchBounded
  FlushFindsAll
  DeliveryOk
  CachesOk
CHECK_DEADLOCK FALSE
