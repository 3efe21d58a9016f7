SPECIFICATION FairSpec
CONSTANTS
  NONE = NONE
  Tests = {1, 2, 3, 4, 5}
  Late = {5}
  Spares = {6}
  Module <- McModule
  Body <- McBody
  Matching = {1, 2, 3, 4, 5}
  Inverted = FALSE
  OnlyModule = NONE
  testTimeout = TRUE
  Failed <- McFailed
  MaxYields = 1
INVARIANTS
  ReportJust
  RunsInOrder
PROPERTIES
  DoneMeansAll
  AllFinish
CHECK_DEADLOCK FALSE
