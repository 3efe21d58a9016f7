SPECIFICATION FairSpec
CONSTANTS
  Ids = {"a", "b"}
  Running <- McRunning
  Scales = {2}
  Texts = {"", "a"}
  NoText = ""
  NamesWith <- McNamesWith
  MaxInputs = 3
  None = None
  max_line = 2
  MaxMessages = 5
  MaxCalls = 4
  Unset = Unset
  Items <- McItems
  Searches = {"x", "y"}
  PageSize = 2
  MaxAsks = 4
  Off = Off
  Defines <- McDefines
  Requires <- McRequires
  MaxDefines = 3
  MaxRequires = 2
  Heap <- McHeap
  Values <- McValues
  Depth = 3
  Words = {"v", "w", "x"}
  MaxWords = 4
INVARIANTS
  MarathonShown
  PanelBalanced
  AlmondGiven
  WindowsShow
  ReportsValues
PROPERTIES
  PanelRestored
  AlmondFails
CHECK_DEADLOCK FALSE
