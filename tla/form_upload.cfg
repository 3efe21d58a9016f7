SPECIFICATION FairSpec
CONSTANTS
  NONE = NONE
  Elements = {1, 2, 3, 4, 5, 6, 7}
  Name <- McName
  Type <- McType
  Initial <- McInitial
  Uploads = {1, 2}
  OptionSets <- McOptionSets
  Browsers <- McBrowsers
  MaxDomChecks = 2
  MaxEdits = 1
INVARIANTS
  OneAnswer
  DeferredAgrees
  RequestsCounted
  SentAsValidated
PROPERTIES
  ErrorIsFinal
  UploadEnds
CHECK_DEADLOCK FALSE
