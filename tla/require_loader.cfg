SPECIFICATION FairSpec
CONSTANTS
  NONE = NONE
  pkgs <- McPkgs
  map <- McMap
  starMap <- McStarMap
  Ids <- McIds
  Site <- McSite
  Kind <- McKind
  DepNames <- McDepNames
  Nested <- McNested
  Throwing <- McThrowing
  Requires = {1, 2}
  AskedNames <- McAsked
  Errback = {1, 2}
  Paths <- McPaths
  Shim <- McShim
  Browsers = {TRUE, FALSE}
  MaxExpire = 1
  MaxDepth = 30
INVARIANTS
  BookkeepingExact
  AnswerExclusive
  OneModulePerScript
PROPERTIES
  LoaderPromise
  AllCalled
CHECK_DEADLOCK FALSE
