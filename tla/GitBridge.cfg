CONSTANTS
  p1 = p1
  p2 = p2
  origin = origin
  mirror = mirror
  Proc <- MCProc
  Repo <- MCRepo
  Branch <- MCBranch
  Main = "main"
  Scenarios <- MCScenarios
  MaxDeaths = 1
SPECIFICATION FairSpec
INVARIANTS
  BridgeInv
  ImportsOnce
  
PROPERTIES
  
  WatcherFollows

CHECK_DEADLOCK FALSE
