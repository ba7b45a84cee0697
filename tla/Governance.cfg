CONSTANTS
  p1 = p1
  p2 = p2
  ann = ann
  bob = bob
  bot = bot
  Proc <- MCProc
  Person <- MCPerson
  Agent <- MCAgent
  Matches <- MCMatches
  OwnersOf <- MCOwnersOf
  Scenarios <- MCScenarios
  DefaultRules <- MCRules
  Day = 1
  MaxNow = 2
  MaxDeaths = 1
SYMMETRY Swap
SPECIFICATION Spec
INVARIANTS
  TablesAgree
  StatusIsFold
  SentOnce
  ScoreIsFold
  LedgerTrue
  
PROPERTIES
  MergeJustified
  MarkedAfterTried
CHECK_DEADLOCK FALSE
