CONSTANTS
  p1 = p1
  p2 = p2
  A = A
  B = B
  api = api
  web = web
  Proc <- MCProc
  Replica <- MCReplica
  Node <- MCNode
  Scenarios <- MCScenarios
  MaxNow = 3
  MaxDeaths = 1
SYMMETRY Swap
SPECIFICATION Spec
INVARIANTS
  GraphInv
  PeopleDecide
  ExchangedAgree
  
CHECK_DEADLOCK FALSE
