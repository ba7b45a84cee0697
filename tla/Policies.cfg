CONSTANTS
  a = a
  b = b
  user = user
  admin = admin
  server = server
  cfg = cfg
  src = src
  plain = plain
  key = key
  strict = strict
  narrow = narrow
  warns = warns
  typo = typo
  Gone = Gone
  Absent = Absent
  Torn = Torn
  Replica <- MCReplica
  Path <- MCPath
  Content <- MCContent
  Name = {1, 2}
  Text <- MCText
  NameOf <- MCNameOf
  Wording <- MCWording
  Proc <- MCProc
  Home <- MCHome
  May <- MCMay
  Worked = {a}
  Agents = {b}
  FirstTree <- MCFirstTree
  FirstPolicies <- MCFirstPolicies
  MaxChangesets = 2
  MaxEdits = 1
  MaxCommands = 4
  MaxDeaths = 1
SPECIFICATION MCSpec
CHECK_DEADLOCK FALSE
INVARIANTS PassedIsClean 
 
