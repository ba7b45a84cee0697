SPECIFICATION MCSpec
CONSTANTS
  Content = {plain, revised, secret}
  Start = plain
  Blocked = {secret}
  Branch = {main, idea}
  Main = main
  Exploration = {idea}
  NoBranch = none
  Cli = {cmd}
  Agent = {agent}
  MaxEdits = 2
  MaxCommands = 2
  MaxCrashes = 1
  PairContent = {plain, secret}
  PairEdits = 2
  PairCommands = 1
CHECK_DEADLOCK FALSE
INVARIANTS StoreClosed RefsWhole PromotedReachable GatedTree 
