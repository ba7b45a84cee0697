\* The watcher alone, with failing captures, prunes and restarts.
SPECIFICATION FairSpec
CONSTANTS
  Path = {p, q}
  Content = {a, b}
  Gone = Gone
  SizeOf <- MCSizeOf
  Watcher = watch
  Command = {}
  CoarseMtime = FALSE
  MaxEdits = 3
  MaxPrunes = 1
  MaxCrashes = 1
INVARIANTS Ledger
PROPERTY EventsAreCaptured
CHECK_DEADLOCK FALSE
