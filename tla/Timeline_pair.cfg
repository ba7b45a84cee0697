\* The watcher and a command capturing at the same time.
SPECIFICATION Spec
CONSTANTS
  Path = {p}
  Content = {a, b}
  Gone = Gone
  SizeOf <- MCSizeOf
  Watcher = watch
  Command = {cmd}
  CoarseMtime = FALSE
  MaxEdits = 2
  MaxPrunes = 0
  MaxCrashes = 1
INVARIANTS   CompletedCapturesRecord
CHECK_DEADLOCK FALSE
