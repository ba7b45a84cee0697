\* A file removed during a walk: is every change in the timeline?
SPECIFICATION Spec
CONSTANTS
  Path = {p, q}
  Content = {a, b}
  Gone = Gone
  SizeOf <- MCSizeOf
  Watcher = watch
  Command = {}
  CoarseMtime = FALSE
  MaxEdits = 2
  MaxPrunes = 0
  MaxCrashes = 0
INVARIANT RowsRecorded
CHECK_DEADLOCK FALSE
