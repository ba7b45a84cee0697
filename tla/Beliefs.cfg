\* Two processes on one belief; one alone goes further.
CONSTANTS
  Procs = {p, q}
  p = p
  q = q
  Branches = {main, dev}
  main = main
  dev = dev
  FirstBranch = main
  Length = 4
  Spans <- MCSpans
  Changes <- MCChanges
  Scope = {"other"}
  MaxChangesets = 3
  PairChangesets = 2
  PairCommands = 2
  MaxCommands = 3
SPECIFICATION MCSpec
SYMMETRY Symmetry
CHECK_DEADLOCK FALSE
INVARIANTS BeliefInv CulpritExact StatusHonest
PROPERTIES OthersKept PastIsSettled
