\* An error after the row was saved.
SPECIFICATION Spec
CONSTANTS
  p1 = p1
  p2 = p2
  Procs = {p1, p2}
  Coffees = {"Guji"}
  Methods = {"V60", "Chemex"}
  Brews <- GoodBrews
  HistoryLimit = 1
  TicksPerSecond = 2
  MaxTicks = 1
  MaxCalls = 2
INVARIANTS
  ErrorMeansNotRecorded
CHECK_DEADLOCK FALSE
