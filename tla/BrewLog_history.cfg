\* Two processes record brews of two pairings; signals, crashes, retries.
SPECIFICATION Spec
CONSTANTS
  p1 = p1
  p2 = p2
  Procs = {p1, p2}
  Coffees = {"Guji"}
  Methods = {"V60", "Chemex"}
  Brews <- SomeBrews
  HistoryLimit = 1
  TicksPerSecond = 1
  MaxTicks = 1
  MaxCalls = 3
SYMMETRY ProcSymmetry
INVARIANTS
  TypeOK
  RecordedOnce
  DuplicatesOnlyAfterLateFailure
  HistoryShown
PROPERTIES
  SettledOnceAnswered
  LedgerSpec
CHECK_DEADLOCK FALSE
