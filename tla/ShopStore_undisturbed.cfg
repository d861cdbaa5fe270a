\* Two processes open a new database and nothing else has to happen.
SPECIFICATION Spec
CONSTANTS
  p1 = p1
  p2 = p2
  Procs = {p1, p2}
  NoProc = NoProc
  Schema <- SmallSchema
  Seed <- SmallSeed
  MaxLaunches = 2
INVARIANTS
  UndisturbedOpenServes
CHECK_DEADLOCK FALSE
