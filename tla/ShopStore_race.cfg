\* Three processes open a new database; safety only.
SPECIFICATION Spec
CONSTANTS
  p1 = p1
  p2 = p2
  p3 = p3
  Procs = {p1, p2, p3}
  NoProc = NoProc
  Schema <- SmallSchema
  Seed <- SmallSeed
  MaxLaunches = 4
SYMMETRY ProcSymmetry
INVARIANTS
  TypeOK
  AllOrNothing
  ServingSeeded
  LoserFindsSeeded
  LockMeansSeeding
CHECK_DEADLOCK FALSE
