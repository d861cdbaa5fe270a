\* Two processes fill a new database with the real catalogue; restarts.
SPECIFICATION FairSpec
CONSTANTS
  p1 = p1
  p2 = p2
  Procs = {p1, p2}
  NoProc = NoProc
  Schema <- SchemaObjects
  Seed <- SeedStatements
  MaxLaunches = 3
INVARIANTS
  NoDangling
PROPERTIES
  CatalogueSpec
  EveryOpenSettles
  RelaunchServes
CHECK_DEADLOCK FALSE
