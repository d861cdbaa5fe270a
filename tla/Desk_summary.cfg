\* The two seeded batches of the Guji.
SPECIFICATION Spec
CONSTANTS
  Menu <- SomeMenu
  Methods <- SeededMethods
  Recipes <- SomeRecipes
  AskedNames <- SomeNames
  AskedMethods <- SomeMethods
  Requests = {}
  Limits = {0}
  Times = {}
  Waters = {}
  Doses = {}
  Batches <- SeededBatches
  NoBatch = NoBatch
  NoDate = NoDate
INVARIANTS
  SummaryMovedMost
