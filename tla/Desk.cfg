\* Every question about a menu of eight lots, every amount of the instance,
\* and every pair of its batches.
SPECIFICATION Spec
CONSTANTS
  Menu <- SomeMenu
  Methods <- SeededMethods
  Recipes <- SomeRecipes
  AskedNames <- SomeNames
  AskedMethods <- SomeMethods
  Requests <- SomeRequests
  Limits = {0, 1, 2}
  Times <- SomeTimes
  Waters <- SomeWaters
  Doses <- SomeDoses
  Batches <- EveryBatch
  NoBatch = NoBatch
  NoDate = NoDate
INVARIANTS
  TypeOK
  NameFindsOneLot
  AgeTracksCalendar
  OffersAreTheBest
  PoursAddUp
  CardBrewsOnRatio
  ScalesBack
  PhasesAccount
  SameBothWays
