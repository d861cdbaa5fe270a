\* One process: up to two frames, a signal and a failing store anywhere.
SPECIFICATION FairSpec
CONSTANTS
  NoId = NoId
  NullId = NullId
  Frames <- SomeFrames
  MaxFrames = 2
  OutCap = 1
  Coffees = {"Guji"}
  BrewMethods = {"V60", "Chemex"}
  HistoryLimit = 5
  TicksPerSecond = 1
  MaxTicks = 1
  Asked <- SomeAsked
PROPERTIES
  LoopSpec
  WireLedger
  RecordingEndsWithSignal
CHECK_DEADLOCK FALSE
