\* A refractometer reading and the yield.
SPECIFICATION Spec
CONSTANTS
  Preparations <- SeededPreparations
  FirstBrews <- SomeBrews
  TimesAfter <- SomeTimes
  StepSeconds <- Steps
INVARIANTS
  ReadingGivesYield
CHECK_DEADLOCK FALSE
