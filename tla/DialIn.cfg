\* From any first brew, by the advice, to the recipe.
SPECIFICATION FairSpec
CONSTANTS
  Preparations <- SeededPreparations
  FirstBrews <- SomeBrews
  TimesAfter <- SomeTimes
  StepSeconds <- Steps
INVARIANTS
  TypeOK
  OutsideWindowIsOff
  NothingForgotten
PROPERTIES
  AdviceConverges
CHECK_DEADLOCK FALSE
