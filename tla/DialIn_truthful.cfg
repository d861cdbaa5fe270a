\* What the report says when nothing is to be changed.
SPECIFICATION Spec
CONSTANTS
  Preparations <- SeededPreparations
  FirstBrews <- SomeBrews
  TimesAfter <- SomeTimes
  StepSeconds <- Steps
INVARIANTS
  ChangeNothingIsTrue
CHECK_DEADLOCK FALSE
