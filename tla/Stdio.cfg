\* A client that sends up to three frames, and a signal at any time.
SPECIFICATION FairSpec
CONSTANTS
  NoId = NoId
  NullId = NullId
  Frames <- SomeFrames
  MaxFrames = 3
  OutCap = 1
INVARIANTS
  TypeOK
  AnswersInOrder
  AnswersFit
  ToolsAnswerForThemselves
  NothingSkipped
  DrainedOnEOF
  AtMostOneLateFrame
PROPERTIES
  RequestsServed
  CancelledServerStops
CHECK_DEADLOCK FALSE
