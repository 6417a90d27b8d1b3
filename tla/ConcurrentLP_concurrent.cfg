SPECIFICATION FairSpec
CONSTANTS
  Solves = {1, 2}
  Problems <- AllProblems
  Settings <- SomeSettings
INVARIANTS
  TypeOK
  GivesUpForAnAnswer
  AnswerIsTrue
  BestIsReturned
PROPERTIES
  SettledIsAnswered
  AnswerEndsSolve
  ReturnsInTime
CHECK_DEADLOCK FALSE
