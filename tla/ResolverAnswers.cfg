SPECIFICATION Spec
CONSTANTS
  None = None
  Problems <- MCAll
INVARIANTS SelectsASolution FailsOnlyIfUnsolvable NothingNewerFits AnswerIsStable PinsMoveOnlyIfTheyMust
PROPERTIES SearchEnds
CHECK_DEADLOCK FALSE
