SPECIFICATION Spec
CONSTANTS
  World <- MCWorld
  Forged <- MCForged
  RunAnswers <- MCRunAnswers
  Requests <- MCRequests
  Long <- MCLong
  Room = 1
  Runs = {"run1"}
  NoRun = NoRun
  Target <- MCTarget
  NoRef = NoRef
  MaxCalls = 2
  MaxOther = 1
CHECK_DEADLOCK FALSE
INVARIANTS TypeOK RenderAnswersItsRequest OutcomeHasItsMajority ResponseRestsOnReceipt ArtifactsAreClean
PROPERTIES CouncilEnds
