SPECIFICATION FairSpec
CONSTANTS
  RunCap = 2
  MaxRecords = 1
  Ops = {"fork", "cancel"}
INVARIANTS IInv RunningIsReachable FailureExplains
PROPERTIES GivesOneVerdict CancelledDies AgentEnds CallerIsAnswered ClosedRunIsOver
CHECK_DEADLOCK FALSE
