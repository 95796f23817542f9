SPECIFICATION FairSpec
CONSTANTS
  claude = claude
  q1 = q1
  q2 = q2
  t1 = t1
  gitStatus = gitStatus
  gitPush = gitPush
  pythonEval = pythonEval
  None = None
  Providers = {claude}
  Orchestrator = claude
  Installed = {claude}
  Requests = {q1, q2}
  Threads = {t1}
  Commands = {gitStatus, gitPush, pythonEval}
  CommandOf <- CommandOfDef
  Tasks = {1}
  Outputs <- OutputsDef
  StepDefs <- StepDefsDef
  FullSequence <- FullSequenceDef
  FirstStep = "spec"
  RunCap = 2
  ApprovalCap = 2
  LifeCap = 1
INVARIANTS
  LaneSharedOnlyByConsult
  OneActionPerBlock
  RunsOnlyWhatItMay
PROPERTIES
  StandingIsFinal
  TurnEnds
CHECK_DEADLOCK FALSE
