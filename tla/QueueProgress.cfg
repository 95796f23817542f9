SPECIFICATION FairSpec
CONSTANTS
  spec = spec
  impl = impl
  codex = codex
  claude = claude
  None = None
  Tasks = {t1}
  Steps <- StepsDef
  Providers <- ProvidersDef
  StepProvider <- StepProviderDef
  Controller = claude
  Claude = claude
  Installed = {codex, claude}
  Orchestrated = {t1}
  Requests = {}
  Ops = {"add", "cancel", "mode"}
  ItemCap = 2
  RunCap = 3
  TerminalKeep = 1
  ConsultLimit = 1
INVARIANTS TaskInOrder LiveRunTracked
PROPERTIES FailureHoldsTask QueueTableHolds QueuedIsServed RunningIsSettled ConsultIsServed
