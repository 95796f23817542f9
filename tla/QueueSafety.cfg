SPECIFICATION Spec
CONSTANTS
  spec = spec
  impl = impl
  codex = codex
  claude = claude
  None = None
  Tasks = {t1}
  Steps <- StepsDef
  Providers <- ProvidersDef
  StepProvider <- StepProviderDef
  Controller = claude
  Claude = claude
  Installed = {claude}
  Orchestrated = {t1}
  Requests = {q1}
  Ops = {"add", "approve", "run", "retry", "reroute", "remove", "skip", "cancel", "sequence", "chat"}
  ItemCap = 1
  RunCap = 2
  TerminalKeep = 1
  ConsultLimit = 1
INVARIANTS LaneExclusive RunningItemOwnsRun DoneMeansSucceeded
