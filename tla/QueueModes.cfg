SPECIFICATION Spec
CONSTANTS
  spec = spec
  impl = impl
  codex = codex
  claude = claude
  None = None
  Tasks = {t1}
  Steps <- StepsDef
  Providers <- ProvidersDef
  StepProvider <- StepProviderDef
  Controller = claude
  Claude = claude
  Installed = {claude}
  Orchestrated = {}
  Requests = {q1}
  Ops = {"add", "approve", "skip", "mode", "health", "evict", "cancel"}
  ItemCap = 2
  RunCap = 2
  TerminalKeep = 1
  ConsultLimit = 1
INVARIANTS IInv
PROPERTIES RunsLiveOnce
