SPECIFICATION Spec
CONSTANTS
  spec = spec
  impl = impl
  codex = codex
  claude = claude
  None = None
  Tasks = {t1, t2}
  Steps <- StepsDef
  Providers <- ProvidersDef
  StepProvider <- StepProviderDef
  Controller = claude
  Claude = claude
  Installed = {codex, claude}
  Orchestrated = {}
  Requests = {}
  Ops = {"add", "cancel"}
  ItemCap = 2
  RunCap = 2
  TerminalKeep = 1
  ConsultLimit = 1
INVARIANTS OneProcessPerAgent
CHECK_DEADLOCK FALSE
