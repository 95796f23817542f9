SPECIFICATION FairSpec
CONSTANTS
  t1 = t1
  spec = spec
  impl = impl
  codex = codex
  claude = claude
  s1 = s1
  Tasks = {t1}
  Steps = {spec, impl}
  Providers = {codex, claude}
  StepProvider <- StepProviderDef
  Claude = claude
  Installed = {claude}
  Plan <- PlanDef
  Skippable = {spec}
  Implement = impl
  ItemTask <- OneItemTask
  ItemStep <- OneItemStep
  Sequences = {s1}
  ItemCap = 1
  RunCap = 3
  LifeCap = 1
  HealCap = 1
  None = None
PROPERTIES HealSparesTheLiving
CHECK_DEADLOCK FALSE
