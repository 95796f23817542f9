----------------------------- MODULE MCRecovery -----------------------------
(* The instance of Recovery for TLC.                                         *)
EXTENDS Recovery, TLC

CONSTANTS t1, spec, impl, codex, claude, s1

StepProviderDef == (spec :> codex) @@ (impl :> claude)
PlanDef == <<spec, impl>>
OneItemTask == (1 :> t1)
OneItemStep == (1 :> impl)
=============================================================================
