-------------------------- MODULE MCQueueDispatcher --------------------------
(* Small instances of QueueDispatcher: two steps whose default providers    *)
(* differ.                                                                   *)
EXTENDS QueueDispatcher, TLC

CONSTANTS spec, impl, codex, claude

StepsDef == {spec, impl}
ProvidersDef == {codex, claude}
StepProviderDef == (spec :> codex) @@ (impl :> claude)
=============================================================================
