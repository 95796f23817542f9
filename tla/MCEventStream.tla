---------------------------- MODULE MCEventStream ----------------------------
(* Small instances of EventStream.                                           *)
EXTENDS EventStream, TLC

CONSTANTS a, b  \* workspaces
=============================================================================
