---------------------------- MODULE RunLifecycle ----------------------------
(***************************************************************************)
(* What the process runner promises of a run: it is begun, it gets one     *)
(* verdict, and its completion hook is finished once, after the verdict    *)
(* and only for a run that had a process.  A verdict is never revised: not *)
(* by a cancellation that comes late, not by an exit code that comes after *)
(* a cancellation.  QueueDispatcher and ProcessRunner both implement it.   *)
(***************************************************************************)
EXTENDS Transitions

CONSTANT Runs

VARIABLES
  verdict,   \* "absent", "running" or how the run ended
  reported   \* runs whose completion hook has finished

Verdicts == RunStatuses \ {"running"}

Init ==
  /\ verdict = [r \in Runs |-> "absent"]
  /\ reported = {}

Begin(r) ==
  /\ verdict[r] = "absent"
  /\ verdict' = [verdict EXCEPT ![r] = "running"]
  /\ UNCHANGED reported

\* Some running runs get their verdict together: stopping everything is one step.
Settle(S, v) ==
  /\ \A r \in S : verdict[r] = "running"
  /\ verdict' = [r \in Runs |-> IF r \in S THEN v ELSE verdict[r]]
  /\ UNCHANGED reported

Report(r) ==
  /\ verdict[r] \in Verdicts \ {"error"}
  /\ r \notin reported
  /\ reported' = reported \cup {r}
  /\ UNCHANGED verdict

Next ==
  \/ \E r \in Runs : Begin(r) \/ Report(r)
  \/ \E S \in SUBSET Runs, v \in Verdicts : Settle(S, v)

Spec == Init /\ [][Next]_<<verdict, reported>>
=============================================================================
