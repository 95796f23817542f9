------------------------------ MODULE RunLedger ------------------------------
(***************************************************************************)
(* What the ledger of a workspace promises of the runs it lists, over      *)
(* crashes, restarts and recoveries of the server that keeps it.  A run is *)
(* entered once, as running or as refused.  Its entry then changes in two  *)
(* ways only: the verdict it came to is written, once and for good, by     *)
(* the hook that owes it; or it is declared interrupted, which is never    *)
(* said of a run that is running.  What was lost never gets a verdict.     *)
(* Several runs may move in one step: a crash loses all of them.  Recovery *)
(* implements this.                                                        *)
(***************************************************************************)
CONSTANT Runs

Outcomes == {"succeeded", "failed", "cancelled"}

VARIABLES
  owner,  \* "none" before the run, "running", the outcome that its hook still
          \* has to write, "refused" without a process, and "gone"
  says    \* "absent", "running", "interrupted", "error", or the outcome

Init ==
  /\ owner = [r \in Runs |-> "none"]
  /\ says = [r \in Runs |-> "absent"]

Begin(r) ==
  owner[r] = "none" /\ owner'[r] \in {"running", "refused"} /\ says'[r] = says[r]

Enter(r) ==
  /\ says[r] = "absent" /\ owner'[r] = owner[r]
  /\ \/ owner[r] = "running" /\ says'[r] = "running"
     \/ owner[r] = "refused" /\ says'[r] = "error"

\* A run comes to its end only after it was entered.
End(r) ==
  /\ owner[r] = "running" /\ says[r] # "absent"
  /\ owner'[r] \in Outcomes /\ says'[r] = says[r]

Write(r) ==
  /\ owner[r] \in Outcomes /\ says[r] \in {"running", "interrupted"}
  /\ says'[r] = owner[r] /\ owner'[r] = "gone"

Lose(r) == owner'[r] = "gone" /\ says'[r] = says[r]

Declare(r) ==
  /\ says[r] = "running" /\ owner[r] # "running"
  /\ says'[r] = "interrupted" /\ owner'[r] = owner[r]

Stay(r) == owner'[r] = owner[r] /\ says'[r] = says[r]

Next ==
  /\ owner' = [r \in Runs |-> owner'[r]] /\ says' = [r \in Runs |-> says'[r]]
  /\ \A r \in Runs :
       Stay(r) \/ Begin(r) \/ Enter(r) \/ End(r) \/ Write(r) \/ Lose(r) \/ Declare(r)

Spec == Init /\ [][Next]_<<owner, says>>
=============================================================================
