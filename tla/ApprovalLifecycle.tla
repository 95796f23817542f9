-------------------------- MODULE ApprovalLifecycle --------------------------
(***************************************************************************)
(* What an approval promises: while it is open it may be decided and its   *)
(* command may be started; once it stands as approved, as rejected or as   *)
(* lost, nothing is decided and nothing is started any more.               *)
(***************************************************************************)
CONSTANT Approvals

VARIABLES
  decision,  \* "none" before it is asked for, "open", "approved", "rejected", "lost"
  ran        \* per approval the runs of its command

vars == <<decision, ran>>

Init == decision = [a \in Approvals |-> "none"] /\ ran = [a \in Approvals |-> {}]

\* What may come after a decision.
After(d) ==
  CASE d = "none" -> {"none", "open"}
    [] d = "open" -> {"open", "approved", "rejected", "lost"}
    [] OTHER -> {d}

\* One write of the file, or the end of a writer, may settle several.
Next ==
  /\ \A a \in Approvals :
       /\ decision'[a] \in After(decision[a])
       /\ ran[a] \subseteq ran'[a]
       /\ ran'[a] # ran[a] => decision[a] = "open"
  /\ DOMAIN decision' = Approvals /\ DOMAIN ran' = Approvals

Spec == Init /\ [][Next]_vars
=============================================================================
