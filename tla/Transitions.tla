----------------------------- MODULE Transitions -----------------------------
(***************************************************************************)
(* The statuses of backend/agentflow/transitions.py and the table of the   *)
(* queue: it maps a status to the statuses it may become.  IsValid is the  *)
(* check the queue makes before it writes a status (and only logs).        *)
(***************************************************************************)

QueueStatuses == {"queued", "running", "awaiting_approval", "blocked",
                  "done", "failed", "skipped", "cancelled"}

StepStatuses == {"idle", "queued", "awaiting_approval", "running", "blocked",
                 "succeeded", "failed", "cancelled", "skipped",
                 "skipped_budget", "provider_missing", "policy_denied", "error"}

RunStatuses == {"running", "succeeded", "failed", "cancelled", "error"}

\* Terminal queue states never transition further on their own.
QueueTerminal == {"done", "failed", "skipped", "cancelled"}

QueueTransitions ==
  [ queued            |-> {"running", "awaiting_approval", "blocked", "skipped",
                           "cancelled", "failed"},
    awaiting_approval |-> {"queued", "running", "skipped", "cancelled", "blocked"},
    blocked           |-> {"queued", "running", "skipped", "cancelled", "failed"},
    running           |-> {"done", "failed", "cancelled"},
    failed            |-> {"queued", "skipped", "cancelled"},
    cancelled         |-> {"queued", "skipped"},
    skipped           |-> {"queued"},
    done              |-> {} ]

\* is_valid: a no-op is allowed, an unknown status is allowed, and a known
\* status may become what its row lists (no row: nothing).
IsValid(table, known, from, to) ==
  \/ from = to
  \/ from \notin known
  \/ to \notin known
  \/ from \in DOMAIN table /\ to \in table[from]

QueueStepOK(from, to) == IsValid(QueueTransitions, QueueStatuses, from, to)
=============================================================================
