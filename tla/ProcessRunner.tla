---------------------------- MODULE ProcessRunner ----------------------------
(***************************************************************************)
(* backend/agentflow/process_runner.py: every subprocess of the program is *)
(* a run with a record, a process group, a coroutine that reads its output *)
(* to the end, and timers: the watchdog of agent runs, the timeout of the  *)
(* callers of run_and_wait, and the SIGKILL that follows a SIGTERM.        *)
(*                                                                         *)
(* A run's leader is the process the runner created; a child is a          *)
(* descendant that inherited its output pipes and may outlive it.  Output  *)
(* ends when both are gone.  Between the leader's exit and the moment the  *)
(* event loop learns of it (returncode), any other step may come.          *)
(*                                                                         *)
(* Runs are numbered in the order they are started.                        *)
(***************************************************************************)
EXTENDS Naturals, FiniteSets, Transitions

CONSTANTS
  RunCap,      \* bound on the runs ever started
  MaxRecords,  \* finished records kept in memory (100)
  Ops          \* the outside events that may happen

RunIds == 1..RunCap

\* Runs of tasks and of chats have a watchdog and a completion hook; a job (an
\* installer, the dev server) has no watchdog; a command (git, probes) has no hook
\* but a caller that waits for it with a timeout.
Kinds == {"task", "chat", "job", "command"}
Agents == {"task", "chat"}
Hooked == Kinds \ {"command"}

ASSUME RunnerAssumption == RunCap \in Nat /\ MaxRecords \in Nat

VARIABLES
  started,    \* how many runs were ever started
  kind,       \* what each run is for
  records,    \* RUNNER.runs: the runs with a record in memory
  procs,      \* RUNNER.procs: the runs with a process handle
  status,     \* the record's status, kept by its readers when it is dropped
  failure,    \* its failure_kind
  leader,     \* the process
  held,       \* runs with a child that holds the output pipes
  reader,     \* the coroutine that reads the output and calls the hook
  watchdog, killer, caller  \* the timers, and who waits in run_and_wait

tables == <<started, kind, records>>
processes == <<leader, held>>
verdicts == <<procs, status, killer>>
vars == <<tables, processes, verdicts, failure, reader, watchdog, caller>>

Failures == {"none", "exit_nonzero", "cancelled", "start_error", "timeout"}
Codes == {"zero", "positive", "signal"}

\* Types of all the state.
TypeOK ==
  /\ started \in 0..RunCap
  /\ kind \in [RunIds -> Kinds]
  /\ records \subseteq RunIds
  /\ procs \subseteq RunIds
  /\ status \in [RunIds -> RunStatuses \cup {"absent"}]
  /\ failure \in [RunIds -> Failures]
  /\ leader \in [RunIds -> {"absent", "spawning", "alive", "exited", "reaped"}]
  /\ held \subseteq RunIds
  /\ reader \in [RunIds -> {"none", "reading", "reporting", "done"}]
  /\ watchdog \in [RunIds -> {"off", "armed", "fired"}]
  /\ killer \in [RunIds -> {"off", "armed", "done"}]
  /\ caller \in [RunIds -> {"none", "waiting", "stopping", "returned"}]

Init ==
  /\ started = 0
  /\ kind = [r \in RunIds |-> "command"]
  /\ records = {} /\ procs = {} /\ held = {}
  /\ status = [r \in RunIds |-> "absent"]
  /\ failure = [r \in RunIds |-> "none"]
  /\ leader = [r \in RunIds |-> "absent"]
  /\ reader = [r \in RunIds |-> "none"]
  /\ watchdog = [r \in RunIds |-> "off"]
  /\ killer = [r \in RunIds |-> "off"]
  /\ caller = [r \in RunIds |-> "none"]

-----------------------------------------------------------------------------
(* Starting a run.                                                         *)

Older(S, r) == {q \in S : q < r}

\* Mutant: room is made whatever the records say.
DroppedUnfinished ==
  {r \in records : Cardinality(Older(records, r)) + MaxRecords < Cardinality(records) + 1}

\* _new_record makes room: the oldest finished records beyond the limit go.
Dropped ==
  LET finished == {r \in records : status[r] # "running"} IN
  {r \in finished :
     Cardinality(Older(finished, r)) + MaxRecords < Cardinality(records) + 1}

Start(k) ==
  LET r == started + 1 IN
  /\ started < RunCap
  /\ started' = r
  /\ kind' = [kind EXCEPT ![r] = k]
  /\ records' = (records \ Dropped) \cup {r}
  /\ status' = [status EXCEPT ![r] = "running"]
  /\ leader' = [leader EXCEPT ![r] = "spawning"]
  /\ UNCHANGED <<procs, killer, held, failure, reader, watchdog, caller>>

\* Mutant: only the runs of tasks are watched.
SpawnedUnwatched(r) ==
  /\ leader[r] = "spawning"
  /\ leader' = [leader EXCEPT ![r] = "alive"]
  /\ procs' = procs \cup {r}
  /\ reader' = [reader EXCEPT ![r] = "reading"]
  /\ watchdog' = IF kind[r] = "task" THEN [watchdog EXCEPT ![r] = "armed"] ELSE watchdog
  /\ caller' = IF kind[r] = "command" THEN [caller EXCEPT ![r] = "waiting"] ELSE caller
  /\ UNCHANGED <<tables, held, status, killer, failure>>

\* The process exists: it gets a handle, a reader, and a watchdog or a caller.
Spawned(r) ==
  /\ leader[r] = "spawning"
  /\ leader' = [leader EXCEPT ![r] = "alive"]
  /\ procs' = procs \cup {r}
  /\ reader' = [reader EXCEPT ![r] = "reading"]
  /\ watchdog' = IF kind[r] \in Agents THEN [watchdog EXCEPT ![r] = "armed"] ELSE watchdog
  /\ caller' = IF kind[r] = "command" THEN [caller EXCEPT ![r] = "waiting"] ELSE caller
  /\ UNCHANGED <<tables, held, status, killer, failure>>

\* It could not be created: the verdict is there at once, and no hook follows.
SpawnError(r) ==
  /\ leader[r] = "spawning"
  /\ leader' = [leader EXCEPT ![r] = "reaped"]
  /\ status' = [status EXCEPT ![r] = "error"]
  /\ failure' = [failure EXCEPT ![r] = "start_error"]
  /\ caller' = IF kind[r] = "command" THEN [caller EXCEPT ![r] = "returned"] ELSE caller
  /\ UNCHANGED <<tables, held, procs, killer, reader, watchdog>>

-----------------------------------------------------------------------------
(* The processes.                                                          *)

Fork(r) ==
  /\ "fork" \in Ops
  /\ leader[r] = "alive"
  /\ held' = held \cup {r}
  /\ UNCHANGED <<tables, leader, verdicts, failure, reader, watchdog, caller>>

LeaderExits(r) ==
  /\ leader[r] = "alive"
  /\ leader' = [leader EXCEPT ![r] = "exited"]
  /\ UNCHANGED <<tables, held, verdicts, failure, reader, watchdog, caller>>

ChildExits(r) ==
  /\ r \in held
  /\ held' = held \ {r}
  /\ UNCHANGED <<tables, leader, verdicts, failure, reader, watchdog, caller>>

\* The event loop learns of the exit: returncode is set.
Reap(r) ==
  /\ leader[r] = "exited"
  /\ leader' = [leader EXCEPT ![r] = "reaped"]
  /\ UNCHANGED <<tables, held, verdicts, failure, reader, watchdog, caller>>

-----------------------------------------------------------------------------
(* The end of a run.                                                       *)

StatusOfCode(code) ==
  CASE code = "zero" -> "succeeded"
    [] code = "signal" -> "cancelled"
    [] OTHER -> "failed"

FailureOf(s) ==
  CASE s = "failed" -> "exit_nonzero"
    [] s = "cancelled" -> "cancelled"
    [] s = "error" -> "start_error"
    [] OTHER -> "none"

\* Mutant: the exit code has the last word.
VerdictOfCode(r, code) == StatusOfCode(code)

\* The verdict at the end of the output: the one cancel() gave, if it was first.
Verdict(r, code) == IF status[r] = "running" THEN StatusOfCode(code) ELSE status[r]

\* Mutant: whoever cancelled a run is taken to have finished it.
EndOfOutputUnlessCancelled(r) ==
  /\ reader[r] = "reading" /\ status[r] = "running"
  /\ leader[r] = "reaped"
  /\ r \notin held
  /\ \E code \in Codes : status' = [status EXCEPT ![r] = StatusOfCode(code)]
  /\ failure' = [failure EXCEPT ![r] = FailureOf(status'[r])]
  /\ procs' = procs \ {r}
  /\ reader' = [reader EXCEPT ![r] = IF kind[r] \in Hooked THEN "reporting" ELSE "done"]
  /\ caller' = IF kind[r] = "command" THEN [caller EXCEPT ![r] = "returned"] ELSE caller
  /\ UNCHANGED <<tables, processes, killer, watchdog>>

\* _consume: both pipes are at their end, and the exit code, of which nothing
\* depended so far, is looked at.  An agent's hook starts (a task's by classifying
\* the failure anew), a command's caller is answered.
EndOfOutput(r) ==
  /\ reader[r] = "reading"
  /\ leader[r] = "reaped"
  /\ r \notin held
  /\ \E code \in Codes :
       /\ status' = [status EXCEPT ![r] = Verdict(r, code)]
       /\ failure' = IF status[r] = "running" \/ kind[r] = "task"
                     THEN [failure EXCEPT ![r] = FailureOf(Verdict(r, code))]
                     ELSE failure
  /\ procs' = procs \ {r}
  /\ reader' = [reader EXCEPT ![r] = IF kind[r] \in Hooked THEN "reporting" ELSE "done"]
  /\ caller' = IF kind[r] = "command" THEN [caller EXCEPT ![r] = "returned"] ELSE caller
  /\ UNCHANGED <<tables, processes, killer, watchdog>>

\* on_complete returns or fails; either way it is over.
HookReturns(r) ==
  /\ reader[r] = "reporting"
  /\ reader' = [reader EXCEPT ![r] = "done"]
  /\ UNCHANGED <<tables, processes, verdicts, failure, watchdog, caller>>

-----------------------------------------------------------------------------
(* Stopping a run.                                                         *)

\* cancel() does something: the record and the handle are there, and the exit
\* is not known yet.
Stoppable(r) == r \in records /\ r \in procs /\ leader[r] # "reaped"

\* Mutant: SIGTERM is all there is.
StopSoftly(S) ==
  /\ status' = [r \in RunIds |-> IF r \in S THEN "cancelled" ELSE status[r]]
  /\ procs' = procs \ S
  /\ UNCHANGED killer

\* cancel(): the verdict, SIGTERM to the group, and SIGKILL four seconds later.
Stop(S) ==
  /\ status' = [r \in RunIds |-> IF r \in S THEN "cancelled" ELSE status[r]]
  /\ procs' = procs \ S
  /\ killer' = [r \in RunIds |-> IF r \in S THEN "armed" ELSE killer[r]]

CancelSet(S) ==
  /\ "cancel" \in Ops
  /\ S # {} /\ \A r \in S : Stoppable(r)
  /\ Stop(S)
  /\ failure' = [r \in RunIds |-> IF r \in S THEN "cancelled" ELSE failure[r]]
  /\ UNCHANGED <<tables, processes, reader, watchdog, caller>>

Cancel(r) == CancelSet({r})

CancelAll == CancelSet({r \in RunIds : Stoppable(r)})

\* The four seconds are over.  SIGKILL ends the leader and the children that
\* stayed in its group.
HardKill(r) ==
  /\ killer[r] = "armed"
  /\ killer' = [killer EXCEPT ![r] = "done"]
  /\ \/ leader[r] = "reaped" /\ UNCHANGED processes
     \/ /\ leader[r] # "reaped"
        /\ leader' = [leader EXCEPT ![r] = "exited"]
        /\ held' \in {held, held \ {r}}
  /\ UNCHANGED <<tables, procs, status, failure, reader, watchdog, caller>>

\* Mutant: the watchdog does not look at the status again.
DeadlineUnchecked(r) ==
  /\ watchdog[r] = "armed"
  /\ watchdog' = [watchdog EXCEPT ![r] = "fired"]
  /\ Stop({r} \cap {q \in RunIds : Stoppable(q)})
  /\ failure' = [failure EXCEPT ![r] = "timeout"]
  /\ UNCHANGED <<tables, processes, reader, caller>>

\* The watchdog's time is up: a run that still says running is stopped if it can
\* be, and the failure becomes a timeout.
Deadline(r) ==
  /\ watchdog[r] = "armed"
  /\ watchdog' = [watchdog EXCEPT ![r] = "fired"]
  /\ \/ status[r] # "running" /\ UNCHANGED <<verdicts, failure>>
     \/ /\ status[r] = "running"
        /\ Stop({r} \cap {q \in RunIds : Stoppable(q)})
        /\ failure' = [failure EXCEPT ![r] = "timeout"]
  /\ UNCHANGED <<tables, processes, reader, caller>>

\* Mutant: the caller's patience ends, the process is left alone.
CallerLeavesItAlone(r) ==
  /\ caller[r] = "waiting"
  /\ caller' = [caller EXCEPT ![r] = "stopping"]
  /\ UNCHANGED <<tables, processes, verdicts, failure, reader, watchdog>>

\* The timeout of run_and_wait: the run is stopped if it can be, and the caller
\* goes on waiting for the end of its output.
CallerTimeout(r) ==
  LET S == {r} \cap {q \in RunIds : Stoppable(q)} IN
  /\ caller[r] = "waiting"
  /\ caller' = [caller EXCEPT ![r] = "stopping"]
  /\ Stop(S)
  /\ failure' = [q \in RunIds |-> IF q \in S THEN "cancelled" ELSE failure[q]]
  /\ UNCHANGED <<tables, processes, reader, watchdog>>

-----------------------------------------------------------------------------
Processes == \E r \in RunIds : Fork(r) \/ LeaderExits(r) \/ ChildExits(r)

EventLoop ==
  \E r \in RunIds :
    \/ Spawned(r) \/ SpawnError(r) \/ Reap(r) \/ EndOfOutput(r) \/ HookReturns(r)
    \/ HardKill(r) \/ Deadline(r) \/ CallerTimeout(r)

Requests ==
  \/ \E k \in Kinds : Start(k)
  \/ \E r \in RunIds : Cancel(r)
  \/ CancelAll

Next == Processes \/ EventLoop \/ Requests

Spec == Init /\ [][Next]_vars

\* The event loop runs what is ready and its timers go off.  Processes owe
\* nothing: a leader may hang, a child may hold the pipes for ever.
Fairness ==
  \A r \in RunIds :
    /\ WF_vars(Spawned(r) \/ SpawnError(r)) /\ WF_vars(Reap(r))
    /\ WF_vars(EndOfOutput(r)) /\ WF_vars(HookReturns(r))
    /\ WF_vars(HardKill(r)) /\ WF_vars(Deadline(r)) /\ WF_vars(CallerTimeout(r))

FairSpec == Spec /\ Fairness

-----------------------------------------------------------------------------
(* What the runner promises.                                               *)

\* One verdict per run, and one hook after it, whatever exits, cancellations,
\* deadlines and timeouts do in whatever order.
Lifecycle == INSTANCE RunLifecycle WITH
  Runs <- RunIds,
  verdict <- status,
  reported <- {r \in RunIds : kind[r] \in Hooked /\ reader[r] = "done"}

GivesOneVerdict == Lifecycle!Spec

\* A run that says running and has a process can be found and stopped until its
\* exit is known: its record was not dropped and its handle is there.
RunningIsReachable ==
  \A r \in RunIds :
    status[r] = "running" /\ leader[r] \in {"alive", "exited"} => Stoppable(r)

\* When all is over the failure kind explains the verdict: nothing succeeded
\* with a failure, and only a cancelled run timed out.
FailureExplains ==
  \A r \in RunIds : reader[r] = "done" =>
    /\ status[r] = "succeeded" <=> failure[r] = "none"
    /\ status[r] = "failed" <=> failure[r] = "exit_nonzero"
    /\ status[r] = "cancelled" <=> failure[r] \in {"cancelled", "timeout"}

\* A process whose run was cancelled is dead in the end, SIGTERM or not.
CancelledDies ==
  \A r \in RunIds : status[r] = "cancelled" /\ leader[r] = "alive" ~> leader[r] # "alive"

\* The CLI of an agent run does not outlive its deadline for ever.
AgentEnds ==
  \A r \in RunIds : kind[r] \in Agents /\ leader[r] = "alive" ~> leader[r] # "alive"

\* A caller of run_and_wait is answered, unless a child holds the pipes.
CallerIsAnswered ==
  \A r \in RunIds : caller[r] = "waiting" ~> caller[r] = "returned" \/ r \in held

\* A run whose pipes are closed gets its verdict and its hook comes to an end.
ClosedRunIsOver ==
  \A r \in RunIds : leader[r] = "exited" /\ r \notin held ~> reader[r] = "done"

-----------------------------------------------------------------------------
(* The inductive invariant behind GivesOneVerdict and RunningIsReachable.  *)

\* What is true of run r: it can be stopped exactly as long as it says running,
\* its reader does not end before its verdict, and nothing is known of it before
\* it is started.
RunOK(r) ==
  /\ r > started => /\ status[r] = "absent" /\ leader[r] = "absent" /\ reader[r] = "none"
                    /\ watchdog[r] = "off" /\ killer[r] = "off" /\ caller[r] = "none"
                    /\ r \notin records /\ r \notin procs
  /\ r <= started => status[r] # "absent" /\ leader[r] # "absent"
  /\ leader[r] = "spawning" => status[r] = "running" /\ reader[r] = "none" /\ r \notin procs
  /\ status[r] = "running" =>
       /\ r \in records
       /\ leader[r] # "spawning" => r \in procs /\ reader[r] = "reading"
  /\ r \in procs => status[r] = "running"
  /\ reader[r] = "reading" => status[r] \in {"running", "cancelled"}
  /\ reader[r] \in {"reporting", "done"} => status[r] \in {"succeeded", "failed", "cancelled"}
  /\ killer[r] # "off" => leader[r] # "spawning"
  /\ watchdog[r] # "off" => leader[r] # "spawning"
  /\ caller[r] # "none" => leader[r] # "spawning"

IInv == TypeOK /\ \A r \in RunIds : RunOK(r)

=============================================================================
