--------------------------- MODULE QueueDispatcher ---------------------------
(***************************************************************************)
(* The execution queue of backend/agentflow: queue_service (queue.json and *)
(* the dispatcher), task_service.run_step, and as much of the process      *)
(* runner as they see.                                                     *)
(*                                                                         *)
(* Everything runs on one asyncio event loop, so a handler is atomic       *)
(* between two awaits and an action is the code from one await to the      *)
(* next.  A coroutine that is waiting is a frame: "git" while run_step     *)
(* waits for the working-tree snapshot, "consult" while a controller       *)
(* consult waits for the context compressor, "spawn" while the runner      *)
(* waits for the operating system to create the process.                   *)
(*                                                                         *)
(* An item is named by its place in enqueuing order.  queue.json is a list *)
(* that is only appended to and deleted from, so the order of the numbers  *)
(* is the order of the list.                                               *)
(***************************************************************************)
EXTENDS Naturals, FiniteSets, Transitions

CONSTANTS
  Tasks,            \* task folders
  Steps,            \* workflow steps (STEP_DEFS)
  Providers,        \* agent CLIs
  StepProvider,     \* [Steps -> Providers]: the workspace's role routing
  Controller,       \* the provider of the orchestrator role
  Claude,           \* the provider whose red health asks for confirmation
  Installed,        \* providers whose CLI is on PATH
  Orchestrated,     \* tasks the controller takes care of
  Requests,         \* concurrent HTTP requests that may start a step
  Ops,              \* the user operations and outside events that may happen
  ItemCap, RunCap,  \* bounds on items ever enqueued and runs ever started
  TerminalKeep,     \* finished items kept for the history view
  ConsultLimit,     \* MAX_CONSULTS_PER_TASK
  None              \* no provider, task or step

Dispatcher == "dispatcher"
Orchestrate == "orchestrate"
Coroutines == {Dispatcher} \cup Requests
ItemIds == 1..ItemCap
RunIds == 1..RunCap

ASSUME CoreAssumption ==
  /\ StepProvider \in [Steps -> Providers]
  /\ Controller \in Providers
  /\ Installed \subseteq Providers
  /\ Orchestrated \subseteq Tasks
  /\ ItemCap \in Nat /\ RunCap \in Nat
  /\ TerminalKeep \in Nat /\ ConsultLimit \in Nat
  /\ None \notin Providers /\ None \notin Tasks /\ None \notin Steps
  /\ Orchestrate \notin Steps /\ Orchestrate # None
  /\ Dispatcher \notin Requests

VARIABLES
  items,       \* queue.json "items"; "absent" before enqueuing and once deleted
  enqueued,    \* how many items were ever enqueued
  consults,    \* tasks with a pending entry in queue.json "consults"
  consulted,   \* consults spent per task (meta["consults"])
  runs,        \* RUNNER.runs and the processes behind them
  started,     \* how many runs were ever started
  frames,      \* the coroutines waiting in run_step or in a consult
  stepState,   \* status of each task's steps (meta["steps"])
  mode,        \* "balanced" or "manual_approval"
  red,         \* Claude's usage health is red
  sequencing   \* tasks whose fullSequence status is "running"

queueVars == <<items, enqueued, consults, consulted>>
runVars == <<runs, started>>
settings == <<mode, red, sequencing>>
vars == <<queueVars, runVars, frames, stepState, settings>>

ActiveStatuses == {"queued", "awaiting_approval", "blocked", "running"}
NoItem == [status |-> "absent", task |-> None, step |-> None,
           override |-> None, run |-> 0]
NoRun == [status |-> "absent", phase |-> "absent", kept |-> FALSE,
          task |-> None, step |-> None, provider |-> None]
NoFrame == [pc |-> "idle", item |-> 0, task |-> None, step |-> None,
            provider |-> None, run |-> 0]

Item == [status : QueueStatuses \cup {"absent"}, task : Tasks \cup {None},
         step : Steps \cup {None}, override : Providers \cup {None},
         run : RunIds \cup {0}]
Run == [status : RunStatuses \cup {"absent"},
        phase : {"absent", "spawning", "alive", "dying", "completing", "over"},
        kept : BOOLEAN, task : Tasks \cup {None},
        step : Steps \cup {Orchestrate, None}, provider : Providers \cup {None}]
Frame == [pc : {"idle", "git", "consult", "spawn"}, item : ItemIds \cup {0},
          task : Tasks \cup {None}, step : Steps \cup {Orchestrate, None},
          provider : Providers \cup {None}, run : RunIds \cup {0}]

\* Types of all the state.
TypeOK ==
  /\ items \in [ItemIds -> Item]
  /\ enqueued \in 0..ItemCap
  /\ consults \subseteq Tasks
  /\ consulted \in [Tasks -> 0..ConsultLimit]
  /\ runs \in [RunIds -> Run]
  /\ started \in 0..RunCap
  /\ frames \in [Coroutines -> Frame]
  /\ stepState \in [Tasks -> [Steps -> StepStatuses]]
  /\ mode \in {"balanced", "manual_approval"}
  /\ red \in BOOLEAN
  /\ sequencing \subseteq Tasks

Init ==
  /\ items = [i \in ItemIds |-> NoItem]
  /\ enqueued = 0
  /\ consults = {}
  /\ consulted = [t \in Tasks |-> 0]
  /\ runs = [r \in RunIds |-> NoRun]
  /\ started = 0
  /\ frames = [c \in Coroutines |-> NoFrame]
  /\ stepState = [t \in Tasks |-> [s \in Steps |-> "idle"]]
  /\ mode = "balanced"
  /\ red = FALSE
  /\ sequencing = {}

-----------------------------------------------------------------------------
(* The runner's records.                                                   *)

\* RUNNER.running_runs(): records in memory that say "running"; their providers.
RunningIn(rs, r) == rs[r].kept /\ rs[r].status = "running"
BusyIn(rs) == {rs[r].provider : r \in {q \in RunIds : RunningIn(rs, q)}}

Running(r) == RunningIn(runs, r)
Busy == BusyIn(runs)

\* A record is registered, running, before the process exists.
NewRecord(c, t, s, p) ==
  /\ started < RunCap
  /\ started' = started + 1
  /\ runs' = [runs EXCEPT ![started + 1] =
       [status |-> "running", phase |-> "spawning", kept |-> TRUE,
        task |-> t, step |-> s, provider |-> p]]
  /\ frames' = [frames EXCEPT ![c] = [@ EXCEPT !.pc = "spawn", !.run = started + 1]]

-----------------------------------------------------------------------------
(* run_step and dispatch_item.                                             *)

\* What run_step decides before its first await.
Verdict(rs, p, auto, confirm) ==
  IF p \in BusyIn(rs) THEN "provider_busy"
  ELSE IF mode = "manual_approval" /\ auto THEN "manual_preview"
  ELSE IF p \notin Installed THEN "provider_missing"
  ELSE IF p = Claude /\ red /\ ~confirm THEN "needs_confirmation"
  ELSE "proceed"

\* Mutant: a busy answer taken for a start.
StatusAfterAnyStart(answer) ==
  IF answer \in {"started", "provider_busy"} THEN "running" ELSE "failed"

\* dispatch_item's translation of run_step's answer into an item status.
StatusAfter(answer) ==
  CASE answer = "started" -> "running"
    [] answer = "needs_confirmation" -> "blocked"
    [] answer = "manual_preview" -> "awaiting_approval"
    [] answer = "provider_missing" -> "skipped"
    [] OTHER -> "failed"

\* _set_item: by id, whatever the item has become; nothing if it is gone.
SetItem(its, i, status) ==
  IF i \in ItemIds /\ its[i].status # "absent"
  THEN [its EXCEPT ![i].status = status]
  ELSE its

\* run_step up to its first await, called for an item (or 0 for none).
RunStep(rs, c, its, i, t, s, p, auto, confirm) ==
  LET verdict == Verdict(rs, p, auto, confirm) IN
  /\ \/ /\ verdict = "proceed"
        /\ items' = its
        /\ frames' = [frames EXCEPT ![c] =
             [pc |-> "git", item |-> i, task |-> t, step |-> s,
              provider |-> p, run |-> 0]]
     \/ /\ verdict # "proceed"
        /\ items' = SetItem(its, i, StatusAfter(verdict))
        /\ frames' = [frames EXCEPT ![c] = NoFrame]
  /\ stepState' = IF verdict = "provider_missing"
                  THEN [stepState EXCEPT ![t][s] = "provider_missing"]
                  ELSE stepState

EffectiveProvider(item) ==
  IF item.override # None THEN item.override ELSE StepProvider[item.step]

DispatchItem(rs, c, its, i, auto, confirm) ==
  RunStep(rs, c, its, i, its[i].task, its[i].step, EffectiveProvider(its[i]), auto, confirm)

\* Mutants: earlier items ignored; earlier items in the way even when finished.
DispatchableInAnyOrder(rs, its) ==
  {i \in ItemIds : its[i].status = "queued" /\ StepProvider[its[i].step] \notin BusyIn(rs)}
DispatchableWhenAlone(rs, its) ==
  {i \in ItemIds :
     /\ its[i].status = "queued"
     /\ \A j \in ItemIds : j < i => its[j].task # its[i].task
     /\ StepProvider[its[i].step] \notin BusyIn(rs)}

\* _pick_candidate: an earlier item of the task that is still active holds
\* the later ones back; so does a busy default provider or a full sequence.
Dispatchable(rs, its) ==
  {i \in ItemIds :
     /\ its[i].status = "queued"
     /\ \A j \in ItemIds : j < i /\ its[j].task = its[i].task
                             => its[j].status \notin ActiveStatuses
     /\ StepProvider[its[i].step] \notin BusyIn(rs)
     /\ its[i].task \notin sequencing}

IsFirst(i, S) == i \in S /\ \A j \in S : i <= j

\* The end of a tick: pick the first candidate and run it, or park it for
\* approval when the tick read the manual mode at its start.
DispatchNext(rs, its, manual) ==
  \/ /\ Dispatchable(rs, its) = {}
     /\ items' = its
     /\ frames' = [frames EXCEPT ![Dispatcher] = NoFrame]
     /\ UNCHANGED stepState
  \/ \E i \in ItemIds :
       /\ IsFirst(i, Dispatchable(rs, its))
       /\ IF manual
          THEN /\ items' = [its EXCEPT ![i].status = "awaiting_approval"]
               /\ frames' = [frames EXCEPT ![Dispatcher] = NoFrame]
               /\ UNCHANGED stepState
          ELSE DispatchItem(rs, Dispatcher, its, i, TRUE, FALSE)

-----------------------------------------------------------------------------
(* The dispatcher's tick.                                                  *)

\* _finalize_running, first loop: an item whose run record is gone or no
\* longer running gets its final status.
Lost(i) == items[i].status = "running"
             /\ (items[i].run = 0 \/ ~runs[items[i].run].kept)

\* Mutants: any known record counts as ended; only a success does.
EndedOnceKnown(i) == items[i].status = "running" /\ ~Lost(i)
EndedOnSuccess(i) ==
  items[i].status = "running" /\ ~Lost(i) /\ runs[items[i].run].status = "succeeded"

Ended(i) == /\ items[i].status = "running"
            /\ items[i].run # 0
            /\ runs[items[i].run].kept
            /\ runs[items[i].run].status # "running"

\* Mutants: only "failed" is a failure; a cancelled run's item is held back.
OutcomeUnlessFailed(status) == IF status = "failed" THEN "failed" ELSE "done"
OutcomeHeld(status) ==
  CASE status = "succeeded" -> "done"
    [] status = "cancelled" -> "blocked"
    [] OTHER -> "failed"

OutcomeOf(status) ==
  CASE status = "succeeded" -> "done"
    [] status = "cancelled" -> "cancelled"
    [] OTHER -> "failed"
FinalStatus(i) == IF Lost(i) THEN "failed" ELSE OutcomeOf(runs[items[i].run].status)

FailedTasks == {items[i].task : i \in {j \in ItemIds :
                  (Lost(j) \/ Ended(j)) /\ FinalStatus(j) # "done"}}

\* Mutant: the failed item alone is settled.
SettledAlone(i) ==
  IF Lost(i) \/ Ended(i) THEN [items[i] EXCEPT !.status = FinalStatus(i)] ELSE items[i]

\* ... second loop: a failed task's queued items are blocked.
Settled(i) ==
  IF Lost(i) \/ Ended(i) THEN [items[i] EXCEPT !.status = FinalStatus(i)]
  ELSE IF items[i].status = "queued" /\ items[i].task \in FailedTasks
       THEN [items[i] EXCEPT !.status = "blocked"]
       ELSE items[i]

\* ... last: finished items beyond the newest TerminalKeep are dropped.
Pruned(its) ==
  LET terminal == {i \in ItemIds : its[i].status \in QueueTerminal}
      Newer(i) == {j \in terminal : j > i}
  IN [i \in ItemIds |->
        IF i \in terminal /\ Cardinality(Newer(i)) >= TerminalKeep
        THEN NoItem ELSE its[i]]

Finalized == Pruned([i \in ItemIds |-> Settled(i)])

\* _request_consult: one pending consult per orchestrated task; a lost run
\* asks for none.
RequestedConsults ==
  consults \cup ({items[i].task : i \in {j \in ItemIds : Ended(j)}} \cap Orchestrated)

\* Mutant: every record counts, not only the running ones.
ControllerNeverRan ==
  \A r \in RunIds : runs[r].kept => runs[r].provider # Controller

\* _process_consults may start one: not in the middle of a chat turn (outside
\* this module, any answer is possible), and only on a free controller.
ControllerFree ==
  /\ Controller \notin Busy
  /\ \A r \in RunIds : Running(r) => runs[r].step # Orchestrate

\* One tick up to its first await.  In manual mode the pending consults are
\* dropped.  A consult over its task's limit or without a CLI is dropped too.
Tick ==
  /\ frames[Dispatcher].pc = "idle"
  /\ \/ /\ mode = "manual_approval"
        /\ consults' = {}
        /\ DispatchNext(runs, Finalized, TRUE)
     \/ /\ mode # "manual_approval"
        /\ consults' = RequestedConsults  \* none pending, or not now
        /\ RequestedConsults = {} \/ ~ControllerFree \/ "chat" \in Ops
        /\ DispatchNext(runs, Finalized, FALSE)
     \/ \E t \in RequestedConsults :
          /\ mode # "manual_approval"
          /\ ControllerFree
          /\ consults' = RequestedConsults \ {t}
          /\ IF consulted[t] >= ConsultLimit \/ Controller \notin Installed
             THEN DispatchNext(runs, Finalized, FALSE)
             ELSE /\ items' = Finalized
                  /\ frames' = [frames EXCEPT ![Dispatcher] =
                       [pc |-> "consult", item |-> 0, task |-> t,
                        step |-> Orchestrate, provider |-> Controller, run |-> 0]]
                  /\ UNCHANGED stepState
  /\ UNCHANGED <<enqueued, consulted, runVars, settings>>

\* orchestrator_consult after the compressor: no second look at the lane.
ConsultStart ==
  LET f == frames[Dispatcher] IN
  /\ f.pc = "consult"
  /\ NewRecord(Dispatcher, f.task, f.step, f.provider)
  /\ consulted' = [consulted EXCEPT ![f.task] = @ + 1]
  /\ UNCHANGED <<items, enqueued, consults, stepState, settings>>

-----------------------------------------------------------------------------
(* run_step after its awaits.                                              *)

\* Mutant: the lane is not checked again after the snapshot.
GitDoneUnchecked(c) ==
  /\ frames[c].pc = "git"
  /\ NewRecord(c, frames[c].task, frames[c].step, frames[c].provider)
  /\ UNCHANGED <<items, enqueued, consults, consulted, stepState, settings>>

\* The snapshot is there: the lane is checked again, and the run's record is
\* registered in the same segment.
GitDone(c) ==
  LET f == frames[c] IN
  /\ f.pc = "git"
  /\ \/ /\ f.provider \notin Busy
        /\ NewRecord(c, f.task, f.step, f.provider)
        /\ UNCHANGED items
     \/ /\ f.provider \in Busy
        /\ items' = SetItem(items, f.item, StatusAfter("provider_busy"))
        /\ frames' = [frames EXCEPT ![c] = NoFrame]
        /\ UNCHANGED runVars
  /\ UNCHANGED <<enqueued, consults, consulted, stepState, settings>>

\* The process exists: the step and the item become running.
StepSpawned(c) ==
  LET f == frames[c] IN
  /\ f.pc = "spawn" /\ f.step # Orchestrate
  /\ runs' = [runs EXCEPT ![f.run].phase = "alive"]
  /\ stepState' = [stepState EXCEPT ![f.task][f.step] = "running"]
  /\ items' = IF f.item \in ItemIds /\ items[f.item].status # "absent"
              THEN [items EXCEPT ![f.item].status = StatusAfter("started"),
                                 ![f.item].run = f.run]
              ELSE items
  /\ frames' = [frames EXCEPT ![c] = NoFrame]
  /\ UNCHANGED <<enqueued, consults, consulted, started, settings>>

\* The process could not be created.
StepSpawnError(c) ==
  LET f == frames[c] IN
  /\ f.pc = "spawn" /\ f.step # Orchestrate
  /\ runs' = [runs EXCEPT ![f.run].status = "error", ![f.run].phase = "over"]
  /\ stepState' = [stepState EXCEPT ![f.task][f.step] = "error"]
  /\ items' = SetItem(items, f.item, StatusAfter("error"))
  /\ frames' = [frames EXCEPT ![c] = NoFrame]
  /\ UNCHANGED <<enqueued, consults, consulted, started, settings>>

\* The consult's process exists, or could not be created; the tick goes on.
ConsultSpawned ==
  LET f == frames[Dispatcher] IN
  /\ f.pc = "spawn" /\ f.step = Orchestrate
  /\ \/ runs' = [runs EXCEPT ![f.run].phase = "alive"]
     \/ runs' = [runs EXCEPT ![f.run].status = "error", ![f.run].phase = "over"]
  /\ DispatchNext(runs', items, FALSE)
  /\ UNCHANGED <<enqueued, consults, consulted, started, settings>>

-----------------------------------------------------------------------------
(* The life of a run.                                                      *)

\* Mutant: the exit code has the last word over a cancellation.
ExitRevised(r) ==
  /\ runs[r].phase \in {"alive", "dying"}
  /\ \E status \in {"succeeded", "failed", "cancelled"} :
       runs' = [runs EXCEPT ![r].status = status, ![r].phase = "completing"]
  /\ UNCHANGED <<queueVars, started, frames, stepState, settings>>

\* The process ends.  A cancelled record keeps its status.
Exit(r) ==
  /\ \/ /\ runs[r].phase = "alive"
        /\ \E status \in {"succeeded", "failed", "cancelled"} :
             runs' = [runs EXCEPT ![r].status = status, ![r].phase = "completing"]
     \/ /\ runs[r].phase = "dying"
        /\ runs' = [runs EXCEPT ![r].phase = "completing"]
  /\ UNCHANGED <<queueVars, started, frames, stepState, settings>>

\* on_complete, after its own working-tree snapshot, records the step.
Complete(r) ==
  /\ runs[r].phase = "completing"
  /\ runs' = [runs EXCEPT ![r].phase = "over"]
  /\ stepState' = IF runs[r].step \in Steps
                  THEN [stepState EXCEPT ![runs[r].task][runs[r].step] = runs[r].status]
                  ELSE stepState
  /\ UNCHANGED <<queueVars, started, frames, settings>>

Cancellable(r) == runs[r].kept /\ runs[r].phase = "alive"

\* cancel(): the record says "cancelled" at once, the process is on its way out.
Cancelled(R) == [r \in RunIds |->
  IF r \in R THEN [runs[r] EXCEPT !.status = "cancelled", !.phase = "dying"]
  ELSE runs[r]]

\* Stop one run (a user, the controller or the watchdog).
Cancel(r) ==
  /\ "cancel" \in Ops
  /\ Cancellable(r)
  /\ runs' = Cancelled({r})
  /\ UNCHANGED <<queueVars, started, frames, stepState, settings>>

\* Stop without a run id.
CancelAll ==
  /\ "cancel" \in Ops
  /\ runs' = Cancelled({r \in RunIds : Cancellable(r)})
  /\ UNCHANGED <<queueVars, started, frames, stepState, settings>>

\* _new_record for some later run drops a finished record from memory.
Evict(r) ==
  /\ "evict" \in Ops
  /\ runs[r].kept /\ runs[r].status # "running"
  /\ runs' = [runs EXCEPT ![r].kept = FALSE]
  /\ UNCHANGED <<queueVars, started, frames, stepState, settings>>

-----------------------------------------------------------------------------
(* Queue operations of the user and of the controller.                     *)

\* add_steps for one step; a list of steps is one such step after another.
AddStep(t, s) ==
  /\ "add" \in Ops
  /\ enqueued < ItemCap
  /\ \A i \in ItemIds : items[i].task = t /\ items[i].step = s
                          => items[i].status \notin ActiveStatuses
  /\ enqueued' = enqueued + 1
  /\ items' = [items EXCEPT ![enqueued + 1] =
       [status |-> "queued", task |-> t, step |-> s, override |-> None, run |-> 0]]
  /\ UNCHANGED <<consults, consulted, runVars, frames, stepState, settings>>

\* approve_item: looks at the default provider's lane only.
Approve(c, i) ==
  /\ "approve" \in Ops
  /\ frames[c].pc = "idle"
  /\ items[i].status \notin {"absent", "running"}
  /\ StepProvider[items[i].step] \notin Busy
  /\ DispatchItem(runs, c, items, i, FALSE, TRUE)
  /\ UNCHANGED <<enqueued, consults, consulted, runVars, settings>>

\* POST /api/tasks/{id}/run/{step}: run a step outside the queue.
RunStepNow(c, t, s, confirm) ==
  /\ "run" \in Ops
  /\ frames[c].pc = "idle"
  /\ RunStep(runs, c, items, 0, t, s, StepProvider[s], FALSE, confirm)
  /\ UNCHANGED <<enqueued, consults, consulted, runVars, settings>>

\* The rest of the task's blocked items become queued again.
Unblocked(its, i) ==
  [j \in ItemIds |->
     IF j # i /\ its[j].task = its[i].task /\ its[j].status = "blocked"
     THEN [its[j] EXCEPT !.status = "queued"] ELSE its[j]]

Retry(i) ==
  /\ "retry" \in Ops
  /\ items[i].status \in {"failed", "blocked", "skipped", "cancelled"}
  /\ items' = Unblocked([items EXCEPT ![i].status = "queued", ![i].run = 0], i)
  /\ UNCHANGED <<enqueued, consults, consulted, runVars, frames, stepState, settings>>

Skip(i) ==
  /\ "skip" \in Ops
  /\ items[i].status \notin {"absent", "running"}
  /\ items' = Unblocked([items EXCEPT ![i].status = "skipped"], i)
  /\ UNCHANGED <<enqueued, consults, consulted, runVars, frames, stepState, settings>>

Reroute(i, p) ==
  /\ "reroute" \in Ops
  /\ items[i].status \notin {"absent", "running"}
  /\ items' = Unblocked([items EXCEPT ![i].status = "queued", ![i].run = 0,
                                      ![i].override = p], i)
  /\ UNCHANGED <<enqueued, consults, consulted, runVars, frames, stepState, settings>>

Remove(i) ==
  /\ "remove" \in Ops
  /\ items[i].status \notin {"absent", "running"}
  /\ items' = [items EXCEPT ![i] = NoItem]
  /\ UNCHANGED <<enqueued, consults, consulted, runVars, frames, stepState, settings>>

Clear ==
  /\ "remove" \in Ops
  /\ items' = [i \in ItemIds |-> IF items[i].status = "running" THEN items[i] ELSE NoItem]
  /\ UNCHANGED <<enqueued, consults, consulted, runVars, frames, stepState, settings>>

\* set_orchestration_mode, set_provider_health.
SetMode ==
  /\ "mode" \in Ops
  /\ mode' = IF mode = "balanced" THEN "manual_approval" ELSE "balanced"
  /\ UNCHANGED <<queueVars, runVars, frames, stepState, red, sequencing>>

SetHealth ==
  /\ "health" \in Ops
  /\ red' = ~red
  /\ UNCHANGED <<queueVars, runVars, frames, stepState, mode, sequencing>>

\* run_full_sequence, seen from the queue: the task is marked, steps run
\* without an item, the mark goes away.
BeginSequence(t) ==
  /\ "sequence" \in Ops
  /\ mode # "manual_approval"
  /\ sequencing' = sequencing \cup {t}
  /\ UNCHANGED <<queueVars, runVars, frames, stepState, mode, red>>

SequenceStep(c, t, s, p, confirm) ==
  /\ t \in sequencing
  /\ frames[c].pc = "idle"
  /\ RunStep(runs, c, items, 0, t, s, p, TRUE, confirm)
  /\ UNCHANGED <<enqueued, consults, consulted, runVars, settings>>

EndSequence(t) ==
  /\ t \in sequencing
  /\ sequencing' = sequencing \ {t}
  /\ UNCHANGED <<queueVars, runVars, frames, stepState, mode, red>>

-----------------------------------------------------------------------------
EventLoop ==
  \/ Tick \/ ConsultStart \/ ConsultSpawned
  \/ \E c \in Coroutines : GitDone(c) \/ StepSpawned(c) \/ StepSpawnError(c)

Processes ==
  \/ \E r \in RunIds : Exit(r) \/ Complete(r) \/ Cancel(r) \/ Evict(r)
  \/ CancelAll

UserRequest ==
  \/ \E t \in Tasks, s \in Steps : AddStep(t, s)
  \/ \E c \in Requests, i \in ItemIds : Approve(c, i)
  \/ \E c \in Requests, t \in Tasks, s \in Steps, confirm \in BOOLEAN :
       \/ RunStepNow(c, t, s, confirm)
       \/ \E p \in Providers : SequenceStep(c, t, s, p, confirm)
  \/ \E i \in ItemIds : Retry(i) \/ Skip(i) \/ Remove(i)
  \/ \E i \in ItemIds, p \in Providers : Reroute(i, p)
  \/ \E t \in Tasks : BeginSequence(t) \/ EndSequence(t)
  \/ Clear \/ SetMode \/ SetHealth

Next == EventLoop \/ Processes \/ UserRequest

Spec == Init /\ [][Next]_vars

\* The event loop runs what is ready and the operating system answers; users owe
\* nothing.  Processes end: the watchdog stops a CLI that would not.  That is an
\* assumption where a descendant of the CLI keeps its output open for ever.
Fairness ==
  /\ WF_vars(Tick) /\ WF_vars(ConsultStart) /\ WF_vars(ConsultSpawned)
  /\ \A c \in Coroutines :
       WF_vars(GitDone(c)) /\ WF_vars(StepSpawned(c) \/ StepSpawnError(c))
  /\ \A r \in RunIds : WF_vars(Exit(r)) /\ WF_vars(Complete(r))

FairSpec == Spec /\ Fairness

-----------------------------------------------------------------------------
(* What the queue promises.                                                *)

\* "One step per agent at a time": two records of step runs that both say
\* running are on different providers, whoever started them (dispatcher,
\* approvals, direct runs, full sequences).
LaneExclusive ==
  \A r, q \in RunIds :
    r # q /\ Running(r) /\ Running(q) /\ runs[r].step \in Steps /\ runs[q].step \in Steps
      => runs[r].provider # runs[q].provider

\* A running item names a run of its own task and step that really started,
\* and no two running items name the same run: settling an item from
\* RUNNER.runs can never settle it with someone else's result.
RunningItemOwnsRun ==
  \A i \in ItemIds : items[i].status = "running" =>
    /\ items[i].run # 0
    /\ runs[items[i].run].phase \in {"alive", "dying", "completing", "over"}
    /\ runs[items[i].run].status # "error"
    /\ runs[items[i].run].task = items[i].task
    /\ runs[items[i].run].step = items[i].step
    /\ \A j \in ItemIds : j # i /\ items[j].status = "running"
                              => items[j].run # items[i].run

\* The runs the queue sees live as RunLifecycle says: one verdict, never revised,
\* and the step's result recorded once, after it.
Lifecycle == INSTANCE RunLifecycle WITH
  Runs <- RunIds,
  verdict <- [r \in RunIds |-> runs[r].status],
  reported <- {r \in RunIds : runs[r].phase = "over" /\ runs[r].status # "error"}

RunsLiveOnce == Lifecycle!Spec

\* An item that says done was run and its run succeeded, however often it was
\* cancelled, retried, rerouted or approved before.
DoneMeansSucceeded ==
  \A i \in ItemIds : items[i].status = "done" =>
    items[i].run # 0 /\ runs[items[i].run].status = "succeeded"

\* "Queue order preserved within a task": while an item runs, every earlier
\* item of its task has come to an end.
TaskInOrder ==
  \A i, j \in ItemIds :
    i < j /\ items[i].task = items[j].task /\ items[j].status = "running"
      => items[i].status \notin ActiveStatuses

\* A live process of a step was started by a queue item that still tracks it.
LiveRunTracked ==
  \A r \in RunIds : runs[r].phase = "alive" /\ runs[r].step \in Steps =>
    \E i \in ItemIds : items[i].status = "running" /\ items[i].run = r

\* The step a failed item leaves behind holds its task: no item of the task
\* stays queued in the step that settles a running item as not done.
FailureHoldsTask ==
  [][\A i \in ItemIds :
       items[i].status = "running" /\ items'[i].status \in {"failed", "cancelled"} =>
         \A j \in ItemIds : items[j].task = items[i].task => items'[j].status # "queued"]_vars

\* Settling, dispatching and blocking change an item's status only as
\* QUEUE_TRANSITIONS allows (the code only logs a status it does not allow).
QueueTableHolds ==
  [][\A i \in ItemIds : items[i].status # "absent" /\ items'[i].status # "absent"
       => QueueStepOK(items[i].status, items'[i].status)]_vars

\* Every queued item is eventually taken up, blocked or deleted, or waits for
\* the user behind an item of its task that is blocked or wants approval.
AwaitsUser(i) ==
  \E j \in ItemIds : /\ j < i /\ items[j].task = items[i].task
                     /\ items[j].status \in {"blocked", "awaiting_approval"}
QueuedIsServed ==
  \A i \in ItemIds :
    items[i].status = "queued" ~> items[i].status # "queued" \/ AwaitsUser(i)

\* A running item is eventually settled.
RunningIsSettled ==
  \A i \in ItemIds : items[i].status = "running" ~> items[i].status # "running"

\* A requested controller consult is eventually taken up.
ConsultIsServed == \A t \in Tasks : t \in consults ~> t \notin consults

-----------------------------------------------------------------------------
(* The inductive invariant behind LaneExclusive, RunningItemOwnsRun and     *)
(* DoneMeansSucceeded.                                                      *)

Unborn == {"absent", "spawning"}

\* What is true of a record, number r, when n runs were started.
RunOK(run, r, n) ==
  /\ r > n => run = NoRun
  /\ r <= n => /\ run.status # "absent" /\ run.phase # "absent"
               /\ run.task \in Tasks /\ run.provider \in Providers
               /\ run.step \in Steps \cup {Orchestrate}
  /\ run.phase \in {"spawning", "alive"} <=> run.status = "running"
  /\ run.status = "running" => run.kept
  /\ run.status = "error" => run.phase = "over"

RunsOK(rs, n) == \A r \in RunIds : RunOK(rs[r], r, n)

\* What is true of the items its when m were enqueued and the records are rs:
\* an item's run, if any, was started for it and for no other item.
ItemsOK(its, rs, m) ==
  /\ \A i \in ItemIds :
       /\ its[i].status # "absent" =>
            i <= m /\ its[i].task \in Tasks /\ its[i].step \in Steps
       /\ its[i].run # 0 =>
            /\ rs[its[i].run].phase \notin Unborn
            /\ rs[its[i].run].status # "error"
            /\ rs[its[i].run].task = its[i].task
            /\ rs[its[i].run].step = its[i].step
       /\ its[i].status = "running" => its[i].run # 0
       /\ its[i].status = "done" => its[i].run # 0 /\ rs[its[i].run].status = "succeeded"
  /\ \A i, j \in ItemIds : i # j /\ its[i].run # 0 => its[i].run # its[j].run

\* What a waiting coroutine c may rely on, with the consults spent so far.
FrameOK(f, c, its, rs, m, spent) ==
  /\ f.pc \in {"git", "spawn"} /\ f.step # Orchestrate =>
       /\ f.task \in Tasks /\ f.step \in Steps /\ f.provider \in Providers
       /\ f.item # 0 =>
            /\ f.item <= m
            /\ its[f.item].status # "absent" =>
                 its[f.item].task = f.task /\ its[f.item].step = f.step
  /\ f.step = Orchestrate =>
       c = Dispatcher /\ f.task \in Tasks /\ f.provider = Controller
  /\ f.pc = "git" => f.step # Orchestrate
  /\ f.pc = "consult" => f.step = Orchestrate /\ spent[f.task] < ConsultLimit
  /\ f.pc = "spawn" =>
       /\ f.run # 0 /\ rs[f.run].phase = "spawning"
       /\ rs[f.run].task = f.task /\ rs[f.run].step = f.step

FramesOK(fs, its, rs, m, spent) ==
  /\ \A c \in Coroutines : FrameOK(fs[c], c, its, rs, m, spent)
  /\ \A c, d \in Coroutines : c # d /\ fs[c].pc = "spawn" /\ fs[d].pc = "spawn"
                               => fs[c].run # fs[d].run

\* TypeOK, LaneExclusive, and what they need to be kept by every step: every
\* record, item and waiting coroutine is in a state its history explains.
IInv ==
  /\ TypeOK
  /\ RunsOK(runs, started)
  /\ ItemsOK(items, runs, enqueued)
  /\ FramesOK(frames, items, runs, enqueued, consulted)
  /\ LaneExclusive

-----------------------------------------------------------------------------
(* What the code says of itself and does not always keep.                  *)

\* "One step per agent at a time", of the processes themselves: two live step
\* processes belong to different providers.
StepProcess(r) == runs[r].phase \in {"alive", "dying"} /\ runs[r].step \in Steps
OneProcessPerAgent ==
  \A r, q \in RunIds :
    r # q /\ StepProcess(r) /\ StepProcess(q) => runs[r].provider # runs[q].provider
=============================================================================
