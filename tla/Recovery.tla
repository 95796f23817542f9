------------------------------ MODULE Recovery ------------------------------
(***************************************************************************)
(* The durable store of a workspace over crashes and restarts: the ledger  *)
(* runs.json, the items of queue.json, the steps and the fullSequence of   *)
(* task.json, recover_workspace, and the two that start runs by            *)
(* themselves, the dispatcher and the full sequence.                       *)
(*                                                                         *)
(* A handler of the event loop is cut at the writes of the run that it     *)
(* starts or ends: step, row, item; step, row of the hook.  A crash may    *)
(* fall between two of them; nothing else on the loop may (Quiet).  Where  *)
(* no run is concerned (a tick that settles and has its next item refused, *)
(* a refused step of a sequence with the mark of the sequence), the writes *)
(* of one turn are one action.                                             *)
(*                                                                         *)
(* recover_workspace runs at startup, and again in a thread of the living  *)
(* server when a workspace is opened: its three parts are then interleaved *)
(* with everything.  One part reads and writes one file and is atomic      *)
(* here.                                                                   *)
(***************************************************************************)
EXTENDS Naturals, Sequences

CONSTANTS
  Tasks, Steps, Providers,
  StepProvider,  \* [Steps -> Providers]
  Claude,        \* the provider whose red health asks for confirmation
  Installed,     \* providers whose CLI is on PATH
  Plan,          \* the steps of a full sequence, in order
  Skippable,     \* steps budget_saver leaves out of a small task
  Implement,     \* the step before which a red Claude stops a sequence
  ItemTask, ItemStep,  \* what the items of the queue ask for
  Sequences,     \* requests for a full sequence
  ItemCap, RunCap, LifeCap, HealCap,  \* bounds: items, runs, lives, heals
  None

Items == 1..ItemCap
Runs == 1..RunCap
Dispatcher == "dispatcher"
Coroutines == {Dispatcher} \cup Sequences
Verdicts == {"succeeded", "failed", "cancelled", "error"}

ASSUME StoreAssumption ==
  /\ StepProvider \in [Steps -> Providers]
  /\ Plan \in Seq(Steps)
  /\ ItemCap \in Nat /\ RunCap \in Nat /\ LifeCap \in Nat /\ HealCap \in Nat
  /\ ItemTask \in [Items -> Tasks] /\ ItemStep \in [Items -> Steps]
  /\ Dispatcher \notin Sequences
  /\ None \notin Tasks /\ None \notin Steps /\ None \notin Verdicts

VARIABLES
  \* Durable.
  item, itemRun,        \* status and runId of the items in queue.json
  row,                  \* status of the runs in runs.json; "interrupted" is
                        \* failed with failureKind backend_restart
  stepStatus, stepRun,  \* status and runId of the steps in task.json
  sequence,             \* fullSequence.status in task.json
  \* Of one life of the server.
  proc,                 \* a run's record and process; "lost" after that life
  verdict,              \* the status of the record once it is not "running"
  runTask, runStep,     \* what the run was started for
  started,              \* how many runs were ever started
  pc, cRun,             \* the coroutines: where they wait, and their run
  cued,                 \* the item the dispatcher is starting
  seqTask, at,          \* a sequence's task and place in the plan
  marks,                \* _full_sequences_running
  phase, recovery,      \* the server, and the part of recovery that is next
  lives, heals,         \* how many there have been
  raised                \* tasks whose sequence ended in an exception

durable == <<item, itemRun, row, stepStatus, stepRun, sequence>>
runVars == <<proc, verdict, runTask, runStep, started>>
frameVars == <<pc, cRun, cued, seqTask, at, marks, raised>>
server == <<phase, recovery, lives, heals>>
vars == <<durable, runVars, frameVars, server>>

ItemStatuses == {"absent", "queued", "running", "awaiting_approval", "blocked",
                 "done", "cancelled", "failed", "skipped"}
RowStatuses == {"absent", "running", "interrupted"} \cup Verdicts
StepStatuses == {"idle", "running", "skipped_budget", "provider_missing"} \cup Verdicts
SequenceStatuses == {"idle", "running", "blocked", "stopped", "completed", "interrupted"}
Writing == {"step", "row", "item", "next"}

DurableTypes ==
  /\ item \in [Items -> ItemStatuses]
  /\ itemRun \in [Items -> Runs \cup {0}]
  /\ row \in [Runs -> RowStatuses]
  /\ stepStatus \in [Tasks -> [Steps -> StepStatuses]]
  /\ stepRun \in [Tasks -> [Steps -> Runs \cup {0}]]
  /\ sequence \in [Tasks -> SequenceStatuses]
RunTypes ==
  /\ proc \in [Runs -> {"none", "spawning", "alive", "dying", "closing",
                        "settling", "over", "lost"}]
  /\ verdict \in [Runs -> Verdicts \cup {None}]
  /\ runTask \in [Runs -> Tasks \cup {None}]
  /\ runStep \in [Runs -> Steps \cup {None}]
  /\ started \in 0..RunCap
FrameTypes ==
  /\ pc \in [Coroutines -> {"idle", "pending", "precheck", "git", "spawn",
                            "await", "ended"} \cup Writing]
  /\ cRun \in [Coroutines -> Runs \cup {0}]
  /\ cued \in Items \cup {0}
  /\ seqTask \in [Sequences -> Tasks \cup {None}]
  /\ at \in [Sequences -> 0..(Len(Plan) + 1)]
  /\ marks \subseteq Tasks /\ raised \subseteq Tasks
ServerTypes ==
  /\ phase \in {"starting", "up", "stopping", "down"}
  /\ recovery \in {"idle", "rows", "items", "tasks"}
  /\ lives \in 1..(LifeCap + 1) /\ heals \in 0..HealCap
TypeOK == DurableTypes /\ RunTypes /\ FrameTypes /\ ServerTypes

Init ==
  /\ item = [i \in Items |-> "absent"] /\ itemRun = [i \in Items |-> 0]
  /\ row = [r \in Runs |-> "absent"]
  /\ stepStatus = [t \in Tasks |-> [s \in Steps |-> "idle"]]
  /\ stepRun = [t \in Tasks |-> [s \in Steps |-> 0]]
  /\ sequence = [t \in Tasks |-> "idle"]
  /\ proc = [r \in Runs |-> "none"] /\ verdict = [r \in Runs |-> None]
  /\ runTask = [r \in Runs |-> None] /\ runStep = [r \in Runs |-> None]
  /\ started = 0
  /\ pc = [c \in Coroutines |-> "idle"] /\ cRun = [c \in Coroutines |-> 0]
  /\ cued = 0
  /\ seqTask = [c \in Sequences |-> None] /\ at = [c \in Sequences |-> 0]
  /\ marks = {} /\ raised = {}
  /\ phase = "up" /\ recovery = "idle" /\ lives = 1 /\ heals = 0

-----------------------------------------------------------------------------
(* The event loop: no coroutine is between two writes.                     *)

Quiet ==
  /\ \A c \in Coroutines : pc[c] \notin Writing
  /\ \A r \in Runs : proc[r] # "settling"
Alive == phase \in {"up", "stopping"}
Loop == Alive /\ Quiet

\* RUNNER.procs: what the runner manages, and recovery leaves alone.
Managed(r) == proc[r] = "alive"
\* running_for_provider: a record that says running keeps its lane.
Busy == {p \in Providers : \E r \in Runs : /\ proc[r] \in {"spawning", "alive"}
                                           /\ runStep[r] \in Steps
                                           /\ StepProvider[runStep[r]] = p}

TaskOf(c) == IF c = Dispatcher THEN ItemTask[cued] ELSE seqTask[c]
StepOf(c) == IF c = Dispatcher THEN ItemStep[cued] ELSE Plan[at[c]]

\* run_step up to its first await; mode and health are read each time.  Runs
\* that are no steps (a chat, a probe of the CLI) hold a lane too: a free one
\* may be busy.
Answers(p) ==
  {"provider_busy"} \cup
  IF p \in Busy THEN {}
  ELSE {"manual_preview"} \cup
       IF p \notin Installed THEN {"provider_missing"}
       ELSE {"proceed"} \cup IF p = Claude THEN {"needs_confirmation"} ELSE {}

\* dispatch_item: the status of the item after an answer that is no start.
StatusAfter(answer) ==
  CASE answer = "needs_confirmation" -> "blocked"
    [] answer = "manual_preview" -> "awaiting_approval"
    [] answer = "provider_missing" -> "skipped"
    [] OTHER -> "failed"

-----------------------------------------------------------------------------
(* The dispatcher.                                                         *)

Enqueue(i) ==
  /\ Loop /\ phase = "up" /\ item[i] = "absent"
  /\ item' = [item EXCEPT ![i] = "queued"]
  /\ UNCHANGED <<itemRun, row, stepStatus, stepRun, sequence, runVars, frameVars, server>>

\* Mutant: only an item whose record is gone is settled.
OutcomeWhenLost(i) == IF proc[itemRun[i]] = "lost" THEN "failed" ELSE "running"

\* _finalize_running: what a running item becomes.
Outcome(i) ==
  LET r == itemRun[i] IN
  IF r = 0 \/ proc[r] = "lost" THEN "failed"
  ELSE CASE verdict[r] = None -> "running"
         [] verdict[r] = "succeeded" -> "done"
         [] verdict[r] = "cancelled" -> "cancelled"
         [] OTHER -> "failed"
Blocks(i) == item[i] = "running" /\ Outcome(i) \notin {"running", "done"}
Settled ==
  [i \in Items |->
     IF item[i] = "running" THEN Outcome(i)
     ELSE IF item[i] = "queued" /\ \E j \in Items : Blocks(j) /\ ItemTask[j] = ItemTask[i]
     THEN "blocked" ELSE item[i]]

\* _pick_candidate: in queue order, a free lane, no earlier active item of
\* the task, and no full sequence that says it is running.
Eligible(its, i) ==
  /\ its[i] = "queued"
  /\ \A j \in 1..(i - 1) : ItemTask[j] = ItemTask[i]
       => its[j] \notin {"queued", "running", "awaiting_approval", "blocked"}
  /\ StepProvider[ItemStep[i]] \notin Busy
  /\ sequence[ItemTask[i]] # "running"
First(its, i) == Eligible(its, i) /\ \A j \in 1..(i - 1) : ~Eligible(its, j)

\* tick: settle, then take up to one item to the snapshot of run_step.
Tick ==
  /\ Loop /\ phase = "up" /\ pc[Dispatcher] = "idle"
  /\ \/ /\ \A i \in Items : ~Eligible(Settled, i)
        /\ item' = Settled
        /\ UNCHANGED <<stepStatus, pc, cued>>
     \/ \E i \in Items : \E answer \in Answers(StepProvider[ItemStep[i]]) :
          /\ First(Settled, i)
          /\ \/ /\ answer = "proceed"
                /\ item' = Settled
                /\ pc' = [pc EXCEPT ![Dispatcher] = "git"] /\ cued' = i
                /\ UNCHANGED stepStatus
             \/ /\ answer # "proceed"
                /\ item' = [Settled EXCEPT ![i] = StatusAfter(answer)]
                /\ stepStatus' = IF answer = "provider_missing"
                     THEN [stepStatus EXCEPT ![ItemTask[i]][ItemStep[i]] = answer]
                     ELSE stepStatus
                /\ UNCHANGED <<pc, cued>>
  /\ UNCHANGED <<itemRun, row, stepRun, sequence, runVars, cRun, seqTask, at,
                 marks, raised, server>>

BackToIdle ==
  /\ pc' = [pc EXCEPT ![Dispatcher] = "idle"]
  /\ cRun' = [cRun EXCEPT ![Dispatcher] = 0] /\ cued' = 0

\* _set_item after run_step: the item names its run, or says failed.
WriteItem ==
  /\ Alive /\ pc[Dispatcher] = "item"
  /\ LET r == cRun[Dispatcher] IN
     /\ item' = [item EXCEPT ![cued] =
          IF verdict[r] = "error" THEN "failed" ELSE "running"]
     /\ itemRun' = [itemRun EXCEPT ![cued] = IF verdict[r] = "error" THEN @ ELSE r]
  /\ BackToIdle
  /\ UNCHANGED <<row, stepStatus, stepRun, sequence, runVars, seqTask, at, marks,
                 raised, server>>

-----------------------------------------------------------------------------
(* The full sequence.                                                      *)

\* run_full_sequence: the mark is looked for here and set by the background
\* task, so a second request may still pass.
StartSequence(c, t) ==
  /\ Loop /\ phase = "up" /\ pc[c] = "idle" /\ t \notin marks
  /\ sequence' = [sequence EXCEPT ![t] = "running"]
  /\ pc' = [pc EXCEPT ![c] = "pending"] /\ seqTask' = [seqTask EXCEPT ![c] = t]
  /\ raised' = raised \ {t}
  /\ UNCHANGED <<item, itemRun, row, stepStatus, stepRun, runVars, cRun, cued, at,
                 marks, server>>

BeginSequence(c) ==
  /\ Loop /\ pc[c] = "pending"
  /\ marks' = marks \cup {seqTask[c]} /\ pc' = [pc EXCEPT ![c] = "precheck"]
  /\ UNCHANGED <<durable, runVars, cRun, cued, seqTask, at, raised, server>>

PrecheckDone(c) ==
  /\ Loop /\ pc[c] = "precheck"
  /\ pc' = [pc EXCEPT ![c] = "next"] /\ at' = [at EXCEPT ![c] = 1]
  /\ UNCHANGED <<durable, runVars, cRun, cued, seqTask, marks, raised, server>>

\* The coroutine is over: its frame is gone, the mark is taken away.
Ended(c) ==
  /\ pc' = [pc EXCEPT ![c] = "ended"] /\ cRun' = [cRun EXCEPT ![c] = 0]
  /\ seqTask' = [seqTask EXCEPT ![c] = None] /\ at' = [at EXCEPT ![c] = 0]
  /\ marks' = marks \ {seqTask[c]}

\* The end of a sequence: its status is saved.
Finish(c, status) ==
  /\ sequence' = [sequence EXCEPT ![seqTask[c]] = status]
  /\ Ended(c)
  /\ UNCHANGED stepStatus

\* Go on with the next step of the plan at once.
SkipStep(c, status) ==
  /\ stepStatus' = [stepStatus EXCEPT ![seqTask[c]][Plan[at[c]]] = status]
  /\ at' = [at EXCEPT ![c] = @ + 1]
  /\ UNCHANGED <<pc, cRun, seqTask, marks>>

\* Mutant: the pause before a red Claude is not written down.
NextStepUnsaid(c) ==
  /\ Alive /\ pc[c] = "next" /\ at[c] <= Len(Plan)
  /\ Ended(c)
  /\ UNCHANGED <<durable, runVars, cued, raised, server>>

\* One turn of the loop over the plan, up to the snapshot of run_step.
NextStep(c) ==
  /\ Alive /\ pc[c] = "next" /\ at[c] <= Len(Plan)
  /\ LET step == Plan[at[c]] IN
     \/ step \in Skippable /\ SkipStep(c, "skipped_budget") /\ UNCHANGED sequence
     \/ step = Implement /\ Finish(c, "blocked")
     \/ \E answer \in Answers(StepProvider[step]) :
          \/ /\ answer = "proceed"
             /\ sequence' = [sequence EXCEPT ![seqTask[c]] = "running"]
             /\ pc' = [pc EXCEPT ![c] = "git"]
             /\ UNCHANGED <<stepStatus, cRun, seqTask, at, marks>>
          \/ /\ answer = "provider_missing"
             /\ sequence' = [sequence EXCEPT ![seqTask[c]] = "running"]
             /\ SkipStep(c, answer)
          \/ /\ answer \notin {"proceed", "provider_missing"}
             /\ answer = "needs_confirmation" => step # Implement
             /\ Finish(c, "stopped")
  /\ UNCHANGED <<item, itemRun, row, stepRun, runVars, cued, raised, server>>

CompleteSequence(c) ==
  /\ Alive /\ pc[c] = "next" /\ at[c] > Len(Plan)
  /\ Finish(c, "completed")
  /\ UNCHANGED <<item, itemRun, row, stepRun, runVars, cued, raised, server>>

\* Mutant: only a success is waited for.
AwaitSuccess(c) ==
  /\ Loop /\ pc[c] = "await" /\ verdict[cRun[c]] = "succeeded"
  /\ pc' = [pc EXCEPT ![c] = "next"] /\ at' = [at EXCEPT ![c] = @ + 1]
  /\ UNCHANGED <<durable, runVars, cRun, cued, seqTask, marks, raised, server>>

\* _await_run: it looks every half second whether the record still runs.
AwaitRun(c) ==
  /\ Loop /\ pc[c] = "await" /\ verdict[cRun[c]] # None
  /\ \/ /\ verdict[cRun[c]] = "succeeded"
        /\ pc' = [pc EXCEPT ![c] = "next"] /\ at' = [at EXCEPT ![c] = @ + 1]
        /\ UNCHANGED <<sequence, stepStatus, cRun, seqTask, marks>>
     \/ verdict[cRun[c]] # "succeeded" /\ Finish(c, "stopped")
  /\ UNCHANGED <<item, itemRun, row, stepRun, runVars, cued, raised, server>>

\* An exception: the mark is taken away, the status stays.
Raise(c) ==
  /\ Alive /\ pc[c] \in {"precheck", "next"} /\ (pc[c] = "precheck" => Quiet)
  /\ Ended(c)
  /\ raised' = raised \cup {seqTask[c]}
  /\ UNCHANGED <<durable, runVars, cued, server>>

-----------------------------------------------------------------------------
(* run_step after its snapshot, for the dispatcher and for a sequence.     *)

\* The second look at the lane, which may be taken by now; then a record,
\* running before its process.
GitDone(c) ==
  /\ Loop /\ pc[c] = "git"
  /\ \/ /\ c = Dispatcher
        /\ item' = [item EXCEPT ![cued] = "failed"]
        /\ BackToIdle
        /\ UNCHANGED <<sequence, marks, stepStatus, at, seqTask, runVars>>
     \/ /\ c # Dispatcher
        /\ Finish(c, "stopped")
        /\ UNCHANGED <<item, cued, runVars>>
     \/ /\ StepProvider[StepOf(c)] \notin Busy /\ started < RunCap
        /\ started' = started + 1
        /\ proc' = [proc EXCEPT ![started + 1] = "spawning"]
        /\ runTask' = [runTask EXCEPT ![started + 1] = TaskOf(c)]
        /\ runStep' = [runStep EXCEPT ![started + 1] = StepOf(c)]
        /\ cRun' = [cRun EXCEPT ![c] = started + 1]
        /\ pc' = [pc EXCEPT ![c] = "spawn"]
        /\ UNCHANGED <<item, sequence, marks, verdict, stepStatus, at, seqTask, cued>>
  /\ UNCHANGED <<itemRun, row, stepRun, raised, server>>

\* The process exists, or could not be created.
Spawned(c) ==
  /\ Loop /\ pc[c] = "spawn"
  /\ LET r == cRun[c] IN
     \/ proc' = [proc EXCEPT ![r] = "alive"] /\ UNCHANGED verdict
     \/ /\ proc' = [proc EXCEPT ![r] = "over"]
        /\ verdict' = [verdict EXCEPT ![r] = "error"]
  /\ pc' = [pc EXCEPT ![c] = "step"]
  /\ UNCHANGED <<durable, runTask, runStep, started, cRun, cued, seqTask, at, marks,
                 raised, server>>

\* The step says running, with its run; an error names no run.
WriteStep(c) ==
  /\ Alive /\ pc[c] = "step"
  /\ LET r == cRun[c] IN
     /\ stepStatus' = [stepStatus EXCEPT ![runTask[r]][runStep[r]] =
          IF verdict[r] = "error" THEN "error" ELSE "running"]
     /\ stepRun' = [stepRun EXCEPT ![runTask[r]][runStep[r]] =
          IF verdict[r] = "error" THEN @ ELSE r]
  /\ pc' = [pc EXCEPT ![c] = "row"]
  /\ UNCHANGED <<item, itemRun, row, sequence, runVars, cRun, cued, seqTask, at,
                 marks, raised, server>>

\* The row of the run; a sequence whose run could not start stops.
WriteRow(c) ==
  /\ Alive /\ pc[c] = "row"
  /\ LET r == cRun[c] IN
     /\ row' = [row EXCEPT ![r] = IF verdict[r] = "error" THEN "error" ELSE "running"]
     /\ IF c # Dispatcher /\ verdict[r] = "error"
        THEN Finish(c, "stopped")
        ELSE /\ pc' = [pc EXCEPT ![c] = IF c = Dispatcher THEN "item" ELSE "await"]
             /\ UNCHANGED <<sequence, marks, stepStatus, cRun, at, seqTask>>
  /\ UNCHANGED <<item, itemRun, stepRun, runVars, cued, raised, server>>

-----------------------------------------------------------------------------
(* The end of a run.                                                       *)

\* The output ends and the exit code is read: the record has its verdict.
Exit(r) ==
  /\ Loop /\ proc[r] = "alive"
  /\ proc' = [proc EXCEPT ![r] = "closing"]
  /\ \E v \in {"succeeded", "failed", "cancelled"} : verdict' = [verdict EXCEPT ![r] = v]
  /\ UNCHANGED <<durable, runTask, runStep, started, frameVars, server>>

\* cancel(): the record says so and is no longer managed; then it dies.
Cancel(r) ==
  /\ Loop /\ proc[r] = "alive"
  /\ proc' = [proc EXCEPT ![r] = "dying"]
  /\ verdict' = [verdict EXCEPT ![r] = "cancelled"]
  /\ UNCHANGED <<durable, runTask, runStep, started, frameVars, server>>

Died(r) ==
  /\ Loop /\ proc[r] = "dying"
  /\ proc' = [proc EXCEPT ![r] = "closing"]
  /\ UNCHANGED <<durable, verdict, runTask, runStep, started, frameVars, server>>

\* Mutant: the hook believes every run that ended by itself.
HookStepTrusting(r) ==
  /\ Loop /\ proc[r] = "closing"
  /\ stepStatus' = [stepStatus EXCEPT ![runTask[r]][runStep[r]] =
       IF verdict[r] = "failed" THEN "succeeded" ELSE verdict[r]]
  /\ stepRun' = [stepRun EXCEPT ![runTask[r]][runStep[r]] = r]
  /\ proc' = [proc EXCEPT ![r] = "settling"]
  /\ UNCHANGED <<item, itemRun, row, sequence, verdict, runTask, runStep, started,
                 frameVars, server>>

\* on_complete, after its look at the working tree: the step, then the row.
HookStep(r) ==
  /\ Loop /\ proc[r] = "closing"
  /\ stepStatus' = [stepStatus EXCEPT ![runTask[r]][runStep[r]] = verdict[r]]
  /\ stepRun' = [stepRun EXCEPT ![runTask[r]][runStep[r]] = r]
  /\ proc' = [proc EXCEPT ![r] = "settling"]
  /\ UNCHANGED <<item, itemRun, row, sequence, verdict, runTask, runStep, started,
                 frameVars, server>>

HookRow(r) ==
  /\ Alive /\ proc[r] = "settling"
  /\ row' = [row EXCEPT ![r] = verdict[r]]
  /\ proc' = [proc EXCEPT ![r] = "over"]
  /\ UNCHANGED <<item, itemRun, stepStatus, stepRun, sequence, verdict, runTask, runStep,
                 started, frameVars, server>>

-----------------------------------------------------------------------------
(* The server: crash, restart, shutdown, and recovery.                     *)

GoDown ==
  /\ lives <= LifeCap /\ lives' = lives + 1
  /\ phase' = "down" /\ recovery' = "idle"
  /\ proc' = [r \in Runs |-> IF proc[r] = "none" THEN "none" ELSE "lost"]
  /\ pc' = [c \in Coroutines |-> IF c = Dispatcher \/ pc[c] = "idle" THEN "idle" ELSE "ended"]
  /\ cRun' = [c \in Coroutines |-> 0] /\ cued' = 0
  /\ seqTask' = [c \in Sequences |-> None] /\ at' = [c \in Sequences |-> 0]
  /\ marks' = {} /\ raised' = {}
  /\ verdict' = [r \in Runs |-> IF verdict[r] = "succeeded" THEN "succeeded" ELSE None]
  /\ UNCHANGED <<durable, runTask, runStep, started, heals>>

\* At any time, also while it starts.
Crash == phase # "down" /\ GoDown

\* _lifespan at its end: the dispatcher is cancelled where it waits, every
\* run is cancelled; the hooks have until the process is gone.
Shutdown ==
  /\ Loop /\ phase = "up" /\ lives <= LifeCap
  /\ phase' = "stopping"
  /\ proc' = [r \in Runs |-> CASE proc[r] = "alive" -> "dying"
                               [] proc[r] = "spawning" /\ cRun[Dispatcher] = r
                                  /\ pc[Dispatcher] = "spawn" -> "lost"
                               [] OTHER -> proc[r]]
  /\ verdict' = [r \in Runs |-> IF proc[r] = "alive" THEN "cancelled" ELSE verdict[r]]
  /\ BackToIdle
  /\ UNCHANGED <<durable, runTask, runStep, started, seqTask, at, marks, raised,
                 recovery, lives, heals>>
Halt == phase = "stopping" /\ GoDown

\* _lifespan at its start: recovery before anything else.  (A recovery that
\* raises is caught there, and the server goes up with what is left: not here.)
Restart ==
  /\ phase = "down"
  /\ phase' = "starting" /\ recovery' = "rows"
  /\ UNCHANGED <<durable, runVars, frameVars, lives, heals>>

\* set_workspace, in a thread: the same recovery in a living server.
Heal ==
  /\ phase = "up" /\ recovery = "idle" /\ heals < HealCap
  /\ heals' = heals + 1 /\ recovery' = "rows"
  /\ UNCHANGED <<durable, runVars, frameVars, phase, lives>>

\* Mutant: no look at what the runner manages.
RecoverAllRows ==
  /\ recovery = "rows" /\ phase # "down"
  /\ row' = [r \in Runs |-> IF row[r] = "running" THEN "interrupted" ELSE row[r]]
  /\ recovery' = "items"
  /\ UNCHANGED <<item, itemRun, stepStatus, stepRun, sequence, runVars, frameVars,
                 phase, lives, heals>>

\* 1) Rows that say running and that the runner does not manage.
RecoverRows ==
  /\ recovery = "rows" /\ phase # "down"
  /\ row' = [r \in Runs |->
       IF row[r] = "running" /\ ~Managed(r) THEN "interrupted" ELSE row[r]]
  /\ recovery' = "items"
  /\ UNCHANGED <<item, itemRun, stepStatus, stepRun, sequence, runVars, frameVars,
                 phase, lives, heals>>

\* 2) Every running item fails; what is queued for its task is blocked.
RecoverItems ==
  /\ recovery = "items" /\ phase # "down"
  /\ item' = [i \in Items |->
       IF item[i] = "running" THEN "failed"
       ELSE IF item[i] = "queued"
               /\ \E j \in Items : item[j] = "running" /\ ItemTask[j] = ItemTask[i]
       THEN "blocked" ELSE item[i]]
  /\ recovery' = "tasks"
  /\ UNCHANGED <<itemRun, row, stepStatus, stepRun, sequence, runVars, frameVars,
                 phase, lives, heals>>

\* Mutant: only steps without a run are freed.
RecoverTasksUnnamed ==
  /\ recovery = "tasks" /\ phase # "down"
  /\ stepStatus' = [t \in Tasks |-> [s \in Steps |->
       IF stepStatus[t][s] = "running" /\ stepRun[t][s] = 0
       THEN "failed" ELSE stepStatus[t][s]]]
  /\ sequence' = [t \in Tasks |->
       IF sequence[t] = "running" THEN "interrupted" ELSE sequence[t]]
  /\ recovery' = "idle" /\ phase' = IF phase = "starting" THEN "up" ELSE phase
  /\ UNCHANGED <<item, itemRun, row, stepRun, runVars, frameVars, lives, heals>>

\* 3) Steps that say running without a managed run, and running sequences.
RecoverTasks ==
  /\ recovery = "tasks" /\ phase # "down"
  /\ stepStatus' = [t \in Tasks |-> [s \in Steps |->
       IF stepStatus[t][s] = "running" /\ (stepRun[t][s] = 0 \/ ~Managed(stepRun[t][s]))
       THEN "failed" ELSE stepStatus[t][s]]]
  /\ sequence' = [t \in Tasks |->
       IF sequence[t] = "running" THEN "interrupted" ELSE sequence[t]]
  /\ recovery' = "idle" /\ phase' = IF phase = "starting" THEN "up" ELSE phase
  /\ UNCHANGED <<item, itemRun, row, stepRun, runVars, frameVars, lives, heals>>

-----------------------------------------------------------------------------
SequenceTurn(c) ==
  \/ BeginSequence(c) \/ PrecheckDone(c)
  \/ NextStep(c) \/ CompleteSequence(c) \/ AwaitRun(c)
StepTurn(c) == GitDone(c) \/ Spawned(c) \/ WriteStep(c) \/ WriteRow(c)
EndOfRun(r) == Exit(r) \/ Died(r) \/ HookStep(r) \/ HookRow(r)
Recover == RecoverRows \/ RecoverItems \/ RecoverTasks

Next ==
  \/ \E i \in Items : Enqueue(i)
  \/ Tick \/ WriteItem
  \/ \E c \in Coroutines : StepTurn(c)
  \/ \E c \in Sequences : SequenceTurn(c) \/ Raise(c) \/ \E t \in Tasks : StartSequence(c, t)
  \/ \E r \in Runs : EndOfRun(r) \/ Cancel(r)
  \/ Crash \/ Shutdown \/ Halt \/ Restart \/ Heal \/ Recover

Spec == Init /\ [][Next]_vars

\* The loop serves every coroutine; a run ends (its watchdog sees to it);
\* the server is started again, and a shutdown comes to its end.
Fairness ==
  /\ WF_vars(Tick \/ WriteItem \/ StepTurn(Dispatcher))
  /\ \A c \in Sequences : WF_vars(SequenceTurn(c) \/ StepTurn(c))
  /\ \A r \in Runs : WF_vars(EndOfRun(r))
  /\ WF_vars(Halt \/ Restart \/ Recover)
FairSpec == Spec /\ Fairness

-----------------------------------------------------------------------------
(* Properties.                                                             *)

\* In hand: the record is of this life and its hook has not written yet.
InHand(r) == r \in Runs /\ proc[r] \in {"alive", "dying", "closing", "settling"}

\* Once the server is up, whatever says "running" in a file is driven by
\* somebody: rows and steps name a run whose hook is still to come, items a
\* run of this life, however the last one ended (recover_workspace).
NothingLeftRunning ==
  phase \in {"up", "stopping"} =>
    /\ \A r \in Runs : row[r] = "running" => InHand(r)
    /\ \A t \in Tasks, s \in Steps :
         stepStatus[t][s] = "running" => InHand(stepRun[t][s])
    /\ \A i \in Items : item[i] = "running" =>
         itemRun[i] \in Runs /\ proc[itemRun[i]] \notin {"none", "spawning", "lost"}

\* No file ever says that something succeeded which did not, whatever crash,
\* recovery or second run of the step came in between.
SuccessIsReal ==
  /\ \A r \in Runs : row[r] = "succeeded" => verdict[r] = "succeeded"
  /\ \A i \in Items : item[i] = "done" =>
       itemRun[i] \in Runs /\ verdict[itemRun[i]] = "succeeded"
  /\ \A t \in Tasks, s \in Steps : stepStatus[t][s] = "succeeded" =>
       stepRun[t][s] \in Runs /\ verdict[stepRun[t][s]] = "succeeded"

\* A task whose fullSequence says running, which holds its queue items back,
\* has a sequence at work, unless an exception ended it (run_full_sequence).
SequenceSaysSo ==
  phase = "up" => \A t \in Tasks \ raised : sequence[t] = "running" =>
    \E c \in Sequences : seqTask[c] = t /\ pc[c] \notin {"idle", "ended"}

\* Who answers for the row of a run: the runner, a hook that owes it a verdict,
\* or nobody.
Owner ==
  [r \in Runs |->
     CASE proc[r] \in {"none", "spawning"} -> "none"
       [] proc[r] = "alive" -> "running"
       [] proc[r] \in {"dying", "closing", "settling"} -> verdict[r]
       [] proc[r] = "over" /\ verdict[r] = "error" -> "refused"
       [] OTHER -> "gone"]

\* The rows of runs.json implement RunLedger: a verdict in the file is final, an
\* interrupted row takes one only from a hook that was still to come, a lost
\* run never gets one, and no recovery disowns a run that is managed.
Ledger == INSTANCE RunLedger WITH owner <- Owner, says <- row
LedgerIsHonest == Ledger!Spec

\* The inductive invariant of the proofs: types, frames and records that fit
\* together, and what the files may say in each phase of the server.
Working == {"spawn", "step", "row", "item", "await"}
Fits ==
  /\ phase = "down" => recovery = "idle"
  /\ phase = "starting" => recovery # "idle"
  /\ ~Alive => /\ \A c \in Coroutines : pc[c] \in {"idle", "ended"}
              /\ \A r \in Runs : proc[r] \in {"none", "lost"}
  /\ pc[Dispatcher] \in {"idle", "git"} \cup (Working \ {"await"})
  /\ pc[Dispatcher] # "idle" => cued \in Items
  /\ \A c \in Sequences :
       /\ pc[c] # "item"
       /\ pc[c] \notin {"idle", "ended"} => seqTask[c] \in Tasks
       /\ pc[c] \in {"git", "next"} \cup Working => at[c] >= 1
       /\ pc[c] \in {"git"} \cup Working => at[c] <= Len(Plan)
RecordsFit ==
  \A r \in Runs :
    /\ proc[r] = "none" <=> r > started
    /\ proc[r] # "none" => runTask[r] \in Tasks /\ runStep[r] \in Steps
    /\ proc[r] \in {"none", "spawning", "alive"} => verdict[r] = None
    /\ proc[r] \in {"dying", "closing", "settling", "over"} => verdict[r] # None
    /\ verdict[r] = "error" => proc[r] = "over"
FramesFit ==
  \A c \in Coroutines :
    /\ cRun[c] <= started
    /\ pc[c] \in Working => cRun[c] # 0
    /\ pc[c] = "spawn" => proc[cRun[c]] = "spawning"
    /\ pc[c] \in {"step", "row", "item"} =>
         proc[cRun[c]] = "alive" \/ verdict[cRun[c]] = "error"
    /\ pc[c] = "await" => proc[cRun[c]] \notin {"none", "spawning", "lost"}
    /\ \A d \in Coroutines : cRun[c] # 0 /\ cRun[d] = cRun[c] => d = c
Unsettled(parts) == phase = "down" \/ (phase = "starting" /\ recovery \in parts)
RowsFit ==
  \A r \in Runs :
    /\ row[r] = "running" => InHand(r) \/ (proc[r] = "lost" /\ Unsettled({"rows"}))
    /\ row[r] = "interrupted" => proc[r] \in {"lost", "dying", "closing", "settling"}
\* A step names only runs of its own, and says running of one before its hook.
StepsFit ==
  \A t \in Tasks, s \in Steps :
    /\ stepRun[t][s] # 0 => /\ runTask[stepRun[t][s]] = t /\ runStep[stepRun[t][s]] = s
                           /\ proc[stepRun[t][s]] # "none"
    /\ stepStatus[t][s] = "running" =>
         /\ stepRun[t][s] # 0
         /\ \/ proc[stepRun[t][s]] \in {"alive", "dying", "closing"}
            \/ proc[stepRun[t][s]] = "lost" /\ ~Alive
ItemsFit ==
  \A i \in Items : item[i] = "running" =>
    /\ itemRun[i] # 0 /\ proc[itemRun[i]] \notin {"none", "spawning"}
    /\ proc[itemRun[i]] = "lost" => Unsettled({"rows", "items"})
SequencesFit ==
  \A t \in Tasks \ raised : (Alive /\ sequence[t] = "running") =>
    \E c \in Sequences : seqTask[c] = t /\ pc[c] \notin {"idle", "ended"}
FilesFit == RowsFit /\ StepsFit /\ ItemsFit /\ SequencesFit
IInv ==
  /\ TypeOK /\ Fits /\ RecordsFit /\ FramesFit /\ FilesFit /\ SuccessIsReal

\* Nothing of a task is left running for ever, once nobody asks for more
\* (the promise of recover_workspace).
SaysRunning(t) ==
  \/ \E r \in Runs : row[r] = "running" /\ runTask[r] = t
  \/ \E i \in Items : item[i] = "running" /\ ItemTask[i] = t
  \/ \E s \in Steps : stepStatus[t][s] = "running"
NothingRunsForEver == \A t \in Tasks : SaysRunning(t) ~> ~SaysRunning(t)

\* A full sequence comes to an end, or an exception or the server ends it.
SequenceEnds ==
  \A t \in Tasks : sequence[t] = "running" ~> (sequence[t] # "running" \/ t \in raised)

\* "Heal any state left running by a previous session" (set_workspace): an
\* item whose run is managed by this server is not a previous session's.
HealSparesTheLiving ==
  [][\A i \in Items : item[i] = "running" /\ item'[i] = "failed" /\ phase = "up"
       => ~Managed(itemRun[i])]_vars
=============================================================================
