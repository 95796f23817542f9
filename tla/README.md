# CLIT Controller in TLA+

CLIT Controller is a local, single-user application: a FastAPI backend (`backend/agentflow`)
that runs agent CLIs (codex, claude, agy) as subprocesses on behalf of a queue of task steps,
a "controller" agent that is consulted between steps, and a browser page that follows
everything live. This directory holds its TLA+ modules, the TLC configurations that check
them on small instances, and proofs, checked by TLAPS, of what holds for every instance.

All paths below are relative to the repository root; `agentflow/` stands for
`backend/agentflow/`. `PROJECT.json` maps every definition to the lines it models.

## 1. The system: an inventory

The backend is one process with one asyncio event loop. Handlers declared `async`, the
dispatcher and the readers of process output are coroutines of that loop: each is atomic
between two `await`s and everything may happen during one. Handlers declared with plain `def`
run in a thread pool beside it.

| Component | State it keeps | Operations | Talks to |
|---|---|---|---|
| Execution queue (`queue_service.py`) | `queue.json`: `items` (status, step, override, run), `consults`; a loop every few seconds | add, approve, retry, skip, reroute, remove, clear; `tick` = settle, pick and dispatch, consult | calls `run_step`, `orchestrator_consult`; reads `RUNNER.runs` |
| State machines (`transitions.py`) | tables of allowed status changes | `is_valid`, `require` | queue, tasks, store |
| Process runner (`process_runner.py`) | `RUNNER.runs` (records), `RUNNER.procs` (handles), a reader, a watchdog and a kill timer per run | `start`, `cancel`, `cancel_all`, `run_and_wait` | operating system; completion hooks; event bus; run ledger |
| Task steps (`task_service.py`) | task folder: `meta["steps"]`, `fullSequence` | `run_step`, its `on_complete`, `run_full_sequence` | runner, git, usage, queue |
| Controller and chat (`chat_service.py`, `controller/`, `policy_service.py`) | chat history, `_pending` per channel, consults spent | `send`, `send_direct`, `stop`, `orchestrator_consult`, application of an answer, commands | runner, queue, policy, approvals |
| Durable store (`state_store.py`, `routes_state.py`) | `runs.json`, `events.json`, `approvals.json` | ledger of runs, timeline, approvals, `recover_workspace` | all of the above, at startup and when a workspace is opened |
| Event bus and live stream (`event_bus.py`, `routes_state.py`, `frontend/src/stream.tsx`) | ring buffer and next id; a generator per connection; store and cursor of the page | `publish`, `events_after`, SSE, polling, `apply` | runner and store publish; the page reads |
| Terminals (`terminal_service.py`) | PTY sessions and their clients | attach, restart, kill, sweep | web sockets |
| Usage (`usage_service.py`) | mode, health and counters of providers | set mode and health | asked by `run_step` and the dispatcher |
| Engine routing (`orchestrator/`, `routing_service.py`) | `agent-usage.json`: who is out and until when | route a task, dispatch its stages, plan a sequence, fall back, mark an agent out | `run_step`, the full sequence, the hook of a run |
| Preview, probes, installer | one server per workspace; cached detection | start, stop, probe | jobs and commands of the runner |
| Context, prompts, redaction | none that others depend on | pure functions on text | consult, runner |

Where it is hard:

* **Awaits with stale knowledge.** `run_step` checks that its provider's *lane* is free, waits
  for a git snapshot, and starts; `dispatch_item` writes the item when `run_step` comes back;
  the consult waits for a compressor. Meanwhile users cancel, skip, retry, reroute and delete.
* **Four ways to start a step**: the dispatcher, an approval, a direct run and a full sequence.
  Only the run records tell them of each other.
* **Processes that do not end as told**: SIGTERM ignored, a child that inherits the output
  and outlives its parent, an exit that races a cancellation, a deadline or a timeout.
* **Two views of a finished run**: the record says so at once, the step only after the hook,
  which first waits for git.
* **Answers that act**: a controller's reply runs commands and changes the queue, in up to three
  forms at once; the turn waits for its commands while everything else goes on.
* **Streams that break**: reconnection, two transports, a bounded buffer, answers that arrive
  in the next workspace's page, ids that start again at 1; a terminal that is attached while its
  shell writes, and ended while it is attached.
* **Threads beside the loop**: a rejection reads and writes `approvals.json` while an approval of the
  same file is half done.
* **Restarts** between any two writes of the JSON files, and the same recovery in a living server.

What makes each component correct, in the order of importance: one step per agent at a time; an
item is settled with the result of its own run; nothing is called done that did not succeed;
a task's steps run in order and stop behind a failure; the queue never stalls; a run has one
verdict, can be stopped while it says running, and what was stopped dies; a page shows every
event once and in order; recovery leaves no running run behind and touches no live one; an
nothing runs that the policy denies, and what was decided of an approval stands; no backend forgets a
shell that is alive; work goes to whom it is meant for, and back to him when his limit has passed.

`PROJECT.json` lists every component with what is modelled of it, and under `hazards` what in
this code is hard to test, each at its line, with the property that would catch it.

## 2. Modules

```
Transitions  <- QueueDispatcher <- MCQueueDispatcher, QueueDispatcherProofs <- DispatcherAloneProofs
             <- ProcessRunner   <- MCProcessRunner,   ProcessRunnerProofs
             <- RunLifecycle    (abstract; implemented by QueueDispatcher and ProcessRunner)
                EventStream     <- MCEventStream,     EventStreamProofs
                Recovery        <- MCRecovery,        RecoveryProofs
                RunLedger       (abstract; implemented by Recovery)
ControllerProtocol, Policy <- ControllerTurn <- MCControllerTurn, ControllerTurnProofs
                ApprovalLifecycle (abstract; implemented by ControllerTurn)
RouteTable   <- Dispatch        <- Routing <- MCRouting, RoutingProofs
                Sessions        <- MCSessions,        SessionsProofs
```

The modules look at one program from different sides, and an operation may be in more than one of
them: `run_step` is in QueueDispatcher with everything that may race it, in Recovery cut at its
durable writes, in Routing as the choice of a provider. Each leaves out what another has.

### Transitions
The status vocabularies and the queue's table of `transitions.py`. A step from one status to the
same one is no transition, as in `_apply_status`.

### RunLifecycle — the abstract specification of a run
What the rest of the program may assume of a run: it begins, gets one verdict, and its hook
finishes once, after the verdict. Two modules implement it, under two refinement mappings:
`ProcessRunner` (the detail of how a verdict comes about) and `QueueDispatcher` (the same runs
as the queue sees them). This is what composes the two: the queue's model abstracts a process
into the phases of a run, and `RunLifecycle` says which of the runner's promises it relies on.

### QueueDispatcher — the core
The queue, `run_step`, and what they see of the runner. An action is the code between two
awaits; a coroutine that waits is a *frame*:

| Action | Code |
|---|---|
| `Tick` | `queue_service.tick` up to its first await: settle running items, prune, pick and dispatch (`run_step` up to the snapshot) or take up a consult |
| `GitDone(c)` | `run_step` after the snapshot: second look at the lane, record registered (or busy, and `dispatch_item` fails the item) |
| `StepSpawned(c)`, `StepSpawnError(c)` | the rest of `start`, `run_step` and `dispatch_item` |
| `ConsultStart`, `ConsultSpawned` | `orchestrator_consult` after the compressor, then after process creation |
| `Exit(r)`, `Complete(r)` | `_consume`: the record's verdict; then `on_complete`: the step's result |
| `Cancel(r)`, `CancelAll`, `Evict(r)` | `cancel`, `cancel_all`, and the record dropped when room is made |
| `AddStep`, `Approve`, `Retry`, `Skip`, `Reroute`, `Remove`, `Clear`, `RunStepNow` | the routes of queue and tasks |
| `SetMode`, `SetHealth`, `BeginSequence`, `SequenceStep`, `EndSequence` | usage routes; a full sequence as the queue sees it |

An item is named by its place in enqueuing order, which is the order of the list. The run of
an item is a number as well. What is abstracted: the consults of `queue.json` are a set (each
task has at most one entry, and the code's first-in first-out choice among tasks becomes any
choice); a record may be evicted whenever it is finished, which covers every limit on their
number; a chat turn of the controller is seen only as the possibility that a consult finds it
busy (`"chat" \in Ops`; the turn itself is in ControllerTurn); lanes that are busy for other reasons
(a probe, an installer) are not. The branch of `_pick_candidate` for a task whose folder is gone is
left out.

### ProcessRunner
`process_runner.py`: per run the record, the handle, the leader process, children that hold its
output, the reading coroutine, the watchdog, the kill timer and the caller of `run_and_wait`.
Runs are of four kinds: *task* and *chat* have watchdog and hook, *job* (installer, dev
server) has a hook only, *command* (git, probes) has a waiting caller. The state separates what
the code separates: the death of the process, the moment the event loop learns of it
(`returncode`), and the end of the output, after which the verdict is given. An exit code is
chosen when it is read, at `EndOfOutput`.

### EventStream
`event_bus.py`, both readers in `routes_state.py`, and `stream.tsx`. Events are numbered as they
are published; the id the bus gives them starts again at 1 when the server does, so the model can
tell an event from another one with its id. The page has one connection (with the id the
browser sends as Last-Event-ID), or polls; answers to polls of a page that is gone are kept
in `stale` and are applied to the store of the page that took its place, as in the code. A poll
is asked and served in one step; that the answer is slow or lost is modelled. The event's
contents are left out: a payload never decides whether it is delivered. `pure` is a history
variable: the page was given only events of its own workspace, in one life of the server.

### Recovery
The files of a workspace (`item` and `itemRun` of `queue.json`, `row` of `runs.json`, `stepStatus`,
`stepRun` and `sequence` of `task.json`) over crashes, shutdowns and restarts. A handler is cut at
the writes of a run it starts or ends, and a crash may come between two; nothing else on the event loop
may, which is `Quiet`. Writes of one turn that concern no run are one action: a tick that settles and
has its next item refused, a refused step of a sequence with the mark of the sequence. The dispatcher and the full sequences are coroutines with a program counter: `git`,
`spawn`, then the writes in the order of the code, `step`, `row`, `item`.

| Action | Code |
|---|---|
| `Tick`, `WriteItem` | `tick`: settle and pick; `dispatch_item` after `run_step` |
| `StartSequence`, `BeginSequence`, `PrecheckDone`, `NextStep`, `AwaitRun`, `CompleteSequence`, `Raise` | `run_full_sequence`: the check, the background task with its mark, the loop over the plan, its `finally` |
| `GitDone`, `Spawned`, `WriteStep`, `WriteRow` | `run_step` after the snapshot, for the dispatcher and for a sequence |
| `Exit`, `Cancel`, `Died`, `HookStep`, `HookRow` | the end of a run, and its hook: first `task.json`, then `runs.json` |
| `Crash`, `Shutdown`, `Halt`, `Restart` | `_lifespan`, or its absence |
| `Heal`, `RecoverRows`, `RecoverItems`, `RecoverTasks` | `set_workspace` in a living server; `recover_workspace`, one action per file |

What `run_step` answers when it does not start is any answer its mode, the health of Claude and the
installed CLIs allow. A lane may always be busy for a run that is no step.

### RunLedger — the abstract specification of the ledger
What runs.json promises of a run, whatever becomes of the server: it is entered once, its verdict is
written once, by its own hook, and stays; interrupted is said only of a run that is not managed; a
run that was lost gets no verdict. It is to the files what `RunLifecycle` is to the memory of one server.
The refinement mapping (`Owner`) says who answers for a row: the runner while the run is alive, its hook
with the verdict it owes, or nobody. The heal that fails the items of live runs (`FindLiveItemFailed`)
spares their rows: this is the promise that it keeps. That the change of a file is one step matters
here: a heal whose read and write of runs.json fell around the write of a hook would undo it.

### ControllerTurn, ControllerProtocol, Policy, ApprovalLifecycle
`ControllerProtocol` says how an answer is read: a `CLITC_RESULT_V1` block, or else the two older
forms, up to the actions the engine executes (`Decided`) and the status of the turn. An answer is
what its text contains (its blocks, its fenced decisions, its directives), not the text. `Policy` is
`classify_action` over what it looks at in a command: the class of the binary, the class of the
first argument, and marks (an operator, a path outside the workspace, ...).

`ControllerTurn` composes them with the coroutines: `send` and `send_direct` with their looks at the
pending entry and the lane, the consult with its one look, `stop`, and for every run its hook, which
executes the actions of the answer one after the other and waits for the commands among them (at
most `RUN_WAIT_SECONDS`: `CommandWaited` may come before the end). Retry and reroute succeed or fail;
what they do to the queue is in QueueDispatcher.

Approvals are asked for by an answer or by the policy, on the event loop, and decided by two routes:
`approve` on the loop, `reject` in a thread of the pool. Nothing locks `approvals.json`, so each change
of it is cut in two: a writer reads the file into its `copy`, and later writes its copy, changed, over
whatever the file says by then.

| Action | Code |
|---|---|
| `Ask(r)`, `Asked(r)` | `create_approval`, called by the hook of `r`: its read, then its write |
| `Approve(c, a)` | `approve` up to `resolve_approval`: it finds the approval pending, and keeps what it found |
| `Resolve(c)`, `Resolved(c)` | `resolve_approval` reads the file again and, if the approval is still pending there, writes it as approved; in either case the route goes on to run the command it found first (`RunApproved`) |
| `Reject(t, a)`, `Rejected(t)` | the same in a thread: read, then write |

The loop does nothing else between the two halves of its own change (`Quiet`), threads do anything. A crash
loses copies, not the file. `ApprovalLifecycle` is the abstract specification: an approval is open
while it is pending, or while some writer holds another view of it; once it *stands* as approved or
rejected (or lost, when an older copy removed it from the file) nothing is decided and nothing started
for it any more. What the code does before that, section 6 says under *Controller*.

### RouteTable, Dispatch, Routing
`RouteTable` is the table of `route-task.py`: per task type who does it, in which stages and as which
persona, and the choice of a type from the scores that the phrases of a text give. `Dispatch` follows
a route through `usage_lib.py` (fallback chains, cooldowns), `dispatch.py` (scripts, CLIs, degraded
stages), the adapter and `pipeline.py` (the steps of a sequence), and has the advice of
`routing_service.py`. They are pure operators. `Routing` adds what changes meanwhile: the user's
routing, two actors that start steps, limits that are recorded only by a hook that first waits for
git, and time. The overrides of `routing-policy.yaml` and the wording of routes are left out, so are the
plugin branches, which `caps.py` never enables.

### Sessions
`terminal_service.py` and the web socket of `routes_terminals.py`: sessions with their shell, their
pidfile and their scrollback, sockets with their queue. The shell is a process of its own that starts,
writes and dies between any two actions. It leads a process group: when it exits, the rest of the
group goes with it or runs on (`"left"`). The backend watches the shell alone, so that `WatchExit` and
`TerminateEnds` take its exit for the end and clear the pidfile whether or not the group is gone.
`terminate` is cut at its wait (`Terminate`, `TerminateEnds`). The backend stops in order, or dies, and
sweeps when it comes back. `Sweep` is what the code can rely on: of the pidfiles it reaches, some are of
shells it finds and kills, the others it spares, because `ps` was late, the name differs, the shell has
left its group, or the signal failed; all of them are removed; and an exception leaves the rest where
they are. A pidfile may also not have been written in the first place. A chunk of output is its number.
Left out: a pid that was given to another process, and a client that leaves in the middle of the
greeting, whose queue stays registered with nobody to read it.

## 3. Runs

| Run | Instance | Checks |
|---|---|---|
| `QueueSafety` | 1 item, 2 runs, the dispatcher and one request, all user operations | `LaneExclusive`, `RunningItemOwnsRun`, `DoneMeansSucceeded` |
| `QueueModes` | 2 items, 2 runs, approvals, skip, mode, health, cancel, a missing CLI, evicted records | `IInv`, `RunsLiveOnce` (implements `RunLifecycle`) |
| `QueueProgress` | the dispatcher alone with consults, cancel and mode; 2 items, 3 runs; fair | `TaskInOrder`, `LiveRunTracked`, `FailureHoldsTask`, `QueueTableHolds`, `QueuedIsServed`, `RunningIsSettled`, `ConsultIsServed` |
| `Runner` | 2 runs of any kind, 1 finished record kept; fair | `IInv`, `RunningIsReachable`, `FailureExplains`, `GivesOneVerdict` (implements `RunLifecycle`), `CancelledDies`, `AgentEnds`, `CallerIsAnswered`, `ClosedRunIsOver` |
| `LiveStream` | 3 events, 2 workspaces, buffer of 2, batches of 1, 1 late answer; fair | `ShownOnce`, `NoGap`, `EventsArrive` |
| `Recovery` | 1 task of two steps, 1 item, 1 full sequence, 3 runs, 1 crash or shutdown, 1 heal; fair | `NothingLeftRunning`, `SuccessIsReal`, `SequenceSaysSo`, `LedgerIsHonest` (implements `RunLedger`), `NothingRunsForEver`, `SequenceEnds` |
| `Controller` | 2 requests, 1 rejecting thread, 2 runs, 2 approvals, 3 commands (allowed, to be approved, denied), 9 answers, 1 crash; fair | `LaneSharedOnlyByConsult`, `OneActionPerBlock`, `RunsOnlyWhatItMay`, `StandingIsFinal` (implements `ApprovalLifecycle`), `TurnEnds` |
| `Routing` | every task type of the table; 3 texts, 3 sets of installed agents, 2 routings, a cooldown of 2 ticks; fair | `ClaudeKeepsImplementation`, `ClaudeIsLast`, `ChoiceComesBack` |
| `Sessions` | 1 key, 1 client, 2 sessions of 2 chunks, scrollback of 1 chunk, queues of 4, 2 crashes or shutdowns; fair | `ShellsCanBeReaped`, `OutputHasNoGap`, `EndIsTold` |

Three more runs each exhibit one disagreement between the code and what it says of itself; section 6
describes them.

**What the new properties say.** *NothingLeftRunning*: once the server is up, whatever says running in
a file is driven by somebody. *SuccessIsReal*: no file says that something succeeded which did not,
whatever crash, recovery or second run of a step came in between. *SequenceSaysSo*: `fullSequence`,
which holds the queue items of its task back, says running only while a sequence is at work (or an
exception ended it). *LedgerIsHonest*: a row is entered once, takes the verdict of its run once and
for good, and says interrupted only of a run that is not managed. *LaneSharedOnlyByConsult*: `send` and `send_direct` never put two turns on one
agent, only the consult, which does not look again, can. *OneActionPerBlock*: an answer with a v1 block
makes at most one action, an invalid one none, whatever older directives stand beside it.
*RunsOnlyWhatItMay*: every command that was started is allowed, or needs an approval and was started
by the one approval that asked for this very command; a denied one never is. *StandingIsFinal*: once no
writer holds another view of an approval, its decision is final and it starts nothing more, for ever.
*TurnEnds*: a hook ends, and no channel waits for its run afterwards. *ClaudeKeepsImplementation*: an
implementing stage is planned on Claude, and no other stage becomes one. *ClaudeIsLast*: no stage is
given to an agent that is out, and Claude takes a delegated one only when both others are out.
*ChoiceComesBack*: a limit passes, whatever runs or is marked late meanwhile. *ShellsCanBeReaped*: a backend
never forgets a shell that is alive: the pidfile that was recorded stays until the shell is dead, across
a termination cut short by a crash, and only a sweep in a later life may have given it up.
*OutputHasNoGap*: what a client was sent and what waits for it is the output without a hole or a
repetition. *EndIsTold*: the socket of a session that ended is closed. The last two excuse a client
whose queue overflowed, for which the code has no remedy (section 6).

**Bounds.** Two items suffice for the order within a task and for a failed item in front
of a queued one; two runs for two starters that meet on a lane, with a third where a consult
comes after two steps. The run with every user operation has one item and two runs, so two
requests compete for the item and the lane; the operations that need a second item are checked in
`QueueModes` and `QueueProgress`. Two steps have different default providers, so that rerouting
brings them onto one lane. With one finished record kept and two runs, a record is dropped in
`Runner` as soon as the second run starts. With three events and a buffer of two the reader can be
overtaken, with a batch of one it must read twice. In `Recovery` three runs are an item's run and two of
the sequence, so that a step is run by both, before and after a crash; one crash may come between any
two writes, and a crash during the recovery of a crash finds files of which some parts are already
healed, a state a heal cut short by the one crash produces as well. In `Controller` two requests are what
it takes to meet on a channel, two runs what it takes to be on one lane, or to be the controller's and
the command of an approval, and the answers are one for every branch of the protocol. Two answers may
each ask for an approval, so that the second is asked for while a thread holds a copy that does not
know it; one thread is enough, because a second would only repeat the first. In `Sessions` the second
session is the one a client comes back to, after a kill that is still waiting, or after a sweep that
gave up the shell of the first; the client leaves and returns after its scrollback of one chunk was
overrun. What a client is sent does not depend on other clients. Two connections that start two shells at
once are not in this run: of them `ShellsReaped` and `NoOutputIsLost` are proved (section 4).
The bounds are `ItemCap`, `RunCap`, `EventCap`,
`StaleCap`, `ApprovalCap`, `LifeCap`, `HealCap`, `RerouteCap`, `SessionCap` and `ChunkCap`.
`TerminalKeep`, `ConsultLimit`, `MaxRecords`, `BufferSize`, `BatchSize`, `Scrollback` and `QueueSize`
are not bounds of the model but limits of the code, made small.

**Deadlock** is checked where the dispatcher's tick always has something to do or users do
(`QueueSafety`, `QueueModes`, `QueueProgress`). It is off in `Runner`, `LiveStream`, `Recovery`,
`Controller`, `Routing` and `Sessions`, which may come to rest when all their runs, events, lives or
steps are spent, and in the three `Find` runs.

**Fairness.** Of the event loop: a coroutine that can go on does (weak fairness of the steps of
`EventLoop`, of the reader, hooks, timers, sockets). Of the operating system: a process is created or
refused, and the runner learns of an exit. Users owe nothing: no fairness for any request. Some
assumptions deserve an argument. In `QueueDispatcher`, `Recovery` and `ControllerTurn` an alive run
eventually exits: `ProcessRunner` derives this of the CLI (`AgentEnds`) from the watchdog alone, but not
of a run whose output a descendant keeps open, so their liveness assumes that no descendant does so
for ever. `Recovery` also assumes that a server that went down is started again, and that a shutdown
comes to its end; no crash is fair. `ControllerTurn` has one fairness assumption for all hooks and runs:
there are finitely many of them and each takes finitely many steps, so none is left behind; and one for
the change of the approvals that a request has begun, which the loop finishes. In
`Routing` time passes. In `LiveStream`, `Send` and `Receive` are strongly fair: a connection that breaks
again and again carries an event some time, because each reconnection resumes where the browser
stopped; so is `Answered`, because a lost poll is asked again, though no single one need arrive.

**What the liveness properties say precisely.** `QueuedIsServed` excuses an item behind one of its
task that is blocked or awaits approval: that one waits for the user. `EventsArrive` excuses an
event the buffer has dropped, a page that left, a connection that serves another workspace, and an
EventSource the browser has given up (section 6). `SequenceEnds` excuses a sequence that an exception
ended: the code clears its mark and leaves its status (section 6).

## 4. Proofs

Each proof module extends its component and TLAPS; every leaf is checked. The assumptions are
those of the component's `ASSUME` alone: constants have their types, bounds are natural numbers,
buffers and batches are not empty, installations are sets of agents, and special values are distinct
(`None` is no verdict of a run and no status of a turn). No bound of section 3 is used: the theorems
hold for any number of tasks, steps, providers, items, runs, requests, crashes, workspaces, events,
terminals and clients. Each safety invariant and each action property that a run checks is a
theorem. Four, those of `DispatcherAloneProofs`, are theorems under hypotheses, which their
statements name and the argument below explains; all others are theorems of `Spec` as it stands.

| Theorem | Says |
|---|---|
| `QueueDispatcherProofs!Invariance`, `TypeCorrect` | `IInv`, and with it the types, in every reachable state |
| `OneRunPerLane` | two step runs that say running never share a provider |
| `ItemOwnsItsRun` | a running item names a started run of its own task and step, and no other running item names it |
| `DoneIsEarned` | a done item's run succeeded |
| `RunsImplementLifecycle` | `Spec` of the queue implements `RunLifecycle` |
| `DispatcherAloneProofs!QueueOrderKept` | dispatcher alone, no retry or reroute: no item runs while an earlier one of its task is active |
| `RunsAreTracked` | dispatcher alone, no removal: each live step run belongs to a running item |
| `FailuresHold` | dispatcher alone: with the step that settles a failed item, nothing of its task is left queued |
| `TableIsKept` | dispatcher alone, no skip or reroute: items change status along the table only |
| `ProcessRunnerProofs!RunnerInvariance`, `RunningStaysReachable` | `IInv`; a run that says running can be found and stopped until its exit is known |
| `OneVerdictPerRun` | `Spec` of the runner implements `RunLifecycle` |
| `FailureExplained` | when a run is over, its failure kind fits its verdict |
| `RecoveryProofs!RecoveryInvariance`, `NothingIsLeftRunning` | `IInv`; once the server is up, what says running in a file is driven by somebody |
| `SuccessesAreReal` | no file says succeeded of what did not succeed |
| `LedgerImplemented` | the rows of `Spec` of recovery implement `RunLedger` |
| `SequencesSaySo` | `fullSequence` says running only while a sequence is at work, or after an exception |
| `EventStreamProofs!StreamInvariance`, `NeverTwice`, `NoHoles` | `IInv`; no event is shown twice; none the bus still has is passed over |
| `ControllerTurnProofs!LanesHoldOneTurn` | two running records of one agent are a consult and something else |
| `CommandsAreAllowed` | every command that was started is allowed, or was started by the one approval that asked for it; a denied one never is |
| `OneActionEach` | an answer with a v1 block makes at most one action, an invalid one none |
| `ApprovalsImplementLifecycle` | `Spec` of the controller implements `ApprovalLifecycle`, for any number of threads |
| `RoutingProofs!ImplementationStaysWithClaude` | an implementing stage is planned on Claude, for every route, installation and usage |
| `ClaudeComesLast` | no stage goes to an agent that is out, a delegated one to Claude only when both others are; a red provider is advised only when all are red |
| `SessionsProofs!ShellsReaped` | a recorded shell that is alive keeps its pidfile until a later life sweeps it |
| `NoOutputIsLost` | what a client was sent and what waits for it is the output without hole or repetition |

**Why the invariants are stronger than the properties.**

*Queue.* `LaneExclusive` alone is not inductive: a coroutine about to register a record would
break it if the record it waits for could be someone else's. `IInv` therefore says of each record,
item and frame what its history implies: running means spawning or alive and kept in
memory (`RunsOK`); an item's run, if any, was started for it and for no other item (`ItemsOK`);
a frame's item is unchanged in task and step unless it was deleted, and the record it waits for is
its own and still spawning (`FramesOK`). The heart of `OneRunPerLane` is the *second* look at the
lane in `GitDone`: the first, before the snapshot, contributes nothing to the proof. `DoneIsEarned`
needs `ItemsOK` because a verdict is read from the record the item names.

*Dispatcher alone.* The order of a task is not kept by any guard: an item is checked when it is picked,
and written as running only after the snapshot and after the process is created. In between users edit
the list. `FlightOK` says what is still true of the item then: it is not running, and, as far as the
hypotheses go, it is queued, present, and first in line. Edits are sorted by one relation (`Edited`:
a running item is left as it is, and nothing begins to run), and the lemmas `EditedOrder`,
`EditedTracked` and `EditedFlight` follow from it for all of them. `DispatcherAlone` says that no
request starts a step (`Requests = {}`): it is what makes the dispatcher the only coroutine that may
be waiting, so that nothing else begins meanwhile. The rest is what each property needs of the users,
and the code does break the property without it: an earlier item that is retried, or rerouted after it
failed, may be queued again beside a later one (`QueueOrderKept`); an item that is removed
while its dispatch waits leaves a run nobody tracks (`RunsAreTracked`); one that is skipped goes from a
terminal status to running, and a done one that is rerouted to queued (`TableIsKept`). `FailuresHold`
needs nothing of the users. Approvals break the first two in the same way; section 6 lists these cases.

*Runner.* `RunOK` ties the handle to the status: a handle exists exactly while the record says
running and has a process, and the reader ends only with a verdict. From this each action maps
to `Begin`, `Settle`, `Report` or a stutter of `RunLifecycle`; `CancelAll` settles several
runs at once, which is why `Settle` takes a set. `FailureExplained` needs one more conjunct, on the
watchdog: it writes its kind after its cancel, and the proof shows that it only does when the
cancel took effect or the run was cancelled before.

*Recovery.* `NothingLeftRunning` speaks of a server that is up; `IInv` says what each file may say at
every moment between, in four parts: what memory may hold in each phase of the server (`Fits`), the
records of the runs (`RecordsFit`), the coroutines cut at their durable writes (`FramesFit`), and the
files (`FilesFit`, in turn of rows, steps, items and sequences). A row, step, item or mark that
says running has a reason: a live run whose hook is to come, a coroutine on its way, or a recovery that
is not yet through with that file. The proof attempt found `IInv` too weak as it stood: the hook
writes the step before the row, so a step must be known to say running only of runs of its own, whose
hook has not written yet (`StepsFit`). The runs leave `IInv` to the proof.
The lemma `Undisturbed` serves the actions that leave most files alone; every other action has a lemma of its own. `LedgerImplemented` adds `EntriesFit`:
a live run whose row is not there yet has the coroutine that started it between two writes, and
as nothing else on the loop gets a turn there (`Quiet`), no run ends, and no shutdown begins, before it
is entered. Each action then maps to moves of single runs, a crash and a shutdown to moves of many.

*Stream.* `NoGap` speaks of what was shown; what keeps it is `NothingSkipped`, which accounts for
every event the bus still has in one of four places: shown and behind the cursor, in flight
between the browser's last id and the generator's, in the answer of a poll, or beyond both. The
proof turns on `events_after` returning the *oldest* unseen events (lemma `PrefixRead`); returning
the newest is a mutant that breaks it. The lemmas `Least`, `MinOf` and `MaxOf` give the maximum and
minimum of a finite set of numbers.

*Controller.* `TurnInv` adds to the two safety properties the shape of the tables, that a run not yet
started has no command (`Unstarted`), and that what approvals have started was started (`RanStarted`), so
that the next run is of no other approval. Each step is sorted by what it does to the records
(`NoneBegins`, or a `NewRun` on a lane that is free, of a consult, or of a command that may run) and to
the approvals (`AskedStays`: what an approval asks for and has started stays). `LanesHoldOneTurn` rests on
the second look at the lane in `SummaryDone`. `CommandsAreAllowed` cannot rest on what the file says of an
approval, since that may be overwritten. It rests on the policy being asked again when an approval is
used, and on `approve` running the command of the approval it looked at, so that it needs to know
nothing of how the approval was asked for, nor of what an answer may contain. `OneActionEach` needs
another invariant, `AnswerInv`: until its hook a run has done nothing,
then what it has done and what waits to be done is what `Decided` made of its answer, and a
request that waits for a process on behalf of a run is the only one that does (`StartsFit`).
`ApprovalsImplementLifecycle` needs `CopiesFit`: whoever is about to decide an approval
holds a copy that says pending of it, only the event loop asks, and neither the file nor a copy knows
an approval that was not asked for. So an approval that is about to be decided, or to start its command,
is open. `StepMaps` has one lemma per kind of step: a read (`ReadMaps`), a copy given up
(`DropMaps`), a write (`WriteMaps`).

*Routing.* `ImplementationStaysWithClaude` needs no invariant: it is proved of the table row by row, of
the stages the router makes of a row, and of the provider the plan gives each stage, for every
installation and every state of the limits. `ClaudeComesLast` needs one, `RouteInv`: only agents with
limits are marked, and a mark with time left says exhausted, so that what the plan takes for
usable is what is not out. `Resolves` walks the chain of fallbacks and shows where it ends.

*Sessions.* `ShellsCanBeReaped` speaks of a shell that is alive; `ShellsInv` says what the life of a
session means for its shell and its pidfile also before and after: nothing recorded before the session
is in the table, no shell before its process exists, a file of an earlier life only after the backend
went down, and no cleared file while the shell is alive, also while it is told to end, until a later
life sweeps. It says nothing of what a shell leaves behind: that
has no pidfile when the shell exits first (section 6).
`NoOutputIsLost` rests on `StreamsInv`: what a connection was sent, or is greeted with, is gapless, and its queue goes on
from there to the last chunk of the session, unless it overflowed. `BufferFits` shows that the scrollback
is an interval of the output that ends with its last chunk, so an attachment begins this way. That
something goes on where something else ends is the operator `Continue`; the
lemmas `ContinueConcat` and `ContinueTail` say how it behaves when items are put into a queue and
taken out, and replace an induction over the queue.

**Only model-checked.** The liveness properties: `QueuedIsServed`, `RunningIsSettled`,
`ConsultIsServed`, `CancelledDies`, `AgentEnds`, `CallerIsAnswered`, `ClosedRunIsOver`, `EventsArrive`,
`NothingRunsForEver`, `SequenceEnds`, `TurnEnds`, `ChoiceComesBack` and `EndIsTold`. TLAPS does not reason
about fairness, which would need ENABLED. That the engine's fold over the table yields the pipeline a
reader expects of each text is not proved either: it is an induction over data, which no installed prover
can do.

## 5. Mutants

Each property of a passing run has a mutant: a definition in the module, marked `Mutant:`, that
changes one mapped definition the way a plausible mistake would (the second look at the
lane dropped, a record in use evicted, a cursor one too far, recovery that does not ask the runner, a
pidfile cleared with the first signal, an older directive honoured beside a block). Put in the place of
the definition it stands beside, it must break the property under the run's own configuration.

## 6. What the runs found

Three places where the code does not do what it says of itself, each with TLC's counterexample:

| Run | What happens |
|---|---|
| `FindTwoProcesses` | a cancelled process is still dying when the next step of its agent starts beside it |
| `FindLiveItemFailed` | opening a workspace again in the server that is working on it fails the item of a live run, blocks what is behind it, and the run's success is never settled |
| `FindLostStage` | a task to be researched and then implemented gets a sequence without its implementation: the persona of the implementing stage is in no table |

Met while modelling and recorded here: some are visible in the models but excused by a property that
says so, some concern code the models leave out.

*Queue and steps.*
* A rerouted item is picked by the lane of its step, not by its own, while its own is busy, and fails
  for it (`queue_service.py:300`). An item that fails before it runs (start error, lane taken during
  the snapshot) does not hold its task. An item that was skipped or removed during the snapshot is
  written when its dispatch resumes: a terminal status becomes running, outside the table.
* An earlier item that is retried or approved may run beside a later one of its task, and a done
  item may be rerouted and queued again against the table.
* A record dropped before the queue has looked at it makes a succeeded item fail.
* The hook of an older, cancelled run can overwrite the status of a newer run of the same step
  (cancelled to succeeded; the table of steps is only logged). The tables for runs and tasks are
  checked by no code.
* For task runs the hook overwrites the failure kind `timeout` of the watchdog. A run whose CLI has
  exited but whose child keeps the output open says running for ever, past its deadline.
* Probes of a CLI and the polling of Claude's limits run with the agent as their provider and hold
  its lane: a step that starts then is refused, and a full sequence stops.

*Recovery and sequences.*
* Two requests for a full sequence can both pass the check of the mark; the end of one then speaks for
  both. An exception leaves `fullSequence` at running, until the next recovery.
* A recovery in a living server says interrupted of a sequence that goes on.
* A crash between the row and the item leaves the item queued: the step is run again while the orphan
  goes on. A crash before the row leaves a process no file knows. A crash between the two writes of the
  hook leaves a step that says succeeded and a row that says failed.
* A consult that is taken off the queue and then lost to a crash or a busy answer is never repeated.
* The record of a recovered row may be overwritten later by the hook of a dying run.

*Controller.*
* The consult looks at the controller's lane before it waits for the compressor and not after. It may
  also look at a step before the hook of its run has written the result.
* Two messages to different agents share the channel's pending entry: the later one overwrites the
  earlier, which can then not be stopped from the chat, and a start that fails clears the other's entry.
* `controller_protocol.py:18` says the last *valid* block wins, and the engine logs as much; the code
  takes the last block alone, so a bad one after a good one makes the answer invalid.
* `approve` does not look at what `resolve_approval` decided (`routes_state.py:96`). A rejection that a thread
  writes between its two reads leaves the approval rejected, and the command, "now-authorized" by the
  comment on line 97, runs all the same. TLC reaches this in the instance of `Controller`: it refutes
  `\A a \in Approvals : approval[a] = "rejected" => ran[a] = {}`.
* `approvals.json` is changed without a lock, and `reject` is in a thread: a writer with an older copy undoes
  the decision of another (`tests/test_state_store.py:74` expects one to stay), or removes an approval
  that was just asked for. TLC reaches both.
* Rejecting an approval that is already approved answers "rejected" and changes nothing. An approval
  whose command was lost to a crash stays approved and is never executed.

*Routing.*
* A limit is recorded only after the hook's wait for git, so the next step may start on the exhausted
  agent. A later, shorter wait overwrites a longer one.
* A sequence that the engine plans keeps the providers of that moment and does not ask the user's
  routing, though the pipeline's text says it honours it. `on_provider_health`, by which a red provider
  would be rerouted, is called by nobody; nothing ever writes the task type the router looks for.

*Stream and terminals.*
* After a restart of the server, events with ids up to a reader's old cursor are never shown.
* The answer of a poll asked for one workspace lands in the next one's store and moves its cursor.
* An EventSource that was open once and is then refused shows "polling" and never polls.
* A stream that reconnects while another tab has changed the workspace stays on that workspace.
* Two first connections to a terminal each start a shell; the first is lost from the table, and only
  the sweep of the next startup ends it.
* The sweep looks for the shell of a pidfile, and removes the file whether or not it found it
  (`terminal_service.py:120-134`). What a shell started and left behind runs on, in the group the pidfile was
  written for, and no later startup finds it; so does a live shell if `ps` takes more than two seconds.
  TLC reaches both in the instance of `Sessions`. The rest of a group is also forgotten when its shell exits by
  itself (line 300) or at SIGTERM (lines 345-346).
* A client whose queue of 2000 items is full when its session ends is not told: the pane stays open
  and dead.

*Tables of servers and installations.* The preview's `_servers` and the installer's `_installs` are
checked before an await and written after it: two starts make two processes, of which the first can no
longer be stopped, and the end of the first installer removes the entry of the second.

## 7. Not modelled

*Data.* Output text, redaction and the framing of deltas; prompts, context ranking and compression;
files of a task; usage counters; what an event says; the phrases that give a text its scores; the
chat history and the timeline. *Threads.* The models run
every handler on the event loop but two: `reject`, which races it over `approvals.json`, and a heal,
which is interleaved file by file. Other handlers in the thread pool that read, change and write
`queue.json`, `runs.json` or a `task.json` at the same time are not covered: the change of those files
is one step. *A recovery that raises*: it is caught, and the server goes up with what is left.
That runs.json drops its oldest finished rows (`MAX_RUNS`) is left out.
*A file half written.* The code writes a file beside it and renames it. *Vendored code*
(`orchestrator/_engine_snapshot`) beyond its router, its dispatcher and its usage library. *The preview's and the
installer's tables*: one check, one await and one write, whose outcome is described in section 6.
*Rendering.*

## 8. Plan

Every safety and action property a run checks is proved. What is left, in this order:

1. **An abstract specification of a terminal's stream**: its output in order, or the word that it was
   lost, implemented by `Sessions`. `StreamsInv` is what its step simulation needs.
2. **Types** as theorems of their own where an invariant implies them (`Recovery`, `EventStream`,
   `ProcessRunner`) and, with an invariant still to be written, in `ControllerTurn`.
3. **The hook of an older run** (section 6): under which hypothesis on users the status of a
   step is that of its newest run.
