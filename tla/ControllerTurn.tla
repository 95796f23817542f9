--------------------------- MODULE ControllerTurn ---------------------------
(***************************************************************************)
(* Turns of the controller and of the agent chats: chat_service (send,     *)
(* send_direct, orchestrator_consult, stop, the pending table, commands),  *)
(* controller.engine and controller.actions, and the approvals of          *)
(* state_store with their two routes.                                      *)
(*                                                                         *)
(* As in QueueDispatcher an action is the code between two awaits.  The    *)
(* coroutines are the requests and, for every run, its on_complete hook,   *)
(* which executes the actions of the answer one after the other and waits  *)
(* for the commands among them.  A hook is not interrupted but by such a   *)
(* wait (Quiet).                                                           *)
(*                                                                         *)
(* approvals.json is also written by the thread pool, where reject runs:   *)
(* every change of the file is a read and a later write, and another       *)
(* writer may come between them.                                           *)
(***************************************************************************)
EXTENDS Naturals, Sequences, ControllerProtocol, Policy

CONSTANTS
  Providers,     \* AGENT_PROVIDER_IDS
  Orchestrator,  \* the provider of the orchestrator role
  Installed,     \* providers whose CLI is on PATH
  Requests,      \* concurrent HTTP requests, and the dispatcher's consult
  Threads,       \* threads of the pool that may reject an approval
  Commands, CommandOf,  \* commands, and what the policy looks at in each
  Tasks,         \* tasks, oldest first: 1..n
  Outputs,       \* answers a controller run may give
  RunCap, ApprovalCap, LifeCap,  \* bounds
  None

Runs == 1..RunCap
Approvals == 1..ApprovalCap
Main == "orchestrator"   \* the channel of the controller
Channels == {Main} \cup Providers
Coroutines == Requests \cup Runs
Loop == "loop"           \* the event loop, as a writer of approvals.json
Writers == Threads \cup {Loop}

TurnStatuses == {"invalid", "no_action", "actioned", "failed", "raised"}

ASSUME TurnAssumption ==
  /\ Orchestrator \in Providers
  /\ CommandOf \in [Commands -> Command]
  /\ RunCap \in Nat /\ ApprovalCap \in Nat /\ LifeCap \in Nat
  /\ Requests \cap Runs = {}
  /\ None \notin Providers /\ Main \notin Providers /\ "shell" \notin Providers
  /\ None \notin Requests \cup Runs
  /\ None \notin TurnStatuses
  /\ Loop \notin Threads /\ None \notin Commands

VARIABLES
  pending,      \* _pending: the run a channel waits for, or 0
  phase,        \* a run: its process, its hook ("hook"), "over", "lost"
  status,       \* status of its record
  lane,         \* its provider; "shell" for a command
  kind,         \* "chat", "direct", "consult", "command"
  out,          \* the answer of a run that succeeded
  todo,         \* actions its hook has still to execute
  did,          \* actions its hook has executed: [type, ok]
  turn,         \* status of controller.turn_completed
  started,      \* how many runs were ever started
  pc, want,     \* a request: where it waits, and for which provider
  waits,        \* the run a coroutine waits for, or 0
  approval,     \* approvals.json: per approval its status, "none" if it is not there
  copy,         \* what a writer has read of the file and not yet written back
  asked, ran,   \* the command an approval asks for, and the runs it started
  cmd,          \* the command of a run
  queued, verdicts,    \* steps given to the queue, tasks declared done
  lives

turnVars == <<out, todo, did, turn>>
runVars == <<phase, status, lane, kind, cmd, started>>
approvalVars == <<approval, copy, asked, ran>>
taskVars == <<queued, verdicts>>
requestVars == <<pc, want, waits>>
vars == <<pending, runVars, turnVars, requestVars, approvalVars, taskVars, lives>>

Decisions == {"none", "pending", "approved", "rejected"}
Statuses == {"none", "running", "succeeded", "failed", "cancelled", "error"}
Phases == {"none", "spawning", "alive", "dying", "hook", "over", "lost"}

TypeOK ==
  /\ pending \in [Channels -> Runs \cup {0}]
  /\ phase \in [Runs -> Phases] /\ status \in [Runs -> Statuses]
  /\ lane \in [Runs -> Providers \cup {"shell", None}]
  /\ kind \in [Runs -> {"chat", "direct", "consult", "command", None}]
  /\ cmd \in [Runs -> Commands \cup {None}]
  /\ started \in 0..RunCap
  /\ pc \in [Requests -> {"idle", "summary", "compress", "spawn", "command"}]
  /\ want \in [Requests -> Providers \cup {None}]
  /\ waits \in [Coroutines -> Runs \cup {0}]
  /\ approval \in [Approvals -> Decisions]
  /\ \A w \in Writers : copy[w] # None => copy[w].file \in [Approvals -> Decisions]
  /\ asked \in [Approvals -> Commands \cup {None}]
  /\ ran \in [Approvals -> SUBSET Runs]
  /\ verdicts \subseteq Tasks
  /\ lives \in 1..(LifeCap + 1)

Init ==
  /\ pending = [k \in Channels |-> 0]
  /\ phase = [r \in Runs |-> "none"] /\ status = [r \in Runs |-> "none"]
  /\ lane = [r \in Runs |-> None] /\ kind = [r \in Runs |-> None]
  /\ cmd = [r \in Runs |-> None] /\ started = 0
  /\ out = [r \in Runs |-> None] /\ todo = [r \in Runs |-> <<>>]
  /\ did = [r \in Runs |-> <<>>] /\ turn = [r \in Runs |-> None]
  /\ pc = [c \in Requests |-> "idle"] /\ want = [c \in Requests |-> None]
  /\ waits = [c \in Coroutines |-> 0]
  /\ approval = [a \in Approvals |-> "none"] /\ asked = [a \in Approvals |-> None]
  /\ ran = [a \in Approvals |-> {}] /\ copy = [w \in Writers |-> None]
  /\ queued = {} /\ verdicts = {} /\ lives = 1

-----------------------------------------------------------------------------
(* The event loop and the runner's records.                                *)

\* The event loop is in the middle of no hook and of no change of the approvals.
Quiet == /\ \A r \in Runs : phase[r] = "hook" => waits[r] # 0
         /\ copy[Loop] = None

Running(r) == status[r] = "running"
Busy(p) == \E r \in Runs : Running(r) /\ lane[r] = p
\* pending_state: the entry of a channel counts while its run is running.
Answering(k) == pending[k] # 0 /\ Running(pending[k])

\* A record is registered, running, before its process exists.
NewRun(c, what, where, command) ==
  /\ started < RunCap
  /\ started' = started + 1
  /\ phase' = [phase EXCEPT ![started + 1] = "spawning"]
  /\ status' = [status EXCEPT ![started + 1] = "running"]
  /\ kind' = [kind EXCEPT ![started + 1] = what]
  /\ lane' = [lane EXCEPT ![started + 1] = where]
  /\ cmd' = [cmd EXCEPT ![started + 1] = command]
  /\ waits' = [waits EXCEPT ![c] = started + 1]

-----------------------------------------------------------------------------
(* Chat turns.                                                             *)

\* send up to the summary of the workspace.  Every refusal (busy, unknown,
\* missing or red provider) changes nothing but the chat history.
Send(c, p) ==
  /\ Quiet /\ pc[c] = "idle"
  /\ ~Answering(Main) /\ ~Busy(p) /\ p \in Installed
  /\ pc' = [pc EXCEPT ![c] = "summary"] /\ want' = [want EXCEPT ![c] = p]
  /\ UNCHANGED <<pending, runVars, turnVars, waits, approvalVars, taskVars, lives>>

GiveUp(c) ==
  /\ pc' = [pc EXCEPT ![c] = "idle"] /\ want' = [want EXCEPT ![c] = None]
  /\ UNCHANGED <<runVars, waits>>

\* Mutant: the lane is not looked at again after the summary.
SummaryDoneUnchecked(c) ==
  /\ Quiet /\ pc[c] = "summary"
  /\ NewRun(c, "chat", want[c], None)
  /\ pc' = [pc EXCEPT ![c] = "spawn"] /\ UNCHANGED want
  /\ UNCHANGED <<pending, turnVars, approvalVars, taskVars, lives>>

\* ... and after it, with a second look at the lane.
SummaryDone(c) ==
  /\ Quiet /\ pc[c] = "summary"
  /\ \/ Busy(want[c]) /\ GiveUp(c)
     \/ /\ ~Busy(want[c])
        /\ NewRun(c, "chat", want[c], None)
        /\ pc' = [pc EXCEPT ![c] = "spawn"] /\ UNCHANGED want
  /\ UNCHANGED <<pending, turnVars, approvalVars, taskVars, lives>>

\* send_direct has no await before its start.
SendDirect(c, p) ==
  /\ Quiet /\ pc[c] = "idle"
  /\ ~Answering(p) /\ ~Busy(p) /\ p \in Installed
  /\ NewRun(c, "direct", p, None)
  /\ pc' = [pc EXCEPT ![c] = "spawn"] /\ want' = [want EXCEPT ![c] = p]
  /\ UNCHANGED <<pending, turnVars, approvalVars, taskVars, lives>>

\* The dispatcher's consult up to the compressor (_process_consults and
\* orchestrator_consult): not while a chat turn or another consult runs.
Consult(c) ==
  /\ Quiet /\ pc[c] = "idle"
  /\ ~Answering(Main) /\ ~Busy(Orchestrator) /\ Orchestrator \in Installed
  /\ \A r \in Runs : ~(Running(r) /\ kind[r] = "consult")
  /\ \A d \in Requests : pc[d] # "compress"  \* one dispatcher
  /\ pc' = [pc EXCEPT ![c] = "compress"] /\ want' = [want EXCEPT ![c] = Orchestrator]
  /\ UNCHANGED <<pending, runVars, turnVars, waits, approvalVars, taskVars, lives>>

\* ... and after it, without a second look; its task may be gone by then.
CompressDone(c) ==
  /\ Quiet /\ pc[c] = "compress"
  /\ \/ GiveUp(c)
     \/ /\ NewRun(c, "consult", want[c], None)
        /\ pc' = [pc EXCEPT ![c] = "spawn"] /\ UNCHANGED want
  /\ UNCHANGED <<pending, turnVars, approvalVars, taskVars, lives>>

ChannelOf(c, r) == IF kind[r] = "chat" THEN Main ELSE want[c]

\* RUNNER.start returns: the channel waits for the run.  A consult has none.
Spawned(c) ==
  /\ Quiet /\ pc[c] = "spawn"
  /\ LET r == waits[c] IN
     /\ phase' = [phase EXCEPT ![r] = "alive"]
     /\ pending' = IF kind[r] = "consult" THEN pending
                   ELSE [pending EXCEPT ![ChannelOf(c, r)] = r]
  /\ pc' = [pc EXCEPT ![c] = "idle"] /\ want' = [want EXCEPT ![c] = None]
  /\ waits' = [waits EXCEPT ![c] = 0]
  /\ UNCHANGED <<status, lane, kind, cmd, started, turnVars, approvalVars, taskVars, lives>>

\* It could not be started: whatever the channel waited for is forgotten.
NotSpawned(c) ==
  /\ Quiet /\ pc[c] = "spawn"
  /\ LET r == waits[c] IN
     /\ phase' = [phase EXCEPT ![r] = "over"] /\ status' = [status EXCEPT ![r] = "error"]
     /\ pending' = IF kind[r] = "consult" THEN pending
                   ELSE [pending EXCEPT ![ChannelOf(c, r)] = 0]
  /\ pc' = [pc EXCEPT ![c] = "idle"] /\ want' = [want EXCEPT ![c] = None]
  /\ waits' = [waits EXCEPT ![c] = 0]
  /\ UNCHANGED <<lane, kind, cmd, started, turnVars, approvalVars, taskVars, lives>>

\* cancel() of the runs rs, asked for with stop or a cancel action: what has
\* a process is told to end.
CancelRunsIn(rs) ==
  LET hit == {r \in rs : phase[r] = "alive"} IN
  /\ phase' = [r \in Runs |-> IF r \in hit THEN "dying" ELSE phase[r]]
  /\ status' = [r \in Runs |-> IF r \in hit THEN "cancelled" ELSE status[r]]

Stop(k) ==
  /\ Quiet /\ pending[k] # 0 /\ phase[pending[k]] = "alive"
  /\ CancelRunsIn({pending[k]})
  /\ UNCHANGED <<pending, lane, kind, cmd, started, turnVars, requestVars, approvalVars,
                 taskVars, lives>>

-----------------------------------------------------------------------------
(* The end of a run and its hook.                                          *)

\* The record gets its status and the hook starts.  Only the controller's
\* answers are acted upon, unless they are empty; a command has no hook.
Exit(r) ==
  /\ Quiet /\ phase[r] = "alive"
  /\ phase' = [phase EXCEPT ![r] = IF kind[r] = "command" THEN "over" ELSE "hook"]
  /\ \E v \in {"succeeded", "failed", "cancelled"} :
       /\ status' = [status EXCEPT ![r] = v]
       /\ \/ UNCHANGED <<out, todo>>
          \/ /\ v = "succeeded" /\ kind[r] \in {"chat", "consult"}
             /\ \E o \in Outputs : /\ out' = [out EXCEPT ![r] = o]
                                  /\ todo' = [todo EXCEPT ![r] = Decided(o)]
  /\ UNCHANGED <<pending, lane, kind, cmd, started, did, turn, requestVars,
                 approvalVars, taskVars, lives>>

Died(r) ==
  /\ Quiet /\ phase[r] = "dying"
  /\ phase' = [phase EXCEPT ![r] = IF kind[r] = "command" THEN "over" ELSE "hook"]
  /\ UNCHANGED <<pending, status, lane, kind, cmd, started, turnVars, requestVars,
                 approvalVars, taskVars, lives>>

Done(r, ok) ==
  /\ did' = [did EXCEPT ![r] = Append(@, [type |-> Head(todo[r]).type, ok |-> ok])]
  /\ todo' = [todo EXCEPT ![r] = Tail(@)]
  /\ UNCHANGED <<out, turn>>

\* The hook of r has an action to execute, or is in the middle of one.
AtWork(r) == phase[r] = "hook" /\ waits[r] = 0 /\ todo[r] # <<>>
Ready(r) == AtWork(r) /\ copy[Loop] = None

\* Writer w reads approvals.json, and what it read becomes the file again.
Read(w, by, id, step) ==
  copy' = [copy EXCEPT ![w] = [by |-> by, id |-> id, step |-> step, file |-> approval]]
WriteBack(w, id, decision) ==
  /\ approval' = [copy[w].file EXCEPT ![id] = decision]
  /\ copy' = [copy EXCEPT ![w] = None]

\* What a hook asks an approval for: request_approval, or a command that the
\* policy lets run with an approval only.
AsksFor(a) ==
  /\ a.command \in Commands
  /\ \/ a.type = "request_approval"
     \/ a.type = "run_command" /\ Classify(CommandOf[a.command]) = "require_approval"

\* create_approval: the read ...
Ask(r) ==
  /\ Ready(r) /\ AsksFor(Head(todo[r])) /\ \E a \in Approvals : asked[a] = None
  /\ Read(Loop, r, 0, "ask")
  /\ UNCHANGED <<pending, runVars, turnVars, requestVars, approval, asked, ran, taskVars, lives>>

\* ... and the write, under an id of its own.
Asked(r) ==
  /\ AtWork(r) /\ AsksFor(Head(todo[r]))
  /\ copy[Loop] # None /\ copy[Loop].by = r /\ copy[Loop].step = "ask"
  /\ \E a \in Approvals :
       /\ asked[a] = None /\ \A b \in Approvals : asked[b] = None => a <= b
       /\ WriteBack(Loop, a, "pending")
       /\ asked' = [asked EXCEPT ![a] = Head(todo[r]).command]
  /\ Done(r, TRUE)
  /\ UNCHANGED <<pending, runVars, requestVars, ran, taskVars, lives>>

\* actions.execute, one action of the answer.
Answer(r) ==
  /\ Ready(r) /\ Head(todo[r]).type \in {"answer", "request_user"}
  /\ Done(r, TRUE)
  /\ UNCHANGED <<pending, runVars, requestVars, approvalVars, taskVars, lives>>

\* create_task and queue_steps: resolve_task finds the newest task, or none.
QueueWork(r) ==
  /\ Ready(r) /\ Head(todo[r]).type \in {"create_task", "queue_steps"}
  /\ LET a == Head(todo[r])
         steps == IF a.type = "create_task" THEN StepsOfNew(a)
                  ELSE NormalizeSteps(a.steps)
     IN \/ /\ steps # <<>> /\ queued' = queued \cup {<<r, a.type, steps>>}
           /\ Done(r, TRUE)
        \/ /\ a.type = "queue_steps" \* no such task, or no such step
           /\ Done(r, FALSE) /\ UNCHANGED queued
  /\ UNCHANGED <<pending, runVars, requestVars, approvalVars, verdicts, lives>>

\* complete_task: without a task in scope it fails.
CompleteTask(r) ==
  /\ Ready(r) /\ Head(todo[r]).type = "complete_task"
  /\ \/ \E t \in Tasks : verdicts' = verdicts \cup {t} /\ Done(r, TRUE)
     \/ UNCHANGED verdicts /\ Done(r, FALSE)
  /\ UNCHANGED <<pending, runVars, requestVars, approvalVars, queued, lives>>

\* retry and reroute change the queue as its own operations do.
ChangeQueue(r) ==
  /\ Ready(r) /\ Head(todo[r]).type \in {"retry", "reroute"}
  /\ \E ok \in BOOLEAN : Done(r, ok)
  /\ UNCHANGED <<pending, runVars, requestVars, approvalVars, taskVars, lives>>

\* cancel: the run it names, or every process the runner manages.
CancelRuns(r) ==
  /\ Ready(r) /\ Head(todo[r]).type = "cancel"
  /\ \E rs \in {Runs} \cup {{q} : q \in Runs} : CancelRunsIn(rs)
  /\ Done(r, TRUE)
  /\ UNCHANGED <<pending, lane, kind, cmd, started, requestVars, approvalVars, taskVars, lives>>

\* Mutant: what needs an approval is run at once.
RunActionUngated(r) ==
  /\ Ready(r) /\ Head(todo[r]).type = "run_command"
  /\ Classify(CommandOf[Head(todo[r]).command]) # "deny"
  /\ NewRun(r, "command", "shell", Head(todo[r]).command)
  /\ Done(r, TRUE)
  /\ UNCHANGED <<pending, pc, want, approvalVars, taskVars, lives>>

\* execute_run_directive, where no approval is asked for: a message (denied,
\* manual mode, no such program), or a record.
RunAction(r) ==
  /\ Ready(r) /\ Head(todo[r]).type = "run_command" /\ ~AsksFor(Head(todo[r]))
  /\ \/ UNCHANGED <<runVars, waits>>
     \/ /\ Classify(CommandOf[Head(todo[r]).command]) = "allow"
        /\ NewRun(r, "command", "shell", Head(todo[r]).command)
  /\ Done(r, TRUE)
  /\ UNCHANGED <<pending, pc, want, approvalVars, taskVars, lives>>

\* An exception in an action ends the turn, without a record of it.
ActionRaises(r) ==
  /\ Ready(r)
  /\ todo' = [todo EXCEPT ![r] = <<>>] /\ turn' = [turn EXCEPT ![r] = "raised"]
  /\ UNCHANGED <<pending, runVars, out, did, requestVars, approvalVars, taskVars, lives>>

\* Mutant: the hook leaves the entry of its channel as it is.
HookEndKeeps(r) ==
  /\ phase[r] = "hook" /\ waits[r] = 0 /\ todo[r] = <<>>
  /\ phase' = [phase EXCEPT ![r] = "over"]
  /\ UNCHANGED <<pending, status, lane, kind, cmd, started, turnVars, requestVars,
                 approvalVars, taskVars, lives>>

\* The end of the hook: the turn is recorded, and the channel no longer
\* waits for this run (if it did).
HookEnd(r) ==
  /\ phase[r] = "hook" /\ waits[r] = 0 /\ todo[r] = <<>>
  /\ turn' = [turn EXCEPT ![r] = IF out[r] = None \/ @ = "raised" THEN @ ELSE
       TurnStatus(out[r], \A i \in 1..Len(did[r]) : did[r][i].ok)]
  /\ pending' = [k \in Channels |-> IF pending[k] = r THEN 0 ELSE pending[k]]
  /\ phase' = [phase EXCEPT ![r] = "over"]
  /\ UNCHANGED <<status, lane, kind, cmd, started, out, todo, did, requestVars,
                 approvalVars, taskVars, lives>>

-----------------------------------------------------------------------------
(* Commands and approvals.                                                 *)

\* The process of a command exists, or could not be created.
CommandSpawned(r) ==
  /\ Quiet /\ phase[r] = "spawning" /\ kind[r] = "command"
  /\ \/ phase' = [phase EXCEPT ![r] = "alive"] /\ UNCHANGED status
     \/ phase' = [phase EXCEPT ![r] = "over"] /\ status' = [status EXCEPT ![r] = "error"]
  /\ UNCHANGED <<pending, lane, kind, cmd, started, turnVars, requestVars, approvalVars,
                 taskVars, lives>>

\* Whoever started it waits for its end, or for RUN_WAIT_SECONDS at most.
CommandWaited(c) ==
  /\ Quiet /\ waits[c] # 0 /\ kind[waits[c]] = "command"
  /\ phase[waits[c]] # "spawning"
  /\ waits' = [waits EXCEPT ![c] = 0]
  /\ pc' = IF c \in Requests THEN [pc EXCEPT ![c] = "idle"] ELSE pc
  /\ UNCHANGED <<pending, runVars, turnVars, want, approvalVars, taskVars, lives>>

\* Mutant: approve does not look whether the approval is pending.
ApproveAgain(c, a) ==
  /\ Quiet /\ pc[c] = "idle" /\ approval[a] # "none"
  /\ Read(Loop, c, a, "look")
  /\ UNCHANGED <<pending, runVars, turnVars, requestVars, approval, asked, ran, taskVars, lives>>

\* approve: the look at the approval.  It is not repeated: what follows goes
\* by the copy of this moment, whatever a thread writes meanwhile.
Approve(c, a) ==
  /\ Quiet /\ pc[c] = "idle" /\ approval[a] = "pending"
  /\ Read(Loop, c, a, "look")
  /\ UNCHANGED <<pending, runVars, turnVars, requestVars, approval, asked, ran, taskVars, lives>>

\* execute_run_directive with approved=True up to the start: still not if the
\* command is denied; a message only in manual mode or without the program.
RunApproved(c, a) ==
  \/ UNCHANGED <<runVars, waits, ran, pc>>
  \/ /\ Classify(CommandOf[asked[a]]) # "deny"
     /\ NewRun(c, "command", "shell", asked[a])
     /\ ran' = [ran EXCEPT ![a] = @ \cup {started + 1}]
     /\ pc' = [pc EXCEPT ![c] = "command"]

\* resolve_approval reads the file again.  An approval that is no longer
\* pending stays as it is, and its command is executed all the same.
Resolve(c) ==
  /\ copy[Loop] # None /\ copy[Loop].by = c /\ copy[Loop].step = "look"
  /\ LET a == copy[Loop].id IN
     \/ /\ approval[a] = "pending"
        /\ Read(Loop, c, a, "resolve")
        /\ UNCHANGED <<runVars, waits, ran, pc>>
     \/ /\ approval[a] # "pending"
        /\ copy' = [copy EXCEPT ![Loop] = None]
        /\ RunApproved(c, a)
  /\ UNCHANGED <<pending, turnVars, want, approval, asked, taskVars, lives>>

\* Otherwise it is written as approved, and its command is executed.
Resolved(c) ==
  /\ copy[Loop] # None /\ copy[Loop].by = c /\ copy[Loop].step = "resolve"
  /\ WriteBack(Loop, copy[Loop].id, "approved")
  /\ RunApproved(c, copy[Loop].id)
  /\ UNCHANGED <<pending, turnVars, want, asked, taskVars, lives>>

\* reject, in a thread of the pool: resolve_approval reads ...
Reject(t, a) ==
  /\ copy[t] = None /\ approval[a] = "pending"
  /\ Read(t, t, a, "resolve")
  /\ UNCHANGED <<pending, runVars, turnVars, requestVars, approval, asked, ran, taskVars, lives>>

\* ... and writes, over whatever was written in between.
Rejected(t) ==
  /\ copy[t] # None
  /\ WriteBack(t, copy[t].id, "rejected")
  /\ UNCHANGED <<pending, runVars, turnVars, requestVars, asked, ran, taskVars, lives>>

\* A crash: approvals, queue and tasks are files; the rest is gone, answers and
\* what their hooks knew of them as well.
Crash ==
  /\ lives <= LifeCap /\ lives' = lives + 1
  /\ pending' = [k \in Channels |-> 0]
  /\ phase' = [r \in Runs |-> IF phase[r] = "none" THEN "none" ELSE "lost"]
  /\ status' = [r \in Runs |-> "none"]
  /\ out' = [r \in Runs |-> None] /\ turn' = [r \in Runs |-> None]
  /\ todo' = [r \in Runs |-> <<>>] /\ did' = [r \in Runs |-> <<>>]
  /\ pc' = [c \in Requests |-> "idle"] /\ want' = [c \in Requests |-> None]
  /\ waits' = [c \in Coroutines |-> 0] /\ copy' = [w \in Writers |-> None]
  /\ UNCHANGED <<lane, kind, cmd, started, approval, asked, ran, taskVars>>

-----------------------------------------------------------------------------
Execute(r) ==
  \/ Answer(r) \/ QueueWork(r) \/ CompleteTask(r) \/ ChangeQueue(r) \/ CancelRuns(r)
  \/ Ask(r) \/ Asked(r) \/ RunAction(r)

Turn(c) == SummaryDone(c) \/ CompressDone(c) \/ Spawned(c) \/ NotSpawned(c)
EndOfRun(r) == Exit(r) \/ Died(r) \/ CommandSpawned(r) \/ Execute(r) \/ HookEnd(r)

Next ==
  \/ \E c \in Requests : Turn(c) \/ Consult(c)
  \/ \E c \in Requests, p \in Providers : Send(c, p) \/ SendDirect(c, p)
  \/ \E c \in Requests, a \in Approvals : Approve(c, a)
  \/ \E c \in Requests : Resolve(c) \/ Resolved(c)
  \/ \E t \in Threads : Rejected(t) \/ \E a \in Approvals : Reject(t, a)
  \/ \E k \in Channels : Stop(k)
  \/ \E r \in Runs : EndOfRun(r) \/ ActionRaises(r)
  \/ \E c \in Coroutines : CommandWaited(c)
  \/ Crash

Spec == Init /\ [][Next]_vars

\* The loop goes on while a hook or a request can, and runs end (their
\* watchdog).  Each of finitely many runs takes finitely many steps: none is
\* left behind.
FairSpec ==
  /\ Spec
  /\ WF_vars(\E r \in Runs : EndOfRun(r) \/ CommandWaited(r))
  /\ WF_vars(\E c \in Requests : Resolve(c) \/ Resolved(c))

-----------------------------------------------------------------------------
(* Properties.                                                             *)

\* Two running records of one agent are a consult and something else, never
\* two chats: send and send_direct look at the lane where it counts, and
\* only orchestrator_consult does not look again after its await.
LaneSharedOnlyByConsult ==
  \A r, q \in Runs : Running(r) /\ Running(q) /\ lane[r] = lane[q] /\ r # q
    /\ lane[r] \in Providers => "consult" \in {kind[r], kind[q]}

\* A reply with a v1 block makes at most one action, an invalid one none;
\* and a turn that says it did nothing did nothing (controller_protocol).
OneActionPerBlock ==
  \A r \in Runs : out[r] # None =>
    /\ IsV1(out[r]) => Len(did[r]) <= 1
    /\ (IsV1(out[r]) /\ ~IsValid(out[r])) => did[r] = <<>>
    /\ turn[r] \in {"invalid", "no_action"} =>
         did[r] = <<>> /\ \A q \in queued : q[1] # r

\* A command that runs is allowed, or needs an approval and was started by one
\* that asked for this very command; a denied one never runs, approved or not
\* (execute_run_directive), whatever copies of approvals.json are written
\* back, also after a crash.
RunsOnlyWhatItMay ==
  \A r \in Runs : cmd[r] # None =>
    LET policy == Classify(CommandOf[cmd[r]]) IN
    \/ policy = "allow"
    \/ /\ policy = "require_approval"
       /\ \E a \in Approvals : r \in ran[a] /\ asked[a] = cmd[r]
       /\ \A a, b \in Approvals : r \in ran[a] /\ r \in ran[b] => a = b

\* What the file says of an approval stands once no writer holds another view
\* of it; until then it is open.  One that nobody can find any more is lost.
Open(a) == \/ approval[a] = "pending"
           \/ \E w \in Writers : copy[w] # None /\ copy[w].file[a] # approval[a]
Standing(a) ==
  IF asked[a] = None THEN "none"
  ELSE IF Open(a) THEN "open"
  ELSE IF approval[a] = "none" THEN "lost" ELSE approval[a]

\* The approvals implement ApprovalLifecycle: what stands is never decided
\* again, and starts nothing any more (routes_state.approve and reject).
ApprovalsStand ==
  INSTANCE ApprovalLifecycle WITH
    decision <- [a \in Approvals |-> Standing(a)], ran <- ran
StandingIsFinal == ApprovalsStand!Spec

\* A hook comes to its end, commands and all, and then no channel waits for
\* its run any more: chat is never stuck at "already in progress".
TurnEnds == \A r \in Runs :
  phase[r] = "hook" ~> phase[r] \in {"over", "lost"} /\ \A k \in Channels : pending[k] # r
=============================================================================
