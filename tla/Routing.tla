------------------------------- MODULE Routing -------------------------------
(***************************************************************************)
(* Who runs a step: the user's routing, what the agents said of their      *)
(* limits, and a full sequence whose steps the engine may have planned.    *)
(*                                                                         *)
(* Two actors start steps: the user (one step at a time) and the sequence  *)
(* of a task.  A step has its provider chosen when run_step begins, waits  *)
(* for git, takes the lane if it is still free, runs, and ends; what its   *)
(* output says of a limit is recorded only when the completion hook has    *)
(* waited for git in turn.  Tasks, rows and artifacts are in other         *)
(* modules; so are the reasons for which a sequence skips a step or stops  *)
(* before one (Recovery), which may occur at any step here.                *)
(***************************************************************************)
EXTENDS Dispatch

CONSTANTS
    Installations,  \* the sets of agents whose CLI may be found
    Routings,       \* the routings the user may set: role -> provider
    Goals,          \* the texts of tasks: the scores of the task types their phrases hit
    Hints,          \* the waits an agent's output may name, in ticks
    DefaultWait,    \* the cooldown when it names none
    RerouteCap      \* bound: steps the user runs on a provider of his own choice

ASSUME WaitsAssumption == DefaultWait \in Nat \ {0} /\ Hints \subseteq Nat \ {0}
ASSUME InstallationsAssumption == Installations \subseteq SUBSET Agents
ASSUME RoutingsAssumption ==
    \A r \in Routings : DOMAIN r = {"pm", "engineer", "qa"} /\ \A role \in DOMAIN r : r[role] \in Agents \ {"omlx"}

Providers == Agents \ {"omlx"}
Steps == {"codex_spec", "claude_implement", "gemini_qa", "codex_review", "claude_fix"}
FullSequence == <<"codex_spec", "claude_implement", "gemini_qa", "codex_review">>
Role(step) == CASE step \in {"claude_implement", "claude_fix"} -> "engineer"
                [] step = "gemini_qa" -> "qa"
                [] OTHER -> "pm"

Actors == {"user", "sequence"}

VARIABLES
    installed,  \* the agents whose CLI is found
    routing,    \* the workspace's routing
    usage,      \* agent-usage.json
    plan,       \* the steps the sequence has left, with their provider if planned
    work,       \* per actor: the phase and the provider of its step
    hooks,      \* <<provider, wait>>: limits seen by completion hooks that wait for git
    reroutes    \* steps run so far on a provider named by the user
vars == <<installed, routing, usage, plan, work, hooks, reroutes>>

Idle == [phase |-> "idle", provider |-> NoProvider]

Init == /\ installed \in Installations
        /\ routing \in Routings
        /\ usage = Fresh
        /\ plan = <<>>
        /\ work = [actor \in Actors |-> Idle]
        /\ hooks = {}
        /\ reroutes = 0

Busy(provider) == \E actor \in Actors : work[actor] = [phase |-> "running", provider |-> provider]

\* step_provider: the user's choice for the step's role, unless it is out.
StepProvider(step) == EffectiveProvider(routing[Role(step)], installed, usage)

-----------------------------------------------------------------------------
SetRouting(r) == /\ routing' = r
                 /\ UNCHANGED <<installed, usage, plan, work, hooks, reroutes>>

\* run_full_sequence: what the engine plans now is kept for the whole sequence.
StartSequence(goal) ==
    /\ plan = <<>> /\ work["sequence"] = Idle
    /\ \E route \in RouteForTask(NoType, goal) :
         LET planned == EnginePipeline(route, installed, usage)
         IN  plan' = IF planned # <<>> THEN planned
                     ELSE [i \in DOMAIN FullSequence |-> [step |-> FullSequence[i], provider |-> NoProvider]]
    /\ UNCHANGED <<installed, routing, usage, work, hooks, reroutes>>

\* run_step until git: a busy lane refuses the step, a missing CLI only saves
\* its prompt.
Chosen(actor, provider) ==
    work' = [work EXCEPT ![actor] = IF Busy(provider) \/ provider \notin installed THEN Idle
                                    ELSE [phase |-> "git", provider |-> provider]]

\* The loop of the sequence: a refused step stops it, a missing CLI does not.
SequenceStep ==
    /\ plan # <<>> /\ work["sequence"] = Idle
    /\ LET next     == Head(plan)
           provider == IF next.provider = NoProvider THEN StepProvider(next.step) ELSE next.provider
       IN  /\ Chosen("sequence", provider)
           /\ plan' = IF Busy(provider) THEN <<>> ELSE Tail(plan)
    /\ UNCHANGED <<installed, routing, usage, hooks, reroutes>>

\* The budget saver skips the spec; a red Claude stops before the implementation.
SkipStep ==
    /\ plan # <<>> /\ work["sequence"] = Idle
    /\ \/ Head(plan).step = "codex_spec" /\ plan' = Tail(plan)
       \/ Head(plan).step = "claude_implement" /\ plan' = <<>>
    /\ UNCHANGED <<installed, routing, usage, work, hooks, reroutes>>

\* A step the user runs, where his routing sends it or where he says.
UserStep(step) ==
    /\ work["user"] = Idle
    /\ Chosen("user", StepProvider(step))
    /\ UNCHANGED <<installed, routing, usage, plan, hooks, reroutes>>

Reroute(provider) ==
    /\ work["user"] = Idle /\ reroutes < RerouteCap
    /\ Chosen("user", provider)
    /\ reroutes' = reroutes + 1
    /\ UNCHANGED <<installed, routing, usage, plan, hooks>>

\* After git the lane is looked at again; a step that lost it is refused.
Spawn(actor) ==
    /\ work[actor].phase = "git"
    /\ IF Busy(work[actor].provider)
       THEN /\ work' = [work EXCEPT ![actor] = Idle]
            /\ plan' = IF actor = "sequence" THEN <<>> ELSE plan
       ELSE /\ work' = [work EXCEPT ![actor].phase = "running"]
            /\ UNCHANGED plan
    /\ UNCHANGED <<installed, routing, usage, hooks, reroutes>>

\* detect_exhaustion: the wait an output names, the default one, or none.
\* Claude has no signals.
Limits(provider) == IF provider = "claude" THEN {} ELSE Hints \cup {DefaultWait}

\* The process ends: the lane is free at once.  A run that failed stops the
\* sequence; what the output says of a limit waits for the completion hook.
Exit(actor) ==
    LET provider == work[actor].provider
    IN  /\ work[actor].phase = "running"
        /\ work' = [work EXCEPT ![actor] = Idle]
        /\ plan' \in IF actor = "sequence" THEN {plan, <<>>} ELSE {plan}
        /\ \/ UNCHANGED hooks
           \/ \E wait \in Limits(provider) : hooks' = hooks \cup {<<provider, wait>>}
        /\ UNCHANGED <<installed, routing, usage, reroutes>>

\* on_run_output: the agent is marked out.
Hook ==
    /\ \E told \in hooks : /\ usage' = Mark(usage, told[1], "exhausted", told[2])
                           /\ hooks' = hooks \ {told}
    /\ UNCHANGED <<installed, routing, plan, work, reroutes>>

Tick ==
    /\ \E agent \in Delegates : usage[agent].left > 0
    /\ usage' = [agent \in Delegates |->
                    [usage[agent] EXCEPT !.left = IF @ > 0 THEN @ - 1 ELSE 0]]
    /\ UNCHANGED <<installed, routing, plan, work, hooks, reroutes>>

Next ==
    \/ \E r \in Routings : SetRouting(r)
    \/ \E goal \in Goals : StartSequence(goal)
    \/ SequenceStep
    \/ SkipStep
    \/ \E step \in Steps : UserStep(step)
    \/ \E provider \in Providers : Reroute(provider)
    \/ \E actor \in Actors : Spawn(actor) \/ Exit(actor)
    \/ Hook
    \/ Tick

Spec == Init /\ [][Next]_vars

\* Time passes, and the hooks of ended runs get their turn.
FairSpec == Spec /\ WF_vars(Tick) /\ WF_vars(Hook)

-----------------------------------------------------------------------------
(* Properties.  The first two are about every task type, at whatever the   *)
(* usage file says in a reachable state.                                   *)

\* Every route a task type may get, with or without a monitor.
AllRoutes == {Route(type, "explicit", long) : type \in TaskTypes, long \in BOOLEAN}

\* Claude never loses the implementation and nobody gains it: an implementing
\* stage is planned on Claude, and work routed to the others never comes back
\* as an engineer's (route-task.py, dispatch.py, dispatch_adapter.py).
ClaudeKeepsImplementation ==
    \A route \in AllRoutes : \A i \in DOMAIN route.stages :
        LET entry == Plan(route, installed, usage)[i]
        IN  Implements(route.stages[i]) \/ Implements(entry) => entry.provider = "claude"

Out(agent) == agent \notin installed \/ usage[agent].left > 0

\* The load is spread before Claude takes it: a planned stage is never given to
\* an agent that is missing or still cooling down, and a delegated stage comes
\* to Claude only when Codex and Antigravity are both out (usage_lib.resolve,
\* dispatch.resolve_stage).  Nor does the advice name a provider that is red
\* while another is not (routing_service.recommend).
ClaudeIsLast ==
    /\ \A route \in AllRoutes : \A i \in DOMAIN route.stages :
         LET provider == Plan(route, installed, usage)[i].provider
         IN  /\ provider \in {"codex", "antigravity"} => ~Out(provider)
             /\ (route.stages[i].agent \in {"codex", "antigravity"} /\ provider = "claude")
                    => Out("codex") /\ Out("antigravity")
    /\ \A health \in [Providers -> {"green", "yellow", "red"}] :
         health[Recommend(health, "balanced").selected] = "red" => \A p \in Providers : health[p] = "red"

\* A limit does not outlast its cooldown: whatever runs, is marked late or is
\* rerouted meanwhile, the agent the user chose for a role is again and again
\* the one its steps would run on (usage_lib.mark, pipeline.effective_provider).
ChoiceComesBack == \A provider \in Providers : []<>(EffectiveProvider(provider, installed, usage) = provider)

\* A sequence planned for a task that is to be implemented implements it
\* (the comment on PERSONA_STEP: "implementation -> implement step (Claude)").
PlannedSequenceImplements ==
    [][\A goal \in Goals :
          /\ StartSequence(goal)
          /\ \A route \in RouteForTask(NoType, goal) :
                \E i \in DOMAIN route.stages : Implements(route.stages[i])
          => \E i \in DOMAIN plan' : plan'[i].step = "claude_implement"]_vars
=============================================================================
