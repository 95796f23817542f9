------------------------------ MODULE Dispatch ------------------------------
(***************************************************************************)
(* From a route to who is really called: the engine's usage library        *)
(* (scripts/usage_lib.py), its dispatcher (scripts/dispatch.py) and the    *)
(* application's adapter and pipeline (orchestrator/), with the advice of  *)
(* routing_service.                                                        *)
(*                                                                         *)
(* `usage` is agent-usage.json: per agent its status and what is left of   *)
(* its cooldown (cooldown_until - now).  `installed` is the set of agents  *)
(* whose CLI is found.  The application always asks for cli_only and has   *)
(* no plugins (caps.py), so the plugin branches of resolve_stage are never *)
(* taken and are left out; scripts, commands and notes are wording.        *)
(***************************************************************************)
EXTENDS RouteTable, SequencesExt

Delegates == {"codex", "antigravity", "omlx"}
Agents == Delegates \cup {"claude"}

Fresh == [agent \in Delegates |-> [status |-> "available", left |-> 0]]

-----------------------------------------------------------------------------
(* usage_lib                                                               *)

\* The chain of the agent's role, from the agent's own place on.
Chain(agent) ==
    CASE agent = "codex"       -> <<"codex", "antigravity", "claude">>
      [] agent = "antigravity" -> <<"antigravity", "codex", "claude">>
      [] agent = "omlx"        -> <<"omlx", "codex", "antigravity", "claude">>
      [] OTHER                 -> <<"claude">>

\* Mutant: an agent once out stays out, whatever its cooldown.
EffectiveStatusForGood(agent, installed, usage) ==
    IF agent = "claude" THEN "available"
    ELSE IF agent \notin installed THEN "unavailable"
    ELSE usage[agent].status

\* Mutant: only what is not installed is out.
EffectiveStatusWhenThere(agent, installed, usage) ==
    IF agent = "claude" \/ agent \in installed THEN "available" ELSE "unavailable"

EffectiveStatus(agent, installed, usage) ==
    IF agent = "claude" THEN "available"
    ELSE IF agent \notin installed THEN "unavailable"
    ELSE IF usage[agent].status = "exhausted" /\ usage[agent].left > 0 THEN "exhausted"
    ELSE "available"

\* The first agent of the chain that can be used: Claude at the latest.
Resolve(preferred, installed, usage) ==
    LET chain == Chain(preferred)
        Works(i) == EffectiveStatus(chain[i], installed, usage) = "available"
    IN  chain[CHOOSE i \in DOMAIN chain : Works(i) /\ \A j \in 1 .. i - 1 : ~Works(j)]

\* mark: being out starts a cooldown, any other status drops it.
Mark(usage, agent, status, cooldown) ==
    [usage EXCEPT ![agent] = [status |-> status, left |-> IF status = "exhausted" THEN cooldown ELSE 0]]

-----------------------------------------------------------------------------
(* dispatch                                                                *)

\* Codex work the local scripts do, by task type or by persona.
CodexScriptPersonas == {"qa-runner", "qa-reporter", "task-runner", "git-steward", "runtime-validator",
                        "repository-navigator", "xcode-controller"}
CodexScriptTypes == {"LOG_TRIAGE"} \cup {type \in TaskTypes \ {"LONG_RUNNING_JOB"} :
                                            RowOf(type).persona \in CodexScriptPersonas}

AgyScriptTypes == {"GIT_DIFF_SUMMARY", "COMMIT_SUMMARY", "MILESTONE_SUMMARY", "FRONTEND_BROWSER_QA"}
AgyScriptPersonas == {"routine-tool-operator", "commit-summarizer"}

\* The tier of the Antigravity model.
AgyModel(type, persona) ==
    IF \/ type \in {"ROUTINE_TOOL_CALL", "IMAGE_ASSET_GENERATION", "FRONTEND_VISUAL_REVIEW",
                    "SIMULATOR_VISUAL_QA"} \cup AgyScriptTypes
       \/ persona \in {"browser-qa-operator", "frontend-visual-reviewer", "simulator-qa-analyst"}
                          \cup AgyScriptPersonas
    THEN "flash" ELSE "pro"

\* resolve_stage, for an agent that Resolve has chosen.
ResolveStage(stage, type, installed) ==
    LET entry(via, model) == [agent |-> stage.agent, persona |-> stage.persona, via |-> via, model |-> model]
    IN  CASE stage.agent = "claude" -> entry("claude", "")
          [] stage.agent = "codex" /\ (type \in CodexScriptTypes \/ stage.persona \in CodexScriptPersonas) ->
                entry("local_script", "")
          [] stage.agent = "codex" /\ "codex" \in installed -> entry("codex_cli", "gpt-5.5")
          [] stage.agent = "antigravity" /\ type # "IMAGE_ASSET_GENERATION"
                /\ (type \in AgyScriptTypes \/ stage.persona \in AgyScriptPersonas) ->
                entry("local_script", AgyModel(type, stage.persona))
          [] stage.agent = "antigravity" /\ "antigravity" \in installed ->
                entry("agy_cli", AgyModel(type, stage.persona))
          [] OTHER -> entry("degraded", "")

\* What watches a job when oMLX cannot.
MonitorVia == [omlx |-> "omlx", codex |-> "codex_takeover", antigravity |-> "agy_takeover",
               claude |-> "deterministic_supervisor"]

\* Mutant: a stage that cannot stay takes the next agent of the pair, Claude's
\* stages too when Claude is to be spared.
DispatchStageSpread(stage, type, installed, usage) ==
    LET effective == IF stage.agent = "claude" THEN Resolve("codex", installed, usage)
                     ELSE Resolve(stage.agent, installed, usage)
    IN  IF stage.agent = "omlx"
        THEN [agent |-> "omlx", persona |-> NoPersona, via |-> MonitorVia[effective], model |-> ""]
        ELSE ResolveStage(IF effective = stage.agent THEN stage ELSE Stage(effective, NoPersona), type, installed)

\* dispatch_plan: one entry per stage; a stage that moves to another agent
\* loses its persona.
DispatchStage(stage, type, installed, usage) ==
    LET effective == Resolve(stage.agent, installed, usage)
    IN  IF stage.agent = "omlx"
        THEN [agent |-> "omlx", persona |-> NoPersona, via |-> MonitorVia[effective], model |-> ""]
        ELSE ResolveStage(IF effective = stage.agent THEN stage ELSE Stage(effective, NoPersona), type, installed)

-----------------------------------------------------------------------------
(* router, dispatch_adapter and pipeline                                   *)

\* route_for_task: a task type is certain, a goal is guessed at.  The
\* application never says that a job is long.
NoType == ""
RouteForTask(type, goal) ==
    {Route(guess[1], guess[2], FALSE) :
        guess \in IF type = NoType THEN Inferred(goal) ELSE {<<type, "explicit">>}}

NoProvider == "none"

\* The provider to spawn for an entry: none for a monitor, Claude for what is
\* degraded.
ProviderFor(entry) ==
    IF entry.agent = "omlx" THEN NoProvider
    ELSE IF entry.agent = "claude" \/ entry.via = "degraded" THEN "claude"
    ELSE entry.agent

\* plan: an entry without a persona takes the one of its stage back.
Plan(route, installed, usage) ==
    [i \in DOMAIN route.stages |->
        LET entry == DispatchStage(route.stages[i], route.type, installed, usage)
        IN  [provider |-> ProviderFor(entry), model |-> entry.model, via |-> entry.via,
             persona |-> Default(entry.persona, route.stages[i].persona)]]

\* PERSONA_STEP: the step of the application that a persona's stage becomes.
NoStep == "none"
PersonaStep(persona) ==
    CASE persona \in {"spec-writer", "research-synthesizer", "codebase-analyst", "parallel-investigation-lead",
                      "test-strategy-designer", "technical-writer", "repository-navigator", "web-researcher",
                      "api-documentation-specialist", "github-scout", "github-code-investigator",
                      "dependency-auditor"} -> "codex_spec"
      [] persona = "implementer" -> "claude_implement"
      [] persona \in {"qa-runner", "qa-reporter", "browser-qa-operator", "frontend-visual-reviewer",
                      "simulator-qa-analyst", "runtime-validator", "environment-operator", "task-runner"} ->
            "gemini_qa"
      [] persona = "independent-reviewer" -> "codex_review"
      [] OTHER -> NoStep

\* effective_provider: the user's choice unless it is out of usage; a CLI that
\* is missing is no reason to go elsewhere.
EffectiveProvider(preferred, installed, usage) ==
    IF preferred \in {"codex", "antigravity"}
    THEN Resolve(preferred, installed \cup {preferred}, usage)
    ELSE preferred

\* engine_pipeline: the steps and providers of a confident route of more than
\* one step, else none.
EnginePipeline(route, installed, usage) ==
    LET Take(steps, entry) ==
            LET step == PersonaStep(entry.persona)
            IN  IF \/ entry.provider = NoProvider
                   \/ step = NoStep
                   \/ steps # <<>> /\ Last(steps).step = step
                THEN steps ELSE Append(steps, [step |-> step, provider |-> entry.provider])
        steps == FoldLeft(Take, <<>>, Plan(route, installed, usage))
    IN  IF Len(steps) > 1 /\ route.confidence \in {"explicit", "inferred_strong"} THEN steps ELSE <<>>

-----------------------------------------------------------------------------
(* routing_service: the advice shown beside a task.  `health` is the light *)
(* each provider shows; what the advice says in words is left out.         *)

\* _best_delegate: red is taken for exhausted, and Claude is nobody's delegate.
BestDelegate(health) ==
    LET usage     == [agent \in Delegates |->
                         IF agent # "omlx" /\ health[agent] = "red"
                         THEN [status |-> "exhausted", left |-> 1] ELSE Fresh[agent]]
        effective == Resolve("codex", {"codex", "antigravity"}, usage)
    IN  IF effective = "claude" THEN "codex" ELSE effective

\* recommend: whom to use, whether to go on by hand, and whether to save.
Recommend(health, mode) ==
    [selected |-> IF health["claude"] = "red" THEN BestDelegate(health) ELSE "claude",
     manual   |-> mode = "manual_approval" \/ health["claude"] = "red",
     cheaper  |-> health["claude"] # "green" \/ mode = "budget_saver"]
=============================================================================
