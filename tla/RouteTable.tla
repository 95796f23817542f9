----------------------------- MODULE RouteTable -----------------------------
(***************************************************************************)
(* The engine's task router (scripts/route-task.py): who does a unit of    *)
(* work, in which stages and as which persona.  A request names a task     *)
(* type or is a text; of a text only the scores its phrases give the task  *)
(* types matter.  Rationales, actions and alternatives are wording.  The   *)
(* overrides of routing-policy.yaml are empty in the repository and are    *)
(* left out with the branch that applies them.                             *)
(***************************************************************************)
EXTENDS Naturals, Sequences, FiniteSets

\* A persona the router leaves to the executor.
NoPersona == ""

Row(d, a, p, types) == [decision |-> d, primary |-> a, persona |-> p, types |-> types]

\* ROUTE_TABLE, one row for the task types that share decision and persona.
RouteRows == {
    Row("HANDLE_WITH_CLAUDE", "claude", "principal-engineer",
        {"LOCAL_CORE_IMPLEMENTATION", "LOCAL_BACKEND_IMPLEMENTATION", "LOCAL_FRONTEND_IMPLEMENTATION",
         "LOCAL_DEBUGGING", "LOCAL_CODE_REVIEW", "LOCAL_ARCHITECTURE", "FRONTEND_BUG_FIX", "DO_NOT_DELEGATE"}),
    Row("DELEGATE_TO_CODEX", "codex", "codebase-analyst",
        {"CODEBASE_SEMANTIC_ANALYSIS", "CODEBASE_ARCHITECTURE_MAPPING", "CODEBASE_FLOW_TRACING",
         "BLAST_RADIUS_ANALYSIS"}),
    Row("DELEGATE_TO_CODEX", "codex", "independent-reviewer",
        {"SPECIFICATION_CONSISTENCY_REVIEW", "INDEPENDENT_IMPLEMENTATION_REVIEW"}),
    Row("DELEGATE_TO_CODEX", "codex", "research-synthesizer", {"RESEARCH_SYNTHESIS"}),
    Row("DELEGATE_TO_CODEX", "codex", "parallel-investigation-lead", {"PARALLEL_INVESTIGATION"}),
    Row("DELEGATE_TO_CODEX", "codex", "test-strategy-designer", {"TEST_PLAN_DESIGN"}),
    Row("DELEGATE_TO_CODEX", "codex", "technical-writer", {"MARKDOWN_AUTHORING", "PROJECT_DOCUMENTATION"}),
    Row("DELEGATE_TO_CODEX", "codex", "repository-navigator",
        {"LOCAL_FILE_DISCOVERY", "LOCAL_REPOSITORY_INVENTORY", "LOCAL_SYMBOL_SEARCH",
         "LOCAL_CONFIGURATION_DISCOVERY", "LOCAL_DEPENDENCY_INVENTORY", "TEST_DISCOVERY"}),
    Row("DELEGATE_TO_CODEX", "codex", "qa-runner",
        {"TEST_EXECUTION", "BUILD_EXECUTION", "LINT_EXECUTION", "FORMAT_CHECK", "STATIC_ANALYSIS",
         "QA_EVIDENCE_COLLECTION"}),
    Row("DELEGATE_TO_CODEX", "codex", "runtime-validator", {"RUNTIME_VALIDATION"}),
    Row("DELEGATE_TO_CODEX", "codex", "qa-reporter", {"QA_REPORTING"}),
    Row("DELEGATE_TO_CODEX", "codex", "task-runner", {"TASK_EXECUTION"}),
    Row("DELEGATE_TO_CODEX", "codex", "git-steward",
        {"GIT_STATUS_INSPECTION", "GIT_DIFF_INSPECTION", "GIT_CHECKPOINT", "GIT_COMMIT", "GIT_PUSH",
         "GIT_MILESTONE", "GITHUB_VERSION_CONTROL", "CI_MONITORING"}),
    Row("DELEGATE_TO_CODEX", "codex", "xcode-controller", {"XCODE_PROJECT_SETUP", "SIMULATOR_LIFECYCLE"}),
    Row("CODEX_WITH_OMLX_MONITOR", "codex", "xcode-controller", {"APPLE_BUILD_TEST"}),
    Row("CODEX_THEN_ANTIGRAVITY", "codex", "xcode-controller", {"APPLE_VERIFICATION"}),
    Row("DELEGATE_TO_ANTIGRAVITY", "antigravity", "web-researcher", {"WEB_RESEARCH", "CURRENT_INFORMATION"}),
    Row("DELEGATE_TO_ANTIGRAVITY", "antigravity", "github-scout", {"GITHUB_REPOSITORY_SEARCH"}),
    Row("DELEGATE_TO_ANTIGRAVITY", "antigravity", "github-code-investigator",
        {"GITHUB_CODE_SEARCH", "GITHUB_ISSUE_RESEARCH"}),
    Row("DELEGATE_TO_ANTIGRAVITY", "antigravity", "api-documentation-specialist", {"API_DOCUMENTATION"}),
    Row("DELEGATE_TO_ANTIGRAVITY", "antigravity", "dependency-auditor",
        {"DEPENDENCY_EVALUATION", "TECHNOLOGY_COMPARISON"}),
    Row("DELEGATE_TO_ANTIGRAVITY", "antigravity", "browser-qa-operator", {"FRONTEND_BROWSER_QA"}),
    Row("DELEGATE_TO_ANTIGRAVITY", "antigravity", "frontend-visual-reviewer", {"FRONTEND_VISUAL_REVIEW"}),
    Row("DELEGATE_TO_ANTIGRAVITY", "antigravity", "simulator-qa-analyst", {"SIMULATOR_VISUAL_QA"}),
    Row("DELEGATE_TO_ANTIGRAVITY", "antigravity", "routine-tool-operator",
        {"IMAGE_ASSET_GENERATION", "ROUTINE_TOOL_CALL"}),
    Row("DELEGATE_TO_ANTIGRAVITY", "antigravity", "commit-summarizer",
        {"GIT_DIFF_SUMMARY", "COMMIT_SUMMARY", "MILESTONE_SUMMARY"}),
    Row("CODEX_WITH_OMLX_MONITOR", "codex", "qa-runner", {"LONG_RUNNING_JOB"}),
    Row("DELEGATE_TO_OMLX_MONITOR", "omlx", NoPersona, {"LOG_TRIAGE"}),
    Row("RESEARCH_THEN_IMPLEMENT_THEN_VALIDATE", "claude", NoPersona, {"MIXED_RESEARCH_AND_IMPLEMENTATION"}),
    Row("FRONTEND_QA_FIX_LOOP", "claude", "principal-engineer", {"MIXED_FRONTEND_QA_AND_FIX"}),
    Row("CLAUDE_THEN_CODEX", "claude", "principal-engineer", {"MIXED_CORE_CHANGE_AND_VALIDATION"})}

TaskTypes == UNION {row.types : row \in RouteRows}
RowOf(type) == CHOOSE row \in RouteRows : type \in row.types

\* Decisions that watch a long job by themselves, and what a decision becomes
\* when a monitor is asked for.
MonitorDecisions == {"DELEGATE_TO_OMLX_MONITOR", "CLAUDE_WITH_OMLX_MONITOR", "CODEX_WITH_OMLX_MONITOR",
                     "ANTIGRAVITY_WITH_OMLX_MONITOR"}
MonitorUpgrade == [HANDLE_WITH_CLAUDE |-> "CLAUDE_WITH_OMLX_MONITOR",
                   DELEGATE_TO_CODEX |-> "CODEX_WITH_OMLX_MONITOR",
                   DELEGATE_TO_ANTIGRAVITY |-> "ANTIGRAVITY_WITH_OMLX_MONITOR"]
AlwaysMonitor == {"APPLE_VERIFICATION"}

-----------------------------------------------------------------------------
(* Inference from a text: `scores` gives the task types whose phrases the  *)
(* text contains what their phrases weigh.  The best one wins (of equals   *)
(* the last by name: any, here); two words or no rival make it strong.     *)

NoScores == [type \in {} |-> 0]

Best(scores) == {type \in DOMAIN scores : \A other \in DOMAIN scores : scores[other] <= scores[type]}

Strong(scores) == \/ Cardinality(DOMAIN scores) = 1
                  \/ \E type \in Best(scores) : scores[type] >= 2

\* The pairs <<task type, confidence>> a request may be given; a confidence
\* is named for what it comes from.
Inferred(scores) ==
    IF scores = NoScores
    THEN {<<"DO_NOT_DELEGATE", "default">>}
    ELSE {<<type, IF Strong(scores) THEN "inferred_strong" ELSE "inferred_weak">> : type \in Best(scores)}

-----------------------------------------------------------------------------
(* Stages.                                                                 *)

Stage(agent, persona) == [agent |-> agent, persona |-> persona]
Monitor == Stage("omlx", NoPersona)
Default(persona, other) == IF persona = NoPersona THEN other ELSE persona

\* The stages of a decision, in order.  The branches for decisions that no row
\* of the table and no monitor leads to are left out.
Stages(decision, primary, persona) ==
    CASE decision = "HANDLE_WITH_CLAUDE" -> <<Stage("claude", Default(persona, "principal-engineer"))>>
      [] decision = "DELEGATE_TO_OMLX_MONITOR" -> <<Monitor>>
      [] decision = "CLAUDE_THEN_CODEX" ->
            <<Stage("claude", Default(persona, "principal-engineer")), Stage("codex", "qa-runner")>>
      [] decision = "CODEX_THEN_ANTIGRAVITY" ->
            <<Stage("codex", Default(persona, "xcode-controller")), Stage("antigravity", "simulator-qa-analyst")>>
      [] decision = "FRONTEND_QA_FIX_LOOP" ->
            <<Stage("antigravity", "browser-qa-operator"), Stage("claude", "principal-engineer"),
              Stage("codex", "qa-runner"), Stage("antigravity", "frontend-visual-reviewer"),
              Stage("codex", "git-steward")>>
      [] decision = "RESEARCH_THEN_IMPLEMENT_THEN_VALIDATE" ->
            <<Stage("antigravity", "web-researcher"), Stage("codex", "research-synthesizer"),
              Stage("claude", "principal-engineer"), Stage("codex", "qa-runner")>>
      [] decision \in MonitorDecisions \ {"DELEGATE_TO_OMLX_MONITOR"} ->
            <<Stage(primary, persona), Monitor>>
      [] OTHER -> <<Stage(primary, persona)>>

\* route: the stages of a task type; a long job or large logs ask for a
\* monitor, by another decision or by one more stage.
Route(type, confidence, long) ==
    LET row      == RowOf(type)
        asked    == long \/ type \in AlwaysMonitor
        upgraded == asked /\ row.decision \in DOMAIN MonitorUpgrade
        decision == IF upgraded THEN MonitorUpgrade[row.decision] ELSE row.decision
        stages   == Stages(decision, row.primary, row.persona)
        alone    == asked /\ decision \notin MonitorDecisions /\ ~\E i \in DOMAIN stages : stages[i].agent = "omlx"
    IN  [type |-> type, confidence |-> confidence, decision |-> decision,
         monitor |-> asked \/ decision \in MonitorDecisions,
         stages |-> IF alone THEN Append(stages, Monitor) ELSE stages]

\* A stage that implements: the route gives it to Claude as the engineer.
Implements(stage) == stage.persona = "principal-engineer"
=============================================================================
