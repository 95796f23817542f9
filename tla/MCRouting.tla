----------------------------- MODULE MCRouting ------------------------------
(* Instance of Routing for TLC.                                            *)
EXTENDS Routing

Routed(pm, engineer, qa) == [pm |-> pm, engineer |-> engineer, qa |-> qa]

\* The default routing, and one that gives Codex's roles to Antigravity.
TwoRoutings == {Routed("codex", "claude", "antigravity"), Routed("antigravity", "codex", "claude")}

\* A text without any phrase, one that names the mixed task ("research then
\* implement" weighs more than "research"), and one weakly between two types.
ThreeGoals == {NoScores,
               [type \in {"MIXED_RESEARCH_AND_IMPLEMENTATION", "WEB_RESEARCH"} |->
                    IF type = "WEB_RESEARCH" THEN 1 ELSE 3],
               [type \in {"LOCAL_DEBUGGING", "LINT_EXECUTION"} |-> 1]}

\* Everything, one delegate of two, no Claude.
ThreeInstallations == {Agents, {"claude", "codex"}, {"antigravity"}}
=============================================================================
