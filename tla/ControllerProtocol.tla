------------------------- MODULE ControllerProtocol -------------------------
(***************************************************************************)
(* How an answer of the controller is read: controller_protocol (the block *)
(* CLITC_RESULT_V1), chat_directives (the two older forms) and the engine, *)
(* which turns the answer into the actions it executes.                    *)
(*                                                                         *)
(* An answer is a record of what its text contains:                        *)
(*   blocks      the v1 blocks in order: an action, or what is wrong with  *)
(*               the block (Failures);                                     *)
(*   decisions   the items of the fenced agentflow JSON, in order;         *)
(*   directives  the agentflow-* blocks, in order.                         *)
(* An action is [type, task, steps, command]; text fields that no branch   *)
(* looks at are left out.                                                  *)
(***************************************************************************)
EXTENDS Naturals, Sequences

CONSTANTS
  StepDefs,       \* the steps of the workflow
  FullSequence,   \* the steps "full" stands for
  FirstStep       \* codex_spec, the step of a task created without steps

MaxRunDirectives == 3
NoTask == "none"
NoCommand == "none"
Full == "full"

Failures == {"oversized", "malformed", "version", "schema"}
\* The closed action union.
ActionTypes == {"answer", "create_task", "queue_steps", "run_command",
                "request_approval", "request_user", "retry", "reroute",
                "complete_task", "cancel"}
Act(type, task, steps, command) ==
  [type |-> type, task |-> task, steps |-> steps, command |-> command]

\* What the schema of the union asks of each field.
WellFormed(a) ==
  /\ a.type \in ActionTypes
  /\ a.type = "queue_steps" => a.steps # <<>> /\ a.task # NoTask
  /\ a.type \in {"run_command", "request_approval"} => a.command # NoCommand
  /\ a.type \in {"retry", "reroute"} => a.task # NoTask

Has(seq, x) == \E i \in 1..Len(seq) : seq[i] = x
UpTo(n, seq) == SubSeq(seq, 1, IF Len(seq) < n THEN Len(seq) ELSE n)

\* _normalize_steps of a JSON value: unknown steps are left out.
NormalizeSteps(steps) ==
  IF Has(steps, Full) THEN FullSequence
  ELSE SelectSeq(steps, LAMBDA s : s \in StepDefs)
\* _parse_steps of a line of text: one unknown step spoils it.
ParseSteps(steps) ==
  IF steps = <<Full>> THEN FullSequence
  ELSE IF \A i \in 1..Len(steps) : steps[i] \in StepDefs THEN steps ELSE <<>>

-----------------------------------------------------------------------------
(* The v1 block.                                                           *)

\* parse_controller_result: the last block alone is looked at.
Nothing == [verdict |-> "none"]
Parse(out) ==
  IF out.blocks = <<>> THEN Nothing
  ELSE LET last == out.blocks[Len(out.blocks)] IN
       IF last.verdict = "ok" /\ ~WellFormed(last.action)
       THEN [verdict |-> "schema"] ELSE last

IsV1(out) == Parse(out).verdict # "none"
IsValid(out) == Parse(out).verdict = "ok"

-----------------------------------------------------------------------------
(* The older forms.                                                        *)

\* extract_structured_decisions: what is of no known kind, or lacks a field, is
\* skipped.  The fields may be empty; a "report" stands for the kinds that no
\* reader asks for.
DecisionKinds == {"create_task", "queue_steps", "run_command", "complete_task",
                  "request_user", "report"}
Structured(out) == SelectSeq(out.decisions, LAMBDA d : d.type \in DecisionKinds)

OfType(seq, type) == SelectSeq(seq, LAMBDA d : d.type = type)

\* The readers ask for one type each.  A v1 block settles it alone; then any
\* valid decision; then the first block of the older markdown form.
Usable(a) ==
  CASE a.type = "queue_steps" -> a.task # NoTask /\ a.steps # <<>>
    [] OTHER -> TRUE
FromJson(a) == [a EXCEPT !.steps = NormalizeSteps(@)]
FromText(a) == [a EXCEPT !.steps = ParseSteps(@)]
ReadFirst(out, type) ==
  IF IsV1(out)
  THEN IF IsValid(out) /\ Parse(out).action.type = type
       THEN SelectSeq(<<FromJson(Parse(out).action)>>, Usable) ELSE <<>>
  ELSE IF Structured(out) # <<>>
  THEN LET items == OfType(Structured(out), type)
       IN UpTo(1, SelectSeq([i \in DOMAIN items |-> FromJson(items[i])], Usable))
  ELSE LET first == UpTo(1, OfType(out.directives, type))
       IN SelectSeq([i \in DOMAIN first |-> FromText(first[i])], Usable)

ParseTask(out) == ReadFirst(out, "create_task")
ParseQueue(out) == ReadFirst(out, "queue_steps")
ParseDone(out) == ReadFirst(out, "complete_task")
ParseNeedsUser(out) == ReadFirst(out, "request_user")

\* parse_run_directives: several commands, up to a limit, and no empty one.
Runnable(seq) == SelectSeq(seq, LAMBDA d : d.type = "run_command" /\ d.command # NoCommand)
ParseRuns(out) ==
  UpTo(MaxRunDirectives,
    IF IsV1(out)
    THEN IF IsValid(out) /\ Parse(out).action.type = "run_command"
         THEN <<Parse(out).action>> ELSE <<>>
    ELSE IF Structured(out) # <<>> THEN Runnable(Structured(out))
    ELSE Runnable(out.directives))

\* _legacy_actions, in the order the engine executes them.
LegacyActions(out) ==
  ParseTask(out) \o ParseQueue(out) \o ParseRuns(out) \o ParseDone(out)
    \o ParseNeedsUser(out)

-----------------------------------------------------------------------------
(* The engine.                                                             *)

\* Mutant: the answer's older forms are honoured beside a valid block.
DecidedAll(out) ==
  (IF IsValid(out) THEN <<Parse(out).action>> ELSE <<>>)
    \o LegacyActions([out EXCEPT !.blocks = <<>>])

\* apply_controller_output: the actions of an answer.
Decided(out) ==
  IF IsValid(out) THEN <<Parse(out).action>>
  ELSE IF IsV1(out) THEN <<>>
  ELSE LegacyActions(out)

\* ... and what the turn is called once they have been executed.
TurnStatus(out, allOk) ==
  IF IsV1(out) /\ ~IsValid(out) THEN "invalid"
  ELSE IF Decided(out) = <<>> THEN "no_action"
  ELSE IF allOk THEN "actioned" ELSE "failed"

\* The steps a created task gets.
StepsOfNew(a) ==
  IF NormalizeSteps(a.steps) = <<>> THEN <<FirstStep>> ELSE NormalizeSteps(a.steps)
=============================================================================
