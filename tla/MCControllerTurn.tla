-------------------------- MODULE MCControllerTurn --------------------------
(* A small instance of ControllerTurn.  Each answer takes another way        *)
(* through the protocol and the engine.                                      *)
EXTENDS ControllerTurn, TLC

CONSTANTS claude, q1, q2, t1, gitStatus, gitPush, pythonEval

StepDefsDef == {"spec", "impl"}
FullSequenceDef == <<"spec", "impl">>
CommandOfDef ==
  (gitStatus :> [binary |-> "git", sub |-> "none", marks |-> {}])
  @@ (gitPush :> [binary |-> "git", sub |-> "push", marks |-> {}])
  @@ (pythonEval :> [binary |-> "python", sub |-> "none", marks |-> {"eval"}])

Of(type) == Act(type, NoTask, <<>>, NoCommand)
Cmd(c) == Act("run_command", NoTask, <<>>, c)
Queue(steps) == Act("queue_steps", "latest", steps, NoCommand)
Ok(a) == [verdict |-> "ok", action |-> a]
Bad(v) == [verdict |-> v]
Blocks(b) == [blocks |-> b, decisions |-> <<>>, directives |-> <<>>]
Older(d) == [blocks |-> <<>>, decisions |-> <<>>, directives |-> d]
Fenced(d) == [blocks |-> <<>>, decisions |-> d, directives |-> <<>>]

\* What the text of each answer says.
OutputsDef == {
  \* one valid block
  Blocks(<<Ok(Act("retry", "latest", <<>>, NoCommand))>>), Blocks(<<Ok(Of("cancel"))>>),
  Blocks(<<Ok(Act("request_approval", NoTask, <<>>, pythonEval))>>),
  \* a bad block, then a good one, which wins, beside an older directive
  [Blocks(<<Bad("malformed"), Ok(Queue(<<"impl", "nope">>))>>) EXCEPT
      !.directives = <<Of("request_user")>>],
  \* a good block, then one that is not well formed and spoils the answer,
  \* beside an older directive
  [Blocks(<<Ok(Of("answer")), Ok(Queue(<<>>))>>) EXCEPT !.directives = <<Cmd(gitStatus)>>],
  \* the older forms: several actions; an unknown step spoils the queueing
  Fenced(<<Cmd(gitStatus), Cmd(pythonEval), Of("complete_task"), Queue(<<"full">>)>>),
  Older(<<Queue(<<"spec", "nope">>), Of("create_task"), Of("request_user")>>),
  \* nothing that can be acted upon: a report beside a directive
  [Fenced(<<Of("report"), Cmd(NoCommand)>>) EXCEPT !.directives = <<Cmd(gitStatus)>>],
  \* a command that the policy lets run with an approval only
  Fenced(<<Cmd(gitPush)>>) }
=============================================================================
