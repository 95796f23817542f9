------------------------ MODULE ControllerTurnProofs ------------------------
(* Proofs about ControllerTurn, for every number of providers, requests,     *)
(* runs, approvals, commands and crashes, and for every answer.              *)
EXTENDS ControllerTurn, TLAPS

\* The variables the theorems speak of are functions of the right domains.
Shape ==
  /\ started \in 0..RunCap
  /\ status \in [Runs -> Statuses]
  /\ lane = [r \in Runs |-> lane[r]]
  /\ kind = [r \in Runs |-> kind[r]]
  /\ cmd = [r \in Runs |-> cmd[r]]
  /\ asked = [a \in Approvals |-> asked[a]]
  /\ ran = [a \in Approvals |-> ran[a]]

\* A run that was never started has no command.
Unstarted == \A r \in Runs : r > started => cmd[r] = None

\* An approval has started none but started runs.
RanStarted == \A a \in Approvals : \A r \in ran[a] : r \in Nat /\ r <= started

TurnInv == Shape /\ Unstarted /\ RanStarted /\ LaneSharedOnlyByConsult /\ RunsOnlyWhatItMay

\* What the writers of approvals.json hold: whoever is about to decide an
\* approval has read it as pending, and nobody knows one not yet asked for.
CopiesFit ==
  /\ approval \in [Approvals -> Decisions]
  /\ copy = [w \in Writers |-> copy[w]]
  /\ asked = [a \in Approvals |-> asked[a]] /\ ran = [a \in Approvals |-> ran[a]]
  /\ \A w \in Writers : copy[w] # None =>
       /\ copy[w].file \in [Approvals -> Decisions]
       /\ copy[w].step = "ask" => w = Loop
       /\ copy[w].step # "ask" => copy[w].id \in Approvals /\ copy[w].file[copy[w].id] = "pending"
  /\ \A a \in Approvals : asked[a] = None =>
       /\ approval[a] = "none"
       /\ \A w \in Writers : copy[w] # None => copy[w].file[a] = "none"

\* What most steps do to the records: none begins to say running.
NoneBegins ==
  /\ UNCHANGED <<lane, kind, cmd, started>>
  /\ status' \in [Runs -> Statuses]
  /\ \A r \in Runs : status'[r] = "running" => status[r] = "running"

\* What every step does to the approvals: each keeps its command.
AskedStays ==
  /\ asked' = [a \in Approvals |-> asked'[a]]
  /\ \A a \in Approvals : asked[a] # None => asked'[a] = asked[a]

-----------------------------------------------------------------------------
(* How the parts of a step preserve the invariant.                         *)

LEMMA TurnInit == Init => TurnInv
BY TurnAssumption DEF Init, TurnInv, Shape, Unstarted, RanStarted, Statuses, Runs, Approvals,
   LaneSharedOnlyByConsult, RunsOnlyWhatItMay, Running

\* Nothing new runs.
LEMMA QuietStep ==
  ASSUME TurnInv, NoneBegins, AskedStays, UNCHANGED ran
  PROVE  TurnInv'
<1>1. Shape' /\ Unstarted' /\ RanStarted'
  BY DEF TurnInv, Shape, Unstarted, RanStarted, NoneBegins, AskedStays
<1>2. LaneSharedOnlyByConsult'
  BY DEF TurnInv, LaneSharedOnlyByConsult, Running, NoneBegins, Runs
<1>3. RunsOnlyWhatItMay'
  BY DEF TurnInv, RunsOnlyWhatItMay, NoneBegins, AskedStays
<1> QED
  BY <1>1, <1>2, <1>3 DEF TurnInv

\* The policy has three answers.
LEMMA ThreeDecisions ==
  ASSUME NEW c
  PROVE  Classify(c) \in {"deny", "require_approval", "allow"}
BY DEF Classify

\* A new record on a lane that is free, or of a consult, or of a command that
\* may be run.
LEMMA NewRunStep ==
  ASSUME TurnInv, AskedStays,
         NEW c, NEW what, NEW where, NEW command,
         NewRun(c, what, where, command),
         what = "consult" \/ where \notin Providers \/ ~Busy(where),
         \/ ran' = ran /\ (command = None \/ Classify(CommandOf[command]) = "allow")
         \/ \E a \in Approvals :
              /\ ran' = [ran EXCEPT ![a] = @ \cup {started + 1}] /\ command = asked[a]
              /\ Classify(CommandOf[command]) # "deny"
  PROVE  TurnInv'
<1> DEFINE new == started + 1
<1>0. started \in Nat /\ RunCap \in Nat /\ new \in Runs /\ Runs \subseteq Nat
  BY TurnAssumption DEF TurnInv, Shape, NewRun, Runs
<1>1. \A r \in Runs : r # new => /\ status'[r] = status[r] /\ lane'[r] = lane[r]
                                 /\ kind'[r] = kind[r] /\ cmd'[r] = cmd[r]
  BY <1>0 DEF TurnInv, Shape, NewRun
<1>2. /\ kind'[new] = what /\ lane'[new] = where /\ cmd'[new] = command
  BY <1>0 DEF TurnInv, Shape, NewRun
<1>3. Shape'
  <2>1. started' \in 0..RunCap
    BY <1>0 DEF NewRun, Runs
  <2>2. status' \in [Runs -> Statuses]
    BY <1>0 DEF TurnInv, Shape, NewRun, Statuses
  <2>3. lane' = [r \in Runs |-> lane'[r]]
    BY DEF TurnInv, Shape, NewRun
  <2>4. kind' = [r \in Runs |-> kind'[r]]
    BY DEF TurnInv, Shape, NewRun
  <2>5. cmd' = [r \in Runs |-> cmd'[r]]
    BY DEF TurnInv, Shape, NewRun
  <2>6. ran' = [a \in Approvals |-> ran'[a]]
    BY DEF TurnInv, Shape
  <2> QED
    BY <2>1, <2>2, <2>3, <2>4, <2>5, <2>6 DEF AskedStays, Shape
<1>4. Unstarted'
  BY <1>0, <1>1 DEF TurnInv, Unstarted, NewRun
<1>5. LaneSharedOnlyByConsult'
  <2> SUFFICES ASSUME NEW r \in Runs, NEW q \in Runs, r # q,
                      Running(r)', Running(q)', lane'[r] = lane'[q], lane'[r] \in Providers
               PROVE  "consult" \in {kind'[r], kind'[q]}
    BY DEF LaneSharedOnlyByConsult
  <2>1. CASE r # new /\ q # new
    BY <2>1, <1>1 DEF TurnInv, LaneSharedOnlyByConsult, Running
  <2>2. CASE r = new
    BY <2>2, <1>1, <1>2 DEF Busy, Running
  <2>3. CASE q = new
    BY <2>3, <1>1, <1>2 DEF Busy, Running
  <2> QED
    BY <2>1, <2>2, <2>3
<1>6. RanStarted'
  BY <1>0 DEF TurnInv, Shape, RanStarted, NewRun
<1>7. \A a \in Approvals, r \in Runs : r # new => (r \in ran'[a] <=> r \in ran[a])
  BY DEF TurnInv, Shape
<1>8. \A a \in Approvals : new \notin ran[a]
  BY <1>0 DEF TurnInv, RanStarted
<1>9. RunsOnlyWhatItMay'
  <2> DEFINE Fits(r, m) ==
        \/ Classify(CommandOf[m]) = "allow"
        \/ /\ Classify(CommandOf[m]) = "require_approval"
           /\ \E a \in Approvals : r \in ran'[a] /\ asked'[a] = m
           /\ \A a, b \in Approvals : r \in ran'[a] /\ r \in ran'[b] => a = b
  <2>1. ASSUME command # None PROVE Fits(new, command)
    <3>1. CASE ran' = ran /\ (command = None \/ Classify(CommandOf[command]) = "allow")
      BY <2>1, <3>1
    <3>2. ASSUME NEW a \in Approvals, ran' = [ran EXCEPT ![a] = @ \cup {started + 1}],
                 command = asked[a], Classify(CommandOf[command]) # "deny"
          PROVE  Fits(new, command)
      <4>1. Classify(CommandOf[command]) \in {"require_approval", "allow"}
        BY <3>2, ThreeDecisions
      <4>2. new \in ran'[a] /\ asked'[a] = command
        BY <2>1, <3>2 DEF TurnInv, Shape, AskedStays
      <4>3. \A b \in Approvals : new \in ran'[b] => b = a
        BY <1>8, <3>2 DEF TurnInv, Shape
      <4> QED
        BY <4>1, <4>2, <4>3
    <3> QED
      BY <3>1, <3>2
  <2>2. ASSUME NEW r \in Runs, r # new, cmd'[r] # None PROVE Fits(r, cmd'[r])
    BY <1>1, <1>7, <2>2 DEF TurnInv, RunsOnlyWhatItMay, AskedStays
  <2> HIDE DEF Fits
  <2>3. \A r \in Runs : cmd'[r] # None => Fits(r, cmd'[r])
    BY <1>2, <2>1, <2>2
  <2> QED
    BY <2>3 DEF RunsOnlyWhatItMay, Fits
<1> QED
  BY <1>3, <1>4, <1>5, <1>6, <1>9 DEF TurnInv

LEMMA SameApprovals ==
  ASSUME TurnInv, UNCHANGED <<asked, ran>>
  PROVE  AskedStays
BY DEF TurnInv, Shape, AskedStays

LEMMA SameRuns ==
  ASSUME TurnInv, UNCHANGED <<status, lane, kind, cmd, started>>
  PROVE  NoneBegins
BY DEF TurnInv, Shape, NoneBegins

LEMMA Cancelled ==
  ASSUME TurnInv, NEW rs, CancelRunsIn(rs), UNCHANGED <<lane, kind, cmd, started>>
  PROVE  NoneBegins
BY DEF TurnInv, Shape, CancelRunsIn, NoneBegins, Statuses

-----------------------------------------------------------------------------
(* The steps.                                                              *)

LEMMA RequestsKeep ==
  ASSUME TurnInv, NEW c \in Requests, Turn(c) \/ Consult(c)
  PROVE  TurnInv'
<1> USE DEF approvalVars
<1>1. ASSUME SummaryDone(c) PROVE TurnInv'
  <2>1. AskedStays /\ ran' = ran
    BY <1>1, SameApprovals DEF SummaryDone
  <2>2. CASE UNCHANGED runVars
    BY <2>1, <2>2, SameRuns, QuietStep DEF runVars
  <2>3. CASE ~Busy(want[c]) /\ NewRun(c, "chat", want[c], None)
    BY <2>1, <2>3, NewRunStep
  <2> QED
    BY <1>1, <2>2, <2>3 DEF SummaryDone, GiveUp
<1>2. ASSUME CompressDone(c) PROVE TurnInv'
  <2>1. AskedStays /\ ran' = ran
    BY <1>2, SameApprovals DEF CompressDone
  <2>2. CASE GiveUp(c)
    BY <2>1, <2>2, SameRuns, QuietStep DEF GiveUp, runVars
  <2>3. CASE NewRun(c, "consult", want[c], None)
    BY <2>1, <2>3, NewRunStep
  <2> QED
    BY <1>2, <2>2, <2>3 DEF CompressDone
<1>3. ASSUME Spawned(c) PROVE TurnInv'
  BY <1>3, SameApprovals, SameRuns, QuietStep DEF Spawned
<1>4. ASSUME NotSpawned(c) PROVE TurnInv'
  <2>1. AskedStays /\ ran' = ran
    BY <1>4, SameApprovals DEF NotSpawned
  <2>2. NoneBegins
    BY <1>4 DEF NotSpawned, NoneBegins, TurnInv, Shape, Statuses
  <2> QED
    BY <2>1, <2>2, QuietStep
<1>5. ASSUME Consult(c) PROVE TurnInv'
  BY <1>5, SameApprovals, SameRuns, QuietStep DEF Consult, runVars
<1> QED
  BY <1>1, <1>2, <1>3, <1>4, <1>5 DEF Turn

LEMMA SendsKeep ==
  ASSUME TurnInv, NEW c \in Requests, NEW p \in Providers, Send(c, p) \/ SendDirect(c, p)
  PROVE  TurnInv'
<1>1. ASSUME Send(c, p) PROVE TurnInv'
  BY <1>1, SameApprovals, SameRuns, QuietStep DEF Send, runVars, approvalVars
<1>2. ASSUME SendDirect(c, p) PROVE TurnInv'
  <2>1. AskedStays /\ ran' = ran
    BY <1>2, SameApprovals DEF SendDirect, approvalVars
  <2> QED
    BY <1>2, <2>1, NewRunStep DEF SendDirect
<1> QED
  BY <1>1, <1>2

\* What approve executes, whatever became of the approval since.
LEMMA RunApprovedKeeps ==
  ASSUME TurnInv, NEW c, NEW a \in Approvals, RunApproved(c, a), UNCHANGED asked
  PROVE  TurnInv'
<1>1. AskedStays
  BY DEF TurnInv, Shape, AskedStays
<1>2. CASE UNCHANGED runVars /\ UNCHANGED ran
  BY <1>1, <1>2, SameRuns, QuietStep DEF runVars
<1>3. CASE /\ Classify(CommandOf[asked[a]]) # "deny"
           /\ NewRun(c, "command", "shell", asked[a])
           /\ ran' = [ran EXCEPT ![a] = @ \cup {started + 1}]
  BY <1>1, <1>3, NewRunStep, TurnAssumption
<1> QED
  BY <1>2, <1>3 DEF RunApproved

LEMMA ApprovalsKeep ==
  ASSUME TurnInv, CopiesFit, NEW c \in Requests, Resolve(c) \/ Resolved(c)
  PROVE  TurnInv'
<1>1. copy[Loop].id \in Approvals
  BY DEF Resolve, Resolved, CopiesFit, Writers
<1>2. CASE RunApproved(c, copy[Loop].id)
  BY <1>1, <1>2, RunApprovedKeeps DEF Resolve, Resolved
<1>3. CASE UNCHANGED runVars /\ UNCHANGED ran
  BY <1>3, SameApprovals, SameRuns, QuietStep DEF Resolve, Resolved, runVars
<1> QED
  BY <1>2, <1>3 DEF Resolve, Resolved

LEMMA HooksKeep ==
  ASSUME TurnInv, NEW r \in Runs, EndOfRun(r) \/ ActionRaises(r)
  PROVE  TurnInv'
<1> USE DEF approvalVars
<1>1. ASSUME Exit(r) PROVE TurnInv'
  <2>1. NoneBegins
    BY <1>1 DEF Exit, NoneBegins, TurnInv, Shape, Statuses
  <2> QED
    BY <1>1, <2>1, SameApprovals, QuietStep DEF Exit
<1>2. ASSUME Died(r) PROVE TurnInv'
  BY <1>2, SameApprovals, SameRuns, QuietStep DEF Died
<1>3. ASSUME CommandSpawned(r) PROVE TurnInv'
  <2>1. NoneBegins
    BY <1>3 DEF CommandSpawned, NoneBegins, TurnInv, Shape, Statuses
  <2> QED
    BY <1>3, <2>1, SameApprovals, QuietStep DEF CommandSpawned
<1>4. ASSUME Answer(r) \/ QueueWork(r) \/ CompleteTask(r) \/ ChangeQueue(r) PROVE TurnInv'
  BY <1>4, SameApprovals, SameRuns, QuietStep
     DEF Answer, QueueWork, CompleteTask, ChangeQueue, runVars
<1>5. ASSUME CancelRuns(r) PROVE TurnInv'
  BY <1>5, SameApprovals, Cancelled, QuietStep DEF CancelRuns
<1>6. ASSUME Ask(r) PROVE TurnInv'
  BY <1>6, SameApprovals, SameRuns, QuietStep DEF Ask, runVars
<1>7. ASSUME Asked(r) PROVE TurnInv'
  <2>1. AskedStays
    BY <1>7 DEF Asked, TurnInv, Shape, AskedStays
  <2> QED
    BY <1>7, <2>1, SameRuns, QuietStep DEF Asked, runVars
<1>8. ASSUME RunAction(r) PROVE TurnInv'
  <2> DEFINE command == Head(todo[r]).command
  <2>1. AskedStays /\ ran' = ran
    BY <1>8, SameApprovals DEF RunAction
  <2>2. CASE UNCHANGED runVars
    BY <2>1, <2>2, SameRuns, QuietStep DEF runVars
  <2>3. CASE Classify(CommandOf[command]) = "allow" /\ NewRun(r, "command", "shell", command)
    BY <2>1, <2>3, NewRunStep, TurnAssumption
  <2> QED
    BY <1>8, <2>2, <2>3 DEF RunAction
<1>9. ASSUME HookEnd(r) PROVE TurnInv'
  BY <1>9, SameApprovals, SameRuns, QuietStep DEF HookEnd
<1>10. ASSUME ActionRaises(r) PROVE TurnInv'
  BY <1>10, SameApprovals, SameRuns, QuietStep DEF ActionRaises, runVars
<1> QED
  BY <1>1, <1>2, <1>3, <1>4, <1>5, <1>6, <1>7, <1>8, <1>9, <1>10 DEF EndOfRun, Execute

Elsewhere ==
  \/ \E c \in Requests, a \in Approvals : Approve(c, a)
  \/ \E t \in Threads : Rejected(t) \/ \E a \in Approvals : Reject(t, a)
  \/ \E k \in Channels : Stop(k)
  \/ \E c \in Coroutines : CommandWaited(c)
  \/ Crash \/ UNCHANGED vars

LEMMA OthersKeep == ASSUME TurnInv, Elsewhere PROVE TurnInv'
<1> USE DEF approvalVars
<1>1. ASSUME NEW k \in Channels, Stop(k) PROVE TurnInv'
  BY <1>1, SameApprovals, Cancelled, QuietStep DEF Stop
<1>2. ASSUME NEW c \in Coroutines, CommandWaited(c) PROVE TurnInv'
  BY <1>2, SameApprovals, SameRuns, QuietStep DEF CommandWaited, runVars
<1>3. CASE Crash
  <2>1. NoneBegins
    BY <1>3 DEF Crash, NoneBegins, Statuses
  <2> QED
    BY <1>3, <2>1, SameApprovals, QuietStep DEF Crash
<1>4. CASE UNCHANGED vars
  BY <1>4, SameApprovals, SameRuns, QuietStep DEF vars, runVars
<1>5. ASSUME NEW c \in Requests, NEW a \in Approvals, Approve(c, a) PROVE TurnInv'
  BY <1>5, SameApprovals, SameRuns, QuietStep DEF Approve, runVars
<1>6. ASSUME NEW t \in Threads, NEW a \in Approvals, Reject(t, a) PROVE TurnInv'
  BY <1>6, SameApprovals, SameRuns, QuietStep DEF Reject, runVars
<1>7. ASSUME NEW t \in Threads, Rejected(t) PROVE TurnInv'
  BY <1>7, SameApprovals, SameRuns, QuietStep DEF Rejected, runVars
<1> QED
  BY <1>1, <1>2, <1>3, <1>4, <1>5, <1>6, <1>7 DEF Elsewhere

LEMMA TurnStep == TurnInv /\ CopiesFit /\ [Next]_vars => TurnInv'
<1> SUFFICES ASSUME TurnInv, CopiesFit, [Next]_vars PROVE TurnInv'
  OBVIOUS
<1>1. ASSUME NEW c \in Requests, Turn(c) \/ Consult(c) PROVE TurnInv'
  BY <1>1, RequestsKeep
<1>2. ASSUME NEW c \in Requests, NEW p \in Providers, Send(c, p) \/ SendDirect(c, p)
      PROVE  TurnInv'
  BY <1>2, SendsKeep
<1>3. ASSUME NEW c \in Requests, Resolve(c) \/ Resolved(c) PROVE TurnInv'
  BY <1>3, ApprovalsKeep
<1>4. ASSUME NEW r \in Runs, EndOfRun(r) \/ ActionRaises(r) PROVE TurnInv'
  BY <1>4, HooksKeep
<1>5. CASE Elsewhere
  BY <1>5, OthersKeep
<1> QED
  BY <1>1, <1>2, <1>3, <1>4, <1>5 DEF Next, Elsewhere

-----------------------------------------------------------------------------
(* The approvals implement ApprovalLifecycle.                              *)

LifecycleStep == [ApprovalsStand!Next]_ApprovalsStand!vars

\* A step follows the life of an approval if it opens it when it is asked for,
\* and leaves alone what stands.
Follows(a) ==
  /\ asked[a] = None => asked'[a] = None \/ approval'[a] = "pending"
  /\ asked[a] # None => asked'[a] # None
  /\ asked[a] # None /\ ~Open(a) => ~Open(a)' /\ approval'[a] = approval[a]
  /\ ran'[a] # ran[a] => asked[a] # None /\ Open(a) /\ ran[a] \subseteq ran'[a]

LEMMA FollowedMaps ==
  ASSUME CopiesFit, CopiesFit', \A a \in Approvals : Follows(a)
  PROVE  LifecycleStep
<1>1. ASSUME NEW a \in Approvals
      PROVE  Standing(a)' \in ApprovalsStand!After(Standing(a))
  <2>1. approval[a] \in Decisions /\ approval'[a] \in Decisions
    BY DEF CopiesFit
  <2>2. CASE asked[a] = None
    BY <2>2 DEF Follows, Standing, Open, ApprovalsStand!After
  <2>3. CASE asked[a] # None /\ ~Open(a)
    <3>1. Standing(a)' = Standing(a)
      BY <2>3 DEF Follows, Standing
    <3>2. Standing(a) \in {"lost", "approved", "rejected"}
      BY <2>1, <2>3 DEF Standing, Open, Decisions
    <3> QED
      BY <3>1, <3>2 DEF ApprovalsStand!After
  <2>4. CASE asked[a] # None /\ Open(a)
    <3>1. Standing(a) = "open" /\ asked'[a] # None
      BY <2>4 DEF Standing, Follows
    <3>2. Standing(a)' \in {"open", "lost", "approved", "rejected"}
      BY <2>1, <3>1 DEF Standing, Open, Decisions
    <3> QED
      BY <3>1, <3>2 DEF ApprovalsStand!After
  <2> QED
    BY <2>2, <2>3, <2>4
<1>2. ASSUME NEW a \in Approvals
      PROVE  ran[a] \subseteq ran'[a] /\ (ran'[a] # ran[a] => Standing(a) = "open")
  BY DEF Follows, Standing
<1>3. DOMAIN ran' = Approvals
  BY DEF CopiesFit
<1> QED
  BY <1>1, <1>2, <1>3 DEF LifecycleStep, ApprovalsStand!Next

\* Steps that touch neither the file nor a copy of it.
LEMMA ApprovalsAlone ==
  ASSUME CopiesFit, UNCHANGED approvalVars
  PROVE  CopiesFit' /\ LifecycleStep
<1>1. CopiesFit'
  BY DEF CopiesFit, approvalVars
<1>2. \A a \in Approvals : Follows(a)
  BY DEF CopiesFit, approvalVars, Follows, Open
<1> QED
  BY <1>1, <1>2, FollowedMaps

\* A writer reads: its copy agrees with the file.
LEMMA ReadMaps ==
  ASSUME CopiesFit, NEW w \in Writers, NEW by, NEW id, NEW step, Read(w, by, id, step),
         UNCHANGED <<approval, asked, ran>>,
         step = "ask" => w = Loop,
         step # "ask" => id \in Approvals /\ approval[id] = "pending"
  PROVE  CopiesFit' /\ LifecycleStep
<1> DEFINE new == [by |-> by, id |-> id, step |-> step, file |-> approval]
<1>1. copy' = [copy EXCEPT ![w] = new] /\ copy'[w] = new /\ \A v \in Writers : v # w => copy'[v] = copy[v]
  BY DEF Read, CopiesFit
<1>2. new.file = approval /\ new.id = id /\ new.step = step
  OBVIOUS
<1> HIDE DEF new
<1>3. CopiesFit'
  <2>1. copy' = [v \in Writers |-> copy'[v]]
    BY <1>1 DEF CopiesFit
  <2> QED
    BY <1>1, <1>2, <2>1 DEF CopiesFit
<1>4. \A a \in Approvals : Follows(a)
  BY <1>1, <1>2 DEF CopiesFit, Follows, Open
<1> QED
  BY <1>3, <1>4, FollowedMaps

\* A writer lets go of its copy, without a write, and perhaps executes.
LEMMA DropMaps ==
  ASSUME CopiesFit, UNCHANGED <<approval, asked>>,
         copy' = [v \in Writers |-> copy'[v]],
         \A v \in Writers : copy'[v] \in {None, copy[v]},
         ran' = [a \in Approvals |-> ran'[a]],
         \A a \in Approvals : ran'[a] # ran[a] =>
           asked[a] # None /\ Open(a) /\ ran[a] \subseteq ran'[a]
  PROVE  CopiesFit' /\ LifecycleStep
<1>1. CopiesFit'
  BY DEF CopiesFit
<1>2. \A a \in Approvals : Follows(a)
  BY DEF CopiesFit, Follows, Open
<1> QED
  BY <1>1, <1>2, FollowedMaps

\* A writer writes its copy back, with one approval decided that it read as
\* pending, or a new one, and perhaps executes.
LEMMA WriteMaps ==
  ASSUME CopiesFit, NEW w \in Writers, copy[w] # None,
         NEW id \in Approvals, NEW decision \in Decisions, WriteBack(w, id, decision),
         \/ asked' = asked /\ copy[w].file[id] = "pending"
         \/ /\ asked[id] = None /\ decision = "pending"
            /\ \E command : command # None /\ asked' = [asked EXCEPT ![id] = command],
         ran' = [a \in Approvals |-> ran'[a]],
         \A a \in Approvals : ran'[a] # ran[a] =>
           a = id /\ asked[a] # None /\ ran[a] \subseteq ran'[a]
  PROVE  CopiesFit' /\ LifecycleStep
<1> DEFINE file == copy[w].file
<1>1. /\ file \in [Approvals -> Decisions]
      /\ approval' = [file EXCEPT ![id] = decision]
      /\ copy'[w] = None /\ \A v \in Writers : v # w => copy'[v] = copy[v]
      /\ copy' = [v \in Writers |-> copy'[v]]
  BY DEF WriteBack, CopiesFit
<1>2. /\ approval'[id] = decision /\ approval' \in [Approvals -> Decisions]
      /\ \A a \in Approvals : a # id => approval'[a] = file[a] /\ asked'[a] = asked[a]
  BY <1>1 DEF CopiesFit
<1>3. asked'[id] # None /\ asked' = [a \in Approvals |-> asked'[a]]
  BY DEF CopiesFit
<1>4. \A a \in Approvals : asked'[a] = None =>
        asked[a] = None /\ approval'[a] = "none"
        /\ \A v \in Writers : copy'[v] # None => copy'[v].file[a] = "none"
  BY <1>1, <1>2, <1>3 DEF CopiesFit
<1>5. CopiesFit'
  BY <1>1, <1>2, <1>3, <1>4 DEF CopiesFit
<1>6. ASSUME NEW a \in Approvals, a # id
      PROVE  Follows(a)
  <2>1. asked'[a] = asked[a] /\ ran'[a] = ran[a] /\ approval'[a] = file[a]
    BY <1>2, <1>6
  <2>2. ASSUME ~Open(a)
        PROVE  ~Open(a)' /\ approval'[a] = approval[a]
    BY <1>1, <2>1, <2>2 DEF Open
  <2> QED
    BY <2>1, <2>2 DEF Follows
<1>7. Follows(id)
  <2>1. CASE asked' = asked /\ file[id] = "pending"
    <3>1. asked[id] # None /\ Open(id)
      BY <2>1 DEF CopiesFit, Open
    <3> QED
      BY <2>1, <3>1 DEF Follows
  <2>2. CASE asked[id] = None /\ decision = "pending"
    BY <1>2, <2>2 DEF Follows
  <2> QED
    BY <2>1, <2>2
<1> QED
  BY <1>5, <1>6, <1>7, FollowedMaps

\* The steps.
LEMMA ResolveMaps ==
  ASSUME TurnInv, CopiesFit, NEW c \in Requests, Resolve(c) \/ Resolved(c)
  PROVE  CopiesFit' /\ LifecycleStep
<1> DEFINE id == copy[Loop].id
<1>1. /\ Loop \in Writers /\ id \in Approvals /\ copy[Loop].file[id] = "pending"
      /\ asked' = asked
  BY DEF Resolve, Resolved, CopiesFit, Writers
<1>2. asked[id] # None
  BY <1>1 DEF CopiesFit, Resolve, Resolved
<1>3. ASSUME ran' = ran \/ ran' = [ran EXCEPT ![id] = @ \cup {started + 1}]
      PROVE  /\ ran' = [a \in Approvals |-> ran'[a]]
             /\ \A a \in Approvals : ran'[a] # ran[a] =>
                  a = id /\ asked[a] # None /\ ran[a] \subseteq ran'[a]
  BY <1>1, <1>2, <1>3 DEF CopiesFit
<1>4. ASSUME Resolve(c), approval[id] = "pending", Read(Loop, c, id, "resolve"), UNCHANGED ran
      PROVE  CopiesFit' /\ LifecycleStep
  BY <1>1, <1>4, ReadMaps DEF Resolve
<1>5. ASSUME Resolve(c), approval[id] # "pending", RunApproved(c, id),
             copy' = [copy EXCEPT ![Loop] = None]
      PROVE  CopiesFit' /\ LifecycleStep
  <2>1. Open(id)
    BY <1>1, <1>5 DEF Resolve, Open
  <2>2. /\ copy' = [v \in Writers |-> copy'[v]]
        /\ \A v \in Writers : copy'[v] \in {None, copy[v]}
    BY <1>5 DEF CopiesFit
  <2> QED
    BY <1>1, <1>3, <1>5, <2>1, <2>2, DropMaps DEF Resolve, RunApproved
<1>6. ASSUME Resolved(c)
      PROVE  CopiesFit' /\ LifecycleStep
  <2>1. copy[Loop] # None /\ WriteBack(Loop, id, "approved") /\ "approved" \in Decisions
    BY <1>6 DEF Resolved, Decisions
  <2>2. ran' = ran \/ ran' = [ran EXCEPT ![id] = @ \cup {started + 1}]
    BY <1>6 DEF Resolved, RunApproved
  <2> QED
    BY <1>1, <1>3, <2>1, <2>2, WriteMaps
<1> QED
  BY <1>4, <1>5, <1>6 DEF Resolve

LEMMA RejectMaps ==
  ASSUME CopiesFit, NEW t \in Threads, Rejected(t) \/ \E a \in Approvals : Reject(t, a)
  PROVE  CopiesFit' /\ LifecycleStep
<1>1. t \in Writers /\ t # Loop
  BY TurnAssumption DEF Writers
<1>2. ASSUME NEW a \in Approvals, Reject(t, a)
      PROVE  CopiesFit' /\ LifecycleStep
  BY <1>1, <1>2, ReadMaps DEF Reject
<1>3. ASSUME Rejected(t)
      PROVE  CopiesFit' /\ LifecycleStep
  <2> DEFINE id == copy[t].id
  <2>1. /\ copy[t] # None /\ id \in Approvals /\ copy[t].file[id] = "pending"
        /\ WriteBack(t, id, "rejected") /\ "rejected" \in Decisions
        /\ asked' = asked /\ ran' = ran
    BY <1>1, <1>3 DEF Rejected, CopiesFit, Decisions
  <2>2. ran' = [a \in Approvals |-> ran'[a]]
    BY <2>1 DEF CopiesFit
  <2> QED
    BY <1>1, <2>1, <2>2, WriteMaps
<1> QED
  BY <1>2, <1>3

LEMMA AskMaps ==
  ASSUME CopiesFit, NEW r \in Runs, Ask(r) \/ Asked(r)
  PROVE  CopiesFit' /\ LifecycleStep
<1>1. Loop \in Writers
  BY DEF Writers
<1>2. ASSUME Ask(r)
      PROVE  CopiesFit' /\ LifecycleStep
  BY <1>1, <1>2, ReadMaps DEF Ask
<1>3. ASSUME Asked(r)
      PROVE  CopiesFit' /\ LifecycleStep
  <2> DEFINE command == Head(todo[r]).command
  <2>1. PICK a \in Approvals : /\ asked[a] = None /\ WriteBack(Loop, a, "pending")
                               /\ asked' = [asked EXCEPT ![a] = command]
    BY <1>3 DEF Asked
  <2>2. copy[Loop] # None /\ command # None /\ ran' = ran /\ "pending" \in Decisions
    BY <1>3, TurnAssumption DEF Asked, AsksFor, Decisions
  <2>3. ran' = [b \in Approvals |-> ran'[b]]
    BY <2>2 DEF CopiesFit
  <2> QED
    BY <1>1, <2>1, <2>2, <2>3, WriteMaps
<1> QED
  BY <1>2, <1>3

LEMMA StepMaps ==
  TurnInv /\ CopiesFit /\ [Next]_vars => CopiesFit' /\ LifecycleStep
<1> SUFFICES ASSUME TurnInv, CopiesFit, [Next]_vars PROVE CopiesFit' /\ LifecycleStep
  OBVIOUS
<1>1. ASSUME NEW c \in Requests, Turn(c) \/ Consult(c) PROVE UNCHANGED approvalVars
  BY <1>1 DEF Turn, Consult, SummaryDone, CompressDone, Spawned, NotSpawned
<1>2. ASSUME NEW c \in Requests, NEW p \in Providers, Send(c, p) \/ SendDirect(c, p)
      PROVE  UNCHANGED approvalVars
  BY <1>2 DEF Send, SendDirect
<1>3. ASSUME NEW c \in Requests, NEW a \in Approvals, Approve(c, a)
      PROVE  CopiesFit' /\ LifecycleStep
  BY <1>3, ReadMaps DEF Approve, Writers
<1>4. ASSUME NEW c \in Requests, Resolve(c) \/ Resolved(c)
      PROVE  CopiesFit' /\ LifecycleStep
  BY <1>4, ResolveMaps
<1>5. ASSUME NEW t \in Threads, Rejected(t) \/ \E a \in Approvals : Reject(t, a)
      PROVE  CopiesFit' /\ LifecycleStep
  BY <1>5, RejectMaps
<1>6. ASSUME NEW r \in Runs, EndOfRun(r) \/ ActionRaises(r)
      PROVE  CopiesFit' /\ LifecycleStep
  <2>1. CASE UNCHANGED approvalVars
    BY <2>1, ApprovalsAlone
  <2>2. CASE Ask(r) \/ Asked(r)
    BY <2>2, AskMaps
  <2> QED
    BY <1>6, <2>1, <2>2 DEF EndOfRun, Execute, Exit, Died, CommandSpawned, Answer, QueueWork,
       CompleteTask, ChangeQueue, CancelRuns, RunAction, HookEnd, ActionRaises
<1>7. CASE Crash
  <2>1. /\ copy' = [v \in Writers |-> copy'[v]] /\ UNCHANGED <<approval, asked, ran>>
        /\ \A v \in Writers : copy'[v] \in {None, copy[v]}
    BY <1>7 DEF Crash
  <2>2. ran' = [a \in Approvals |-> ran'[a]]
    BY <2>1 DEF CopiesFit
  <2> QED
    BY <2>1, <2>2, DropMaps
<1>8. CASE (\E k \in Channels : Stop(k)) \/ (\E c \in Coroutines : CommandWaited(c))
           \/ UNCHANGED vars
  BY <1>8, ApprovalsAlone DEF Stop, CommandWaited, vars, approvalVars
<1> QED
  BY <1>1, <1>2, <1>3, <1>4, <1>5, <1>6, <1>7, <1>8, ApprovalsAlone DEF Next

LEMMA CopiesInit == Init => CopiesFit
BY DEF Init, CopiesFit, Decisions

LEMMA TurnInvariance == Spec => [](TurnInv /\ CopiesFit)
<1>1. Init => TurnInv /\ CopiesFit
  BY TurnInit, CopiesInit
<1>2. (TurnInv /\ CopiesFit) /\ [Next]_vars => (TurnInv /\ CopiesFit)'
  BY TurnStep, StepMaps
<1> QED
  BY <1>1, <1>2, PTL DEF Spec

-----------------------------------------------------------------------------
(* The theorems.                                                           *)

\* Two running records of one agent are a consult and something else: send and
\* send_direct never put two turns on one lane, whatever waits where.
THEOREM LanesHoldOneTurn == Spec => []LaneSharedOnlyByConsult
BY TurnInvariance, PTL DEF TurnInv

\* Every command that was started is allowed, or needs an approval and was
\* started by exactly one that asked for it; what the policy denies never runs,
\* whatever the controller answers, the user approves and rejects, and the
\* writers of approvals.json undo of each other (execute_run_directive).
THEOREM CommandsAreAllowed == Spec => []RunsOnlyWhatItMay
BY TurnInvariance, PTL DEF TurnInv

\* Once no writer holds another view of an approval, it stands: it is decided
\* no more and starts nothing more, whatever requests, threads, hooks and
\* crashes follow (resolve_approval, routes_state.approve and reject).
THEOREM ApprovalsImplementLifecycle == Spec => StandingIsFinal
<1>1. Init => ApprovalsStand!Init
  BY DEF Init, ApprovalsStand!Init, Standing
<1>2. (TurnInv /\ CopiesFit) /\ [Next]_vars => [ApprovalsStand!Next]_ApprovalsStand!vars
  BY StepMaps DEF LifecycleStep
<1> QED
  BY <1>1, <1>2, TurnInvariance, PTL DEF Spec, StandingIsFinal, ApprovalsStand!Spec

-----------------------------------------------------------------------------
(* One answer, one action: what the actions of an answer leave behind.     *)

StartShape ==
  /\ started \in 0..RunCap
  /\ phase \in [Runs -> Phases]
  /\ kind = [r \in Runs |-> kind[r]]
  /\ pc = [c \in Requests |-> pc[c]] /\ waits = [c \in Coroutines |-> waits[c]]
TurnShape ==
  /\ out = [r \in Runs |-> out[r]] /\ todo = [r \in Runs |-> todo[r]]
  /\ did = [r \in Runs |-> did[r]] /\ turn = [r \in Runs |-> turn[r]]

\* A request that waits for its process waits for a run of its own.
StartsFit ==
  /\ \A r \in Runs : phase[r] = "none" <=> r > started
  /\ \A c \in Requests : pc[c] = "spawn" =>
       /\ waits[c] \in Runs
       /\ phase[waits[c]] = "spawning" /\ kind[waits[c]] # "command"
       /\ \A d \in Requests : pc[d] = "spawn" /\ waits[d] = waits[c] => d = c

\* Nothing was done for the answer of a run.
Untouched(r) == did[r] = <<>> /\ \A q \in queued : q[1] # r

BeforeHook == {"none", "spawning", "alive", "dying"}

\* Until its hook a run has done nothing; then it is at work on what was decided.
AnswerFits(r) ==
  /\ phase[r] \in BeforeHook => todo[r] = <<>> /\ turn[r] = None /\ Untouched(r)
  /\ out[r] # None =>
       IF Decided(out[r]) = <<>> THEN todo[r] = <<>> /\ Untouched(r)
       ELSE /\ turn[r] \notin {"invalid", "no_action"}
            /\ IsV1(out[r]) => \/ todo[r] = <<>> /\ Len(did[r]) <= 1
                               \/ todo[r] = Decided(out[r]) /\ did[r] = <<>>
AnswersFit == \A r \in Runs : AnswerFits(r)

AnswerInv == StartShape /\ TurnShape /\ StartsFit /\ AnswersFit

LEMMA AnswerInit == Init => AnswerInv
BY TurnAssumption DEF Init, AnswerInv, StartShape, TurnShape, StartsFit, AnswersFit, AnswerFits,
   Untouched, Runs, Phases

\* No run comes back to before its hook.
NoneReturns == \A r \in Runs : phase'[r] \in BeforeHook => phase[r] \in BeforeHook

\* Steps that touch no answer.
LEMMA AnswersStay ==
  ASSUME AnswerInv, NoneReturns, UNCHANGED turnVars, UNCHANGED queued
  PROVE  TurnShape' /\ AnswersFit'
BY DEF AnswerInv, TurnShape, AnswersFit, AnswerFits, NoneReturns, turnVars, Untouched

\* Steps that start no run and begin no wait for a process.
LEMMA StartsStay ==
  ASSUME AnswerInv, UNCHANGED <<started, kind>>, phase' \in [Runs -> Phases],
         pc' = [c \in Requests |-> pc'[c]], waits' = [c \in Coroutines |-> waits'[c]],
         \A r \in Runs : phase'[r] = "none" <=> phase[r] = "none",
         \A c \in Requests : pc'[c] = "spawn" =>
           pc[c] = "spawn" /\ waits'[c] = waits[c] /\ phase'[waits[c]] = "spawning"
  PROVE  StartShape' /\ StartsFit'
<1>1. StartShape'
  BY DEF AnswerInv, StartShape
<1>2. StartsFit'
  BY DEF AnswerInv, StartsFit
<1> QED
  BY <1>1, <1>2

\* In particular those that leave all this alone.
LEMMA NothingStarts ==
  ASSUME AnswerInv, UNCHANGED <<started, kind, phase, waits>>,
         UNCHANGED pc \/ \E c \in Requests : pc[c] # "spawn" /\
           \E at \in {"idle", "summary", "compress"} : pc' = [pc EXCEPT ![c] = at]
  PROVE  StartShape' /\ StartsFit' /\ NoneReturns
BY DEF AnswerInv, StartShape, StartsFit, NoneReturns

\* A new run, for a request that waits for its process, or of a command.
LEMMA NewRunFits ==
  ASSUME AnswerInv, NEW c \in Coroutines, NEW what, NEW where, NEW command,
         NewRun(c, what, where, command),
         \/ c \in Requests /\ what # "command" /\ pc' = [pc EXCEPT ![c] = "spawn"]
         \/ c \in Requests /\ pc' = [pc EXCEPT ![c] = "command"]
         \/ c \in Runs /\ pc' = pc
  PROVE  StartShape' /\ StartsFit' /\ NoneReturns
<1> DEFINE new == started + 1
<1> USE DEF AnswerInv, StartShape
<1>0. /\ started \in Nat /\ RunCap \in Nat /\ new \in Runs /\ Runs \subseteq Nat
      /\ started' = new /\ c \notin Requests \cap Runs
  BY TurnAssumption DEF NewRun, Runs
<1>1. /\ phase' = [phase EXCEPT ![new] = "spawning"] /\ phase' \in [Runs -> Phases]
      /\ kind' = [kind EXCEPT ![new] = what] /\ waits' = [waits EXCEPT ![c] = new]
  BY <1>0 DEF NewRun, Phases
<1>2. phase[new] = "none"
  BY <1>0 DEF StartsFit
<1>3. StartShape'
  <2>1. started' \in 0..RunCap
    BY <1>0 DEF Runs
  <2>2. kind' = [r \in Runs |-> kind'[r]]
    BY <1>1
  <2>3. pc' = [d \in Requests |-> pc'[d]] /\ waits' = [d \in Coroutines |-> waits'[d]]
    BY <1>1
  <2> QED
    BY <1>1, <2>1, <2>2, <2>3
<1>4. NoneReturns
  BY <1>0, <1>1, <1>2 DEF NoneReturns, BeforeHook
<1>5. \A r \in Runs : phase'[r] = "none" <=> r > started'
  BY <1>0, <1>1 DEF StartsFit
<1>6. ASSUME NEW d \in Requests, pc'[d] = "spawn"
      PROVE  /\ waits'[d] \in Runs
             /\ phase'[waits'[d]] = "spawning" /\ kind'[waits'[d]] # "command"
             /\ d # c => waits'[d] = waits[d] /\ waits[d] # new /\ pc[d] = "spawn"
             /\ d = c => waits'[d] = new
  <2>1. CASE d = c
    BY <1>0, <1>1, <1>6, <2>1 DEF Coroutines
  <2>2. CASE d # c
    BY <1>0, <1>1, <1>2, <1>6, <2>2 DEF Coroutines, StartsFit
  <2> QED
    BY <2>1, <2>2
<1>7. StartsFit'
  BY <1>5, <1>6 DEF StartsFit
<1> QED
  BY <1>3, <1>4, <1>7

\* An action of the answer is done.
LEMMA DoneFits ==
  ASSUME AnswerInv, NoneReturns, NEW r \in Runs, AtWork(r), NEW ok, Done(r, ok),
         \A q \in queued' : q \in queued \/ q[1] = r
  PROVE  TurnShape' /\ AnswersFit'
<1> USE DEF AnswerInv
<1>1. /\ \A s \in Runs : s # r => todo'[s] = todo[s] /\ did'[s] = did[s]
      /\ did'[r] = Append(did[r], [type |-> Head(todo[r]).type, ok |-> ok])
      /\ todo'[r] = Tail(todo[r])
      /\ UNCHANGED <<out, turn>>
  BY DEF Done, TurnShape
<1>2. ASSUME NEW s \in Runs, s # r
      PROVE  AnswerFits(s)'
  BY <1>1, <1>2 DEF AnswersFit, AnswerFits, Untouched, NoneReturns
<1>3. phase'[r] \notin BeforeHook
  BY DEF AtWork, NoneReturns, BeforeHook
<1>4. ASSUME out[r] # None, IsV1(out[r])
      PROVE  todo'[r] = <<>> /\ Len(did'[r]) <= 1
  <2>1. IsValid(out[r]) /\ Decided(out[r]) = <<Parse(out[r]).action>>
    BY <1>4 DEF AnswersFit, AnswerFits, AtWork, Decided
  <2>2. todo[r] = <<Parse(out[r]).action>> /\ did[r] = <<>>
    BY <1>4, <2>1 DEF AnswersFit, AnswerFits, AtWork
  <2>3. \A x : Tail(<<x>>) = <<>> /\ Len(Append(<<>>, x)) = 1
    OBVIOUS
  <2> QED
    BY <1>1, <2>2, <2>3
<1>5. AnswerFits(r)'
  BY <1>1, <1>3, <1>4 DEF AnswersFit, AnswerFits, AtWork
<1>6. TurnShape'
  BY DEF Done, TurnShape
<1> QED
  BY <1>2, <1>5, <1>6 DEF AnswersFit

LEMMA RequestsFit ==
  ASSUME AnswerInv, NEW c \in Requests, Turn(c) \/ Consult(c)
  PROVE  AnswerInv'
<1> USE DEF Coroutines, taskVars
<1>1. ASSUME SummaryDone(c) PROVE AnswerInv'
  <2>1. CASE GiveUp(c)
    BY <1>1, <2>1, AnswersStay, NothingStarts DEF SummaryDone, GiveUp, AnswerInv, runVars
  <2>2. CASE NewRun(c, "chat", want[c], None) /\ pc' = [pc EXCEPT ![c] = "spawn"]
    BY <1>1, <2>2, AnswersStay, NewRunFits DEF SummaryDone, AnswerInv
  <2> QED
    BY <1>1, <2>1, <2>2 DEF SummaryDone
<1>2. ASSUME CompressDone(c) PROVE AnswerInv'
  <2>1. CASE GiveUp(c)
    BY <1>2, <2>1, AnswersStay, NothingStarts DEF CompressDone, GiveUp, AnswerInv, runVars
  <2>2. CASE NewRun(c, "consult", want[c], None) /\ pc' = [pc EXCEPT ![c] = "spawn"]
    BY <1>2, <2>2, AnswersStay, NewRunFits DEF CompressDone, AnswerInv
  <2> QED
    BY <1>2, <2>1, <2>2 DEF CompressDone
<1>3. ASSUME Spawned(c) \/ NotSpawned(c) PROVE AnswerInv'
  <2> DEFINE r == waits[c]
  <2>1. r \in Runs /\ phase[r] = "spawning"
    BY <1>3 DEF Spawned, NotSpawned, AnswerInv, StartsFit
  <2>2. /\ \A s \in Runs : s # r => phase'[s] = phase[s]
        /\ phase'[r] \in {"alive", "over"} /\ phase' \in [Runs -> Phases]
        /\ pc' = [pc EXCEPT ![c] = "idle"] /\ waits' = [waits EXCEPT ![c] = 0]
        /\ UNCHANGED <<started, kind>> /\ UNCHANGED turnVars /\ UNCHANGED queued
    BY <1>3, <2>1 DEF Spawned, NotSpawned, AnswerInv, StartShape, Phases
  <2>3. NoneReturns
    BY <2>1, <2>2 DEF NoneReturns, BeforeHook
  <2>4. ASSUME NEW d \in Requests, pc'[d] = "spawn"
        PROVE  pc[d] = "spawn" /\ waits'[d] = waits[d] /\ phase'[waits[d]] = "spawning"
    BY <1>3, <2>1, <2>2, <2>4 DEF AnswerInv, StartsFit, StartShape, Spawned, NotSpawned
  <2>5. pc' = [d \in Requests |-> pc'[d]] /\ waits' = [d \in Coroutines |-> waits'[d]]
    BY <2>2 DEF AnswerInv, StartShape
  <2>6. StartShape' /\ StartsFit'
    BY <2>1, <2>2, <2>4, <2>5, StartsStay
  <2> QED
    BY <2>2, <2>3, <2>6, AnswersStay DEF AnswerInv
<1>4. ASSUME Consult(c) PROVE AnswerInv'
  BY <1>4, AnswersStay, NothingStarts DEF Consult, AnswerInv, runVars
<1> QED
  BY <1>1, <1>2, <1>3, <1>4 DEF Turn

LEMMA SendsFit ==
  ASSUME AnswerInv, NEW c \in Requests, NEW p \in Providers, Send(c, p) \/ SendDirect(c, p)
  PROVE  AnswerInv'
<1>1. ASSUME Send(c, p) PROVE AnswerInv'
  BY <1>1, AnswersStay, NothingStarts DEF Send, AnswerInv, runVars, taskVars
<1>2. ASSUME SendDirect(c, p) PROVE AnswerInv'
  BY <1>2, AnswersStay, NewRunFits DEF SendDirect, AnswerInv, Coroutines, taskVars
<1> QED
  BY <1>1, <1>2

LEMMA ApprovalsFit ==
  ASSUME AnswerInv, NEW c \in Requests, Resolve(c) \/ Resolved(c)
  PROVE  AnswerInv'
<1>1. CASE UNCHANGED <<runVars, waits, pc>>
  BY <1>1, AnswersStay, NothingStarts DEF Resolve, Resolved, AnswerInv, runVars, taskVars
<1>2. ASSUME NEW a, NewRun(c, "command", "shell", asked[a]), pc' = [pc EXCEPT ![c] = "command"]
      PROVE  AnswerInv'
  BY <1>2, AnswersStay, NewRunFits DEF Resolve, Resolved, AnswerInv, Coroutines, taskVars
<1> QED
  BY <1>1, <1>2 DEF Resolve, Resolved, RunApproved

\* The record gets its status, and what was decided is to be done.
LEMMA ExitFits ==
  ASSUME AnswerInv, NEW r \in Runs, Exit(r)
  PROVE  AnswerInv'
<1>1. /\ phase' \in [Runs -> Phases] /\ phase[r] = "alive"
      /\ phase'[r] \in {"over", "hook"}
      /\ \A s \in Runs : s # r => phase'[s] = phase[s]
      /\ UNCHANGED <<kind, started, did, turn, pc, waits, queued>>
  BY DEF Exit, AnswerInv, StartShape, Phases, requestVars, taskVars
<1>2. NoneReturns
  BY <1>1 DEF NoneReturns, BeforeHook
<1>3. StartShape' /\ StartsFit'
  <2>1. \A c \in Requests : pc[c] = "spawn" => phase'[waits[c]] = "spawning"
    BY <1>1 DEF AnswerInv, StartsFit
  <2>2. pc' = [d \in Requests |-> pc'[d]] /\ waits' = [d \in Coroutines |-> waits'[d]]
    BY <1>1 DEF AnswerInv, StartShape
  <2> QED
    BY <1>1, <2>1, <2>2, StartsStay
<1>4. CASE UNCHANGED <<out, todo>>
  BY <1>1, <1>2, <1>3, <1>4, AnswersStay DEF turnVars, AnswerInv
<1>5. ASSUME NEW o \in Outputs, out' = [out EXCEPT ![r] = o],
             todo' = [todo EXCEPT ![r] = Decided(o)]
      PROVE  AnswerInv'
  <2>1. TurnShape'
    BY <1>1, <1>5 DEF AnswerInv, TurnShape
  <2>2. ASSUME NEW s \in Runs, s # r
        PROVE  AnswerFits(s)'
    BY <1>1, <1>5, <2>2 DEF AnswerInv, TurnShape, AnswersFit, AnswerFits, Untouched
  <2>3. out'[r] = o /\ todo'[r] = Decided(o)
    BY <1>5 DEF AnswerInv, TurnShape
  <2>4. turn'[r] = None /\ Untouched(r)' /\ did'[r] = <<>>
    BY <1>1 DEF AnswerInv, AnswersFit, AnswerFits, Untouched, BeforeHook
  <2>5. AnswerFits(r)'
    BY <1>1, <2>3, <2>4, TurnAssumption DEF AnswerFits, TurnStatuses, BeforeHook
  <2> QED
    BY <1>3, <2>1, <2>2, <2>5 DEF AnswerInv, AnswersFit
<1> QED
  BY <1>4, <1>5 DEF Exit

\* What is told to end had a process.
LEMMA CancelFits ==
  ASSUME AnswerInv, NEW rs, CancelRunsIn(rs), UNCHANGED <<kind, started, pc, waits>>
  PROVE  StartShape' /\ StartsFit' /\ NoneReturns
<1>1. /\ phase' \in [Runs -> Phases]
      /\ \A s \in Runs : phase'[s] = phase[s] \/ (phase[s] = "alive" /\ phase'[s] = "dying")
  BY DEF CancelRunsIn, AnswerInv, StartShape, Phases
<1>2. NoneReturns
  BY <1>1 DEF NoneReturns, BeforeHook
<1>3. \A c \in Requests : pc[c] = "spawn" => phase'[waits[c]] = "spawning"
  BY <1>1 DEF AnswerInv, StartsFit
<1>4. pc' = [d \in Requests |-> pc'[d]] /\ waits' = [d \in Coroutines |-> waits'[d]]
  BY DEF AnswerInv, StartShape
<1> QED
  BY <1>1, <1>2, <1>3, <1>4, StartsStay

\* The actions of an answer.
LEMMA ExecuteFits ==
  ASSUME AnswerInv, NEW r \in Runs, Execute(r)
  PROVE  AnswerInv'
<1>1. CASE Ask(r)
  BY <1>1, AnswersStay, NothingStarts DEF Ask, AnswerInv, runVars, requestVars, taskVars
<1>2. ASSUME ~Ask(r)
      PROVE  AtWork(r) /\ \E ok : Done(r, ok)
  BY <1>2 DEF Execute, Answer, QueueWork, CompleteTask, ChangeQueue, CancelRuns, Asked,
         RunAction, Ready
<1>3. \A q \in queued' : q \in queued \/ q[1] = r
  <2>1. CASE QueueWork(r)
    <3>1. queued' = queued \/ \E type, steps : queued' = queued \cup {<<r, type, steps>>}
      BY <2>1 DEF QueueWork
    <3>2. \A type, steps : <<r, type, steps>>[1] = r
      OBVIOUS
    <3> QED
      BY <3>1, <3>2
  <2>2. CASE UNCHANGED queued
    BY <2>2
  <2> QED
    BY <2>1, <2>2 DEF Execute, Answer, CompleteTask, ChangeQueue, CancelRuns, Ask, Asked,
       RunAction, taskVars
<1>4. StartShape' /\ StartsFit' /\ NoneReturns
  <2>1. CASE UNCHANGED <<started, kind, phase, waits, pc>>
    BY <2>1, NothingStarts
  <2>2. CASE CancelRuns(r)
    BY <2>2, CancelFits DEF CancelRuns, requestVars
  <2>3. CASE RunAction(r)
    <3>1. CASE NewRun(r, "command", "shell", Head(todo[r]).command)
      BY <2>3, <3>1, NewRunFits DEF RunAction, Coroutines
    <3> QED
      BY <2>1, <2>3, <3>1 DEF RunAction, runVars
  <2> QED
    BY <2>1, <2>2, <2>3 DEF Execute, Answer, QueueWork, CompleteTask, ChangeQueue,
       Ask, Asked, runVars, requestVars
<1> QED
  BY <1>1, <1>2, <1>3, <1>4, DoneFits DEF AnswerInv

LEMMA HooksFit ==
  ASSUME AnswerInv, NEW r \in Runs, EndOfRun(r) \/ ActionRaises(r)
  PROVE  AnswerInv'
<1>1. ASSUME Died(r) \/ CommandSpawned(r) PROVE AnswerInv'
  <2>1. /\ phase' \in [Runs -> Phases] /\ UNCHANGED <<kind, started, pc, waits, queued>>
        /\ UNCHANGED turnVars
        /\ \A s \in Runs : s # r => phase'[s] = phase[s]
        /\ phase'[r] # "none" /\ phase[r] # "none" /\ phase[r] \in BeforeHook
    BY <1>1 DEF Died, CommandSpawned, AnswerInv, StartShape, Phases, requestVars, taskVars,
                BeforeHook
  <2>2. \A c \in Requests : pc[c] = "spawn" => phase'[waits[c]] = "spawning"
    BY <1>1, <2>1 DEF AnswerInv, StartsFit, Died, CommandSpawned
  <2>3. pc' = [d \in Requests |-> pc'[d]] /\ waits' = [d \in Coroutines |-> waits'[d]]
    BY <2>1 DEF AnswerInv, StartShape
  <2>4. StartShape' /\ StartsFit' /\ NoneReturns
    BY <2>1, <2>2, <2>3, StartsStay DEF NoneReturns
  <2> QED
    BY <2>1, <2>4, AnswersStay DEF AnswerInv
<1>2. ASSUME HookEnd(r) PROVE AnswerInv'
  <2>1. /\ phase' = [phase EXCEPT ![r] = "over"] /\ phase' \in [Runs -> Phases]
        /\ phase[r] = "hook" /\ todo[r] = <<>>
        /\ UNCHANGED <<kind, started, pc, waits, queued, out, todo, did>>
    BY <1>2 DEF HookEnd, AnswerInv, StartShape, Phases, requestVars, taskVars
  <2>2. NoneReturns
    BY <2>1 DEF NoneReturns, BeforeHook, AnswerInv, StartShape
  <2>3. \A c \in Requests : pc[c] = "spawn" => phase'[waits[c]] = "spawning"
    BY <2>1 DEF AnswerInv, StartsFit, StartShape
  <2>4. pc' = [d \in Requests |-> pc'[d]] /\ waits' = [d \in Coroutines |-> waits'[d]]
    BY <2>1 DEF AnswerInv, StartShape
  <2>5. StartShape' /\ StartsFit'
    BY <2>1, <2>3, <2>4, StartsStay DEF AnswerInv, StartShape
  <2>6. /\ TurnShape' /\ \A s \in Runs : s # r => turn'[s] = turn[s]
        /\ turn'[r] = turn[r] \/ \E ok \in BOOLEAN : turn'[r] = TurnStatus(out[r], ok)
    BY <1>2 DEF HookEnd, AnswerInv, TurnShape
  <2>7. ASSUME NEW s \in Runs, s # r
        PROVE  AnswerFits(s)'
    BY <2>1, <2>2, <2>6, <2>7 DEF AnswerInv, AnswersFit, AnswerFits, Untouched, NoneReturns
  <2>8. AnswerFits(r)'
    BY <2>1, <2>2, <2>6 DEF AnswerInv, AnswersFit, AnswerFits, Untouched, NoneReturns, TurnStatus,
       BeforeHook, Decided
  <2> QED
    BY <2>5, <2>6, <2>7, <2>8 DEF AnswerInv, AnswersFit
<1>3. ASSUME ActionRaises(r) PROVE AnswerInv'
  <2>1. Ready(r) /\ UNCHANGED <<kind, started, phase, pc, waits, queued, out, did>>
    BY <1>3 DEF ActionRaises, runVars, requestVars, taskVars
  <2>2. /\ TurnShape' /\ todo'[r] = <<>> /\ turn'[r] = "raised"
        /\ \A s \in Runs : s # r => turn'[s] = turn[s] /\ todo'[s] = todo[s]
    BY <1>3 DEF ActionRaises, AnswerInv, TurnShape
  <2>3. \A s \in Runs : AnswerFits(s)'
    BY <2>1, <2>2 DEF AnswerInv, AnswersFit, AnswerFits, Untouched, Ready, AtWork, BeforeHook
  <2> QED
    BY <2>1, <2>2, <2>3, NothingStarts DEF AnswerInv, AnswersFit
<1> QED
  BY <1>1, <1>2, <1>3, ExitFits, ExecuteFits DEF EndOfRun

LEMMA AnswerStep == AnswerInv /\ [Next]_vars => AnswerInv'
<1> SUFFICES ASSUME AnswerInv, [Next]_vars PROVE AnswerInv'
  OBVIOUS
<1>1. ASSUME NEW c \in Requests, Turn(c) \/ Consult(c) PROVE AnswerInv'
  BY <1>1, RequestsFit
<1>2. ASSUME NEW c \in Requests, NEW p \in Providers, Send(c, p) \/ SendDirect(c, p)
      PROVE  AnswerInv'
  BY <1>2, SendsFit
<1>3. ASSUME NEW c \in Requests, Resolve(c) \/ Resolved(c) PROVE AnswerInv'
  BY <1>3, ApprovalsFit
<1>4. CASE \/ \E c \in Requests, a \in Approvals : Approve(c, a)
           \/ \E t \in Threads : Rejected(t) \/ \E a \in Approvals : Reject(t, a)
           \/ UNCHANGED vars
  BY <1>4, AnswersStay, NothingStarts
     DEF Approve, Reject, Rejected, AnswerInv, vars, runVars, requestVars, taskVars
<1>5. ASSUME NEW r \in Runs, EndOfRun(r) \/ ActionRaises(r) PROVE AnswerInv'
  BY <1>5, HooksFit
<1>6. ASSUME NEW k \in Channels, Stop(k) PROVE AnswerInv'
  BY <1>6, CancelFits, AnswersStay DEF Stop, AnswerInv, requestVars, taskVars
<1>7. ASSUME NEW c \in Coroutines, CommandWaited(c) PROVE AnswerInv'
  <2>1. /\ waits' = [waits EXCEPT ![c] = 0] /\ kind[waits[c]] = "command"
        /\ pc' = IF c \in Requests THEN [pc EXCEPT ![c] = "idle"] ELSE pc
        /\ UNCHANGED <<started, kind, phase, queued>> /\ UNCHANGED turnVars
    BY <1>7 DEF CommandWaited, runVars, taskVars
  <2>2. pc' = [d \in Requests |-> pc'[d]] /\ waits' = [d \in Coroutines |-> waits'[d]]
    BY <2>1 DEF AnswerInv, StartShape
  <2>3. ASSUME NEW d \in Requests, pc'[d] = "spawn"
        PROVE  pc[d] = "spawn" /\ waits'[d] = waits[d] /\ phase'[waits[d]] = "spawning"
    BY <2>1, <2>3 DEF AnswerInv, StartShape, StartsFit, Coroutines
  <2>4. StartShape' /\ StartsFit' /\ NoneReturns
    BY <2>1, <2>2, <2>3, StartsStay DEF AnswerInv, StartShape, NoneReturns
  <2> QED
    BY <2>1, <2>4, AnswersStay DEF AnswerInv
<1>8. CASE Crash
  <2>1. NoneReturns /\ StartShape' /\ StartsFit'
    BY <1>8 DEF Crash, NoneReturns, BeforeHook, AnswerInv, StartShape, StartsFit, Phases
  <2>2. TurnShape' /\ AnswersFit'
    BY <1>8, <2>1 DEF Crash, NoneReturns, AnswerInv, TurnShape, AnswersFit, AnswerFits,
       Untouched, BeforeHook, taskVars
  <2> QED
    BY <2>1, <2>2 DEF AnswerInv
<1> QED
  BY <1>1, <1>2, <1>3, <1>4, <1>5, <1>6, <1>7, <1>8 DEF Next

LEMMA AnswerInvariance == Spec => []AnswerInv
BY AnswerInit, AnswerStep, PTL DEF Spec

\* Whatever an answer holds, its v1 block makes at most one action, a bad block
\* none, and a turn that is called invalid or without an action did nothing
\* (parse_controller_result, apply_controller_output).
THEOREM OneActionEach == Spec => []OneActionPerBlock
<1>1. AnswerInv => OneActionPerBlock
  <2> SUFFICES ASSUME AnswerInv, NEW r \in Runs, out[r] # None
               PROVE  /\ IsV1(out[r]) => Len(did[r]) <= 1
                      /\ (IsV1(out[r]) /\ ~IsValid(out[r])) => did[r] = <<>>
                      /\ turn[r] \in {"invalid", "no_action"} =>
                           did[r] = <<>> /\ \A q \in queued : q[1] # r
    BY DEF OneActionPerBlock
  <2>1. (IsV1(out[r]) /\ ~IsValid(out[r])) => Decided(out[r]) = <<>>
    BY DEF Decided
  <2>2. did[r] = <<>> => Len(did[r]) <= 1
    OBVIOUS
  <2> QED
    BY <2>1, <2>2 DEF AnswerInv, AnswersFit, AnswerFits, Untouched
<1> QED
  BY <1>1, AnswerInvariance, PTL
=============================================================================
