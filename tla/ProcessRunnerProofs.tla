------------------------- MODULE ProcessRunnerProofs -------------------------
(* Proofs about ProcessRunner, for every bound on the runs and every limit on *)
(* the records kept.                                                          *)
EXTENDS ProcessRunner, TLAPS

\* Run numbers are natural numbers that can be compared.
LEMMA RunNumbers ==
  ASSUME TypeOK
  PROVE  started \in Nat /\ \A r \in RunIds : r \in Nat /\ (r <= started <=> ~(r > started))
BY RunnerAssumption DEF TypeOK, RunIds

\* A run that left its first state was started.
LEMMA OnlyStarted ==
  ASSUME IInv, NEW r \in RunIds,
         \/ status[r] # "absent" \/ leader[r] # "absent" \/ reader[r] # "none"
         \/ watchdog[r] # "off" \/ killer[r] # "off" \/ caller[r] # "none"
         \/ r \in records \/ r \in procs
  PROVE  r <= started /\ ~(r > started) /\ status[r] # "absent" /\ leader[r] # "absent"
BY RunNumbers DEF IInv, RunOK

-----------------------------------------------------------------------------
(* The invariant holds initially and is kept by every action.              *)

\* Init establishes the invariant: nothing is started.
LEMMA InitOK == Init => IInv
<1> SUFFICES ASSUME Init PROVE IInv
  OBVIOUS
<1>1. TypeOK
  BY RunnerAssumption DEF Init, TypeOK, Kinds, Failures, RunStatuses
<1>2. ASSUME NEW r \in RunIds PROVE RunOK(r)
  BY <1>1, RunNumbers, RunnerAssumption DEF Init, RunOK, RunIds
<1> QED
  BY <1>1, <1>2 DEF IInv

\* A new run takes a fresh number, and makes room at the expense of finished
\* records only.
LEMMA StartOK == ASSUME IInv, NEW k \in Kinds, Start(k) PROVE IInv'
<1> DEFINE n == started + 1
<1>1. n \in RunIds /\ started \in Nat /\ n > started
  BY RunnerAssumption DEF IInv, TypeOK, Start, RunIds
<1>2. \A r \in Dropped : status[r] # "running"
  BY DEF Dropped
<1>3. TypeOK'
  <2>1. started' \in 0..RunCap
    BY <1>1 DEF Start, RunIds
  <2>2. records' \subseteq RunIds
    BY <1>1 DEF IInv, TypeOK, Start
  <2>3. /\ kind' \in [RunIds -> Kinds]
        /\ status' \in [RunIds -> RunStatuses \cup {"absent"}]
        /\ leader' \in [RunIds -> {"absent", "spawning", "alive", "exited", "reaped"}]
    BY <1>1 DEF IInv, TypeOK, Start, RunStatuses
  <2> QED
    BY <2>1, <2>2, <2>3 DEF IInv, TypeOK, Start
<1>4. ASSUME NEW r \in RunIds PROVE RunOK(r)'
  <2>1. CASE r = n
    <3>1. /\ status[r] = "absent" /\ leader[r] = "absent" /\ reader[r] = "none"
          /\ watchdog[r] = "off" /\ killer[r] = "off" /\ caller[r] = "none" /\ r \notin procs
      BY <1>1, <2>1 DEF IInv, RunOK
    <3>2. /\ status'[r] = "running" /\ leader'[r] = "spawning" /\ r \in records'
          /\ r <= started' /\ ~(r > started')
          /\ UNCHANGED <<reader, watchdog, killer, caller, procs>>
      BY <1>1, <2>1 DEF IInv, TypeOK, Start
    <3> QED
      BY <3>1, <3>2 DEF RunOK
  <2>2. CASE r # n
    <3>1. (r > started' => r > started) /\ (r <= started' => r <= started)
      BY <1>1, <2>2 DEF Start, RunIds
    <3>2. /\ status'[r] = status[r] /\ leader'[r] = leader[r] /\ reader'[r] = reader[r]
          /\ UNCHANGED <<watchdog, killer, caller, procs>>
          /\ r \in records' <=> r \in records \ Dropped
      BY <1>1, <2>2 DEF IInv, TypeOK, Start
    <3> QED
      BY <3>1, <3>2, <1>2 DEF IInv, RunOK
  <2> QED
    BY <2>1, <2>2
<1> QED
  BY <1>3, <1>4 DEF IInv

\* The steps of a process being created touch their own run only.
LEMMA SpawnOK ==
  ASSUME IInv, NEW r \in RunIds, Spawned(r) \/ SpawnError(r)
  PROVE  IInv'
<1>1. TypeOK'
  BY DEF IInv, TypeOK, Spawned, SpawnError, tables, RunStatuses, Failures
<1>2. leader[r] = "spawning" /\ started' = started /\ records' = records
  BY DEF Spawned, SpawnError, tables
<1>3. r <= started /\ ~(r > started)
  BY <1>2, OnlyStarted
<1>4. ASSUME NEW q \in RunIds PROVE RunOK(q)'
  <2>1. CASE q = r /\ Spawned(r)
    BY <1>2, <1>3, <2>1 DEF IInv, TypeOK, RunOK, Spawned
  <2>2. CASE q = r /\ SpawnError(r)
    BY <1>2, <1>3, <2>2 DEF IInv, TypeOK, RunOK, SpawnError
  <2>3. CASE q # r
    BY <1>2, <2>3 DEF IInv, TypeOK, RunOK, Spawned, SpawnError
  <2> QED
    BY <2>1, <2>2, <2>3
<1> QED
  BY <1>1, <1>4 DEF IInv

\* Processes that fork or end, and their ends becoming known, leave what the
\* runner remembers alone.
LEMMA ProcessOK ==
  ASSUME IInv, NEW r \in RunIds, Fork(r) \/ LeaderExits(r) \/ ChildExits(r) \/ Reap(r)
  PROVE  IInv'
<1>1. TypeOK'
  BY DEF IInv, TypeOK, Fork, LeaderExits, ChildExits, Reap, tables, verdicts
<1>2. /\ UNCHANGED <<started, records, procs, status, killer, reader, watchdog, caller>>
      /\ \A q \in RunIds : leader'[q] # leader[q] =>
           leader[q] \in {"alive", "exited"} /\ leader'[q] \in {"exited", "reaped"}
  BY DEF IInv, TypeOK, Fork, LeaderExits, ChildExits, Reap, tables, verdicts
<1>3. ASSUME NEW q \in RunIds PROVE RunOK(q)'
  BY <1>2, OnlyStarted DEF IInv, RunOK
<1> QED
  BY <1>1, <1>3 DEF IInv

\* At the end of its output a run has a verdict.
LEMMA VerdictOK ==
  ASSUME IInv, NEW r \in RunIds, reader[r] = "reading", NEW code \in Codes
  PROVE  /\ Verdict(r, code) \in {"succeeded", "failed", "cancelled"}
         /\ FailureOf(Verdict(r, code)) \in Failures
         /\ status[r] # Verdict(r, code) => status[r] = "running"
<1>1. status[r] \in {"running", "cancelled"}
  BY DEF IInv, RunOK
<1>2. StatusOfCode(code) \in {"succeeded", "failed", "cancelled"}
  BY DEF StatusOfCode, Codes
<1> QED
  BY <1>1, <1>2 DEF Verdict, FailureOf, Failures

\* The end of the output settles the run.
LEMMA EndOfOutputOK == ASSUME IInv, NEW r \in RunIds, EndOfOutput(r) PROVE IInv'
<1>1. PICK code \in Codes :
        /\ status' = [status EXCEPT ![r] = Verdict(r, code)]
        /\ failure' = IF status[r] = "running" \/ kind[r] = "task"
                      THEN [failure EXCEPT ![r] = FailureOf(Verdict(r, code))]
                      ELSE failure
  BY DEF EndOfOutput
<1>2. /\ Verdict(r, code) \in {"succeeded", "failed", "cancelled"}
      /\ FailureOf(Verdict(r, code)) \in Failures
  BY VerdictOK DEF EndOfOutput
<1>3. TypeOK'
  BY <1>1, <1>2 DEF IInv, TypeOK, EndOfOutput, tables, processes, RunStatuses
<1>4. r <= started /\ ~(r > started) /\ leader[r] # "spawning"
  BY OnlyStarted DEF EndOfOutput
<1>5. ASSUME NEW q \in RunIds PROVE RunOK(q)'
  <2>1. CASE q = r
    BY <1>1, <1>2, <1>4, <2>1 DEF IInv, TypeOK, RunOK, EndOfOutput, tables, processes
  <2>2. CASE q # r
    BY <1>1, <2>2 DEF IInv, TypeOK, RunOK, EndOfOutput, tables, processes
  <2> QED
    BY <2>1, <2>2
<1> QED
  BY <1>3, <1>5 DEF IInv

\* The end of the hook ends the reader.
LEMMA HookReturnsOK == ASSUME IInv, NEW r \in RunIds, HookReturns(r) PROVE IInv'
<1>1. TypeOK'
  BY DEF IInv, TypeOK, HookReturns, tables, processes, verdicts
<1>2. r <= started /\ ~(r > started) /\ leader[r] # "spawning"
  BY OnlyStarted DEF HookReturns, IInv, RunOK
<1>3. ASSUME NEW q \in RunIds PROVE RunOK(q)'
  BY <1>2 DEF IInv, TypeOK, RunOK, HookReturns, tables, processes, verdicts
<1> QED
  BY <1>1, <1>3 DEF IInv

\* Stopping stoppable runs, with whatever becomes of their failure kinds and of
\* one watchdog or one caller that was not idle.
LEMMA StopOK ==
  ASSUME IInv, NEW S \in SUBSET RunIds, \A r \in S : Stoppable(r), Stop(S),
         UNCHANGED <<tables, processes, reader>>,
         failure' \in [RunIds -> Failures],
         watchdog' \in [RunIds -> {"off", "armed", "fired"}],
         caller' \in [RunIds -> {"none", "waiting", "stopping", "returned"}],
         \A r \in RunIds : watchdog[r] = "off" => watchdog'[r] = "off",
         \A r \in RunIds : caller[r] = "none" => caller'[r] = "none"
  PROVE  IInv'
<1>1. TypeOK'
  BY DEF IInv, TypeOK, Stop, tables, processes, RunStatuses
<1>2. ASSUME NEW r \in RunIds PROVE RunOK(r)'
  <2>1. CASE r \in S
    <3>1. status[r] = "running" /\ r \in procs /\ leader[r] # "spawning" /\ reader[r] = "reading"
      BY <2>1 DEF IInv, RunOK, Stoppable
    <3>2. ~(r > started)
      BY <3>1, OnlyStarted
    <3> QED
      BY <2>1, <3>1, <3>2 DEF IInv, TypeOK, RunOK, Stop, tables, processes
  <2>2. CASE r \notin S
    BY <2>2 DEF IInv, TypeOK, RunOK, Stop, tables, processes
  <2> QED
    BY <2>1, <2>2
<1> QED
  BY <1>1, <1>2 DEF IInv

\* A cancellation stops runs.
LEMMA CancelOK ==
  ASSUME IInv, NEW S \in SUBSET RunIds, CancelSet(S) PROVE IInv'
BY StopOK DEF IInv, TypeOK, CancelSet, Failures

\* The watchdog stops its run or leaves everything but itself alone.
LEMMA DeadlineOK == ASSUME IInv, NEW r \in RunIds, Deadline(r) PROVE IInv'
<1>1. /\ watchdog' \in [RunIds -> {"off", "armed", "fired"}]
      /\ \A q \in RunIds : watchdog[q] = "off" => watchdog'[q] = "off"
      /\ UNCHANGED <<tables, processes, reader, caller>>
  BY DEF IInv, TypeOK, Deadline
<1>2. CASE UNCHANGED <<verdicts, failure>>
  BY <1>1, <1>2 DEF IInv, TypeOK, RunOK, tables, processes, verdicts
<1>3. CASE /\ Stop({r} \cap {q \in RunIds : Stoppable(q)})
           /\ failure' = [failure EXCEPT ![r] = "timeout"]
  <2>1. failure' \in [RunIds -> Failures]
    BY <1>3 DEF IInv, TypeOK, Failures
  <2>2. /\ caller' \in [RunIds -> {"none", "waiting", "stopping", "returned"}]
        /\ \A q \in RunIds : caller[q] = "none" => caller'[q] = "none"
    BY <1>1 DEF IInv, TypeOK
  <2> QED
    BY <1>1, <1>3, <2>1, <2>2, StopOK
<1> QED
  BY <1>2, <1>3 DEF Deadline

\* So does the timeout of a caller.
LEMMA CallerTimeoutOK == ASSUME IInv, NEW r \in RunIds, CallerTimeout(r) PROVE IInv'
<1> DEFINE S == {r} \cap {q \in RunIds : Stoppable(q)}
<1>1. /\ caller' \in [RunIds -> {"none", "waiting", "stopping", "returned"}]
      /\ \A q \in RunIds : caller[q] = "none" => caller'[q] = "none"
      /\ UNCHANGED <<tables, processes, reader, watchdog>>
      /\ Stop(S)
  BY DEF IInv, TypeOK, CallerTimeout
<1>2. failure' \in [RunIds -> Failures]
  BY DEF IInv, TypeOK, CallerTimeout, Failures
<1>3. /\ watchdog' \in [RunIds -> {"off", "armed", "fired"}]
      /\ \A q \in RunIds : watchdog[q] = "off" => watchdog'[q] = "off"
  BY <1>1 DEF IInv, TypeOK
<1> QED
  BY <1>1, <1>2, <1>3, StopOK

\* SIGKILL ends a leader that had been started.
LEMMA HardKillOK == ASSUME IInv, NEW r \in RunIds, HardKill(r) PROVE IInv'
<1>1. TypeOK'
  BY DEF IInv, TypeOK, HardKill, tables, processes
<1>2. /\ leader[r] # "spawning" /\ r <= started /\ ~(r > started)
      /\ UNCHANGED <<started, records, procs, status, reader, watchdog, caller>>
  BY OnlyStarted DEF HardKill, IInv, RunOK, tables
<1>3. ASSUME NEW q \in RunIds PROVE RunOK(q)'
  <2>1. /\ q # r => leader'[q] = leader[q] /\ killer'[q] = killer[q]
        /\ leader'[r] \in {leader[r], "exited"}
    BY DEF IInv, TypeOK, HardKill, processes
  <2>2. CASE q = r
    BY <1>2, <2>1, <2>2 DEF IInv, RunOK
  <2>3. CASE q # r
    BY <1>2, <2>1, <2>3 DEF IInv, RunOK
  <2> QED
    BY <2>2, <2>3
<1> QED
  BY <1>1, <1>3 DEF IInv

\* Every step keeps the invariant.
LEMMA StepOK == IInv /\ [Next]_vars => IInv'
<1> SUFFICES ASSUME IInv, [Next]_vars PROVE IInv'
  OBVIOUS
<1>1. CASE Processes
  BY <1>1, ProcessOK DEF Processes
<1>2. CASE EventLoop
  BY <1>2, SpawnOK, ProcessOK, EndOfOutputOK, HookReturnsOK, HardKillOK, DeadlineOK,
     CallerTimeoutOK DEF EventLoop
<1>3. ASSUME NEW k \in Kinds, Start(k) PROVE IInv'
  BY <1>3, StartOK
<1>4. ASSUME NEW r \in RunIds, Cancel(r) PROVE IInv'
  BY <1>4, CancelOK DEF Cancel
<1>5. CASE CancelAll
  BY <1>5, CancelOK DEF CancelAll
<1>6. CASE UNCHANGED vars
  BY <1>6 DEF IInv, TypeOK, RunOK, vars, tables, processes, verdicts
<1> QED
  BY <1>1, <1>2, <1>3, <1>4, <1>5, <1>6 DEF Next, Requests

\* The invariant holds in every reachable state.
THEOREM RunnerInvariance == Spec => []IInv
BY InitOK, StepOK, PTL DEF Spec

\* A run that says running can be stopped as long as its exit is not known: its
\* record is never dropped and its handle never lost.
THEOREM RunningStaysReachable == Spec => []RunningIsReachable
<1>1. IInv => RunningIsReachable
  BY DEF IInv, RunOK, RunningIsReachable, Stoppable
<1> QED
  BY <1>1, RunnerInvariance, PTL

-----------------------------------------------------------------------------
(* The refinement: what each step is for RunLifecycle.                     *)

Reported == {r \in RunIds : kind[r] \in Hooked /\ reader[r] = "done"}
LifecycleStep == [Lifecycle!Next]_<<status, Reported>>

\* Nothing is begun or reported at first.
LEMMA InitImplements == Init => Lifecycle!Init
BY DEF Init, Lifecycle!Init, Hooked

\* A step that changes neither a status nor the set of reported runs stutters.
LEMMA Stutters ==
  ASSUME UNCHANGED status, UNCHANGED Reported PROVE LifecycleStep
BY DEF LifecycleStep

\* A step that keeps every kind, and every reader up to "reporting", reports nothing.
LEMMA ReportsNothing ==
  ASSUME \A r \in RunIds : /\ kind'[r] = kind[r]
                           /\ reader'[r] = "done" <=> reader[r] = "done"
  PROVE  UNCHANGED Reported
BY DEF Reported

\* Stopping running runs settles them together.
LEMMA StopImplements ==
  ASSUME IInv, NEW S \in SUBSET RunIds, \A r \in S : Stoppable(r), Stop(S),
         UNCHANGED <<kind, reader>>
  PROVE  LifecycleStep
<1>1. \A r \in S : status[r] = "running"
  BY DEF IInv, RunOK, Stoppable
<1>2. UNCHANGED Reported
  BY DEF Reported
<1>3. "cancelled" \in Lifecycle!Verdicts
  BY DEF Lifecycle!Verdicts, Lifecycle!RunStatuses
<1>4. Lifecycle!Settle(S, "cancelled")
  BY <1>1, <1>2 DEF Lifecycle!Settle, Stop, Reported
<1> QED
  BY <1>3, <1>4 DEF LifecycleStep, Lifecycle!Next, Reported

\* A start begins a run.
LEMMA StartImplements ==
  ASSUME IInv, NEW k \in Kinds, Start(k) PROVE LifecycleStep
<1> DEFINE n == started + 1
<1>1. n \in RunIds /\ started \in Nat /\ n > started
  BY RunnerAssumption DEF IInv, TypeOK, Start, RunIds
<1>2. status[n] = "absent" /\ reader[n] = "none"
  BY <1>1 DEF IInv, RunOK
<1>3. UNCHANGED Reported
  <2>1. \A r \in RunIds : r # n => kind'[r] = kind[r]
    BY <1>1 DEF IInv, TypeOK, Start
  <2> QED
    BY <1>1, <1>2, <2>1 DEF Reported, Start
<1>4. Lifecycle!Begin(n)
  BY <1>1, <1>2, <1>3 DEF Lifecycle!Begin, Start, Reported
<1> QED
  BY <1>1, <1>4 DEF LifecycleStep, Lifecycle!Next, Reported

\* A creation that fails settles its run.
LEMMA SpawnErrorImplements ==
  ASSUME IInv, NEW r \in RunIds, SpawnError(r) PROVE LifecycleStep
<1>1. status[r] = "running" /\ status' = [status EXCEPT ![r] = "error"]
  BY DEF IInv, RunOK, SpawnError
<1>2. UNCHANGED Reported
  BY ReportsNothing DEF SpawnError, tables
<1>3. "error" \in Lifecycle!Verdicts
  BY DEF Lifecycle!Verdicts, Lifecycle!RunStatuses
<1>4. Lifecycle!Settle({r}, "error")
  BY <1>1, <1>2 DEF IInv, TypeOK, Lifecycle!Settle, Reported
<1> QED
  BY <1>3, <1>4 DEF LifecycleStep, Lifecycle!Next, Reported

\* The end of the output settles a run that was not settled by cancel().
LEMMA EndOfOutputImplements ==
  ASSUME IInv, NEW r \in RunIds, EndOfOutput(r) PROVE LifecycleStep
<1>1. PICK code \in Codes : status' = [status EXCEPT ![r] = Verdict(r, code)]
  BY DEF EndOfOutput
<1>2. /\ Verdict(r, code) \in {"succeeded", "failed", "cancelled"}
      /\ status[r] # Verdict(r, code) => status[r] = "running"
  BY VerdictOK DEF EndOfOutput
<1>3. UNCHANGED Reported
  <2>1. /\ kind' = kind /\ \A q \in RunIds : q # r => reader'[q] = reader[q]
        /\ kind[r] \in Hooked => reader'[r] = "reporting" /\ reader[r] = "reading"
    BY DEF IInv, TypeOK, EndOfOutput, tables
  <2> QED
    BY <2>1 DEF Reported
<1>4. CASE status[r] = Verdict(r, code)
  BY <1>1, <1>3, <1>4, Stutters DEF IInv, TypeOK
<1>5. CASE status[r] # Verdict(r, code)
  <2>1. Verdict(r, code) \in Lifecycle!Verdicts
    BY <1>2 DEF Lifecycle!Verdicts, Lifecycle!RunStatuses
  <2>2. Lifecycle!Settle({r}, Verdict(r, code))
    BY <1>1, <1>2, <1>3, <1>5 DEF IInv, TypeOK, Lifecycle!Settle, Reported
  <2> QED
    BY <2>1, <2>2 DEF LifecycleStep, Lifecycle!Next, Reported
<1> QED
  BY <1>4, <1>5

\* The end of an agent's hook reports its run.
LEMMA HookReturnsImplements ==
  ASSUME IInv, NEW r \in RunIds, HookReturns(r) PROVE LifecycleStep
<1>1. /\ UNCHANGED <<kind, status>>
      /\ reader[r] = "reporting" /\ reader' = [reader EXCEPT ![r] = "done"]
  BY DEF HookReturns, tables, verdicts
<1>2. CASE kind[r] \in Hooked
  <2>1. Reported' = Reported \cup {r} /\ r \notin Reported
    BY <1>1, <1>2 DEF IInv, TypeOK, Reported
  <2>2. status[r] \in Lifecycle!Verdicts \ {"error"}
    BY <1>1 DEF IInv, RunOK, Lifecycle!Verdicts, Lifecycle!RunStatuses
  <2>3. Lifecycle!Report(r)
    BY <1>1, <2>1, <2>2 DEF Lifecycle!Report, Reported
  <2> QED
    BY <2>3 DEF LifecycleStep, Lifecycle!Next, Reported
<1>3. CASE kind[r] \notin Hooked
  <2>1. UNCHANGED Reported
    BY <1>1, <1>3 DEF IInv, TypeOK, Reported
  <2> QED
    BY <1>1, <2>1, Stutters
<1> QED
  BY <1>2, <1>3

\* Every step is a step of RunLifecycle or a stutter.
LEMMA StepImplements == IInv /\ [Next]_vars => LifecycleStep
<1> SUFFICES ASSUME IInv, [Next]_vars PROVE LifecycleStep
  OBVIOUS
<1>1. ASSUME NEW r \in RunIds, Fork(r) \/ LeaderExits(r) \/ ChildExits(r) \/ Reap(r)
      PROVE  LifecycleStep
  BY <1>1, Stutters, ReportsNothing DEF Fork, LeaderExits, ChildExits, Reap, tables, verdicts
<1>2. ASSUME NEW r \in RunIds, Spawned(r) PROVE LifecycleStep
  <2>1. reader[r] # "done" /\ reader' = [reader EXCEPT ![r] = "reading"]
    BY <1>2 DEF IInv, RunOK, Spawned
  <2>2. \A q \in RunIds : reader'[q] = "done" <=> reader[q] = "done"
    BY <2>1 DEF IInv, TypeOK
  <2> QED
    BY <1>2, <2>2, Stutters, ReportsNothing DEF Spawned, tables
<1>3. ASSUME NEW r \in RunIds, HardKill(r) PROVE LifecycleStep
  BY <1>3, Stutters, ReportsNothing DEF HardKill, tables
<1>4. ASSUME NEW r \in RunIds, Deadline(r) PROVE LifecycleStep
  <2>1. CASE UNCHANGED <<verdicts, failure>>
    BY <1>4, <2>1, Stutters, ReportsNothing DEF Deadline, tables, verdicts
  <2>2. CASE Stop({r} \cap {q \in RunIds : Stoppable(q)})
    BY <1>4, <2>2, StopImplements DEF Deadline, tables
  <2> QED
    BY <1>4, <2>1, <2>2 DEF Deadline
<1>5. ASSUME NEW r \in RunIds, CallerTimeout(r) PROVE LifecycleStep
  BY <1>5, StopImplements DEF CallerTimeout, tables
<1>6. ASSUME NEW S \in SUBSET RunIds, CancelSet(S) PROVE LifecycleStep
  BY <1>6, StopImplements DEF CancelSet, tables
<1>7. CASE Processes
  BY <1>1, <1>7 DEF Processes
<1>8. CASE EventLoop
  BY <1>1, <1>2, <1>3, <1>4, <1>5, <1>8, SpawnErrorImplements, EndOfOutputImplements,
     HookReturnsImplements DEF EventLoop
<1>9. CASE Requests
  BY <1>6, <1>9, StartImplements DEF Requests, Cancel, CancelAll
<1>10. CASE UNCHANGED vars
  BY <1>10, Stutters, ReportsNothing DEF vars, tables, verdicts
<1> QED
  BY <1>7, <1>8, <1>9, <1>10 DEF Next

\* The runner implements the run life cycle: one verdict per run, never revised,
\* and one completed hook after it.
THEOREM OneVerdictPerRun == Spec => GivesOneVerdict
BY InitImplements, StepImplements, RunnerInvariance, PTL
   DEF Spec, GivesOneVerdict, Lifecycle!Spec, LifecycleStep, Reported

-----------------------------------------------------------------------------
(* The failure kind fits the verdict in every state, not only at the end.  *)

Fits(s, f) ==
  /\ s = "succeeded" => f = "none"
  /\ s = "failed" => f = "exit_nonzero"
  /\ s = "cancelled" => f \in {"cancelled", "timeout"}

FailuresFit == \A r \in RunIds : Fits(status[r], failure[r])

\* The failure kind of an exit fits its status.
LEMMA FailureOfFits == \A s : Fits(s, FailureOf(s))
BY DEF Fits, FailureOf

\* Stopping runs with a fitting failure kind keeps every other run's.
LEMMA StopFits ==
  ASSUME IInv, FailuresFit, NEW S \in SUBSET RunIds, Stop(S),
         \A r \in RunIds : r \in S => failure'[r] \in {"cancelled", "timeout"},
         \A r \in RunIds : r \notin S => \/ failure'[r] = failure[r]
                                        \/ status[r] \in {"running", "absent"}
  PROVE  FailuresFit'
<1> SUFFICES ASSUME NEW r \in RunIds PROVE Fits(status'[r], failure'[r])
  BY DEF FailuresFit
<1>1. CASE r \in S
  BY <1>1 DEF Stop, Fits
<1>2. CASE r \notin S
  BY <1>2 DEF Stop, Fits, FailuresFit
<1> QED
  BY <1>1, <1>2

\* Every step keeps the failure kinds fitting.
LEMMA FailureStep == IInv /\ FailuresFit /\ [Next]_vars => FailuresFit'
<1> SUFFICES ASSUME IInv, FailuresFit, [Next]_vars PROVE FailuresFit'
  OBVIOUS
<1>1. CASE UNCHANGED <<status, failure>>
  BY <1>1 DEF FailuresFit
<1>2. ASSUME NEW k \in Kinds, Start(k) PROVE FailuresFit'
  BY <1>2 DEF IInv, TypeOK, Start, FailuresFit, Fits
<1>3. ASSUME NEW r \in RunIds, SpawnError(r) PROVE FailuresFit'
  BY <1>3 DEF IInv, TypeOK, SpawnError, FailuresFit, Fits
<1>4. ASSUME NEW r \in RunIds, EndOfOutput(r) PROVE FailuresFit'
  <2>1. PICK code \in Codes :
          /\ status' = [status EXCEPT ![r] = Verdict(r, code)]
          /\ failure' = IF status[r] = "running" \/ kind[r] = "task"
                        THEN [failure EXCEPT ![r] = FailureOf(Verdict(r, code))]
                        ELSE failure
    BY <1>4 DEF EndOfOutput
  <2>2. CASE status[r] = "running" \/ kind[r] = "task"
    <3>1. Fits(status'[r], failure'[r])
      BY <2>1, <2>2, FailureOfFits DEF IInv, TypeOK
    <3> QED
      BY <2>1, <2>2, <3>1 DEF IInv, TypeOK, FailuresFit
  <2>3. CASE ~(status[r] = "running" \/ kind[r] = "task")
    BY <2>1, <2>3 DEF IInv, TypeOK, FailuresFit, Verdict
  <2> QED
    BY <2>2, <2>3
<1>5. ASSUME NEW r \in RunIds, Deadline(r) PROVE FailuresFit'
  <2>1. CASE UNCHANGED <<status, failure>>
    BY <1>1, <2>1
  <2>2. CASE /\ status[r] = "running" /\ Stop({r} \cap {q \in RunIds : Stoppable(q)})
             /\ failure' = [failure EXCEPT ![r] = "timeout"]
    BY <2>2, StopFits DEF IInv, TypeOK
  <2> QED
    BY <1>5, <2>1, <2>2 DEF Deadline, verdicts
<1>6. ASSUME NEW r \in RunIds, CallerTimeout(r) PROVE FailuresFit'
  BY <1>6, StopFits DEF CallerTimeout
<1>7. ASSUME NEW S \in SUBSET RunIds, CancelSet(S) PROVE FailuresFit'
  BY <1>7, StopFits DEF CancelSet
<1>8. ASSUME NEW r \in RunIds,
             \/ Spawned(r) \/ Fork(r) \/ LeaderExits(r) \/ ChildExits(r) \/ Reap(r)
             \/ HookReturns(r) \/ HardKill(r)
      PROVE  FailuresFit'
  BY <1>1, <1>8 DEF Spawned, Fork, LeaderExits, ChildExits, Reap, HookReturns, HardKill,
                    verdicts
<1>9. CASE Processes
  BY <1>8, <1>9 DEF Processes
<1>10. CASE EventLoop
  BY <1>3, <1>4, <1>5, <1>6, <1>8, <1>10 DEF EventLoop
<1>11. CASE Requests
  BY <1>2, <1>7, <1>11 DEF Requests, Cancel, CancelAll
<1>12. CASE UNCHANGED vars
  BY <1>1, <1>12 DEF vars, verdicts
<1> QED
  BY <1>9, <1>10, <1>11, <1>12 DEF Next

\* When a run is over its failure kind explains its verdict, whichever of an
\* exit, a cancellation, a deadline and a timeout came first.
THEOREM FailureExplained == Spec => []FailureExplains
<1>1. Init => FailuresFit
  BY DEF Init, FailuresFit, Fits
<1>2. IInv /\ FailuresFit => FailureExplains
  <2> SUFFICES ASSUME IInv, FailuresFit, NEW r \in RunIds, reader[r] = "done"
               PROVE  /\ status[r] = "succeeded" <=> failure[r] = "none"
                      /\ status[r] = "failed" <=> failure[r] = "exit_nonzero"
                      /\ status[r] = "cancelled" <=> failure[r] \in {"cancelled", "timeout"}
    BY DEF FailureExplains
  <2>1. status[r] \in {"succeeded", "failed", "cancelled"}
    BY DEF IInv, RunOK
  <2> QED
    BY <2>1 DEF FailuresFit, Fits
<1> QED
  BY <1>1, <1>2, FailureStep, RunnerInvariance, PTL DEF Spec
=============================================================================
