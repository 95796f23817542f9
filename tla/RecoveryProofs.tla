--------------------------- MODULE RecoveryProofs ---------------------------
(* Proofs about Recovery, for every number of tasks, steps, items, sequences *)
(* and runs, every plan, and every number of crashes and heals.              *)
EXTENDS Recovery, TLAPS

LEMMA PlanSteps == Len(Plan) \in Nat /\ \A k \in 1..Len(Plan) : Plan[k] \in Steps
BY StoreAssumption

LEMMA RecoveryInit == Init => IInv
<1> SUFFICES ASSUME Init PROVE IInv
  OBVIOUS
<1> USE StoreAssumption DEF Init, Items, Runs, Coroutines
<1>1. DurableTypes /\ RunTypes
  BY DEF DurableTypes, RunTypes, ItemStatuses, RowStatuses, StepStatuses, SequenceStatuses
<1>2. FrameTypes /\ ServerTypes
  BY PlanSteps DEF FrameTypes, ServerTypes
<1>3. Fits
  BY DEF Fits, Alive, Working, Dispatcher
<1>4. RecordsFit /\ FramesFit
  BY DEF RecordsFit, FramesFit, Working, Verdicts
<1>5. FilesFit
  BY DEF FilesFit, RowsFit, StepsFit, ItemsFit, SequencesFit
<1>6. SuccessIsReal
  BY DEF SuccessIsReal
<1> QED
  BY <1>1, <1>2, <1>3, <1>4, <1>5, <1>6 DEF IInv, TypeOK

\* A part of the invariant holds on while what it speaks of does not change.
LEMMA Undisturbed ==
  ASSUME IInv
  PROVE  /\ UNCHANGED durable => DurableTypes'
         /\ UNCHANGED runVars => RunTypes' /\ RecordsFit'
         /\ UNCHANGED frameVars => FrameTypes'
         /\ UNCHANGED server => ServerTypes'
         /\ UNCHANGED <<phase, recovery, pc, proc, cued, seqTask, at>> => Fits'
         /\ UNCHANGED <<cRun, pc, proc, verdict, started>> => FramesFit'
         /\ UNCHANGED <<row, proc, phase, recovery>> => RowsFit'
         /\ UNCHANGED <<stepStatus, stepRun, runTask, runStep, proc, phase>> => StepsFit'
         /\ UNCHANGED <<item, itemRun, proc, phase, recovery>> => ItemsFit'
         /\ UNCHANGED <<sequence, raised, phase, pc, seqTask>> => SequencesFit'
         /\ UNCHANGED <<row, item, itemRun, stepStatus, stepRun, verdict>> => SuccessIsReal'
<1> USE DEF IInv, FilesFit, TypeOK, durable, runVars, frameVars, server
<1>1. UNCHANGED durable => DurableTypes'
  BY DEF DurableTypes
<1>2. UNCHANGED runVars => RunTypes' /\ RecordsFit'
  BY DEF RunTypes, RecordsFit
<1>3. UNCHANGED frameVars => FrameTypes'
  BY DEF FrameTypes
<1>4. UNCHANGED server => ServerTypes'
  BY DEF ServerTypes
<1>5. UNCHANGED <<phase, recovery, pc, proc, cued, seqTask, at>> => Fits'
  BY DEF Fits, Alive
<1>6. UNCHANGED <<cRun, pc, proc, verdict, started>> => FramesFit'
  BY DEF FramesFit
<1>7. UNCHANGED <<row, proc, phase, recovery>> => RowsFit'
  BY DEF RowsFit, InHand, Unsettled
<1>8. UNCHANGED <<stepStatus, stepRun, runTask, runStep, proc, phase>> => StepsFit'
  BY DEF StepsFit, Alive
<1>9. UNCHANGED <<item, itemRun, proc, phase, recovery>> => ItemsFit'
  BY DEF ItemsFit, Unsettled
<1>10. UNCHANGED <<sequence, raised, phase, pc, seqTask>> => SequencesFit'
  BY DEF SequencesFit, Alive
<1>11. UNCHANGED <<row, item, itemRun, stepStatus, stepRun, verdict>> => SuccessIsReal'
  BY DEF SuccessIsReal
<1> QED
  BY <1>1, <1>2, <1>3, <1>4, <1>5, <1>6, <1>7, <1>8, <1>9, <1>10, <1>11

-----------------------------------------------------------------------------
(* The simple steps.                                                       *)

\* What StepsFit says of one step of one task.
StepFits(t, s) ==
  /\ stepRun[t][s] # 0 => /\ runTask[stepRun[t][s]] = t /\ runStep[stepRun[t][s]] = s
                         /\ proc[stepRun[t][s]] # "none"
  /\ stepStatus[t][s] = "running" =>
       /\ stepRun[t][s] # 0
       /\ \/ proc[stepRun[t][s]] \in {"alive", "dying", "closing"}
          \/ proc[stepRun[t][s]] = "lost" /\ ~Alive

LEMMA EnqueueKeeps ==
  ASSUME IInv, NEW i \in Items, Enqueue(i)
  PROVE  IInv'
<1> USE DEF IInv, FilesFit, TypeOK, Items, Runs, Coroutines, durable, runVars, frameVars, server
<1>1. DurableTypes'
  BY DEF Enqueue, DurableTypes, ItemStatuses
<1>2. ItemsFit'
  BY DEF Enqueue, ItemsFit, Unsettled
<1>3. SuccessIsReal'
  BY DEF Enqueue, SuccessIsReal
<1> QED
  BY <1>1, <1>2, <1>3, Undisturbed DEF Enqueue

LEMMA WriteItemKeeps ==
  ASSUME IInv, WriteItem
  PROVE  IInv'
<1> USE DEF IInv, FilesFit, TypeOK, Items, Runs, Coroutines, durable, runVars, frameVars, server
<1>1. DurableTypes'
  BY DEF WriteItem, BackToIdle, DurableTypes, ItemStatuses, RunTypes, FrameTypes
<1>2. FrameTypes'
  BY DEF WriteItem, BackToIdle, FrameTypes, Writing
<1>3. Fits'
  BY DEF WriteItem, BackToIdle, Fits, Alive, Working, RunTypes, FrameTypes
<1>4. FramesFit'
  BY DEF WriteItem, BackToIdle, FramesFit, Working, RunTypes, FrameTypes
<1>5. ItemsFit'
  BY DEF WriteItem, ItemsFit, Unsettled, FramesFit, Working, RecordsFit, Verdicts,
     DurableTypes, RunTypes, FrameTypes
<1>6. SequencesFit'
  BY StoreAssumption DEF WriteItem, BackToIdle, SequencesFit, Dispatcher,
     FrameTypes
<1>7. SuccessIsReal'
  BY DEF WriteItem, BackToIdle, SuccessIsReal, DurableTypes, RunTypes, FrameTypes
<1> QED
  BY <1>1, <1>2, <1>3, <1>4, <1>5, <1>6, <1>7, Undisturbed DEF WriteItem,
     BackToIdle

LEMMA StartSequenceKeeps ==
  ASSUME IInv, NEW c \in Sequences, NEW t \in Tasks, StartSequence(c, t)
  PROVE  IInv'
<1> USE DEF IInv, FilesFit, TypeOK, Items, Runs, Coroutines, durable, runVars, frameVars, server
<1>1. DurableTypes'
  BY DEF StartSequence, DurableTypes, SequenceStatuses
<1>2. FrameTypes'
  BY DEF StartSequence, FrameTypes, Writing
<1>3. Fits'
  BY StoreAssumption DEF StartSequence, Fits, Alive, Working, Loop, Dispatcher,
     FrameTypes
<1>4. FramesFit'
  BY DEF StartSequence, FramesFit, Working
<1>5. SequencesFit'
  BY DEF StartSequence, SequencesFit, Alive, RunTypes, FrameTypes
<1> QED
  BY <1>1, <1>2, <1>3, <1>4, <1>5, Undisturbed DEF StartSequence

LEMMA BeginSequenceKeeps ==
  ASSUME IInv, NEW c \in Sequences, BeginSequence(c)
  PROVE  IInv'
<1> USE DEF IInv, FilesFit, TypeOK, Items, Runs, Coroutines, durable, runVars, frameVars, server
<1>1. FrameTypes'
  BY DEF BeginSequence, FrameTypes, Fits
<1>2. Fits'
  BY DEF BeginSequence, Fits, Alive, Working
<1>3. FramesFit'
  BY DEF BeginSequence, FramesFit, Working
<1>4. SequencesFit'
  BY DEF BeginSequence, SequencesFit, Alive
<1> QED
  BY <1>1, <1>2, <1>3, <1>4, Undisturbed DEF BeginSequence

LEMMA PrecheckDoneKeeps ==
  ASSUME IInv, NEW c \in Sequences, PrecheckDone(c)
  PROVE  IInv'
<1> USE DEF IInv, FilesFit, TypeOK, Items, Runs, Coroutines, durable, runVars, frameVars, server
<1>1. FrameTypes'
  BY DEF PrecheckDone, FrameTypes, Writing
<1>2. Fits'
  BY DEF PrecheckDone, Fits, Alive, Working, RunTypes, FrameTypes
<1>3. FramesFit'
  BY DEF PrecheckDone, FramesFit, Working
<1>4. SequencesFit'
  BY DEF PrecheckDone, SequencesFit, Alive
<1> QED
  BY <1>1, <1>2, <1>3, <1>4, Undisturbed DEF PrecheckDone

LEMMA RaiseKeeps ==
  ASSUME IInv, NEW c \in Sequences, Raise(c)
  PROVE  IInv'
<1> USE DEF IInv, FilesFit, TypeOK, Items, Runs, Coroutines, durable, runVars, frameVars, server
<1>1. FrameTypes'
  BY DEF Raise, Ended, FrameTypes, Fits, Writing
<1>2. Fits'
  BY DEF Raise, Ended, Fits, Alive, Working, RunTypes, FrameTypes
<1>3. FramesFit'
  BY DEF Raise, Ended, FramesFit, Working, RunTypes, FrameTypes
<1>4. SequencesFit'
  BY DEF Raise, Ended, SequencesFit, Alive
<1> QED
  BY <1>1, <1>2, <1>3, <1>4, Undisturbed DEF Raise, Ended

LEMMA SpawnedKeeps ==
  ASSUME IInv, NEW c \in Coroutines, Spawned(c)
  PROVE  IInv'
<1> USE DEF IInv, FilesFit, TypeOK, Items, Runs, Coroutines, durable, runVars, frameVars, server
<1>1. RunTypes'
  BY DEF Spawned, RunTypes, Verdicts
<1>2. FrameTypes'
  BY DEF Spawned, FrameTypes, Writing
<1>3. Fits'
  BY DEF Spawned, Fits, Alive, Working
<1>4. RecordsFit'
  BY StoreAssumption DEF Spawned, RecordsFit, FramesFit, Working, Verdicts,
     RunTypes, FrameTypes
<1>5. FramesFit'
  BY StoreAssumption DEF Spawned, RecordsFit, FramesFit, Working, Loop, Quiet,
     Writing, Verdicts, RunTypes, FrameTypes
<1>6. RowsFit'
  BY DEF Spawned, RowsFit, InHand, Unsettled, FramesFit, Working, RunTypes,
     FrameTypes
<1>7. StepsFit'
  <2>1. proc[cRun[c]] = "spawning" /\ cRun[c] \in Runs
    BY DEF Spawned, FramesFit, Working, FrameTypes
  <2>2. ASSUME NEW r \in Runs, r # cRun[c] PROVE proc'[r] = proc[r]
    BY <2>2 DEF Spawned, RunTypes
  <2>3. proc'[cRun[c]] \in {"alive", "over"}
    BY <2>1 DEF Spawned, RunTypes
  <2> SUFFICES ASSUME NEW t \in Tasks, NEW s \in Steps PROVE StepFits(t, s)'
    BY DEF StepsFit, StepFits
  <2>4. stepRun[t][s] \in Runs \cup {0} /\ StepFits(t, s)
    BY DEF DurableTypes, StepsFit, StepFits
  <2>5. UNCHANGED <<stepStatus, stepRun, runTask, runStep, phase>>
    BY DEF Spawned
  <2>6. CASE stepRun[t][s] = cRun[c]
    BY <2>1, <2>3, <2>4, <2>5, <2>6 DEF StepFits
  <2>7. CASE stepRun[t][s] # cRun[c]
    BY <2>2, <2>4, <2>5, <2>7 DEF StepFits, Alive
  <2> QED
    BY <2>6, <2>7
<1>8. ItemsFit'
  BY DEF Spawned, ItemsFit, Unsettled, DurableTypes, RunTypes, FrameTypes
<1>9. SequencesFit'
  BY DEF Spawned, SequencesFit, Alive
<1>10. SuccessIsReal'
  BY StoreAssumption DEF Spawned, SuccessIsReal, RecordsFit, FramesFit, Working,
     Verdicts, DurableTypes, RunTypes, FrameTypes
<1> QED
  BY <1>1, <1>2, <1>3, <1>4, <1>5, <1>6, <1>7, <1>8, <1>9, <1>10, Undisturbed
     DEF Spawned

LEMMA WriteStepKeeps ==
  ASSUME IInv, NEW c \in Coroutines, WriteStep(c)
  PROVE  IInv'
<1> USE DEF IInv, FilesFit, TypeOK, Items, Runs, Coroutines, durable, runVars, frameVars, server
<1>1. DurableTypes'
  BY DEF WriteStep, DurableTypes, StepStatuses, Verdicts, FramesFit, RecordsFit,
     Working, RunTypes, FrameTypes
<1>2. FrameTypes'
  BY DEF WriteStep, FrameTypes, Writing
<1>3. Fits'
  BY DEF WriteStep, Fits, Alive, Working
<1>4. FramesFit'
  BY DEF WriteStep, FramesFit, Working
<1>5. StepsFit'
  <2> DEFINE r == cRun[c]
             t0 == runTask[r]
             s0 == runStep[r]
  <2>1. /\ r \in Runs /\ t0 \in Tasks /\ s0 \in Steps
        /\ proc[r] = "alive" \/ verdict[r] = "error"
    BY StoreAssumption DEF WriteStep, FramesFit, RecordsFit, Working, RunTypes, FrameTypes, Verdicts
  <2> SUFFICES ASSUME NEW t \in Tasks, NEW s \in Steps PROVE StepFits(t, s)'
    BY DEF StepsFit, StepFits
  <2>2. CASE t = t0 /\ s = s0 /\ verdict[r] # "error"
    <3>1. stepStatus'[t][s] = "running" /\ stepRun'[t][s] = r
      BY <2>1, <2>2 DEF WriteStep, DurableTypes
    <3> QED
      BY <2>1, <2>2, <3>1 DEF WriteStep, StepFits, RunTypes
  <2>3. CASE t = t0 /\ s = s0 /\ verdict[r] = "error"
    <3>1. stepStatus'[t][s] = "error" /\ stepRun'[t][s] = stepRun[t][s]
      BY <2>1, <2>3 DEF WriteStep, DurableTypes
    <3> QED
      BY <3>1 DEF WriteStep, StepFits, StepsFit
  <2>4. CASE t # t0 \/ s # s0
    <3>1. stepStatus'[t][s] = stepStatus[t][s] /\ stepRun'[t][s] = stepRun[t][s]
      BY <2>1, <2>4 DEF WriteStep, DurableTypes
    <3> QED
      BY <3>1 DEF WriteStep, StepFits, StepsFit, Alive
  <2> QED
    BY <2>2, <2>3, <2>4
<1>6. SequencesFit'
  BY DEF WriteStep, SequencesFit, Alive
<1>7. SuccessIsReal'
  BY DEF WriteStep, SuccessIsReal, DurableTypes, RunTypes, FrameTypes
<1> QED
  BY <1>1, <1>2, <1>3, <1>4, <1>5, <1>6, <1>7, Undisturbed DEF WriteStep

LEMMA ExitKeeps ==
  ASSUME IInv, NEW r \in Runs, Exit(r)
  PROVE  IInv'
<1> USE DEF IInv, FilesFit, TypeOK, Items, Runs, Coroutines, durable, runVars, frameVars, server
<1>1. RunTypes'
  BY DEF Exit, RunTypes, Verdicts
<1>2. Fits'
  BY DEF Exit, Fits, Alive, Working
<1>3. RecordsFit'
  BY StoreAssumption DEF Exit, RecordsFit, Verdicts, RunTypes
<1>4. FramesFit'
  BY DEF Exit, FramesFit, RecordsFit, Loop, Quiet, Writing, RunTypes, FrameTypes
<1>5. RowsFit'
  BY DEF Exit, RowsFit, InHand, Unsettled
<1>6. StepsFit'
  BY DEF Exit, StepsFit, Alive
<1>7. ItemsFit'
  BY DEF Exit, ItemsFit, Unsettled
<1>8. SuccessIsReal'
  BY StoreAssumption DEF Exit, SuccessIsReal, RecordsFit, Verdicts, DurableTypes,
     RunTypes
<1> QED
  BY <1>1, <1>2, <1>3, <1>4, <1>5, <1>6, <1>7, <1>8, Undisturbed DEF Exit

LEMMA CancelKeeps ==
  ASSUME IInv, NEW r \in Runs, Cancel(r)
  PROVE  IInv'
<1> USE DEF IInv, FilesFit, TypeOK, Items, Runs, Coroutines, durable, runVars, frameVars, server
<1>1. RunTypes'
  BY DEF Cancel, RunTypes, Verdicts
<1>2. Fits'
  BY DEF Cancel, Fits, Alive, Working
<1>3. RecordsFit'
  BY StoreAssumption DEF Cancel, RecordsFit, Verdicts, RunTypes
<1>4. FramesFit'
  BY DEF Cancel, FramesFit, RecordsFit, Loop, Quiet, Writing, RunTypes, FrameTypes
<1>5. RowsFit'
  BY DEF Cancel, RowsFit, InHand, Unsettled
<1>6. StepsFit'
  BY DEF Cancel, StepsFit, Alive
<1>7. ItemsFit'
  BY DEF Cancel, ItemsFit, Unsettled
<1>8. SuccessIsReal'
  BY StoreAssumption DEF Cancel, SuccessIsReal, RecordsFit, Verdicts, DurableTypes,
     RunTypes
<1> QED
  BY <1>1, <1>2, <1>3, <1>4, <1>5, <1>6, <1>7, <1>8, Undisturbed DEF Cancel

LEMMA DiedKeeps ==
  ASSUME IInv, NEW r \in Runs, Died(r)
  PROVE  IInv'
<1> USE DEF IInv, FilesFit, TypeOK, Items, Runs, Coroutines, durable, runVars, frameVars, server
<1>1. RunTypes'
  BY DEF Died, RunTypes
<1>2. Fits'
  BY DEF Died, Fits, Alive, Working
<1>3. RecordsFit'
  BY DEF Died, RecordsFit
<1>4. FramesFit'
  BY DEF Died, FramesFit, Working
<1>5. RowsFit'
  BY DEF Died, RowsFit, InHand, Unsettled
<1>6. StepsFit'
  BY DEF Died, StepsFit, Alive
<1>7. ItemsFit'
  BY DEF Died, ItemsFit, Unsettled
<1> QED
  BY <1>1, <1>2, <1>3, <1>4, <1>5, <1>6, <1>7, Undisturbed DEF Died

LEMMA HookStepKeeps ==
  ASSUME IInv, NEW r \in Runs, HookStep(r)
  PROVE  IInv'
<1> USE DEF IInv, FilesFit, TypeOK, Items, Runs, Coroutines, durable, runVars, frameVars, server
<1>1. DurableTypes'
  BY DEF HookStep, DurableTypes, StepStatuses, Verdicts, RecordsFit, RunTypes
<1>2. RunTypes'
  BY DEF HookStep, RunTypes
<1>3. Fits'
  BY DEF HookStep, Fits, Alive, Working
<1>4. RecordsFit'
  BY DEF HookStep, RecordsFit
<1>5. FramesFit'
  BY DEF HookStep, FramesFit, Working
<1>6. RowsFit'
  BY DEF HookStep, RowsFit, InHand, Unsettled
<1>7. StepsFit'
  <2>1. runTask[r] \in Tasks /\ runStep[r] \in Steps /\ verdict[r] # None
    BY DEF HookStep, RecordsFit, RunTypes
  <2> SUFFICES ASSUME NEW t \in Tasks, NEW s \in Steps PROVE StepFits(t, s)'
    BY DEF StepsFit, StepFits
  <2>2. CASE t = runTask[r] /\ s = runStep[r]
    <3>1. stepStatus'[t][s] = verdict[r] /\ stepRun'[t][s] = r
      BY <2>1, <2>2 DEF HookStep, DurableTypes
    <3> QED
      BY <2>1, <2>2, <3>1 DEF HookStep, StepFits, RunTypes, Verdicts
  <2>3. CASE t # runTask[r] \/ s # runStep[r]
    <3>1. stepStatus'[t][s] = stepStatus[t][s] /\ stepRun'[t][s] = stepRun[t][s]
      BY <2>1, <2>3 DEF HookStep, DurableTypes
    <3>2. stepRun[t][s] # r
      BY <2>3 DEF StepsFit
    <3> QED
      BY <3>1, <3>2 DEF HookStep, StepFits, StepsFit, Alive, RunTypes
  <2> QED
    BY <2>2, <2>3
<1>8. ItemsFit'
  BY DEF HookStep, ItemsFit, Unsettled
<1>9. SuccessIsReal'
  BY DEF HookStep, SuccessIsReal, DurableTypes, RunTypes, FrameTypes
<1> QED
  BY <1>1, <1>2, <1>3, <1>4, <1>5, <1>6, <1>7, <1>8, <1>9, Undisturbed DEF HookStep

LEMMA HookRowKeeps ==
  ASSUME IInv, NEW r \in Runs, HookRow(r)
  PROVE  IInv'
<1> USE DEF IInv, FilesFit, TypeOK, Items, Runs, Coroutines, durable, runVars, frameVars, server
<1>1. DurableTypes'
  BY DEF HookRow, DurableTypes, RowStatuses, Verdicts, RecordsFit, RunTypes
<1>2. RunTypes'
  BY DEF HookRow, RunTypes
<1>3. Fits'
  BY DEF HookRow, Fits, Alive, Working
<1>4. RecordsFit'
  BY DEF HookRow, RecordsFit
<1>5. FramesFit'
  BY DEF HookRow, FramesFit, Working
<1>6. RowsFit'
  BY DEF HookRow, RowsFit, InHand, Unsettled, RecordsFit, RunTypes, DurableTypes,
     Verdicts
<1>7. StepsFit'
  BY DEF HookRow, StepsFit, Alive
<1>8. ItemsFit'
  BY DEF HookRow, ItemsFit, Unsettled
<1>9. SuccessIsReal'
  BY DEF HookRow, SuccessIsReal
<1> QED
  BY <1>1, <1>2, <1>3, <1>4, <1>5, <1>6, <1>7, <1>8, <1>9, Undisturbed DEF HookRow

LEMMA GoDownKeeps ==
  ASSUME IInv, GoDown
  PROVE  IInv'
<1> USE DEF IInv, FilesFit, TypeOK, Items, Runs, Coroutines, durable, runVars, frameVars, server
<1>1. RunTypes'
  BY DEF GoDown, RunTypes, Verdicts
<1>2. FrameTypes'
  BY DEF GoDown, FrameTypes, Writing
<1>3. ServerTypes'
  BY StoreAssumption DEF GoDown, ServerTypes
<1>4. Fits'
  BY DEF GoDown, Fits, Alive, Working
<1>5. RecordsFit'
  BY StoreAssumption DEF GoDown, RecordsFit, Verdicts, RunTypes
<1>6. FramesFit'
  BY DEF GoDown, FramesFit, Working, RunTypes, FrameTypes
<1>7. RowsFit'
  BY DEF GoDown, RowsFit, InHand, Unsettled
<1>8. StepsFit'
  BY DEF GoDown, StepsFit, Alive, DurableTypes, RunTypes, FrameTypes
<1>9. ItemsFit'
  BY DEF GoDown, ItemsFit, Unsettled, DurableTypes, RunTypes, FrameTypes
<1>10. SequencesFit'
  BY DEF GoDown, SequencesFit, Alive
<1>11. SuccessIsReal'
  BY DEF GoDown, SuccessIsReal
<1> QED
  BY <1>1, <1>2, <1>3, <1>4, <1>5, <1>6, <1>7, <1>8, <1>9, <1>10, <1>11,
     Undisturbed DEF GoDown

LEMMA ShutdownKeeps ==
  ASSUME IInv, Shutdown
  PROVE  IInv'
<1> USE DEF IInv, FilesFit, TypeOK, Items, Runs, Coroutines, durable, runVars, frameVars, server
<1>1. RunTypes'
  BY DEF Shutdown, BackToIdle, RunTypes, Verdicts
<1>2. FrameTypes'
  BY DEF Shutdown, BackToIdle, FrameTypes, Writing
<1>3. ServerTypes'
  BY DEF Shutdown, BackToIdle, ServerTypes
<1>4. Fits'
  BY DEF Shutdown, BackToIdle, Fits, Alive, Working, FrameTypes
<1>5. RecordsFit'
  BY StoreAssumption DEF Shutdown, RecordsFit, FramesFit, Verdicts, RunTypes,
     FrameTypes
<1>6. FramesFit'
  BY DEF Shutdown, BackToIdle, FramesFit, RecordsFit, Working, Loop, Quiet,
     Writing, RunTypes, FrameTypes
<1>7. RowsFit'
  BY DEF Shutdown, BackToIdle, RowsFit, InHand, Unsettled
<1>8. StepsFit'
  BY DEF Shutdown, BackToIdle, StepsFit, Alive, DurableTypes, RunTypes, FrameTypes
<1>9. ItemsFit'
  BY DEF Shutdown, BackToIdle, ItemsFit, Unsettled, DurableTypes, RunTypes,
     FrameTypes
<1>10. SequencesFit'
  BY StoreAssumption DEF Shutdown, BackToIdle, SequencesFit, Alive, Loop,
     Dispatcher, FrameTypes
<1>11. SuccessIsReal'
  BY StoreAssumption DEF Shutdown, SuccessIsReal, RecordsFit, Verdicts,
     DurableTypes, RunTypes
<1> QED
  BY <1>1, <1>2, <1>3, <1>4, <1>5, <1>6, <1>7, <1>8, <1>9, <1>10, <1>11,
     Undisturbed DEF Shutdown, BackToIdle

LEMMA RestartKeeps ==
  ASSUME IInv, Restart
  PROVE  IInv'
<1> USE DEF IInv, FilesFit, TypeOK, Items, Runs, Coroutines, durable, runVars, frameVars, server
<1>1. ServerTypes'
  BY DEF Restart, ServerTypes
<1>2. Fits'
  BY DEF Restart, Fits, Alive, Working
<1>3. RowsFit'
  BY DEF Restart, RowsFit, InHand, Unsettled
<1>4. StepsFit'
  BY DEF Restart, StepsFit, Alive
<1>5. ItemsFit'
  BY DEF Restart, ItemsFit, Unsettled
<1>6. SequencesFit'
  BY DEF Restart, SequencesFit, Alive
<1> QED
  BY <1>1, <1>2, <1>3, <1>4, <1>5, <1>6, Undisturbed DEF Restart

LEMMA HealKeeps ==
  ASSUME IInv, Heal
  PROVE  IInv'
<1> USE DEF IInv, FilesFit, TypeOK, Items, Runs, Coroutines, durable, runVars, frameVars, server
<1>1. ServerTypes'
  BY StoreAssumption DEF Heal, ServerTypes
<1>2. Fits'
  BY DEF Heal, Fits, Alive, Working
<1>3. RowsFit'
  BY DEF Heal, RowsFit, InHand, Unsettled
<1>4. ItemsFit'
  BY DEF Heal, ItemsFit, Unsettled
<1> QED
  BY <1>1, <1>2, <1>3, <1>4, Undisturbed DEF Heal

LEMMA RecoverRowsKeeps ==
  ASSUME IInv, RecoverRows
  PROVE  IInv'
<1> USE DEF IInv, FilesFit, TypeOK, Items, Runs, Coroutines, durable, runVars, frameVars, server
<1>1. DurableTypes'
  BY DEF RecoverRows, Managed, DurableTypes, RowStatuses, Verdicts
<1>2. ServerTypes'
  BY DEF RecoverRows, Managed, ServerTypes
<1>3. Fits'
  BY DEF RecoverRows, Managed, Fits, Alive, Working
<1>4. RowsFit'
  BY DEF RecoverRows, Managed, RowsFit, InHand, Unsettled
<1>5. ItemsFit'
  BY DEF RecoverRows, Managed, ItemsFit, Unsettled
<1>6. SuccessIsReal'
  BY DEF RecoverRows, Managed, SuccessIsReal
<1> QED
  BY <1>1, <1>2, <1>3, <1>4, <1>5, <1>6, Undisturbed DEF RecoverRows

LEMMA RecoverItemsKeeps ==
  ASSUME IInv, RecoverItems
  PROVE  IInv'
<1> USE DEF IInv, FilesFit, TypeOK, Items, Runs, Coroutines, durable, runVars, frameVars, server
<1>1. DurableTypes'
  BY DEF RecoverItems, DurableTypes, ItemStatuses
<1>2. ServerTypes'
  BY DEF RecoverItems, ServerTypes
<1>3. Fits'
  BY DEF RecoverItems, Fits, Alive, Working
<1>4. RowsFit'
  BY DEF RecoverItems, RowsFit, InHand, Unsettled
<1>5. ItemsFit'
  BY DEF RecoverItems, ItemsFit, Unsettled
<1>6. SuccessIsReal'
  BY DEF RecoverItems, SuccessIsReal
<1> QED
  BY <1>1, <1>2, <1>3, <1>4, <1>5, <1>6, Undisturbed DEF RecoverItems

LEMMA RecoverTasksKeeps ==
  ASSUME IInv, RecoverTasks
  PROVE  IInv'
<1> USE DEF IInv, FilesFit, TypeOK, Items, Runs, Coroutines, durable, runVars, frameVars, server
<1>1. DurableTypes'
  BY DEF RecoverTasks, Managed, DurableTypes, StepStatuses, SequenceStatuses,
     Verdicts
<1>2. ServerTypes'
  BY DEF RecoverTasks, Managed, ServerTypes
<1>3. Fits'
  BY DEF RecoverTasks, Managed, Fits, Alive, Working
<1>4. RowsFit'
  BY DEF RecoverTasks, Managed, RowsFit, InHand, Unsettled
<1>5. StepsFit'
  BY DEF RecoverTasks, Managed, StepsFit, Alive
<1>6. ItemsFit'
  BY DEF RecoverTasks, Managed, ItemsFit, Unsettled
<1>7. SequencesFit'
  BY DEF RecoverTasks, Managed, SequencesFit, Alive
<1>8. SuccessIsReal'
  BY DEF RecoverTasks, Managed, SuccessIsReal
<1> QED
  BY <1>1, <1>2, <1>3, <1>4, <1>5, <1>6, <1>7, <1>8, Undisturbed DEF RecoverTasks

-----------------------------------------------------------------------------
(* The turns of the full sequence and of run_step.                         *)

\* The end of a sequence: nobody else's task loses the sequence at its work.
LEMMA FinishFits ==
  ASSUME IInv, NEW c \in Sequences, pc[c] \notin {"idle", "ended"},
         NEW status \in SequenceStatuses \ {"running"}, Finish(c, status),
         UNCHANGED <<proc, verdict, runTask, runStep, started, cued, raised, server>>
  PROVE  /\ sequence' \in [Tasks -> SequenceStatuses]
         /\ FrameTypes' /\ Fits' /\ FramesFit' /\ SequencesFit'
<1> USE DEF IInv, FilesFit, TypeOK, Items, Runs, Coroutines, server
<1>1. sequence' \in [Tasks -> SequenceStatuses]
  BY DEF Finish, DurableTypes
<1>2. FrameTypes'
  BY DEF Finish, Ended, FrameTypes
<1>3. Fits'
  BY StoreAssumption DEF Finish, Ended, Fits, Alive, Working, Dispatcher, FrameTypes
<1>4. FramesFit'
  BY DEF Finish, Ended, FramesFit, Working, RunTypes, FrameTypes
<1>5. SequencesFit'
  <2> SUFFICES ASSUME NEW t \in Tasks \ raised, Alive, sequence'[t] = "running"
               PROVE  \E d \in Sequences : seqTask'[d] = t /\ pc'[d] \notin {"idle", "ended"}
    BY DEF SequencesFit, Alive
  <2>1. seqTask[c] \in Tasks /\ t # seqTask[c] /\ sequence[t] = "running"
    BY DEF Fits, Finish, DurableTypes
  <2>2. PICK d \in Sequences : seqTask[d] = t /\ pc[d] \notin {"idle", "ended"}
    BY <2>1 DEF SequencesFit
  <2>3. d # c
    BY <2>1, <2>2
  <2> QED
    BY <2>2, <2>3 DEF Finish, Ended, FrameTypes
<1> QED
  BY <1>1, <1>2, <1>3, <1>4, <1>5

\* ... and when nothing else changes.
LEMMA FinishKeeps ==
  ASSUME IInv, NEW c \in Sequences, pc[c] \notin {"idle", "ended"},
         NEW status \in SequenceStatuses \ {"running"}, Finish(c, status),
         UNCHANGED <<item, itemRun, row, stepRun, runVars, cued, raised, server>>
  PROVE  IInv'
<1>1. /\ sequence' \in [Tasks -> SequenceStatuses]
      /\ FrameTypes' /\ Fits' /\ FramesFit' /\ SequencesFit'
  BY FinishFits DEF runVars
<1>2. DurableTypes'
  BY <1>1 DEF IInv, TypeOK, DurableTypes, Finish
<1> QED
  BY <1>1, <1>2, Undisturbed DEF IInv, TypeOK, FilesFit, Finish, runVars, server

LEMMA SkipKeeps ==
  ASSUME IInv, NEW c \in Sequences, pc[c] = "next", at[c] <= Len(Plan),
         NEW status \in {"skipped_budget", "provider_missing"}, SkipStep(c, status),
         sequence' \in {sequence, [sequence EXCEPT ![seqTask[c]] = "running"]},
         UNCHANGED <<item, itemRun, row, stepRun, runVars, cued, raised, server>>
  PROVE  IInv'
<1> USE DEF IInv, FilesFit, TypeOK, Items, Runs, Coroutines, runVars, server
<1>0. seqTask[c] \in Tasks /\ at[c] \in 1..Len(Plan) /\ Plan[at[c]] \in Steps
  BY PlanSteps DEF Fits, FrameTypes
<1>1. DurableTypes'
  BY <1>0 DEF SkipStep, DurableTypes, StepStatuses, SequenceStatuses
<1>2. FrameTypes'
  BY <1>0, PlanSteps DEF SkipStep, FrameTypes
<1>3. Fits'
  BY <1>0, PlanSteps DEF SkipStep, Fits, Alive, Working, FrameTypes
<1>4. \A t \in Tasks, s \in Steps : stepStatus'[t][s] \in {stepStatus[t][s], status}
  BY <1>0 DEF SkipStep, DurableTypes
<1>5. StepsFit'
  BY <1>4 DEF SkipStep, StepsFit, Alive
<1>6. SequencesFit'
  <2>1. UNCHANGED <<pc, seqTask, raised>> /\ Alive' = Alive
    BY DEF SkipStep, Alive
  <2>2. \A t \in Tasks : t # seqTask[c] => sequence'[t] = sequence[t]
    BY <1>0 DEF DurableTypes
  <2>3. pc[c] \notin {"idle", "ended"}
    OBVIOUS
  <2>4. \A t \in Tasks \ raised : (Alive /\ sequence[t] = "running") =>
          \E d \in Sequences : seqTask[d] = t /\ pc[d] \notin {"idle", "ended"}
    BY DEF SequencesFit
  <2> QED
    BY ONLY <2>1, <2>2, <2>3, <2>4, <1>0, c \in Sequences DEF SequencesFit
<1>7. SuccessIsReal'
  BY <1>4 DEF SkipStep, SuccessIsReal
<1> QED
  BY <1>1, <1>2, <1>3, <1>5, <1>6, <1>7, Undisturbed DEF SkipStep

LEMMA NextStepKeeps ==
  ASSUME IInv, NEW c \in Sequences, NextStep(c)
  PROVE  IInv'
<1> DEFINE step == Plan[at[c]]
<1>1. CASE step \in Skippable /\ SkipStep(c, "skipped_budget") /\ UNCHANGED sequence
  BY <1>1, SkipKeeps DEF NextStep
<1>2. ASSUME NEW status \in {"blocked", "stopped"}, Finish(c, status) PROVE IInv'
  BY <1>2, FinishKeeps DEF NextStep, SequenceStatuses
<1>3. CASE /\ sequence' = [sequence EXCEPT ![seqTask[c]] = "running"]
           /\ SkipStep(c, "provider_missing")
  BY <1>3, SkipKeeps DEF NextStep
<1>4. CASE /\ sequence' = [sequence EXCEPT ![seqTask[c]] = "running"]
           /\ pc' = [pc EXCEPT ![c] = "git"]
           /\ UNCHANGED <<stepStatus, cRun, seqTask, at, marks>>
  <2> USE DEF IInv, FilesFit, TypeOK, Items, Runs, Coroutines, runVars, server
  <2>1. DurableTypes'
    BY <1>4 DEF NextStep, DurableTypes, SequenceStatuses
  <2>2. FrameTypes'
    BY <1>4 DEF NextStep, FrameTypes
  <2>3. Fits'
    BY <1>4, StoreAssumption DEF NextStep, Fits, Alive, Working, Dispatcher, FrameTypes
  <2>4. FramesFit'
    BY <1>4 DEF NextStep, FramesFit, Working, FrameTypes
  <2>5. SequencesFit'
    BY <1>4 DEF NextStep, SequencesFit, Alive, DurableTypes, FrameTypes
  <2> QED
    BY <1>4, <2>1, <2>2, <2>3, <2>4, <2>5, Undisturbed DEF NextStep
<1> QED
  BY <1>1, <1>2, <1>3, <1>4 DEF NextStep

LEMMA CompleteSequenceKeeps ==
  ASSUME IInv, NEW c \in Sequences, CompleteSequence(c)
  PROVE  IInv'
BY FinishKeeps DEF CompleteSequence, SequenceStatuses

LEMMA AwaitRunKeeps ==
  ASSUME IInv, NEW c \in Sequences, AwaitRun(c)
  PROVE  IInv'
<1>1. CASE Finish(c, "stopped")
  BY <1>1, FinishKeeps DEF AwaitRun, SequenceStatuses
<1>2. CASE /\ pc' = [pc EXCEPT ![c] = "next"] /\ at' = [at EXCEPT ![c] = @ + 1]
           /\ UNCHANGED <<sequence, stepStatus, cRun, seqTask, marks>>
  <2> USE DEF IInv, FilesFit, TypeOK, Items, Runs, Coroutines, durable, runVars, server
  <2>0. seqTask[c] \in Tasks /\ at[c] \in 1..Len(Plan) /\ c # Dispatcher
    BY StoreAssumption, PlanSteps DEF AwaitRun, Fits, FrameTypes, Working
  <2>1. FrameTypes'
    BY <1>2, <2>0, PlanSteps DEF AwaitRun, FrameTypes, Writing
  <2>2. Fits'
    BY <1>2, <2>0, PlanSteps DEF AwaitRun, Fits, Alive, Working, FrameTypes
  <2>3. FramesFit'
    BY <1>2 DEF AwaitRun, FramesFit, Working, FrameTypes
  <2>4. SequencesFit'
    BY <1>2 DEF AwaitRun, SequencesFit, Alive, FrameTypes
  <2> QED
    BY <1>2, <2>1, <2>2, <2>3, <2>4, Undisturbed DEF AwaitRun
<1> QED
  BY <1>1, <1>2 DEF AwaitRun

\* The second look at the lane: it is taken, or a record is made.
LEMMA GitDoneKeeps ==
  ASSUME IInv, NEW c \in Coroutines, GitDone(c)
  PROVE  IInv'
<1>1. CASE c # Dispatcher /\ Finish(c, "stopped") /\ UNCHANGED <<item, cued, runVars>>
  BY <1>1, FinishKeeps DEF GitDone, SequenceStatuses, Coroutines
<1> USE DEF IInv, FilesFit, TypeOK, Items, Runs, Coroutines, runVars, server
<1>2. CASE /\ c = Dispatcher /\ item' = [item EXCEPT ![cued] = "failed"] /\ BackToIdle
           /\ UNCHANGED <<sequence, marks, stepStatus, at, seqTask, runVars>>
  <2>1. DurableTypes'
    BY <1>2 DEF GitDone, DurableTypes, ItemStatuses
  <2>2. FrameTypes'
    BY <1>2 DEF GitDone, BackToIdle, FrameTypes
  <2>3. Fits'
    BY <1>2, StoreAssumption DEF GitDone, BackToIdle, Fits, Alive, Working, FrameTypes
  <2>4. FramesFit'
    <3>1. cRun' = [cRun EXCEPT ![Dispatcher] = 0] /\ pc' = [pc EXCEPT ![Dispatcher] = "idle"]
      BY <1>2 DEF BackToIdle
    <3>2. UNCHANGED <<proc, verdict, started>> /\ started \in Nat
      BY <1>2 DEF RunTypes
    <3> QED
      BY <3>1, <3>2 DEF FramesFit, Working, FrameTypes
  <2>5. ItemsFit'
    BY <1>2 DEF GitDone, ItemsFit, Unsettled, DurableTypes
  <2>6. SequencesFit'
    BY <1>2, StoreAssumption DEF GitDone, BackToIdle, SequencesFit, Alive, Dispatcher, FrameTypes
  <2>7. SuccessIsReal'
    BY <1>2 DEF GitDone, SuccessIsReal, DurableTypes
  <2> QED
    BY <1>2, <2>1, <2>2, <2>3, <2>4, <2>5, <2>6, <2>7, Undisturbed DEF GitDone
<1>3. CASE /\ started < RunCap
           /\ started' = started + 1
           /\ proc' = [proc EXCEPT ![started + 1] = "spawning"]
           /\ runTask' = [runTask EXCEPT ![started + 1] = TaskOf(c)]
           /\ runStep' = [runStep EXCEPT ![started + 1] = StepOf(c)]
           /\ cRun' = [cRun EXCEPT ![c] = started + 1]
           /\ pc' = [pc EXCEPT ![c] = "spawn"]
           /\ UNCHANGED <<item, sequence, marks, verdict, stepStatus, at, seqTask, cued>>
  <2> DEFINE new == started + 1
  <2>0. /\ new \in Runs /\ proc[new] = "none" /\ verdict[new] = None /\ started \in Nat
        /\ RunCap \in Nat
    BY <1>3, StoreAssumption DEF RunTypes, RecordsFit
  <2>1. TaskOf(c) \in Tasks /\ StepOf(c) \in Steps
    <3>1. CASE c = Dispatcher
      BY <3>1, StoreAssumption DEF GitDone, Fits, TaskOf, StepOf
    <3>2. CASE c \in Sequences
      <4>1. c # Dispatcher
        BY <3>2, StoreAssumption
      <4>2. seqTask[c] \in Tasks /\ at[c] \in Nat /\ 1 <= at[c] /\ at[c] <= Len(Plan)
        BY <3>2, PlanSteps DEF GitDone, Fits, FrameTypes
      <4> QED
        BY <4>1, <4>2, PlanSteps DEF TaskOf, StepOf
    <3> QED
      BY <3>1, <3>2
  <2>2. DurableTypes'
    BY <1>3 DEF GitDone, DurableTypes
  <2>3. RunTypes'
    BY <1>3, <2>0, <2>1 DEF RunTypes
  <2>4. FrameTypes'
    BY <1>3, <2>0 DEF GitDone, FrameTypes
  <2>5. Fits'
    BY <1>3, <2>0 DEF GitDone, Fits, Loop, Alive, Working, FrameTypes, RunTypes
  <2>6. RecordsFit'
    BY <1>3, <2>0, <2>1 DEF RecordsFit, RunTypes
  <2>7. FramesFit'
    BY <1>3, <2>0 DEF GitDone, FramesFit, RecordsFit, Working, FrameTypes, RunTypes
  <2>8. RowsFit'
    BY <1>3, <2>0 DEF GitDone, RowsFit, InHand, Unsettled, RunTypes
  <2>9. StepsFit'
    BY <1>3, <2>0 DEF GitDone, StepsFit, Alive, RunTypes, DurableTypes
  <2>10. ItemsFit'
    BY <1>3, <2>0 DEF GitDone, ItemsFit, Unsettled, RunTypes, DurableTypes
  <2>11. SequencesFit'
    BY <1>3 DEF GitDone, SequencesFit, Alive, FrameTypes
  <2> QED
    BY <1>3, <2>2, <2>3, <2>4, <2>5, <2>6, <2>7, <2>8, <2>9, <2>10, <2>11, Undisturbed
       DEF GitDone
<1> QED
  BY <1>1, <1>2, <1>3 DEF GitDone

LEMMA WriteRowKeeps ==
  ASSUME IInv, NEW c \in Coroutines, WriteRow(c)
  PROVE  IInv'
<1> USE DEF IInv, FilesFit, TypeOK, Items, Runs, Coroutines, runVars, server
<1> DEFINE r == cRun[c]
<1>1. r \in Runs /\ (proc[r] = "alive" \/ verdict[r] = "error")
  BY DEF WriteRow, FramesFit, Working, FrameTypes
<1>2. row' \in [Runs -> RowStatuses] /\ stepStatus' = stepStatus
  BY <1>1 DEF WriteRow, Finish, DurableTypes, RowStatuses, Verdicts
<1>3. RowsFit'
  BY <1>1 DEF WriteRow, RowsFit, InHand, Unsettled, DurableTypes
<1>4. SuccessIsReal'
  BY <1>1, <1>2 DEF WriteRow, SuccessIsReal, DurableTypes
<1>5. CASE c # Dispatcher /\ Finish(c, "stopped")
  <2>1. /\ sequence' \in [Tasks -> SequenceStatuses]
        /\ FrameTypes' /\ Fits' /\ FramesFit' /\ SequencesFit'
    BY <1>5, FinishFits DEF WriteRow, SequenceStatuses
  <2>2. DurableTypes'
    BY <1>2, <2>1 DEF WriteRow, DurableTypes
  <2> QED
    BY <1>2, <1>3, <1>4, <2>1, <2>2, Undisturbed DEF WriteRow
<1>6. CASE /\ ~(c # Dispatcher /\ verdict[r] = "error")
           /\ pc' = [pc EXCEPT ![c] = IF c = Dispatcher THEN "item" ELSE "await"]
           /\ UNCHANGED <<sequence, marks, stepStatus, cRun, at, seqTask>>
  <2>1. DurableTypes'
    BY <1>2, <1>6 DEF WriteRow, DurableTypes
  <2>2. FrameTypes'
    BY <1>6 DEF WriteRow, FrameTypes, Writing
  <2>3. Fits'
    BY <1>6, StoreAssumption DEF WriteRow, Fits, Alive, Working, FrameTypes
  <2>4. FramesFit'
    BY <1>1, <1>6 DEF WriteRow, FramesFit, Working, FrameTypes
  <2>5. SequencesFit'
    BY <1>6 DEF WriteRow, SequencesFit, Alive, FrameTypes
  <2> QED
    BY <1>2, <1>3, <1>4, <1>6, <2>1, <2>2, <2>3, <2>4, <2>5, Undisturbed DEF WriteRow
<1> QED
  BY <1>5, <1>6 DEF WriteRow

-----------------------------------------------------------------------------
(* The tick.                                                               *)

\* Settling only takes items that say running away from it, and calls done
\* only what has succeeded.
LEMMA SettledFits ==
  ASSUME IInv
  PROVE  /\ Settled \in [Items -> ItemStatuses]
         /\ \A i \in Items :
              /\ Settled[i] = "running" => item[i] = "running"
              /\ Settled[i] = "done" =>
                   item[i] = "done" \/ (itemRun[i] # 0 /\ verdict[itemRun[i]] = "succeeded")
<1>1. \A i \in Items : /\ Outcome(i) \in {"failed", "running", "done", "cancelled"}
                       /\ Outcome(i) = "done" => itemRun[i] # 0 /\ verdict[itemRun[i]] = "succeeded"
  BY DEF Outcome
<1> QED
  BY <1>1 DEF Settled, IInv, TypeOK, DurableTypes, ItemStatuses

LEMMA TickKeeps ==
  ASSUME IInv, Tick
  PROVE  IInv'
<1> USE DEF IInv, FilesFit, TypeOK, Items, Runs, Coroutines, runVars, server
<1>1. /\ item' \in [Items -> ItemStatuses]
      /\ \A i \in Items :
           /\ item'[i] = "running" => item[i] = "running"
           /\ item'[i] = "done" =>
                item[i] = "done" \/ (itemRun[i] # 0 /\ verdict[itemRun[i]] = "succeeded")
  <2>1. CASE item' = Settled
    BY <2>1, SettledFits
  <2>2. ASSUME NEW i \in Items, NEW answer, item' = [Settled EXCEPT ![i] = StatusAfter(answer)]
        PROVE  <1>1
    <3>1. StatusAfter(answer) \in ItemStatuses \ {"running", "done"}
      BY DEF StatusAfter, ItemStatuses
    <3> QED
      BY <2>2, <3>1, SettledFits
  <2> QED
    BY <2>1, <2>2 DEF Tick
<1>a. /\ \A t \in Tasks, s \in Steps :
           stepStatus'[t][s] = stepStatus[t][s] \/ stepStatus'[t][s] = "provider_missing"
      /\ stepStatus' \in [Tasks -> [Steps -> StepStatuses]]
      /\ UNCHANGED <<pc, cued>> \/ (pc' = [pc EXCEPT ![Dispatcher] = "git"] /\ cued' \in Items)
  <2>1. CASE UNCHANGED <<stepStatus, pc, cued>>
    BY <2>1 DEF DurableTypes
  <2>2. CASE \E i \in Items : /\ pc' = [pc EXCEPT ![Dispatcher] = "git"]
                              /\ cued' = i /\ UNCHANGED stepStatus
    BY <2>2 DEF DurableTypes
  <2>3. ASSUME NEW i \in Items, UNCHANGED <<pc, cued>>,
               stepStatus' = [stepStatus EXCEPT ![ItemTask[i]][ItemStep[i]] = "provider_missing"]
        PROVE  /\ \A t \in Tasks, s \in Steps :
                    stepStatus'[t][s] = stepStatus[t][s] \/ stepStatus'[t][s] = "provider_missing"
               /\ stepStatus' \in [Tasks -> [Steps -> StepStatuses]]
    <3>1. ItemTask[i] \in Tasks /\ ItemStep[i] \in Steps
      BY StoreAssumption
    <3> QED
      BY <2>3, <3>1 DEF DurableTypes, StepStatuses
  <2> QED
    BY <2>1, <2>2, <2>3 DEF Tick
<1>2. \A t \in Tasks, s \in Steps :
        stepStatus'[t][s] = stepStatus[t][s] \/ stepStatus'[t][s] = "provider_missing"
  BY <1>a
<1>3. stepStatus' \in [Tasks -> [Steps -> StepStatuses]]
  BY <1>a
<1>4. UNCHANGED <<pc, cued>> \/ (pc' = [pc EXCEPT ![Dispatcher] = "git"] /\ cued' \in Items)
  BY <1>a
<1>5. DurableTypes'
  BY <1>1, <1>3 DEF Tick, DurableTypes
<1>6. FrameTypes'
  BY <1>4 DEF Tick, FrameTypes
<1>7. Fits'
  BY <1>4, StoreAssumption DEF Tick, Loop, Fits, Alive, Working, FrameTypes
<1>8. FramesFit'
  BY <1>4 DEF Tick, FramesFit, Working, FrameTypes
<1>9. StepsFit'
  BY <1>2 DEF Tick, StepsFit, Alive
<1>10. ItemsFit'
  BY <1>1 DEF Tick, ItemsFit, Unsettled
<1>11. SequencesFit'
  BY <1>4, StoreAssumption DEF Tick, SequencesFit, Alive, Dispatcher, FrameTypes
<1>12. SuccessIsReal'
  <2>1. \A i \in Items : item'[i] = "done" => itemRun[i] \in Runs /\ verdict[itemRun[i]] = "succeeded"
    BY <1>1 DEF SuccessIsReal, DurableTypes
  <2>2. \A t \in Tasks, s \in Steps : stepStatus'[t][s] = "succeeded" =>
          stepRun[t][s] \in Runs /\ verdict[stepRun[t][s]] = "succeeded"
    BY <1>2 DEF SuccessIsReal
  <2>3. UNCHANGED <<itemRun, stepRun, row, verdict>>
    BY DEF Tick
  <2> QED
    BY <2>1, <2>2, <2>3 DEF SuccessIsReal
<1> QED
  BY <1>5, <1>6, <1>7, <1>8, <1>9, <1>10, <1>11, <1>12, Undisturbed DEF Tick

-----------------------------------------------------------------------------
(* Together.                                                               *)

LEMMA RecoveryStep == IInv /\ [Next]_vars => IInv'
<1> SUFFICES ASSUME IInv, [Next]_vars PROVE IInv'
  OBVIOUS
<1>1. ASSUME NEW i \in Items, Enqueue(i) PROVE IInv'
  BY <1>1, EnqueueKeeps
<1>2. CASE Tick \/ WriteItem
  BY <1>2, TickKeeps, WriteItemKeeps
<1>3. ASSUME NEW c \in Coroutines, StepTurn(c) PROVE IInv'
  BY <1>3, GitDoneKeeps, SpawnedKeeps, WriteStepKeeps, WriteRowKeeps DEF StepTurn
<1>4. ASSUME NEW c \in Sequences, SequenceTurn(c) PROVE IInv'
  BY <1>4, BeginSequenceKeeps, PrecheckDoneKeeps, NextStepKeeps, CompleteSequenceKeeps,
     AwaitRunKeeps DEF SequenceTurn
<1>5. ASSUME NEW c \in Sequences, Raise(c) PROVE IInv'
  BY <1>5, RaiseKeeps
<1>6. ASSUME NEW c \in Sequences, NEW t \in Tasks, StartSequence(c, t) PROVE IInv'
  BY <1>6, StartSequenceKeeps
<1>7. ASSUME NEW r \in Runs, EndOfRun(r) PROVE IInv'
  BY <1>7, ExitKeeps, DiedKeeps, HookStepKeeps, HookRowKeeps DEF EndOfRun
<1>8. ASSUME NEW r \in Runs, Cancel(r) PROVE IInv'
  BY <1>8, CancelKeeps
<1>9. CASE Crash \/ Halt
  BY <1>9, GoDownKeeps DEF Crash, Halt
<1>10. CASE Shutdown \/ Restart \/ Heal
  BY <1>10, ShutdownKeeps, RestartKeeps, HealKeeps
<1>11. CASE Recover
  BY <1>11, RecoverRowsKeeps, RecoverItemsKeeps, RecoverTasksKeeps DEF Recover
<1>12. CASE UNCHANGED vars
  BY <1>12, Undisturbed DEF vars, durable, runVars, frameVars, server, IInv, TypeOK, FilesFit
<1> QED
  BY <1>1, <1>2, <1>3, <1>4, <1>5, <1>6, <1>7, <1>8, <1>9, <1>10, <1>11, <1>12 DEF Next

\* In every reachable state records, coroutines and files fit together, however
\* the lives of the server ended.
THEOREM RecoveryInvariance == Spec => []IInv
BY RecoveryInit, RecoveryStep, PTL DEF Spec

\* Once the server is up, whatever says running in a file is driven by somebody:
\* recovery leaves nothing behind, and a heal in a living server disowns no run
\* whose hook is still to come (recover_workspace).
THEOREM NothingIsLeftRunning == Spec => []NothingLeftRunning
<1>1. IInv => NothingLeftRunning
  BY DEF IInv, TypeOK, DurableTypes, FilesFit, RowsFit, StepsFit, ItemsFit, Unsettled, Alive,
     InHand, NothingLeftRunning
<1> QED
  BY <1>1, RecoveryInvariance, PTL

\* No file ever says that something succeeded which did not.
THEOREM SuccessesAreReal == Spec => []SuccessIsReal
BY RecoveryInvariance, PTL DEF IInv

\* A task whose fullSequence says running has a sequence at work, or one that
\* an exception ended.
THEOREM SequencesSaySo == Spec => []SequenceSaysSo
<1>1. IInv => SequenceSaysSo
  BY DEF IInv, FilesFit, SequencesFit, SequenceSaysSo, Alive
<1> QED
  BY <1>1, RecoveryInvariance, PTL

-----------------------------------------------------------------------------
(* The rows implement RunLedger.                                           *)

Starting == {"spawn", "step", "row"}

\* A run is entered before it can end: while its row is not there, the coroutine
\* that started it still is, and nothing else gets a turn (Quiet).
EntriesFit ==
  /\ \A r \in Runs :
       /\ proc[r] \in {"none", "spawning"} => row[r] = "absent"
       /\ proc[r] = "alive" => row[r] \in {"absent", "running"}
       /\ proc[r] \in {"dying", "closing", "settling"} => row[r] \in {"running", "interrupted"}
       /\ proc[r] = "alive" /\ row[r] = "absent" =>
            \E c \in Coroutines : pc[c] \in {"step", "row"} /\ cRun[c] = r
  /\ \A c \in Coroutines : pc[c] \in Starting => row[cRun[c]] = "absent"

LedgerInv == IInv /\ EntriesFit
LedgerStep == [Ledger!Next]_<<Owner, row>>
Keeps == EntriesFit' /\ LedgerStep

LEMMA LedgerInit == Init => Ledger!Init /\ LedgerInv
<1>1. Init => Ledger!Init
  BY DEF Init, Ledger!Init, Owner
<1>2. Init => EntriesFit
  BY DEF Init, EntriesFit, Starting
<1> QED
  BY <1>1, <1>2, RecoveryInit DEF LedgerInv

\* Each run may move on its own.
LEMMA Moves ==
  ASSUME LedgerInv, row' \in [Runs -> RowStatuses],
         \A r \in Runs : \/ Ledger!Stay(r) \/ Ledger!Begin(r) \/ Ledger!Enter(r) \/ Ledger!End(r)
                         \/ Ledger!Write(r) \/ Ledger!Lose(r) \/ Ledger!Declare(r)
  PROVE  LedgerStep
<1>1. Owner' = [r \in Runs |-> Owner'[r]]
  BY DEF Owner
<1>2. row' = [r \in Runs |-> row'[r]]
  OBVIOUS
<1>3. Ledger!Next
  BY <1>1, <1>2 DEF Ledger!Next
<1> QED
  BY <1>3 DEF LedgerStep

\* Steps that touch neither a row nor a run that is being started.
LEMMA NothingMoves ==
  ASSUME LedgerInv, UNCHANGED <<row, proc, verdict>>,
         \A c \in Coroutines : pc[c] \in Starting \/ pc'[c] \in Starting =>
           pc'[c] = pc[c] /\ cRun'[c] = cRun[c]
  PROVE  Keeps
<1>1. EntriesFit'
  BY DEF LedgerInv, EntriesFit, Starting
<1>2. UNCHANGED <<Owner, row>>
  BY DEF Owner
<1> QED
  BY <1>1, <1>2 DEF Keeps, LedgerStep

LEMMA SequencesMoveNothing ==
  ASSUME LedgerInv, NEW c \in Sequences,
         SequenceTurn(c) \/ Raise(c) \/ \E t \in Tasks : StartSequence(c, t)
  PROVE  Keeps
<1> USE DEF LedgerInv, IInv, TypeOK, FrameTypes
<1>1. c \in Coroutines /\ pc[c] \notin Starting
  BY DEF Coroutines, Starting, SequenceTurn, BeginSequence, PrecheckDone, NextStep,
         CompleteSequence, AwaitRun, Raise, StartSequence
<1>2. UNCHANGED <<row, proc, verdict>>
  BY DEF SequenceTurn, BeginSequence, PrecheckDone, NextStep, CompleteSequence, AwaitRun, Raise,
         StartSequence, durable, runVars
<1>3. /\ pc'[c] \notin Starting
      /\ \A d \in Coroutines \ {c} : pc'[d] = pc[d] /\ cRun'[d] = cRun[d]
  BY <1>1 DEF Starting, SequenceTurn, BeginSequence, PrecheckDone, NextStep, CompleteSequence,
              AwaitRun, Raise, StartSequence, Finish, Ended, SkipStep
<1> QED
  BY <1>1, <1>2, <1>3, NothingMoves

LEMMA DispatcherMovesNothing ==
  ASSUME LedgerInv, Tick \/ WriteItem \/ \E i \in Items : Enqueue(i)
  PROVE  Keeps
<1> USE DEF LedgerInv, IInv, TypeOK, FrameTypes
<1>1. Dispatcher \in Coroutines
  BY DEF Coroutines
<1>2. UNCHANGED <<row, proc, verdict>>
  BY DEF Tick, WriteItem, Enqueue, runVars
<1>3. \A c \in Coroutines : pc[c] \in Starting \/ pc'[c] \in Starting =>
        pc'[c] = pc[c] /\ cRun'[c] = cRun[c]
  BY <1>1 DEF Starting, Tick, WriteItem, Enqueue, BackToIdle, frameVars
<1> QED
  BY <1>2, <1>3, NothingMoves

LEMMA ServerMovesNothing ==
  ASSUME LedgerInv, Restart \/ Heal \/ RecoverItems \/ RecoverTasks \/ UNCHANGED vars
  PROVE  Keeps
BY NothingMoves DEF Restart, Heal, RecoverItems, RecoverTasks, vars, durable, runVars, frameVars

\* A record before its process.
LEMMA GitDoneMoves ==
  ASSUME LedgerInv, NEW c \in Coroutines, GitDone(c)
  PROVE  Keeps
<1> USE DEF LedgerInv, IInv, TypeOK, FrameTypes, RunTypes
<1>1. pc[c] = "git" /\ row' = row
  BY DEF GitDone
<1>2. CASE UNCHANGED runVars
  <2>1. UNCHANGED <<proc, verdict>>
    BY <1>2 DEF runVars
  <2>2. pc[c] \notin Starting /\ pc'[c] \notin Starting
    BY <1>1, <1>2 DEF GitDone, BackToIdle, Finish, Ended, Starting, runVars
  <2>3. \A d \in Coroutines \ {c} : pc'[d] = pc[d] /\ cRun'[d] = cRun[d]
    BY <1>1, <1>2 DEF GitDone, BackToIdle, Finish, Ended
  <2> QED
    BY <1>1, <2>1, <2>2, <2>3, NothingMoves
<1>3. CASE /\ started < RunCap /\ proc' = [proc EXCEPT ![started + 1] = "spawning"]
           /\ cRun' = [cRun EXCEPT ![c] = started + 1]
           /\ pc' = [pc EXCEPT ![c] = "spawn"] /\ UNCHANGED verdict
  <2> DEFINE new == started + 1
  <2>1. new \in Runs /\ proc[new] = "none"
    BY <1>3, StoreAssumption DEF Runs, RecordsFit
  <2> HIDE DEF new
  <2>2. proc' = [proc EXCEPT ![new] = "spawning"] /\ cRun' = [cRun EXCEPT ![c] = new]
    BY <1>3 DEF new
  <2>3. EntriesFit'
    BY <1>1, <1>3, <2>1, <2>2 DEF EntriesFit, Starting
  <2>4. Owner' = Owner
    BY <1>3, <2>1, <2>2 DEF Owner
  <2> QED
    BY <1>1, <2>3, <2>4 DEF Keeps, LedgerStep
<1> QED
  BY <1>2, <1>3 DEF GitDone

LEMMA SpawnedMoves ==
  ASSUME LedgerInv, NEW c \in Coroutines, Spawned(c)
  PROVE  Keeps
<1> USE DEF LedgerInv, IInv, TypeOK, FrameTypes, RunTypes, DurableTypes
<1> DEFINE r == cRun[c]
<1>1. /\ pc[c] = "spawn" /\ r \in Runs /\ proc[r] = "spawning" /\ row[r] = "absent"
      /\ UNCHANGED <<row, cRun>> /\ pc' = [pc EXCEPT ![c] = "step"]
      /\ \A d \in Coroutines : cRun[d] = r => d = c
  BY DEF Spawned, FramesFit, EntriesFit, Starting, Working, durable
<1>2. \/ proc' = [proc EXCEPT ![r] = "alive"] /\ UNCHANGED verdict
      \/ proc' = [proc EXCEPT ![r] = "over"] /\ verdict' = [verdict EXCEPT ![r] = "error"]
  BY DEF Spawned
<1> HIDE DEF r
<1>3. EntriesFit'
  <2>1. cRun[c] = r
    BY DEF r
  <2> QED
    BY <1>1, <1>2, <2>1 DEF EntriesFit, Starting
<1>4. Ledger!Begin(r)
  BY <1>1, <1>2 DEF Ledger!Begin, Owner, Verdicts
<1>5. \A q \in Runs \ {r} : Ledger!Stay(q)
  BY <1>1, <1>2 DEF Ledger!Stay, Owner
<1> QED
  BY <1>1, <1>3, <1>4, <1>5, Moves DEF Keeps

LEMMA WriteStepMoves ==
  ASSUME LedgerInv, NEW c \in Coroutines, WriteStep(c)
  PROVE  Keeps
<1> USE DEF LedgerInv, IInv, TypeOK, FrameTypes
<1>1. pc[c] = "step" /\ pc' = [pc EXCEPT ![c] = "row"] /\ UNCHANGED <<row, proc, verdict, cRun>>
  BY DEF WriteStep, runVars
<1>2. EntriesFit'
  BY <1>1 DEF EntriesFit, Starting
<1>3. UNCHANGED <<Owner, row>>
  BY <1>1 DEF Owner
<1> QED
  BY <1>2, <1>3 DEF Keeps, LedgerStep

\* The row is entered.
LEMMA WriteRowMoves ==
  ASSUME LedgerInv, NEW c \in Coroutines, WriteRow(c)
  PROVE  Keeps
<1> USE DEF LedgerInv, IInv, TypeOK, FrameTypes, RunTypes, DurableTypes
<1> DEFINE r == cRun[c]
<1>1. /\ pc[c] = "row" /\ r \in Runs /\ row[r] = "absent"
      /\ proc[r] = "alive" \/ verdict[r] = "error"
      /\ UNCHANGED <<proc, verdict>>
      /\ \A d \in Coroutines : cRun[d] = r => d = c
  BY DEF WriteRow, FramesFit, EntriesFit, Starting, Working, runVars
<1>2. row' = [row EXCEPT ![r] = IF verdict[r] = "error" THEN "error" ELSE "running"]
  BY DEF WriteRow
<1>3. /\ pc'[c] \notin Starting
      /\ \A d \in Coroutines \ {c} : pc'[d] = pc[d] /\ cRun'[d] = cRun[d]
  BY <1>1 DEF WriteRow, Finish, Ended, Starting
<1>4. \/ verdict[r] = "error" /\ proc[r] = "over"
      \/ verdict[r] # "error" /\ proc[r] = "alive"
  BY <1>1 DEF RecordsFit
<1> HIDE DEF r
<1>5. EntriesFit'
  <2>1. cRun[c] = r
    BY DEF r
  <2>2. \A q \in Runs \ {r} : row'[q] = row[q]
    BY <1>2
  <2>3. row'[r] = IF verdict[r] = "error" THEN "error" ELSE "running"
    BY <1>1, <1>2
  <2>4. ASSUME NEW q \in Runs
        PROVE  /\ proc'[q] \in {"none", "spawning"} => row'[q] = "absent"
               /\ proc'[q] = "alive" => row'[q] \in {"absent", "running"}
               /\ proc'[q] \in {"dying", "closing", "settling"} => row'[q] \in {"running", "interrupted"}
               /\ proc'[q] = "alive" /\ row'[q] = "absent" =>
                    \E d \in Coroutines : pc'[d] \in {"step", "row"} /\ cRun'[d] = q
    <3>1. CASE q = r
      BY <1>1, <1>4, <2>3, <3>1
    <3>2. CASE q # r
      <4>1. row'[q] = row[q] /\ proc'[q] = proc[q]
        BY <1>1, <2>2, <3>2
      <4>2. ASSUME NEW d \in Coroutines, cRun[d] = q PROVE pc'[d] = pc[d] /\ cRun'[d] = q
        BY <1>3, <2>1, <3>2, <4>2
      <4>3. proc[q] = "alive" /\ row[q] = "absent" =>
              \E d \in Coroutines : pc[d] \in {"step", "row"} /\ cRun[d] = q
        BY DEF EntriesFit
      <4>4. proc[q] = "alive" /\ row[q] = "absent" =>
              \E d \in Coroutines : pc'[d] \in {"step", "row"} /\ cRun'[d] = q
        BY <4>2, <4>3
      <4> QED
        BY <4>1, <4>4 DEF EntriesFit
    <3> QED
      BY <3>1, <3>2
  <2>5. ASSUME NEW d \in Coroutines, pc'[d] \in Starting PROVE row'[cRun'[d]] = "absent"
    <3>1. d # c /\ pc[d] = pc'[d] /\ cRun'[d] = cRun[d] /\ cRun[d] # r
      BY <1>1, <1>3, <2>5
    <3>2. cRun[d] \in Runs
      BY <2>5, <3>1 DEF FramesFit, Starting, Working
    <3> QED
      BY <2>2, <2>5, <3>1, <3>2 DEF EntriesFit
  <2> QED
    BY <2>4, <2>5 DEF EntriesFit
<1>6. row' \in [Runs -> RowStatuses]
  BY <1>2 DEF RowStatuses, Verdicts
<1>7. Ledger!Enter(r)
  BY <1>1, <1>2, <1>4 DEF Ledger!Enter, Owner
<1>8. \A q \in Runs \ {r} : Ledger!Stay(q)
  BY <1>1, <1>2 DEF Ledger!Stay, Owner
<1> QED
  BY <1>5, <1>6, <1>7, <1>8, Moves DEF Keeps

\* Whoever gets a turn finds every live run entered.
LEMMA QuietMeansEntered ==
  ASSUME LedgerInv, Quiet, NEW r \in Runs, proc[r] = "alive"
  PROVE  row[r] = "running"
BY DEF LedgerInv, EntriesFit, Quiet, Writing

LEMMA EndMoves ==
  ASSUME LedgerInv, NEW r \in Runs, Exit(r) \/ Cancel(r)
  PROVE  Keeps
<1> USE DEF LedgerInv, IInv, TypeOK, RunTypes, DurableTypes
<1>1. /\ proc[r] = "alive" /\ row[r] = "running" /\ UNCHANGED <<row, pc, cRun>>
      /\ proc' = [proc EXCEPT ![r] = proc'[r]] /\ proc'[r] \in {"dying", "closing"}
      /\ verdict' = [verdict EXCEPT ![r] = verdict'[r]]
      /\ verdict'[r] \in {"succeeded", "failed", "cancelled"}
  BY QuietMeansEntered DEF Exit, Cancel, Loop, durable, frameVars
<1>2. EntriesFit'
  BY <1>1 DEF EntriesFit
<1>3. Ledger!End(r)
  BY <1>1 DEF Ledger!End, Ledger!Outcomes, Owner
<1>4. \A q \in Runs \ {r} : Ledger!Stay(q)
  BY <1>1 DEF Ledger!Stay, Owner
<1> QED
  BY <1>1, <1>2, <1>3, <1>4, Moves DEF Keeps

LEMMA HookMoves ==
  ASSUME LedgerInv, NEW r \in Runs, Died(r) \/ HookStep(r)
  PROVE  Keeps
<1> USE DEF LedgerInv, IInv, TypeOK, RunTypes, DurableTypes
<1>1. /\ proc[r] \in {"dying", "closing"} /\ UNCHANGED <<row, pc, cRun, verdict>>
      /\ proc' = [proc EXCEPT ![r] = proc'[r]] /\ proc'[r] \in {"closing", "settling"}
  BY DEF Died, HookStep, durable, frameVars
<1>2. EntriesFit'
  BY <1>1 DEF EntriesFit
<1>3. Owner' = Owner
  BY <1>1 DEF Owner
<1> QED
  BY <1>1, <1>2, <1>3 DEF Keeps, LedgerStep

\* The verdict is written.
LEMMA HookRowMoves ==
  ASSUME LedgerInv, NEW r \in Runs, HookRow(r)
  PROVE  Keeps
<1> USE DEF LedgerInv, IInv, TypeOK, RunTypes, DurableTypes
<1>1. /\ proc[r] = "settling" /\ row[r] \in {"running", "interrupted"}
      /\ row' = [row EXCEPT ![r] = verdict[r]] /\ proc' = [proc EXCEPT ![r] = "over"]
      /\ UNCHANGED <<pc, cRun, verdict>>
  BY DEF HookRow, EntriesFit, frameVars
<1>2. verdict[r] \in {"succeeded", "failed", "cancelled"}
  BY <1>1, StoreAssumption DEF RecordsFit, Verdicts
<1>3. EntriesFit'
  <2>1. \A c \in Coroutines : pc[c] \in Starting => cRun[c] # r
    BY <1>1 DEF EntriesFit
  <2> QED
    BY <1>1, <2>1 DEF EntriesFit
<1>4. row' \in [Runs -> RowStatuses]
  BY <1>1, <1>2 DEF RowStatuses, Verdicts
<1>5. Ledger!Write(r)
  BY <1>1, <1>2 DEF Ledger!Write, Ledger!Outcomes, Owner
<1>6. \A q \in Runs \ {r} : Ledger!Stay(q)
  BY <1>1 DEF Ledger!Stay, Owner
<1> QED
  BY <1>3, <1>4, <1>5, <1>6, Moves DEF Keeps

\* A crash loses every run at once.
LEMMA GoDownMoves ==
  ASSUME LedgerInv, GoDown
  PROVE  Keeps
<1> USE DEF LedgerInv, IInv, TypeOK, RunTypes, DurableTypes
<1>1. /\ row' = row
      /\ proc' = [r \in Runs |-> IF proc[r] = "none" THEN "none" ELSE "lost"]
      /\ \A c \in Coroutines : pc'[c] \in {"idle", "ended"}
  BY DEF GoDown, durable
<1>2. EntriesFit'
  BY <1>1 DEF EntriesFit, Starting
<1>3. \A r \in Runs : Ledger!Stay(r) \/ Ledger!Lose(r)
  BY <1>1 DEF Ledger!Stay, Ledger!Lose, Owner
<1> QED
  BY <1>1, <1>2, <1>3, Moves DEF Keeps

\* A shutdown cancels what runs, and loses what the dispatcher was starting.
LEMMA ShutdownMoves ==
  ASSUME LedgerInv, Shutdown
  PROVE  Keeps
<1> USE DEF LedgerInv, IInv, TypeOK, RunTypes, FrameTypes, DurableTypes
<1>1. /\ row' = row
      /\ verdict' = [r \in Runs |-> IF proc[r] = "alive" THEN "cancelled" ELSE verdict[r]]
      /\ \A r \in Runs :
           \/ proc[r] = "alive" /\ row[r] = "running" /\ proc'[r] = "dying"
           \/ /\ proc[r] = "spawning" /\ proc'[r] = "lost"
              /\ cRun[Dispatcher] = r /\ pc[Dispatcher] = "spawn"
           \/ proc[r] # "alive" /\ proc'[r] = proc[r]
  BY QuietMeansEntered DEF Shutdown, Loop, durable
<1>2. /\ Dispatcher \in Coroutines /\ pc' = [pc EXCEPT ![Dispatcher] = "idle"]
      /\ cRun' = [cRun EXCEPT ![Dispatcher] = 0]
  BY DEF Coroutines, Shutdown, BackToIdle
<1>3. EntriesFit'
  BY <1>1, <1>2 DEF EntriesFit, Starting
<1>4. \A r \in Runs : Ledger!Stay(r) \/ Ledger!Lose(r) \/ Ledger!End(r)
  BY <1>1 DEF Ledger!Stay, Ledger!Lose, Ledger!End, Ledger!Outcomes, Owner
<1> QED
  BY <1>1, <1>3, <1>4, Moves DEF Keeps

\* Recovery looks at what the runner manages.
LEMMA RecoverRowsMoves ==
  ASSUME LedgerInv, RecoverRows
  PROVE  Keeps
<1> USE DEF LedgerInv, IInv, TypeOK, RunTypes, DurableTypes
<1>1. /\ UNCHANGED <<proc, verdict, pc, cRun>>
      /\ row' = [r \in Runs |->
                   IF row[r] = "running" /\ proc[r] # "alive" THEN "interrupted" ELSE row[r]]
  BY DEF RecoverRows, Managed, runVars, frameVars
<1>2. EntriesFit'
  <2>1. \A r \in Runs : row'[r] = "absent" <=> row[r] = "absent"
    BY <1>1
  <2>2. \A c \in Coroutines : pc[c] \in Starting => cRun[c] \in Runs
    BY DEF FrameTypes, FramesFit, Starting, Working
  <2> QED
    BY <1>1, <2>1, <2>2 DEF EntriesFit
<1>3. row' \in [Runs -> RowStatuses]
  BY <1>1 DEF RowStatuses
<1>4. \A r \in Runs : Ledger!Stay(r) \/ Ledger!Declare(r)
  BY <1>1 DEF Ledger!Stay, Ledger!Declare, Owner, RecordsFit, Verdicts
<1> QED
  BY <1>2, <1>3, <1>4, Moves DEF Keeps

LEMMA LedgerMoves == LedgerInv /\ [Next]_vars => LedgerInv' /\ LedgerStep
<1> SUFFICES ASSUME LedgerInv, [Next]_vars PROVE IInv' /\ Keeps
  BY DEF LedgerInv, Keeps
<1>1. IInv'
  BY RecoveryStep DEF LedgerInv
<1>2. ASSUME NEW c \in Coroutines, StepTurn(c) PROVE Keeps
  BY <1>2, GitDoneMoves, SpawnedMoves, WriteStepMoves, WriteRowMoves DEF StepTurn
<1>3. ASSUME NEW r \in Runs, EndOfRun(r) \/ Cancel(r) PROVE Keeps
  BY <1>3, EndMoves, HookMoves, HookRowMoves DEF EndOfRun
<1>4. ASSUME Crash \/ Halt \/ Shutdown PROVE Keeps
  BY <1>4, GoDownMoves, ShutdownMoves DEF Crash, Halt
<1>5. ASSUME Restart \/ Heal \/ Recover \/ UNCHANGED vars PROVE Keeps
  BY <1>5, ServerMovesNothing, RecoverRowsMoves DEF Recover
<1> QED
  BY <1>1, <1>2, <1>3, <1>4, <1>5, DispatcherMovesNothing, SequencesMoveNothing DEF Next

\* The ledger keeps its word over every crash, recovery and heal: a run is
\* entered once, its verdict is written once and for good by its own hook, and
\* only of a run that is not managed does recovery say that it was interrupted
\* (persist_run, on_complete, recover_workspace).
THEOREM LedgerImplemented == Spec => LedgerIsHonest
<1>1. Init => Ledger!Init
  BY LedgerInit
<1>2. Init => LedgerInv
  BY LedgerInit
<1>3. LedgerInv /\ [Next]_vars => LedgerInv' /\ [Ledger!Next]_<<Owner, row>>
  BY LedgerMoves DEF LedgerStep
<1> QED
  BY <1>1, <1>2, <1>3, PTL DEF Spec, LedgerIsHonest, Ledger!Spec
=============================================================================
