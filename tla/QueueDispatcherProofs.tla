------------------------ MODULE QueueDispatcherProofs ------------------------
(***************************************************************************)
(* Proofs about QueueDispatcher for every set of tasks, steps, providers   *)
(* and requests, every routing and every bound.  IInv is inductive; the    *)
(* type invariant and the safety properties of the queue follow from it.   *)
(***************************************************************************)
EXTENDS QueueDispatcher, TLAPS

USE CoreAssumption

-----------------------------------------------------------------------------
(* Relations between an old and a new state that the invariant survives.   *)

\* Every item status a refused dispatch may leave.
Refused == {"failed", "skipped", "blocked", "awaiting_approval"}

\* Of the first m items none appeared and none changed its task or its step.
SameItems(new, old, m) ==
  \A i \in ItemIds : i <= m /\ new[i].status # "absent" =>
    old[i].status # "absent" /\ new[i].task = old[i].task /\ new[i].step = old[i].step

\* Record r is the same run as before as far as a waiting coroutine can tell.
SameRun(new, old, r) ==
  /\ new[r].phase = old[r].phase
  /\ new[r].task = old[r].task
  /\ new[r].step = old[r].step

\* Every record stays the run of its task, step and provider; it is not being
\* created or ceasing to be; a success stays one; none starts to say running.
RunsMove(new, old) ==
  \A r \in RunIds :
    /\ new[r].task = old[r].task /\ new[r].step = old[r].step
    /\ new[r].provider = old[r].provider
    /\ old[r].phase = "spawning" => new[r].phase = "spawning"
    /\ old[r].phase \notin Unborn => new[r].phase \notin Unborn
    /\ old[r].phase \notin Unborn /\ old[r].status # "error" => new[r].status # "error"
    /\ old[r].status = "succeeded" => new[r].status = "succeeded"
    /\ RunningIn(new, r) => RunningIn(old, r)

-----------------------------------------------------------------------------
(* Lemmas on the operators.                                                *)

\* dispatch_item's translation of every answer but "started" is a refusal.
LEMMA StatusAfterRefused ==
  ASSUME NEW v, v # "started"
  PROVE  StatusAfter(v) \in Refused
BY DEF StatusAfter, Refused

\* run_step never answers "started" before its first await.
LEMMA VerdictNotStarted ==
  ASSUME NEW rs, NEW p, NEW auto, NEW confirm
  PROVE  Verdict(rs, p, auto, confirm) # "started"
BY DEF Verdict

\* Setting a refusal on an item keeps the item list well formed.
LEMMA SetItemOK ==
  ASSUME NEW its \in [ItemIds -> Item], NEW rs \in [RunIds -> Run], NEW m \in Nat,
         NEW i, NEW st \in Refused, ItemsOK(its, rs, m)
  PROVE  /\ SetItem(its, i, st) \in [ItemIds -> Item]
         /\ ItemsOK(SetItem(its, i, st), rs, m)
         /\ SameItems(SetItem(its, i, st), its, m)
<1>1. CASE i \in ItemIds /\ its[i].status # "absent"
  <2> DEFINE new == [its EXCEPT ![i].status = st]
  <2>1. SetItem(its, i, st) = new
    BY <1>1 DEF SetItem
  <2>2. new \in [ItemIds -> Item]
    BY <1>1 DEF Item, Refused, QueueStatuses
  <2>3. \A j \in ItemIds : /\ new[j].task = its[j].task /\ new[j].step = its[j].step
                           /\ new[j].run = its[j].run
                           /\ j # i => new[j].status = its[j].status
    BY <1>1 DEF Item
  <2>4. new[i].status = st
    BY <1>1 DEF Item
  <2>5. ItemsOK(new, rs, m)
    BY <1>1, <2>3, <2>4 DEF ItemsOK, Refused
  <2>6. SameItems(new, its, m)
    BY <1>1, <2>3, <2>4 DEF SameItems
  <2> QED BY <2>1, <2>2, <2>5, <2>6
<1>2. CASE ~(i \in ItemIds /\ its[i].status # "absent")
  BY <1>2 DEF SetItem, SameItems
<1> QED BY <1>1, <1>2

\* What a waiting coroutine relies on survives new items, changes of status,
\* and every change of records but the one it is about to make itself.
LEMMA FrameKept ==
  ASSUME NEW f \in Frame, NEW c, NEW old, NEW new, NEW rs, NEW nrs,
         NEW m \in Nat, NEW n \in Nat, m <= n, NEW spent, NEW nspent,
         FrameOK(f, c, old, rs, m, spent), SameItems(new, old, m),
         f.pc = "spawn" => SameRun(nrs, rs, f.run),
         f.pc = "consult" => nspent[f.task] = spent[f.task]
  PROVE  FrameOK(f, c, new, nrs, n, nspent)
<1>1. f.item \in ItemIds \cup {0}
  BY DEF Frame
<1>2. f.item # 0 /\ f.item <= m => f.item <= n
  BY <1>1 DEF ItemIds
<1> QED BY <1>1, <1>2 DEF FrameOK, SameItems, SameRun

\* An idle frame relies on nothing.
LEMMA NoFrameOK ==
  ASSUME NEW c, NEW its, NEW rs, NEW m, NEW spent
  PROVE  NoFrame \in Frame /\ FrameOK(NoFrame, c, its, rs, m, spent)
<1>1. NoFrame \in Frame
  BY DEF NoFrame, Frame
<1>2. NoFrame.pc = "idle" /\ NoFrame.step = None
  BY DEF NoFrame
<1> QED BY <1>1, <1>2 DEF FrameOK

\* One coroutine's frame is replaced by g: the others need their own facts, g
\* needs its own, and a g that waits for a process needs one of its own.
LEMMA OneFrame ==
  ASSUME NEW fs \in [Coroutines -> Frame], NEW its, NEW rs, NEW m, NEW spent,
         NEW c \in Coroutines, NEW g \in Frame,
         \A d \in Coroutines : d # c => FrameOK(fs[d], d, its, rs, m, spent),
         \A d, e \in Coroutines : d # c /\ e # c /\ d # e
            /\ fs[d].pc = "spawn" /\ fs[e].pc = "spawn" => fs[d].run # fs[e].run,
         FrameOK(g, c, its, rs, m, spent),
         \A d \in Coroutines : d # c /\ fs[d].pc = "spawn" /\ g.pc = "spawn"
                               => fs[d].run # g.run
  PROVE  /\ [fs EXCEPT ![c] = g] \in [Coroutines -> Frame]
         /\ FramesOK([fs EXCEPT ![c] = g], its, rs, m, spent)
<1> DEFINE new == [fs EXCEPT ![c] = g]
<1>1. new \in [Coroutines -> Frame]
  OBVIOUS
<1>2. new[c] = g /\ \A d \in Coroutines : d # c => new[d] = fs[d]
  OBVIOUS
<1>3. \A d \in Coroutines : FrameOK(new[d], d, its, rs, m, spent)
  BY <1>2
<1>4. \A d, e \in Coroutines : d # e /\ new[d].pc = "spawn" /\ new[e].pc = "spawn"
                               => new[d].run # new[e].run
  BY <1>2
<1> HIDE DEF new
<1>5. FramesOK(new, its, rs, m, spent)
  BY <1>3, <1>4 DEF FramesOK
<1> QED BY <1>1, <1>5 DEF new

-----------------------------------------------------------------------------
(* run_step and the choice of the next item.                               *)

\* What a segment leaves of the items, the frames and the steps' statuses,
\* when the records after it are rs and m items were ever enqueued.
Waiting(rs, m, spent) ==
  /\ items' \in [ItemIds -> Item]
  /\ ItemsOK(items', rs, m)
  /\ frames' \in [Coroutines -> Frame]
  /\ FramesOK(frames', items', rs, m, spent)
  /\ stepState' \in [Tasks -> [Steps -> StepStatuses]]

\* All coroutines but c may rely on what they rely on; c starts anew.
OthersOK(c, its, rs, m, spent) ==
  /\ \A d \in Coroutines : d # c => FrameOK(frames[d], d, its, rs, m, spent)
  /\ \A d, e \in Coroutines : d # c /\ e # c /\ d # e
       /\ frames[d].pc = "spawn" /\ frames[e].pc = "spawn" => frames[d].run # frames[e].run

\* run_step up to its first await, for an item of that task and step or none.
LEMMA RunStepOK ==
  ASSUME NEW rs \in [RunIds -> Run], NEW its \in [ItemIds -> Item], NEW m \in Nat,
         NEW spent, NEW c \in Coroutines, NEW i \in ItemIds \cup {0},
         NEW t \in Tasks, NEW s \in Steps, NEW p \in Providers, NEW auto, NEW confirm,
         frames \in [Coroutines -> Frame],
         stepState \in [Tasks -> [Steps -> StepStatuses]],
         ItemsOK(its, rs, m),
         OthersOK(c, its, rs, m, spent),
         i # 0 => i <= m /\ (its[i].status # "absent" => its[i].task = t /\ its[i].step = s),
         RunStep(rs, c, its, i, t, s, p, auto, confirm)
  PROVE  Waiting(rs, m, spent) /\ SameItems(items', its, m)
<1> DEFINE verdict == Verdict(rs, p, auto, confirm)
<1>1. StatusAfter(verdict) \in Refused
  BY StatusAfterRefused, VerdictNotStarted
<1>2. stepState' \in [Tasks -> [Steps -> StepStatuses]]
  BY DEF RunStep, StepStatuses
<1>3. CASE verdict = "proceed"
  <2> DEFINE g == [pc |-> "git", item |-> i, task |-> t, step |-> s,
                   provider |-> p, run |-> 0]
  <2>1. items' = its /\ frames' = [frames EXCEPT ![c] = g]
    BY <1>3 DEF RunStep
  <2>2. g \in Frame
    BY DEF Frame
  <2>3. FrameOK(g, c, its, rs, m, spent)
    <3>1. g.pc = "git" /\ g.item = i /\ g.task = t /\ g.step = s /\ g.provider = p
      OBVIOUS
    <3> HIDE DEF g
    <3> QED BY <3>1 DEF FrameOK
  <2>4. g.pc # "spawn"
    OBVIOUS
  <2> HIDE DEF g
  <2>5. /\ [frames EXCEPT ![c] = g] \in [Coroutines -> Frame]
        /\ FramesOK([frames EXCEPT ![c] = g], its, rs, m, spent)
    BY <2>2, <2>3, <2>4, OneFrame DEF OthersOK
  <2> QED BY <2>1, <2>5, <1>2 DEF Waiting, SameItems
<1>4. CASE verdict # "proceed"
  <2> DEFINE new == SetItem(its, i, StatusAfter(verdict))
  <2>1. items' = new /\ frames' = [frames EXCEPT ![c] = NoFrame]
    BY <1>4 DEF RunStep
  <2>2. /\ new \in [ItemIds -> Item] /\ ItemsOK(new, rs, m) /\ SameItems(new, its, m)
    BY <1>1, SetItemOK
  <2> HIDE DEF new
  <2>3. \A d \in Coroutines : d # c => FrameOK(frames[d], d, new, rs, m, spent)
    BY <2>2, FrameKept DEF OthersOK, SameRun
  <2>4. NoFrame \in Frame /\ FrameOK(NoFrame, c, new, rs, m, spent)
    BY NoFrameOK
  <2>5. NoFrame.pc # "spawn"
    BY DEF NoFrame
  <2>6. /\ [frames EXCEPT ![c] = NoFrame] \in [Coroutines -> Frame]
        /\ FramesOK([frames EXCEPT ![c] = NoFrame], new, rs, m, spent)
    BY <2>3, <2>4, <2>5, OneFrame DEF OthersOK
  <2> QED BY <2>1, <2>2, <2>6, <1>2 DEF Waiting
<1> QED BY <1>3, <1>4

\* dispatch_item, for an item that exists.
LEMMA DispatchItemOK ==
  ASSUME NEW rs \in [RunIds -> Run], NEW its \in [ItemIds -> Item], NEW m \in Nat,
         NEW spent, NEW c \in Coroutines, NEW i \in ItemIds, NEW auto, NEW confirm,
         frames \in [Coroutines -> Frame],
         stepState \in [Tasks -> [Steps -> StepStatuses]],
         ItemsOK(its, rs, m),
         OthersOK(c, its, rs, m, spent),
         its[i].status # "absent",
         DispatchItem(rs, c, its, i, auto, confirm)
  PROVE  Waiting(rs, m, spent) /\ SameItems(items', its, m)
<1>1. i <= m /\ its[i].task \in Tasks /\ its[i].step \in Steps
  BY DEF ItemsOK
<1>2. EffectiveProvider(its[i]) \in Providers
  BY <1>1 DEF EffectiveProvider, Item
<1> QED BY <1>1, <1>2, RunStepOK DEF DispatchItem

\* The end of a tick.
LEMMA DispatchNextOK ==
  ASSUME NEW rs \in [RunIds -> Run], NEW its \in [ItemIds -> Item], NEW m \in Nat,
         NEW spent, NEW manual,
         frames \in [Coroutines -> Frame],
         stepState \in [Tasks -> [Steps -> StepStatuses]],
         ItemsOK(its, rs, m),
         OthersOK(Dispatcher, its, rs, m, spent),
         DispatchNext(rs, its, manual)
  PROVE  Waiting(rs, m, spent) /\ SameItems(items', its, m)
<1>1. Dispatcher \in Coroutines
  BY DEF Coroutines
<1>2. NoFrame \in Frame /\ NoFrame.pc # "spawn"
      /\ \A new : FrameOK(NoFrame, Dispatcher, new, rs, m, spent)
  BY NoFrameOK DEF NoFrame
<1>3. ASSUME Dispatchable(rs, its) = {}, items' = its, UNCHANGED stepState,
             frames' = [frames EXCEPT ![Dispatcher] = NoFrame]
      PROVE  Waiting(rs, m, spent) /\ SameItems(items', its, m)
  <2>1. /\ [frames EXCEPT ![Dispatcher] = NoFrame] \in [Coroutines -> Frame]
        /\ FramesOK([frames EXCEPT ![Dispatcher] = NoFrame], its, rs, m, spent)
    BY <1>1, <1>2, OneFrame DEF OthersOK
  <2> QED BY <1>3, <2>1 DEF Waiting, SameItems
<1>4. ASSUME NEW i \in ItemIds, IsFirst(i, Dispatchable(rs, its)),
             items' = [its EXCEPT ![i].status = "awaiting_approval"],
             frames' = [frames EXCEPT ![Dispatcher] = NoFrame], UNCHANGED stepState
      PROVE  Waiting(rs, m, spent) /\ SameItems(items', its, m)
  <2>1. its[i].status # "absent"
    BY <1>4 DEF IsFirst, Dispatchable
  <2> DEFINE new == SetItem(its, i, "awaiting_approval")
  <2>2. items' = new
    BY <1>4, <2>1 DEF SetItem
  <2>3. new \in [ItemIds -> Item] /\ ItemsOK(new, rs, m) /\ SameItems(new, its, m)
    BY SetItemOK DEF Refused
  <2> HIDE DEF new
  <2>4. \A d \in Coroutines : d # Dispatcher => FrameOK(frames[d], d, new, rs, m, spent)
    BY <2>3, FrameKept DEF OthersOK, SameRun
  <2>5. /\ [frames EXCEPT ![Dispatcher] = NoFrame] \in [Coroutines -> Frame]
        /\ FramesOK([frames EXCEPT ![Dispatcher] = NoFrame], new, rs, m, spent)
    BY <1>1, <1>2, <2>4, OneFrame DEF OthersOK
  <2> QED BY <1>4, <2>2, <2>3, <2>5 DEF Waiting
<1>5. ASSUME NEW i \in ItemIds, IsFirst(i, Dispatchable(rs, its)),
             DispatchItem(rs, Dispatcher, its, i, TRUE, FALSE)
      PROVE  Waiting(rs, m, spent) /\ SameItems(items', its, m)
  <2>1. its[i].status # "absent"
    BY <1>5 DEF IsFirst, Dispatchable
  <2> QED BY <1>1, <1>5, <2>1, DispatchItemOK
<1> QED BY <1>3, <1>4, <1>5 DEF DispatchNext

-----------------------------------------------------------------------------
(* Settling the queue at the start of a tick.                              *)

\* An item that comes from old, with its run or none, and that says running or
\* done only when the old one did or its run succeeded.
Derived(new, old, rs) ==
  \A i \in ItemIds :
    \/ new[i] = NoItem
    \/ /\ new[i].task = old[i].task /\ new[i].step = old[i].step
       /\ old[i].status = "absent" => new[i].status = "absent"
       /\ new[i].run \in {0, old[i].run}
       /\ new[i].status = "running" => new[i].run # 0
       /\ new[i].status = "done" => new[i].run # 0 /\ rs[new[i].run].status = "succeeded"

\* Whatever a handler does to the items, they stay well formed if each one
\* comes from the item of its number.
LEMMA DerivedOK ==
  ASSUME NEW old \in [ItemIds -> Item], NEW new \in [ItemIds -> Item], NEW rs, NEW m \in Nat,
         ItemsOK(old, rs, m), Derived(new, old, rs)
  PROVE  ItemsOK(new, rs, m) /\ SameItems(new, old, m)
<1>1. NoItem.status = "absent" /\ NoItem.run = 0
  BY DEF NoItem
<1>2. ASSUME NEW i \in ItemIds, NEW j \in ItemIds, i # j, new[i].run # 0
      PROVE  new[i].run # new[j].run
  <2>1. new[i].run = old[i].run
    BY <1>1, <1>2 DEF Derived
  <2>2. new[j].run \in {0, old[j].run}
    BY <1>1 DEF Derived
  <2>3. old[i].run # old[j].run
    BY <1>2, <2>1 DEF ItemsOK
  <2> QED BY <1>2, <2>1, <2>2, <2>3
<1>3. ASSUME NEW i \in ItemIds
      PROVE  /\ new[i].status # "absent" =>
                  i <= m /\ new[i].task \in Tasks /\ new[i].step \in Steps
             /\ new[i].run # 0 =>
                  /\ rs[new[i].run].phase \notin Unborn
                  /\ rs[new[i].run].status # "error"
                  /\ rs[new[i].run].task = new[i].task
                  /\ rs[new[i].run].step = new[i].step
             /\ new[i].status = "running" => new[i].run # 0
             /\ new[i].status = "done" =>
                  new[i].run # 0 /\ rs[new[i].run].status = "succeeded"
  BY <1>1 DEF Derived, ItemsOK
<1>4. ItemsOK(new, rs, m)
  BY <1>2, <1>3 DEF ItemsOK
<1>5. SameItems(new, old, m)
  BY <1>1 DEF SameItems, Derived
<1> QED BY <1>4, <1>5

\* Items and records as the invariant has them.
Core == TypeOK /\ RunsOK(runs, started) /\ ItemsOK(items, runs, enqueued)

\* A running item ends as done only if its run succeeded.
LEMMA FinalStatusOK ==
  ASSUME Core, NEW i \in ItemIds, Lost(i) \/ Ended(i)
  PROVE  /\ FinalStatus(i) \in {"done", "failed", "cancelled"}
         /\ FinalStatus(i) = "done" => items[i].run # 0 /\ runs[items[i].run].status = "succeeded"
<1>1. CASE Lost(i)
  BY <1>1 DEF FinalStatus
<1>2. CASE ~Lost(i)
  <2> DEFINE st == runs[items[i].run].status
  <2>1. FinalStatus(i) = OutcomeOf(st) /\ Ended(i) /\ items[i].run # 0
    BY <1>2 DEF FinalStatus, Ended
  <2>2. CASE st = "succeeded"
    BY <2>1, <2>2 DEF OutcomeOf
  <2>3. CASE st # "succeeded"
    <3>1. OutcomeOf(st) \in {"failed", "cancelled"}
      BY <2>3 DEF OutcomeOf
    <3> QED BY <2>1, <3>1
  <2> QED BY <2>2, <2>3
<1> QED BY <1>1, <1>2

\* The settled and pruned queue is well formed.
LEMMA FinalizedOK ==
  ASSUME Core
  PROVE  /\ Finalized \in [ItemIds -> Item]
         /\ ItemsOK(Finalized, runs, enqueued)
         /\ SameItems(Finalized, items, enqueued)
<1> DEFINE settled == [i \in ItemIds |-> Settled(i)]
<1>0. items \in [ItemIds -> Item] /\ enqueued \in Nat
  BY DEF Core, TypeOK
<1>1. NoItem \in Item /\ NoItem.status = "absent"
  BY DEF NoItem, Item
<1>2. ASSUME NEW i \in ItemIds
      PROVE  /\ Settled(i) \in Item
             /\ Settled(i).task = items[i].task /\ Settled(i).step = items[i].step
             /\ Settled(i).run = items[i].run
             /\ items[i].status = "absent" => Settled(i).status = "absent"
             /\ Settled(i).status = "running" => items[i].run # 0
             /\ Settled(i).status = "done" =>
                  items[i].run # 0 /\ runs[items[i].run].status = "succeeded"
  <2>1. items[i] \in Item
    BY <1>0
  <2>2. CASE Lost(i) \/ Ended(i)
    <3>1. Settled(i) = [items[i] EXCEPT !.status = FinalStatus(i)]
      BY <2>2 DEF Settled
    <3>2. items[i].status = "running"
      BY <2>2 DEF Lost, Ended
    <3>3. /\ FinalStatus(i) \in {"done", "failed", "cancelled"}
          /\ FinalStatus(i) = "done" => items[i].run # 0 /\ runs[items[i].run].status = "succeeded"
      BY <2>2, FinalStatusOK
    <3> QED BY <2>1, <3>1, <3>2, <3>3 DEF Item, QueueStatuses
  <2>3. CASE ~(Lost(i) \/ Ended(i)) /\ items[i].status = "queued" /\ items[i].task \in FailedTasks
    <3>1. Settled(i) = [items[i] EXCEPT !.status = "blocked"]
      BY <2>3 DEF Settled
    <3> QED BY <2>1, <2>3, <3>1 DEF Item, QueueStatuses
  <2>4. CASE ~(Lost(i) \/ Ended(i)) /\ ~(items[i].status = "queued" /\ items[i].task \in FailedTasks)
    <3>1. Settled(i) = items[i]
      BY <2>4 DEF Settled
    <3> QED BY <2>1, <3>1 DEF Core, ItemsOK
  <2> QED BY <2>2, <2>3, <2>4
<1>3. ASSUME NEW i \in ItemIds PROVE settled[i] = Settled(i)
  OBVIOUS
<1>4. ASSUME NEW i \in ItemIds PROVE Finalized[i] \in {NoItem, Settled(i)}
  BY <1>3 DEF Finalized, Pruned
<1>5. Finalized = [i \in ItemIds |-> Finalized[i]]
  BY DEF Finalized, Pruned
<1>6. Finalized \in [ItemIds -> Item]
  BY <1>1, <1>2, <1>4, <1>5
<1>7. Derived(Finalized, items, runs)
  BY <1>2, <1>4 DEF Derived
<1> QED BY <1>0, <1>6, <1>7, DerivedOK DEF Core

-----------------------------------------------------------------------------
(* Records.                                                                *)

\* A change of records that is none of the coroutines' own keeps the rest.
LEMMA RunsMoveOK ==
  ASSUME IInv, runs' \in [RunIds -> Run], RunsMove(runs', runs)
  PROVE  /\ ItemsOK(items, runs', enqueued)
         /\ FramesOK(frames, items, runs', enqueued, consulted)
         /\ LaneExclusive'
<1>0. TypeOK /\ ItemsOK(items, runs, enqueued) /\ LaneExclusive
      /\ FramesOK(frames, items, runs, enqueued, consulted)
  BY DEF IInv
<1>1. ItemsOK(items, runs', enqueued)
  <2>1. ASSUME NEW i \in ItemIds, items[i].run # 0 PROVE items[i].run \in RunIds
    BY <1>0, <2>1 DEF TypeOK, Item
  <2> QED BY <1>0, <2>1 DEF ItemsOK, RunsMove
<1>2. ASSUME NEW c \in Coroutines
      PROVE  FrameOK(frames[c], c, items, runs', enqueued, consulted)
  <2>1. FrameOK(frames[c], c, items, runs, enqueued, consulted) /\ frames[c] \in Frame
    BY <1>0 DEF FramesOK, TypeOK
  <2>2. ASSUME frames[c].pc = "spawn"
        PROVE  SameRun(runs', runs, frames[c].run)
    <3>1. frames[c].run \in RunIds /\ runs[frames[c].run].phase = "spawning"
      BY <2>1, <2>2 DEF FrameOK, Frame
    <3> QED BY <3>1 DEF RunsMove, SameRun
  <2>3. SameItems(items, items, enqueued)
    BY DEF SameItems
  <2>4. enqueued \in Nat
    BY <1>0 DEF TypeOK
  <2> QED BY <2>1, <2>2, <2>3, <2>4, FrameKept
<1>3. FramesOK(frames, items, runs', enqueued, consulted)
  BY <1>0, <1>2 DEF FramesOK
<1>4. LaneExclusive'
  BY <1>0 DEF LaneExclusive, Running, RunsMove
<1> QED BY <1>1, <1>3, <1>4

\* A new record for coroutine c, on a lane that is free if it is for a step.
LEMMA NewRecordOK ==
  ASSUME IInv, NEW c \in Coroutines, NEW t \in Tasks, NEW s \in Steps \cup {Orchestrate},
         NEW p \in Providers, NEW spent,
         frames[c].pc \in {"git", "consult"},
         t = frames[c].task, s = frames[c].step, p = frames[c].provider,
         s \in Steps => p \notin Busy,
         \A d \in Coroutines : d # c /\ frames[d].pc = "consult"
                                => spent[frames[d].task] = consulted[frames[d].task],
         NewRecord(c, t, s, p)
  PROVE  /\ started' \in 0..RunCap /\ runs' \in [RunIds -> Run]
         /\ frames' \in [Coroutines -> Frame]
         /\ RunsOK(runs', started')
         /\ ItemsOK(items, runs', enqueued)
         /\ FramesOK(frames', items, runs', enqueued, spent)
         /\ LaneExclusive'
<1> DEFINE n == started + 1
           rec == [status |-> "running", phase |-> "spawning", kept |-> TRUE,
                   task |-> t, step |-> s, provider |-> p]
           g == [frames[c] EXCEPT !.pc = "spawn", !.run = n]
<1>0. TypeOK /\ RunsOK(runs, started) /\ ItemsOK(items, runs, enqueued) /\ LaneExclusive
      /\ FramesOK(frames, items, runs, enqueued, consulted)
  BY DEF IInv
<1>1. n \in RunIds /\ started' = n /\ n \in 0..RunCap /\ started \in Nat
  BY <1>0 DEF NewRecord, TypeOK, RunIds
<1>2. runs' = [runs EXCEPT ![n] = rec] /\ frames' = [frames EXCEPT ![c] = g]
  BY DEF NewRecord
<1>3. rec \in Run
  BY DEF Run, RunStatuses
<1>4. runs[n] = NoRun /\ NoRun.status = "absent" /\ NoRun.phase = "absent"
  <2>1. n > started
    BY <1>1
  <2>2. RunOK(runs[n], n, started)
    BY <1>0, <1>1 DEF RunsOK
  <2> QED BY <2>1, <2>2 DEF RunOK, NoRun
<1>5. /\ rec.status = "running" /\ rec.phase = "spawning" /\ rec.kept
      /\ rec.task = t /\ rec.step = s /\ rec.provider = p
  OBVIOUS
<1>6. frames[c] \in Frame /\ FrameOK(frames[c], c, items, runs, enqueued, consulted)
  BY <1>0 DEF TypeOK, FramesOK
<1>7. /\ g \in Frame /\ g.pc = "spawn" /\ g.run = n
      /\ g.task = t /\ g.step = s /\ g.provider = p /\ g.item = frames[c].item
  BY <1>1, <1>6 DEF Frame
<1> HIDE DEF n, rec, g
<1>8. /\ runs' \in [RunIds -> Run] /\ runs'[n] = rec
      /\ \A r \in RunIds : r # n => runs'[r] = runs[r]
  BY <1>0, <1>1, <1>2, <1>3 DEF TypeOK
<1>9. RunsOK(runs', started')
  <2>1. ASSUME NEW r \in RunIds, r # n PROVE RunOK(runs'[r], r, n)
    <3>1. (r > n => r > started) /\ (r <= n => r <= started)
      BY <1>1, <2>1 DEF RunIds, n
    <3> QED BY <1>0, <1>8, <2>1, <3>1 DEF RunsOK, RunOK
  <2>2. RunOK(rec, n, n)
    BY <1>1, <1>5 DEF RunOK, RunIds
  <2> QED BY <1>1, <1>8, <2>1, <2>2 DEF RunsOK
<1>10. ItemsOK(items, runs', enqueued)
  <2>1. ASSUME NEW i \in ItemIds, items[i].run # 0
        PROVE  items[i].run \in RunIds /\ items[i].run # n
    BY <1>0, <1>4, <2>1 DEF ItemsOK, TypeOK, Item, Unborn
  <2> QED BY <1>0, <1>8, <2>1 DEF ItemsOK
<1>11. ASSUME NEW d \in Coroutines, frames[d].pc = "spawn"
       PROVE  frames[d].run \in RunIds /\ frames[d].run # n
  BY <1>0, <1>4, <1>11 DEF FramesOK, FrameOK, TypeOK, Frame
<1>12. ASSUME NEW d \in Coroutines, d # c
       PROVE  FrameOK(frames[d], d, items, runs', enqueued, spent)
  <2>1. frames[d] \in Frame /\ FrameOK(frames[d], d, items, runs, enqueued, consulted)
    BY <1>0 DEF TypeOK, FramesOK
  <2>2. frames[d].pc = "spawn" => SameRun(runs', runs, frames[d].run)
    BY <1>8, <1>11 DEF SameRun
  <2>3. SameItems(items, items, enqueued) /\ enqueued \in Nat
    BY <1>0 DEF SameItems, TypeOK
  <2> QED BY <1>12, <2>1, <2>2, <2>3, FrameKept
<1>13. FrameOK(g, c, items, runs', enqueued, spent)
  <2>1. n # 0
    BY <1>1 DEF RunIds
  <2> QED BY <1>5, <1>6, <1>7, <1>8, <2>1 DEF FrameOK
<1>14. /\ [frames EXCEPT ![c] = g] \in [Coroutines -> Frame]
       /\ FramesOK([frames EXCEPT ![c] = g], items, runs', enqueued, spent)
  <2>1. \A d, e \in Coroutines : d # c /\ e # c /\ d # e
          /\ frames[d].pc = "spawn" /\ frames[e].pc = "spawn" => frames[d].run # frames[e].run
    BY <1>0 DEF FramesOK
  <2>2. frames \in [Coroutines -> Frame]
    BY <1>0 DEF TypeOK
  <2> QED BY <1>7, <1>11, <1>12, <1>13, <2>1, <2>2, OneFrame
<1>15. LaneExclusive'
  <2>1. ASSUME NEW r \in RunIds, r # n, RunningIn(runs', r), s \in Steps
        PROVE  runs'[r].provider # p
    <3>1. RunningIn(runs, r) /\ runs'[r] = runs[r]
      BY <1>8, <2>1 DEF RunningIn
    <3>2. runs[r].provider \in Busy
      BY <3>1 DEF Busy, BusyIn
    <3> QED BY <2>1, <3>1, <3>2
  <2>2. \A r \in RunIds : r # n => (RunningIn(runs', r) <=> RunningIn(runs, r))
    BY <1>8 DEF RunningIn
  <2> QED BY <1>0, <1>5, <1>8, <2>1, <2>2 DEF LaneExclusive, Running
<1> QED BY <1>1, <1>2, <1>8, <1>9, <1>10, <1>14, <1>15

\* The process of coroutine c's record is created, or cannot be.
LEMMA SpawnedOK ==
  ASSUME IInv, NEW c \in Coroutines, frames[c].pc = "spawn",
         \/ runs' = [runs EXCEPT ![frames[c].run].phase = "alive"]
         \/ runs' = [runs EXCEPT ![frames[c].run].status = "error",
                                 ![frames[c].run].phase = "over"]
  PROVE  /\ runs' \in [RunIds -> Run]
         /\ RunsOK(runs', started)
         /\ ItemsOK(items, runs', enqueued)
         /\ OthersOK(c, items, runs', enqueued, consulted)
         /\ LaneExclusive'
<1> DEFINE r == frames[c].run
<1>0. TypeOK /\ RunsOK(runs, started) /\ ItemsOK(items, runs, enqueued) /\ LaneExclusive
      /\ FramesOK(frames, items, runs, enqueued, consulted)
  BY DEF IInv
<1>1. r \in RunIds /\ runs[r].phase = "spawning" /\ runs[r] \in Run
  BY <1>0 DEF FramesOK, FrameOK, TypeOK, Frame
<1>2. runs[r].status = "running" /\ runs[r].kept
  BY <1>0, <1>1 DEF RunsOK, RunOK
<1>3. /\ runs'[r] \in Run
      /\ runs'[r].task = runs[r].task /\ runs'[r].step = runs[r].step
      /\ runs'[r].provider = runs[r].provider /\ runs'[r].kept = runs[r].kept
      /\ \/ runs'[r].phase = "alive" /\ runs'[r].status = "running"
         \/ runs'[r].phase = "over" /\ runs'[r].status = "error"
  <2>1. CASE runs' = [runs EXCEPT ![r].phase = "alive"]
    BY <1>0, <1>1, <1>2, <2>1 DEF Run, TypeOK
  <2>2. CASE runs' = [runs EXCEPT ![r].status = "error", ![r].phase = "over"]
    BY <1>0, <1>1, <1>2, <2>2 DEF Run, TypeOK, RunStatuses
  <2> QED BY <2>1, <2>2
<1>4. /\ runs' \in [RunIds -> Run]
      /\ \A q \in RunIds : q # r => runs'[q] = runs[q]
  BY <1>0, <1>1, <1>3 DEF TypeOK
<1> HIDE DEF r
<1>5. RunsOK(runs', started)
  <2>1. RunOK(runs'[r], r, started)
    <3>1. RunOK(runs[r], r, started) /\ NoRun.phase = "absent"
      BY <1>0, <1>1 DEF RunsOK, NoRun
    <3> QED BY <1>1, <1>2, <1>3, <3>1 DEF RunOK
  <2> QED BY <1>0, <1>4, <2>1 DEF RunsOK
<1>6. ItemsOK(items, runs', enqueued)
  <2>1. ASSUME NEW i \in ItemIds, items[i].run # 0
        PROVE  items[i].run \in RunIds /\ items[i].run # r
    BY <1>0, <1>1, <2>1 DEF ItemsOK, TypeOK, Item, Unborn
  <2> QED BY <1>0, <1>4, <2>1 DEF ItemsOK
<1>7. ASSUME NEW d \in Coroutines, d # c
      PROVE  FrameOK(frames[d], d, items, runs', enqueued, consulted)
  <2>1. frames[d] \in Frame /\ FrameOK(frames[d], d, items, runs, enqueued, consulted)
    BY <1>0 DEF TypeOK, FramesOK
  <2>2. ASSUME frames[d].pc = "spawn" PROVE SameRun(runs', runs, frames[d].run)
    <3>1. frames[d].run # r
      BY <1>0, <1>7, <2>2 DEF FramesOK, r
    <3>2. frames[d].run \in RunIds
      BY <2>1, <2>2 DEF FrameOK, Frame
    <3> QED BY <1>4, <3>1, <3>2 DEF SameRun
  <2>3. SameItems(items, items, enqueued) /\ enqueued \in Nat
    BY <1>0 DEF SameItems, TypeOK
  <2> QED BY <2>1, <2>2, <2>3, FrameKept
<1>8. OthersOK(c, items, runs', enqueued, consulted)
  BY <1>0, <1>7 DEF OthersOK, FramesOK
<1>9. LaneExclusive'
  <2>1. \A q \in RunIds : /\ RunningIn(runs', q) => RunningIn(runs, q)
                          /\ runs'[q].step = runs[q].step
                          /\ runs'[q].provider = runs[q].provider
    BY <1>2, <1>3, <1>4 DEF RunningIn
  <2> QED BY <1>0, <2>1 DEF LaneExclusive, Running
<1> QED BY <1>4, <1>5, <1>6, <1>8, <1>9

-----------------------------------------------------------------------------
(* The invariant is kept by every action.                                  *)

\* Handlers that only edit queue.json.
LEMMA ItemsEdited ==
  ASSUME IInv, items' \in [ItemIds -> Item], Derived(items', items, runs),
         UNCHANGED <<enqueued, consults, consulted, runVars, frames, stepState, settings>>
  PROVE  IInv'
<1>0. TypeOK /\ RunsOK(runs, started) /\ ItemsOK(items, runs, enqueued) /\ LaneExclusive
      /\ FramesOK(frames, items, runs, enqueued, consulted)
  BY DEF IInv
<1>1. /\ enqueued' = enqueued /\ consults' = consults /\ consulted' = consulted
      /\ runs' = runs /\ started' = started /\ frames' = frames /\ stepState' = stepState
      /\ mode' = mode /\ red' = red /\ sequencing' = sequencing
  BY DEF runVars, settings
<1>2. enqueued \in Nat
  BY <1>0 DEF TypeOK
<1>3. ItemsOK(items', runs, enqueued) /\ SameItems(items', items, enqueued)
  BY <1>0, <1>2, DerivedOK DEF TypeOK
<1>4. FramesOK(frames, items', runs, enqueued, consulted)
  <2>1. ASSUME NEW c \in Coroutines
        PROVE  FrameOK(frames[c], c, items', runs, enqueued, consulted)
    <3>1. frames[c] \in Frame /\ FrameOK(frames[c], c, items, runs, enqueued, consulted)
      BY <1>0 DEF TypeOK, FramesOK
    <3> QED BY <1>2, <1>3, <3>1, FrameKept DEF SameRun
  <2> QED BY <1>0, <2>1 DEF FramesOK
<1>5. TypeOK'
  BY <1>0, <1>1 DEF TypeOK
<1>6. LaneExclusive'
  BY <1>0, <1>1 DEF LaneExclusive, Running, RunningIn
<1> QED BY <1>0, <1>1, <1>3, <1>4, <1>5, <1>6 DEF IInv

\* Unblocking the rest of a task changes statuses only.
LEMMA UnblockedIs ==
  ASSUME NEW its \in [ItemIds -> Item], NEW i \in ItemIds
  PROVE  /\ Unblocked(its, i) \in [ItemIds -> Item]
         /\ Unblocked(its, i)[i] = its[i]
         /\ \A j \in ItemIds :
              /\ Unblocked(its, i)[j].task = its[j].task
              /\ Unblocked(its, i)[j].step = its[j].step
              /\ Unblocked(its, i)[j].run = its[j].run
              /\ \/ Unblocked(its, i)[j].status = its[j].status
                 \/ its[j].status = "blocked" /\ Unblocked(its, i)[j].status = "queued"
<1>1. ASSUME NEW x \in Item, x.status = "blocked"
      PROVE  /\ [x EXCEPT !.status = "queued"] \in Item
             /\ [x EXCEPT !.status = "queued"].task = x.task
             /\ [x EXCEPT !.status = "queued"].step = x.step
             /\ [x EXCEPT !.status = "queued"].run = x.run
             /\ [x EXCEPT !.status = "queued"].status = "queued"
  BY DEF Item, QueueStatuses
<1>2. ASSUME NEW j \in ItemIds
      PROVE  /\ Unblocked(its, i)[j] \in Item
             /\ j = i => Unblocked(its, i)[j] = its[j]
             /\ Unblocked(its, i)[j].task = its[j].task
             /\ Unblocked(its, i)[j].step = its[j].step
             /\ Unblocked(its, i)[j].run = its[j].run
             /\ \/ Unblocked(its, i)[j].status = its[j].status
                \/ its[j].status = "blocked" /\ Unblocked(its, i)[j].status = "queued"
  <2>1. its[j] \in Item
    OBVIOUS
  <2>2. CASE j # i /\ its[j].task = its[i].task /\ its[j].status = "blocked"
    <3>1. Unblocked(its, i)[j] = [its[j] EXCEPT !.status = "queued"]
      BY <2>2 DEF Unblocked
    <3> QED BY <1>1, <2>1, <2>2, <3>1
  <2>3. CASE ~(j # i /\ its[j].task = its[i].task /\ its[j].status = "blocked")
    <3>1. Unblocked(its, i)[j] = its[j]
      BY <2>3 DEF Unblocked
    <3> QED BY <2>1, <3>1
  <2> QED BY <2>2, <2>3
<1>3. Unblocked(its, i) = [j \in ItemIds |-> Unblocked(its, i)[j]]
  BY DEF Unblocked
<1>4. Unblocked(its, i) \in [ItemIds -> Item]
  BY <1>2, <1>3
<1> QED BY <1>2, <1>4

\* Retry, reroute and skip: item i is queued again without a run, or skipped,
\* and the rest of its task is unblocked.
LEMMA Revival ==
  ASSUME IInv, NEW i \in ItemIds, NEW x \in Item,
         items[i].status # "absent",
         x.task = items[i].task, x.step = items[i].step,
         x.status \in {"queued", "skipped"}, x.run \in {0, items[i].run},
         items' = Unblocked([items EXCEPT ![i] = x], i)
  PROVE  items' \in [ItemIds -> Item] /\ Derived(items', items, runs)
<1> DEFINE base == [items EXCEPT ![i] = x]
<1>0. items \in [ItemIds -> Item] /\ ItemsOK(items, runs, enqueued)
  BY DEF IInv, TypeOK
<1>1. base \in [ItemIds -> Item] /\ base[i] = x /\ \A j \in ItemIds : j # i => base[j] = items[j]
  BY <1>0
<1> HIDE DEF base
<1>2. items' = Unblocked(base, i)
  BY DEF base
<1>3. /\ Unblocked(base, i) \in [ItemIds -> Item]
      /\ Unblocked(base, i)[i] = base[i]
      /\ \A j \in ItemIds :
           /\ Unblocked(base, i)[j].task = base[j].task
           /\ Unblocked(base, i)[j].step = base[j].step
           /\ Unblocked(base, i)[j].run = base[j].run
           /\ \/ Unblocked(base, i)[j].status = base[j].status
              \/ base[j].status = "blocked" /\ Unblocked(base, i)[j].status = "queued"
  BY <1>1, UnblockedIs
<1>4. ASSUME NEW j \in ItemIds
      PROVE  /\ items'[j].task = items[j].task /\ items'[j].step = items[j].step
             /\ items[j].status = "absent" => items'[j].status = "absent"
             /\ items'[j].run \in {0, items[j].run}
             /\ items'[j].status = "running" => items'[j].run # 0
             /\ items'[j].status = "done" =>
                  items'[j].run # 0 /\ runs[items'[j].run].status = "succeeded"
  <2>1. CASE j = i
    BY <1>1, <1>2, <1>3, <2>1
  <2>2. CASE j # i
    BY <1>0, <1>1, <1>2, <1>3, <2>2 DEF ItemsOK
  <2> QED BY <2>1, <2>2
<1> QED BY <1>2, <1>3, <1>4 DEF Derived

\* A retry revives an item and forgets its run.
LEMMA RetryOK == ASSUME IInv, NEW i \in ItemIds, Retry(i) PROVE IInv'
<1> DEFINE x == [items[i] EXCEPT !.status = "queued", !.run = 0]
<1>1. items[i] \in Item /\ items \in [ItemIds -> Item]
  BY DEF IInv, TypeOK
<1>2. /\ x \in Item /\ x.task = items[i].task /\ x.step = items[i].step
      /\ x.status = "queued" /\ x.run = 0
  BY <1>1 DEF Item, QueueStatuses
<1>3. [items EXCEPT ![i].status = "queued", ![i].run = 0] = [items EXCEPT ![i] = x]
  BY <1>1
<1>4. items[i].status # "absent"
  BY DEF Retry
<1> HIDE DEF x
<1>5. items' \in [ItemIds -> Item] /\ Derived(items', items, runs)
  BY <1>2, <1>3, <1>4, Revival DEF Retry
<1> QED BY <1>5, ItemsEdited DEF Retry

\* A skip ends an item that is not running and unblocks its task.
LEMMA SkipOK == ASSUME IInv, NEW i \in ItemIds, Skip(i) PROVE IInv'
<1> DEFINE x == [items[i] EXCEPT !.status = "skipped"]
<1>1. items[i] \in Item /\ items \in [ItemIds -> Item]
  BY DEF IInv, TypeOK
<1>2. /\ x \in Item /\ x.task = items[i].task /\ x.step = items[i].step
      /\ x.status = "skipped" /\ x.run = items[i].run
  BY <1>1 DEF Item, QueueStatuses
<1>3. [items EXCEPT ![i].status = "skipped"] = [items EXCEPT ![i] = x]
  BY <1>1
<1>4. items[i].status # "absent"
  BY DEF Skip
<1> HIDE DEF x
<1>5. items' \in [ItemIds -> Item] /\ Derived(items', items, runs)
  BY <1>2, <1>3, <1>4, Revival DEF Skip
<1> QED BY <1>5, ItemsEdited DEF Skip

\* A reroute revives an item with another provider.
LEMMA RerouteOK ==
  ASSUME IInv, NEW i \in ItemIds, NEW p \in Providers, Reroute(i, p) PROVE IInv'
<1> DEFINE x == [items[i] EXCEPT !.status = "queued", !.run = 0, !.override = p]
<1>1. items[i] \in Item /\ items \in [ItemIds -> Item]
  BY DEF IInv, TypeOK
<1>2. /\ x \in Item /\ x.task = items[i].task /\ x.step = items[i].step
      /\ x.status = "queued" /\ x.run = 0
  BY <1>1 DEF Item, QueueStatuses
<1>3. [items EXCEPT ![i].status = "queued", ![i].run = 0, ![i].override = p]
        = [items EXCEPT ![i] = x]
  BY <1>1
<1>4. items[i].status # "absent"
  BY DEF Reroute
<1> HIDE DEF x
<1>5. items' \in [ItemIds -> Item] /\ Derived(items', items, runs)
  BY <1>2, <1>3, <1>4, Revival DEF Reroute
<1> QED BY <1>5, ItemsEdited DEF Reroute

\* A deleted item takes nothing with it that others rely on.
LEMMA RemoveOK == ASSUME IInv, NEW i \in ItemIds, Remove(i) PROVE IInv'
<1>1. NoItem \in Item
  BY DEF NoItem, Item
<1>2. items \in [ItemIds -> Item] /\ ItemsOK(items, runs, enqueued)
  BY DEF IInv, TypeOK
<1>3. items' = [items EXCEPT ![i] = NoItem]
  BY DEF Remove
<1>4. items' \in [ItemIds -> Item] /\ Derived(items', items, runs)
  BY <1>1, <1>2, <1>3 DEF Derived, ItemsOK
<1> QED BY <1>4, ItemsEdited DEF Remove

\* Clearing the queue keeps the running items.
LEMMA ClearOK == ASSUME IInv, Clear PROVE IInv'
<1>1. NoItem \in Item
  BY DEF NoItem, Item
<1>2. items \in [ItemIds -> Item] /\ ItemsOK(items, runs, enqueued)
  BY DEF IInv, TypeOK
<1>3. items' = [i \in ItemIds |-> IF items[i].status = "running" THEN items[i] ELSE NoItem]
  BY DEF Clear
<1>4. items' \in [ItemIds -> Item] /\ Derived(items', items, runs)
  BY <1>1, <1>2, <1>3 DEF Derived, ItemsOK
<1> QED BY <1>4, ItemsEdited DEF Clear

\* A new item has a fresh number and no run.
LEMMA AddStepOK ==
  ASSUME IInv, NEW t \in Tasks, NEW s \in Steps, AddStep(t, s) PROVE IInv'
<1> DEFINE m == enqueued + 1
           x == [status |-> "queued", task |-> t, step |-> s, override |-> None, run |-> 0]
<1>0. TypeOK /\ RunsOK(runs, started) /\ ItemsOK(items, runs, enqueued) /\ LaneExclusive
      /\ FramesOK(frames, items, runs, enqueued, consulted)
  BY DEF IInv
<1>1. /\ consults' = consults /\ consulted' = consulted /\ runs' = runs
      /\ started' = started /\ frames' = frames /\ stepState' = stepState
      /\ mode' = mode /\ red' = red /\ sequencing' = sequencing
  BY DEF AddStep, runVars, settings
<1>2. m \in ItemIds /\ m \in 0..ItemCap /\ enqueued' = m /\ enqueued \in Nat /\ m > enqueued
  BY <1>0 DEF TypeOK, AddStep, ItemIds
<1>3. x \in Item /\ x.task = t /\ x.step = s /\ x.run = 0 /\ x.status = "queued"
  BY DEF Item, QueueStatuses
<1>4. items' = [items EXCEPT ![m] = x]
  BY DEF AddStep
<1> HIDE DEF m, x
<1>5. /\ items' \in [ItemIds -> Item] /\ items'[m] = x
      /\ \A i \in ItemIds : i # m => items'[i] = items[i]
  BY <1>0, <1>2, <1>3, <1>4 DEF TypeOK
<1>6. \A i \in ItemIds : i <= enqueued => i # m /\ i <= m
  BY <1>2 DEF ItemIds
<1>7. ItemsOK(items', runs, m)
  <2>1. ASSUME NEW i \in ItemIds, i # m PROVE items'[i].status # "absent" => i <= m
    BY <1>0, <1>5, <1>6, <2>1 DEF ItemsOK
  <2>2. m <= m
    BY <1>2
  <2> QED BY <1>0, <1>3, <1>5, <2>1, <2>2 DEF ItemsOK
<1>8. SameItems(items', items, enqueued)
  BY <1>5, <1>6 DEF SameItems
<1>9. FramesOK(frames, items', runs, m, consulted)
  <2>1. ASSUME NEW c \in Coroutines
        PROVE  FrameOK(frames[c], c, items', runs, m, consulted)
    <3>1. frames[c] \in Frame /\ FrameOK(frames[c], c, items, runs, enqueued, consulted)
      BY <1>0 DEF TypeOK, FramesOK
    <3>2. m \in Nat /\ enqueued <= m
      BY <1>2 DEF ItemIds
    <3> QED BY <1>2, <1>8, <3>1, <3>2, FrameKept DEF SameRun
  <2> QED BY <1>0, <2>1 DEF FramesOK
<1>10. TypeOK'
  BY <1>0, <1>1, <1>2, <1>5 DEF TypeOK
<1>11. LaneExclusive'
  BY <1>0, <1>1 DEF LaneExclusive, Running, RunningIn
<1> QED BY <1>0, <1>1, <1>2, <1>7, <1>9, <1>10, <1>11 DEF IInv

\* Handlers that only change the settings.
LEMMA SettingsOK ==
  ASSUME IInv, UNCHANGED <<queueVars, runVars, frames, stepState>>,
         mode' \in {"balanced", "manual_approval"}, red' \in BOOLEAN, sequencing' \subseteq Tasks
  PROVE  IInv'
<1>0. TypeOK /\ RunsOK(runs, started) /\ ItemsOK(items, runs, enqueued) /\ LaneExclusive
      /\ FramesOK(frames, items, runs, enqueued, consulted)
  BY DEF IInv
<1>1. /\ items' = items /\ enqueued' = enqueued /\ consults' = consults /\ consulted' = consulted
      /\ runs' = runs /\ started' = started /\ frames' = frames /\ stepState' = stepState
  BY DEF queueVars, runVars
<1>2. TypeOK'
  BY <1>0, <1>1 DEF TypeOK
<1>3. LaneExclusive'
  BY <1>0, <1>1 DEF LaneExclusive, Running, RunningIn
<1> QED BY <1>0, <1>1, <1>2, <1>3 DEF IInv

\* What every coroutine but c relies on, when the items are the same ones.
LEMMA Others ==
  ASSUME IInv, NEW c \in Coroutines, NEW its, SameItems(its, items, enqueued)
  PROVE  OthersOK(c, its, runs, enqueued, consulted)
<1>0. TypeOK /\ FramesOK(frames, items, runs, enqueued, consulted) /\ enqueued \in Nat
  BY DEF IInv, TypeOK
<1>1. ASSUME NEW d \in Coroutines
      PROVE  FrameOK(frames[d], d, its, runs, enqueued, consulted)
  <2>1. frames[d] \in Frame /\ FrameOK(frames[d], d, items, runs, enqueued, consulted)
    BY <1>0 DEF TypeOK, FramesOK
  <2> QED BY <1>0, <2>1, FrameKept DEF SameRun
<1> QED BY <1>0, <1>1 DEF OthersOK, FramesOK

\* A segment that touches neither the records nor the counters.
LEMMA WaitingOK ==
  ASSUME IInv, Waiting(runs, enqueued, consulted), consults' \subseteq Tasks,
         UNCHANGED <<enqueued, consulted, runVars, settings>>
  PROVE  IInv'
<1>0. TypeOK /\ RunsOK(runs, started) /\ LaneExclusive
  BY DEF IInv
<1>1. /\ enqueued' = enqueued /\ consulted' = consulted
      /\ runs' = runs /\ started' = started
      /\ mode' = mode /\ red' = red /\ sequencing' = sequencing
  BY DEF runVars, settings
<1>2. TypeOK'
  BY <1>0, <1>1 DEF TypeOK, Waiting
<1>3. LaneExclusive'
  BY <1>0, <1>1 DEF LaneExclusive, Running, RunningIn
<1> QED BY <1>0, <1>1, <1>2, <1>3 DEF IInv, Waiting

\* An approval is a dispatch by a request.
LEMMA ApproveOK ==
  ASSUME IInv, NEW c \in Requests, NEW i \in ItemIds, Approve(c, i) PROVE IInv'
<1>0. /\ runs \in [RunIds -> Run] /\ items \in [ItemIds -> Item] /\ enqueued \in Nat
      /\ frames \in [Coroutines -> Frame] /\ consults \subseteq Tasks
      /\ stepState \in [Tasks -> [Steps -> StepStatuses]]
      /\ ItemsOK(items, runs, enqueued)
  BY DEF IInv, TypeOK
<1>1. c \in Coroutines /\ items[i].status # "absent"
  BY DEF Coroutines, Approve
<1>2. OthersOK(c, items, runs, enqueued, consulted)
  BY <1>1, Others DEF SameItems
<1>3. Waiting(runs, enqueued, consulted)
  BY <1>0, <1>1, <1>2, DispatchItemOK DEF Approve
<1> QED BY <1>0, <1>3, WaitingOK DEF Approve

\* A step run without an item, by a request or by a full sequence.
LEMMA DirectOK ==
  ASSUME IInv, NEW c \in Requests, NEW t \in Tasks, NEW s \in Steps, NEW p \in Providers,
         NEW auto, NEW confirm,
         RunStep(runs, c, items, 0, t, s, p, auto, confirm),
         UNCHANGED <<enqueued, consults, consulted, runVars, settings>>
  PROVE  IInv'
<1>0. /\ runs \in [RunIds -> Run] /\ items \in [ItemIds -> Item] /\ enqueued \in Nat
      /\ frames \in [Coroutines -> Frame] /\ consults \subseteq Tasks
      /\ stepState \in [Tasks -> [Steps -> StepStatuses]]
      /\ ItemsOK(items, runs, enqueued)
  BY DEF IInv, TypeOK
<1>1. c \in Coroutines
  BY DEF Coroutines
<1>2. OthersOK(c, items, runs, enqueued, consulted)
  BY <1>1, Others DEF SameItems
<1>3. Waiting(runs, enqueued, consulted)
  BY <1>0, <1>1, <1>2, RunStepOK
<1> QED BY <1>0, <1>3, WaitingOK

\* A tick settles, prunes, consults and dispatches; each part is a lemma above.
LEMMA TickOK == ASSUME IInv, Tick PROVE IInv'
<1>0. /\ runs \in [RunIds -> Run] /\ enqueued \in Nat
      /\ frames \in [Coroutines -> Frame] /\ consults \subseteq Tasks
      /\ stepState \in [Tasks -> [Steps -> StepStatuses]]
      /\ items \in [ItemIds -> Item] /\ ItemsOK(items, runs, enqueued)
  BY DEF IInv, TypeOK
<1>1. /\ Finalized \in [ItemIds -> Item] /\ ItemsOK(Finalized, runs, enqueued)
      /\ SameItems(Finalized, items, enqueued)
  BY FinalizedOK DEF IInv, Core
<1>2. Dispatcher \in Coroutines
  BY DEF Coroutines
<1>3. OthersOK(Dispatcher, Finalized, runs, enqueued, consulted)
  BY <1>1, <1>2, Others
<1>4. RequestedConsults \subseteq Tasks
  BY <1>0 DEF RequestedConsults
<1>5. consults' \subseteq Tasks
  BY <1>4 DEF Tick
<1>6. ASSUME NEW manual, DispatchNext(runs, Finalized, manual)
      PROVE  Waiting(runs, enqueued, consulted)
  BY <1>0, <1>1, <1>3, <1>6, DispatchNextOK
<1>7. ASSUME NEW t \in RequestedConsults, ~(consulted[t] >= ConsultLimit),
             items' = Finalized, UNCHANGED stepState,
             frames' = [frames EXCEPT ![Dispatcher] =
                          [pc |-> "consult", item |-> 0, task |-> t,
                           step |-> Orchestrate, provider |-> Controller, run |-> 0]]
      PROVE  Waiting(runs, enqueued, consulted)
  <2> DEFINE g == [pc |-> "consult", item |-> 0, task |-> t,
                   step |-> Orchestrate, provider |-> Controller, run |-> 0]
  <2>1. t \in Tasks
    BY <1>4, <1>7
  <2>2. consulted[t] < ConsultLimit
    BY <1>7, <2>1 DEF IInv, TypeOK
  <2>3. /\ g \in Frame /\ g.pc = "consult" /\ g.task = t /\ g.step = Orchestrate
        /\ g.provider = Controller
    BY <2>1 DEF Frame
  <2> HIDE DEF g
  <2>4. FrameOK(g, Dispatcher, Finalized, runs, enqueued, consulted)
    BY <2>1, <2>2, <2>3 DEF FrameOK
  <2>5. /\ [frames EXCEPT ![Dispatcher] = g] \in [Coroutines -> Frame]
        /\ FramesOK([frames EXCEPT ![Dispatcher] = g], Finalized, runs, enqueued, consulted)
    BY <1>0, <1>2, <1>3, <2>3, <2>4, OneFrame DEF OthersOK
  <2> QED BY <1>0, <1>1, <1>7, <2>5 DEF Waiting, g
<1>8. Waiting(runs, enqueued, consulted)
  BY <1>6, <1>7 DEF Tick
<1> QED BY <1>5, <1>8, WaitingOK DEF Tick

\* After the snapshot the lane is free and taken, or the item fails.
LEMMA GitDoneOK == ASSUME IInv, NEW c \in Coroutines, GitDone(c) PROVE IInv'
<1> DEFINE f == frames[c]
<1>0. TypeOK /\ RunsOK(runs, started) /\ ItemsOK(items, runs, enqueued) /\ LaneExclusive
      /\ FramesOK(frames, items, runs, enqueued, consulted) /\ enqueued \in Nat
  BY DEF IInv, TypeOK
<1>1. f \in Frame /\ f.pc = "git" /\ FrameOK(f, c, items, runs, enqueued, consulted)
  BY <1>0 DEF TypeOK, FramesOK, GitDone
<1>2. f.task \in Tasks /\ f.step \in Steps /\ f.provider \in Providers
  BY <1>1 DEF FrameOK
<1>3. /\ enqueued' = enqueued /\ consults' = consults /\ consulted' = consulted
      /\ stepState' = stepState /\ mode' = mode /\ red' = red /\ sequencing' = sequencing
  BY DEF GitDone, settings
<1>4. CASE f.provider \notin Busy /\ NewRecord(c, f.task, f.step, f.provider) /\ UNCHANGED items
  <2>1. /\ started' \in 0..RunCap /\ runs' \in [RunIds -> Run]
        /\ frames' \in [Coroutines -> Frame]
        /\ RunsOK(runs', started')
        /\ ItemsOK(items, runs', enqueued)
        /\ FramesOK(frames', items, runs', enqueued, consulted)
        /\ LaneExclusive'
    BY <1>1, <1>2, <1>4, NewRecordOK
  <2>2. TypeOK'
    BY <1>0, <1>3, <1>4, <2>1 DEF TypeOK
  <2> QED BY <1>3, <1>4, <2>1, <2>2 DEF IInv
<1>5. CASE /\ items' = SetItem(items, f.item, StatusAfter("provider_busy"))
           /\ frames' = [frames EXCEPT ![c] = NoFrame]
           /\ UNCHANGED runVars
  <2> DEFINE new == SetItem(items, f.item, StatusAfter("provider_busy"))
  <2>1. StatusAfter("provider_busy") \in Refused
    BY StatusAfterRefused
  <2>2. new \in [ItemIds -> Item] /\ ItemsOK(new, runs, enqueued) /\ SameItems(new, items, enqueued)
    BY <1>0, <2>1, SetItemOK DEF TypeOK
  <2> HIDE DEF new
  <2>3. OthersOK(c, new, runs, enqueued, consulted)
    BY <2>2, Others
  <2>4. NoFrame \in Frame /\ NoFrame.pc # "spawn"
        /\ FrameOK(NoFrame, c, new, runs, enqueued, consulted)
    BY NoFrameOK DEF NoFrame
  <2>5. /\ [frames EXCEPT ![c] = NoFrame] \in [Coroutines -> Frame]
        /\ FramesOK([frames EXCEPT ![c] = NoFrame], new, runs, enqueued, consulted)
    BY <1>0, <2>3, <2>4, OneFrame DEF OthersOK, TypeOK
  <2>6. items' = new
    BY <1>5 DEF new
  <2>7. Waiting(runs, enqueued, consulted)
    BY <1>0, <1>3, <1>5, <2>2, <2>5, <2>6 DEF Waiting, TypeOK
  <2> QED BY <1>0, <1>3, <1>5, <2>7, WaitingOK DEF TypeOK, settings
<1> QED BY <1>4, <1>5 DEF GitDone

\* A consult takes a fresh record, spends one of its task's consults, and its run is no step run.
LEMMA ConsultStartOK == ASSUME IInv, ConsultStart PROVE IInv'
<1> DEFINE f == frames[Dispatcher]
<1>0. TypeOK /\ FramesOK(frames, items, runs, enqueued, consulted) /\ enqueued \in Nat
  BY DEF IInv, TypeOK
<1>1. Dispatcher \in Coroutines
  BY DEF Coroutines
<1>2. f \in Frame /\ f.pc = "consult" /\ FrameOK(f, Dispatcher, items, runs, enqueued, consulted)
  BY <1>0, <1>1 DEF TypeOK, FramesOK, ConsultStart
<1>3. /\ f.step = Orchestrate /\ f.task \in Tasks /\ f.provider = Controller
      /\ f.provider \in Providers /\ consulted[f.task] < ConsultLimit
  BY <1>2 DEF FrameOK
<1>4. \A d \in Coroutines : d # Dispatcher => frames[d].pc # "consult"
  BY <1>0 DEF FramesOK, FrameOK
<1>5. NewRecord(Dispatcher, f.task, f.step, f.provider)
  BY DEF ConsultStart
<1>6. /\ started' \in 0..RunCap /\ runs' \in [RunIds -> Run]
      /\ frames' \in [Coroutines -> Frame]
      /\ RunsOK(runs', started')
      /\ ItemsOK(items, runs', enqueued)
      /\ FramesOK(frames', items, runs', enqueued, consulted')
      /\ LaneExclusive'
  BY <1>1, <1>2, <1>3, <1>4, <1>5, NewRecordOK
<1>7. consulted' \in [Tasks -> 0..ConsultLimit]
  BY <1>0, <1>3 DEF TypeOK, ConsultStart
<1>8. /\ items' = items /\ enqueued' = enqueued /\ consults' = consults
      /\ stepState' = stepState /\ mode' = mode /\ red' = red /\ sequencing' = sequencing
  BY DEF ConsultStart, settings
<1>9. TypeOK'
  BY <1>0, <1>6, <1>7, <1>8 DEF TypeOK
<1> QED BY <1>6, <1>8, <1>9 DEF IInv

\* A created process makes its item running, with a run no other item names.
LEMMA StepSpawnedOK == ASSUME IInv, NEW c \in Coroutines, StepSpawned(c) PROVE IInv'
<1> DEFINE f == frames[c]
           new == IF f.item \in ItemIds /\ items[f.item].status # "absent"
                  THEN [items EXCEPT ![f.item].status = "running", ![f.item].run = f.run]
                  ELSE items
<1>0. TypeOK /\ RunsOK(runs, started) /\ ItemsOK(items, runs, enqueued)
      /\ FramesOK(frames, items, runs, enqueued, consulted) /\ enqueued \in Nat
  BY DEF IInv, TypeOK
<1>1. /\ f \in Frame /\ f.pc = "spawn" /\ f.step # Orchestrate
      /\ FrameOK(f, c, items, runs, enqueued, consulted)
  BY <1>0 DEF TypeOK, FramesOK, StepSpawned
<1>2. /\ f.task \in Tasks /\ f.step \in Steps /\ f.run \in RunIds
      /\ runs[f.run].phase = "spawning"
      /\ runs[f.run].task = f.task /\ runs[f.run].step = f.step
  BY <1>1 DEF FrameOK, Frame
<1>3. runs' = [runs EXCEPT ![f.run].phase = "alive"]
  BY DEF StepSpawned
<1>4. /\ runs' \in [RunIds -> Run] /\ RunsOK(runs', started)
      /\ ItemsOK(items, runs', enqueued)
      /\ OthersOK(c, items, runs', enqueued, consulted)
      /\ LaneExclusive'
  BY <1>1, <1>3, SpawnedOK
<1>5. /\ runs'[f.run].phase = "alive" /\ runs'[f.run].status = "running"
      /\ runs'[f.run].task = f.task /\ runs'[f.run].step = f.step
  <2>1. runs[f.run] \in Run /\ runs[f.run].status = "running"
    BY <1>0, <1>2 DEF RunsOK, RunOK, TypeOK
  <2> QED BY <1>0, <1>2, <1>3, <2>1 DEF TypeOK, Run
<1>6. /\ enqueued' = enqueued /\ consults' = consults /\ consulted' = consulted
      /\ started' = started /\ mode' = mode /\ red' = red /\ sequencing' = sequencing
      /\ frames' = [frames EXCEPT ![c] = NoFrame]
  BY DEF StepSpawned, settings
<1>7. items' = new
  <2>1. StatusAfter("started") = "running"
    BY DEF StatusAfter
  <2> QED BY <2>1 DEF StepSpawned
<1>8. stepState' \in [Tasks -> [Steps -> StepStatuses]]
  BY <1>0 DEF StepSpawned, TypeOK, StepStatuses
<1>9. \A j \in ItemIds : items[j].run # f.run
  BY <1>0, <1>2 DEF ItemsOK, Unborn, RunIds
<1>10. /\ new \in [ItemIds -> Item] /\ ItemsOK(new, runs', enqueued)
       /\ SameItems(new, items, enqueued)
  <2>1. CASE f.item \in ItemIds /\ items[f.item].status # "absent"
    <3> DEFINE i == f.item
    <3>1. /\ i \in ItemIds /\ items[i] \in Item /\ items \in [ItemIds -> Item]
          /\ i <= enqueued /\ items[i].task = f.task /\ items[i].step = f.step
      BY <1>0, <1>1, <2>1 DEF FrameOK, TypeOK, ItemIds
    <3>2. new = [items EXCEPT ![i].status = "running", ![i].run = f.run]
      BY <2>1
    <3>3. /\ new[i] \in Item /\ new[i].status = "running" /\ new[i].run = f.run
          /\ new[i].task = f.task /\ new[i].step = f.step
          /\ \A j \in ItemIds : j # i => new[j] = items[j]
      BY <1>2, <3>1, <3>2 DEF Item, QueueStatuses
    <3>4. new \in [ItemIds -> Item]
      BY <3>1, <3>2, <3>3
    <3> HIDE DEF new, i
    <3>5. f.run # 0 /\ runs'[f.run].phase \notin Unborn
      BY <1>2, <1>5 DEF RunIds, Unborn
    <3>6. ASSUME NEW j \in ItemIds, NEW k \in ItemIds, j # k, new[j].run # 0
          PROVE  new[j].run # new[k].run
      <4>1. items[j].run # 0 => items[j].run # items[k].run
        BY <1>0, <3>6 DEF ItemsOK
      <4> QED BY <1>9, <3>3, <3>6, <4>1
    <3>7. ItemsOK(new, runs', enqueued)
      <4>1. ASSUME NEW j \in ItemIds
            PROVE  /\ new[j].status # "absent" =>
                        j <= enqueued /\ new[j].task \in Tasks /\ new[j].step \in Steps
                   /\ new[j].run # 0 =>
                        /\ runs'[new[j].run].phase \notin Unborn
                        /\ runs'[new[j].run].status # "error"
                        /\ runs'[new[j].run].task = new[j].task
                        /\ runs'[new[j].run].step = new[j].step
                   /\ new[j].status = "running" => new[j].run # 0
                   /\ new[j].status = "done" =>
                        new[j].run # 0 /\ runs'[new[j].run].status = "succeeded"
        <5>1. CASE j = i
          BY <1>2, <1>5, <3>1, <3>3, <3>5, <5>1
        <5>2. CASE j # i
          BY <1>4, <3>3, <5>2 DEF ItemsOK
        <5> QED BY <5>1, <5>2
      <4> QED BY <3>6, <4>1 DEF ItemsOK
    <3>8. SameItems(new, items, enqueued)
      BY <2>1, <3>1, <3>3 DEF SameItems, i
    <3> QED BY <3>4, <3>7, <3>8
  <2>2. CASE ~(f.item \in ItemIds /\ items[f.item].status # "absent")
    <3>1. new = items
      BY <2>2
    <3> QED BY <1>0, <1>4, <3>1 DEF TypeOK, SameItems
  <2> QED BY <2>1, <2>2
<1> HIDE DEF new, f
<1>11. \A d \in Coroutines : d # c => FrameOK(frames[d], d, new, runs', enqueued, consulted)
  BY <1>0, <1>4, <1>10, FrameKept DEF OthersOK, SameRun, TypeOK
<1>12. NoFrame \in Frame /\ NoFrame.pc # "spawn"
       /\ FrameOK(NoFrame, c, new, runs', enqueued, consulted)
  BY NoFrameOK DEF NoFrame
<1>13. /\ [frames EXCEPT ![c] = NoFrame] \in [Coroutines -> Frame]
       /\ FramesOK([frames EXCEPT ![c] = NoFrame], new, runs', enqueued, consulted)
  BY <1>0, <1>4, <1>11, <1>12, OneFrame DEF OthersOK, TypeOK
<1>14. TypeOK'
  BY <1>0, <1>4, <1>6, <1>7, <1>8, <1>10, <1>13 DEF TypeOK
<1> QED BY <1>4, <1>6, <1>7, <1>10, <1>13, <1>14 DEF IInv

\* A process that could not be created ends its record and fails its item.
LEMMA StepSpawnErrorOK == ASSUME IInv, NEW c \in Coroutines, StepSpawnError(c) PROVE IInv'
<1> DEFINE f == frames[c]
           new == SetItem(items, f.item, StatusAfter("error"))
<1>0. TypeOK /\ enqueued \in Nat
  BY DEF IInv, TypeOK
<1>1. f.pc = "spawn" /\ runs' = [runs EXCEPT ![f.run].status = "error", ![f.run].phase = "over"]
  BY DEF StepSpawnError
<1>2. /\ runs' \in [RunIds -> Run] /\ RunsOK(runs', started)
      /\ ItemsOK(items, runs', enqueued)
      /\ OthersOK(c, items, runs', enqueued, consulted)
      /\ LaneExclusive'
  BY <1>1, SpawnedOK
<1>3. /\ enqueued' = enqueued /\ consults' = consults /\ consulted' = consulted
      /\ started' = started /\ mode' = mode /\ red' = red /\ sequencing' = sequencing
      /\ frames' = [frames EXCEPT ![c] = NoFrame] /\ items' = new
  BY DEF StepSpawnError, settings
<1>4. stepState' \in [Tasks -> [Steps -> StepStatuses]]
  BY <1>0 DEF StepSpawnError, TypeOK, StepStatuses
<1>5. StatusAfter("error") \in Refused
  BY StatusAfterRefused
<1>6. /\ new \in [ItemIds -> Item] /\ ItemsOK(new, runs', enqueued)
      /\ SameItems(new, items, enqueued)
  BY <1>0, <1>2, <1>5, SetItemOK DEF TypeOK
<1> HIDE DEF new, f
<1>7. \A d \in Coroutines : d # c => FrameOK(frames[d], d, new, runs', enqueued, consulted)
  BY <1>0, <1>2, <1>6, FrameKept DEF OthersOK, SameRun, TypeOK
<1>8. NoFrame \in Frame /\ NoFrame.pc # "spawn"
      /\ FrameOK(NoFrame, c, new, runs', enqueued, consulted)
  BY NoFrameOK DEF NoFrame
<1>9. /\ [frames EXCEPT ![c] = NoFrame] \in [Coroutines -> Frame]
      /\ FramesOK([frames EXCEPT ![c] = NoFrame], new, runs', enqueued, consulted)
  BY <1>0, <1>2, <1>7, <1>8, OneFrame DEF OthersOK, TypeOK
<1>10. TypeOK'
  BY <1>0, <1>2, <1>3, <1>4, <1>6, <1>9 DEF TypeOK
<1> QED BY <1>2, <1>3, <1>6, <1>9, <1>10 DEF IInv

\* A consult's process exists or not; then the tick goes on.
LEMMA ConsultSpawnedOK == ASSUME IInv, ConsultSpawned PROVE IInv'
<1>0. TypeOK /\ enqueued \in Nat
  BY DEF IInv, TypeOK
<1>1. Dispatcher \in Coroutines
  BY DEF Coroutines
<1>2. /\ runs' \in [RunIds -> Run] /\ RunsOK(runs', started)
      /\ ItemsOK(items, runs', enqueued)
      /\ OthersOK(Dispatcher, items, runs', enqueued, consulted)
      /\ LaneExclusive'
  BY <1>1, SpawnedOK DEF ConsultSpawned
<1>3. DispatchNext(runs', items, FALSE)
  BY DEF ConsultSpawned
<1>4. Waiting(runs', enqueued, consulted)
  BY <1>0, <1>2, <1>3, DispatchNextOK DEF TypeOK
<1>5. /\ enqueued' = enqueued /\ consults' = consults /\ consulted' = consulted
      /\ started' = started /\ mode' = mode /\ red' = red /\ sequencing' = sequencing
  BY DEF ConsultSpawned, settings
<1>6. TypeOK'
  BY <1>0, <1>2, <1>4, <1>5 DEF TypeOK, Waiting
<1> QED BY <1>2, <1>4, <1>5, <1>6 DEF IInv, Waiting

\* Steps of the processes and of the memory bound: records move on, nothing
\* else but the steps' statuses changes.
LEMMA RecordsMoved ==
  ASSUME IInv, runs' \in [RunIds -> Run], RunsOK(runs', started), RunsMove(runs', runs),
         stepState' \in [Tasks -> [Steps -> StepStatuses]],
         UNCHANGED <<queueVars, started, frames, settings>>
  PROVE  IInv'
<1>1. TypeOK
  BY DEF IInv
<1>2. /\ items' = items /\ enqueued' = enqueued /\ consults' = consults /\ consulted' = consulted
      /\ started' = started /\ frames' = frames
      /\ mode' = mode /\ red' = red /\ sequencing' = sequencing
  BY DEF queueVars, settings
<1>3. /\ ItemsOK(items, runs', enqueued)
      /\ FramesOK(frames, items, runs', enqueued, consulted)
      /\ LaneExclusive'
  BY RunsMoveOK
<1>4. TypeOK'
  BY <1>1, <1>2 DEF TypeOK
<1> QED BY <1>2, <1>3, <1>4 DEF IInv

\* One record moves on from being alive, dying or completing, or is evicted.
LEMMA RecordMoved ==
  ASSUME IInv, NEW r \in RunIds, NEW x \in Run,
         runs[r].phase \notin Unborn,
         runs' = [runs EXCEPT ![r] = x],
         x.task = runs[r].task, x.step = runs[r].step, x.provider = runs[r].provider,
         x.phase \notin Unborn,
         x.phase = "alive" <=> x.status = "running",
         x.status = "running" => x.kept /\ runs[r].status = "running",
         x.status # "absent",
         x.status = "error" => x.phase = "over" /\ runs[r].status = "error",
         runs[r].status = "succeeded" => x.status = "succeeded",
         stepState' \in [Tasks -> [Steps -> StepStatuses]],
         UNCHANGED <<queueVars, started, frames, settings>>
  PROVE  IInv'
<1>0. TypeOK /\ RunsOK(runs, started) /\ RunOK(runs[r], r, started)
  BY DEF IInv, RunsOK
<1>1. /\ runs' \in [RunIds -> Run] /\ runs'[r] = x
      /\ \A q \in RunIds : q # r => runs'[q] = runs[q]
  BY <1>0 DEF TypeOK
<1>2. r <= started /\ ~(r > started)
  <2>1. NoRun.phase = "absent"
    BY DEF NoRun
  <2> QED BY <1>0, <2>1 DEF RunOK, Unborn, TypeOK, RunIds
<1>3. RunOK(x, r, started)
  <2>1. x.phase \in {"spawning", "alive"} <=> x.status = "running"
    BY DEF Unborn
  <2>2. x.phase # "absent"
    BY DEF Unborn
  <2> QED BY <1>0, <1>2, <2>1, <2>2 DEF RunOK
<1>4. RunsOK(runs', started)
  BY <1>0, <1>1, <1>3 DEF RunsOK
<1>5. RunsMove(runs', runs)
  <2>1. runs[r].status = "running" => runs[r].kept
    BY <1>0 DEF RunOK
  <2>2. ASSUME NEW q \in RunIds, q # r PROVE RunningIn(runs', q) => RunningIn(runs, q)
    BY <1>1, <2>2 DEF RunningIn
  <2>3. RunningIn(runs', r) => RunningIn(runs, r)
    BY <1>1, <2>1 DEF RunningIn
  <2>4. runs[r].phase # "spawning"
    BY DEF Unborn
  <2> QED BY <1>1, <2>2, <2>3, <2>4 DEF RunsMove
<1> QED BY <1>1, <1>4, <1>5, RecordsMoved

\* An exit gives a live run its verdict and leaves a cancelled one its own.
LEMMA ExitOK == ASSUME IInv, NEW r \in RunIds, Exit(r) PROVE IInv'
<1>0. /\ runs \in [RunIds -> Run] /\ runs[r] \in Run /\ RunOK(runs[r], r, started)
      /\ stepState' \in [Tasks -> [Steps -> StepStatuses]]
  BY DEF IInv, TypeOK, RunsOK, Exit
<1>1. ASSUME runs[r].phase = "alive", NEW status \in {"succeeded", "failed", "cancelled"},
             runs' = [runs EXCEPT ![r].status = status, ![r].phase = "completing"]
      PROVE  IInv'
  <2> DEFINE x == [runs[r] EXCEPT !.status = status, !.phase = "completing"]
  <2>1. /\ x \in Run /\ x.status = status /\ x.phase = "completing"
        /\ x.task = runs[r].task /\ x.step = runs[r].step /\ x.provider = runs[r].provider
    BY <1>0, <1>1 DEF Run, RunStatuses
  <2>2. runs' = [runs EXCEPT ![r] = x]
    BY <1>0, <1>1
  <2>3. runs[r].status = "running" /\ runs[r].phase \notin Unborn
    BY <1>0, <1>1 DEF RunOK, Unborn
  <2> HIDE DEF x
  <2> QED BY <1>0, <1>1, <2>1, <2>2, <2>3, RecordMoved DEF Exit, Unborn
<1>2. ASSUME runs[r].phase = "dying", runs' = [runs EXCEPT ![r].phase = "completing"]
      PROVE  IInv'
  <2> DEFINE x == [runs[r] EXCEPT !.phase = "completing"]
  <2>1. /\ x \in Run /\ x.status = runs[r].status /\ x.phase = "completing"
        /\ x.task = runs[r].task /\ x.step = runs[r].step /\ x.provider = runs[r].provider
    BY <1>0 DEF Run
  <2>2. runs' = [runs EXCEPT ![r] = x]
    BY <1>0, <1>2
  <2>3. /\ runs[r].status \notin {"running", "error", "absent"} /\ runs[r].phase \notin Unborn
    <3>1. NoRun.phase = "absent"
      BY DEF NoRun
    <3>2. ~(r > started)
      BY <1>0, <1>2, <3>1 DEF RunOK
    <3>3. r <= started
      BY <3>2 DEF IInv, TypeOK, RunIds
    <3> QED BY <1>0, <1>2, <3>3 DEF RunOK, Unborn
  <2> HIDE DEF x
  <2> QED BY <1>0, <2>1, <2>2, <2>3, RecordMoved DEF Exit, Unborn
<1> QED BY <1>1, <1>2 DEF Exit

\* The hook records the step's status and ends the run.
LEMMA CompleteOK == ASSUME IInv, NEW r \in RunIds, Complete(r) PROVE IInv'
<1> DEFINE x == [runs[r] EXCEPT !.phase = "over"]
<1>0. /\ runs \in [RunIds -> Run] /\ runs[r] \in Run /\ RunOK(runs[r], r, started)
      /\ runs[r].phase = "completing" /\ started \in Nat
      /\ stepState \in [Tasks -> [Steps -> StepStatuses]]
  BY DEF IInv, TypeOK, RunsOK, Complete
<1>1. /\ x \in Run /\ x.status = runs[r].status /\ x.phase = "over"
      /\ x.task = runs[r].task /\ x.step = runs[r].step /\ x.provider = runs[r].provider
  BY <1>0 DEF Run
<1>2. runs' = [runs EXCEPT ![r] = x]
  BY <1>0 DEF Complete
<1>3. runs[r].status \notin {"running", "error", "absent"} /\ runs[r].phase \notin Unborn
  <2>1. NoRun.phase = "absent"
    BY DEF NoRun
  <2>2. ~(r > started)
    BY <1>0, <2>1 DEF RunOK
  <2>3. r <= started
    BY <1>0, <2>2 DEF RunIds
  <2> QED BY <1>0, <2>3 DEF RunOK, Unborn
<1>4. runs[r].status \in StepStatuses
  BY <1>0, <1>3 DEF Run, RunStatuses, StepStatuses
<1>5. stepState' \in [Tasks -> [Steps -> StepStatuses]]
  BY <1>0, <1>4 DEF Complete
<1>6. /\ x.phase \notin Unborn /\ (x.phase = "alive" <=> x.status = "running")
      /\ x.status \notin {"running", "error", "absent"}
      /\ (runs[r].status = "succeeded" => x.status = "succeeded")
  BY <1>1, <1>3 DEF Unborn
<1>7. UNCHANGED <<queueVars, started, frames, settings>>
  BY DEF Complete
<1> HIDE DEF x
<1> QED BY <1>1, <1>2, <1>3, <1>5, <1>6, <1>7, RecordMoved

\* A record that is dropped was finished.
LEMMA EvictOK == ASSUME IInv, NEW r \in RunIds, Evict(r) PROVE IInv'
<1> DEFINE x == [runs[r] EXCEPT !.kept = FALSE]
<1>0. /\ TypeOK /\ RunsOK(runs, started) /\ runs[r] \in Run /\ RunOK(runs[r], r, started)
      /\ runs[r].kept /\ runs[r].status # "running" /\ started \in Nat
  BY DEF IInv, TypeOK, RunsOK, Evict
<1>1. /\ x \in Run /\ x.status = runs[r].status /\ x.phase = runs[r].phase
      /\ x.task = runs[r].task /\ x.step = runs[r].step /\ x.provider = runs[r].provider
  BY <1>0 DEF Run
<1>2. runs' = [runs EXCEPT ![r] = x]
  BY <1>0 DEF Evict, TypeOK
<1>3. ~(r > started)
  <2>1. r > started => runs[r] = NoRun
    BY <1>0 DEF RunOK
  <2>2. NoRun.kept = FALSE
    BY DEF NoRun
  <2> QED BY <1>0, <2>1, <2>2
<1>4. r <= started
  BY <1>0, <1>3 DEF RunIds
<1>5. runs[r].phase \notin Unborn /\ runs[r].status # "absent"
  BY <1>0, <1>4 DEF RunOK, Unborn
<1>6. /\ x.phase \notin Unborn /\ (x.phase = "alive" <=> x.status = "running")
      /\ (x.status = "error" => x.phase = "over")
  BY <1>0, <1>1, <1>5 DEF RunOK, Unborn
<1>7. /\ stepState' \in [Tasks -> [Steps -> StepStatuses]]
      /\ UNCHANGED <<queueVars, started, frames, settings>>
  BY <1>0 DEF Evict, TypeOK
<1> HIDE DEF x
<1> QED BY <1>0, <1>1, <1>2, <1>5, <1>6, <1>7, RecordMoved

\* Stopping a set of runs that may be stopped.
LEMMA CancelledOK ==
  ASSUME IInv, NEW R \in SUBSET RunIds, \A r \in R : Cancellable(r),
         runs' = Cancelled(R),
         UNCHANGED <<queueVars, started, frames, stepState, settings>>
  PROVE  IInv'
<1>0. TypeOK /\ RunsOK(runs, started) /\ runs \in [RunIds -> Run]
  BY DEF IInv, TypeOK
<1>1. ASSUME NEW x \in Run
      PROVE  /\ [x EXCEPT !.status = "cancelled", !.phase = "dying"] \in Run
             /\ [x EXCEPT !.status = "cancelled", !.phase = "dying"].task = x.task
             /\ [x EXCEPT !.status = "cancelled", !.phase = "dying"].step = x.step
             /\ [x EXCEPT !.status = "cancelled", !.phase = "dying"].provider = x.provider
             /\ [x EXCEPT !.status = "cancelled", !.phase = "dying"].kept = x.kept
             /\ [x EXCEPT !.status = "cancelled", !.phase = "dying"].status = "cancelled"
             /\ [x EXCEPT !.status = "cancelled", !.phase = "dying"].phase = "dying"
  BY DEF Run, RunStatuses
<1>2. ASSUME NEW r \in RunIds
      PROVE  /\ runs'[r] \in Run
             /\ runs'[r].task = runs[r].task /\ runs'[r].step = runs[r].step
             /\ runs'[r].provider = runs[r].provider /\ runs'[r].kept = runs[r].kept
             /\ \/ runs'[r] = runs[r]
                \/ /\ runs[r].phase = "alive" /\ runs'[r].phase = "dying"
                   /\ runs'[r].status = "cancelled"
  <2>1. runs[r] \in Run
    BY <1>0
  <2>2. CASE r \in R
    <3>1. runs'[r] = [runs[r] EXCEPT !.status = "cancelled", !.phase = "dying"]
      BY <2>2 DEF Cancelled
    <3>2. runs[r].phase = "alive"
      BY <2>2 DEF Cancellable
    <3> DEFINE x == [runs[r] EXCEPT !.status = "cancelled", !.phase = "dying"]
    <3>3. /\ x \in Run /\ x.task = runs[r].task /\ x.step = runs[r].step
          /\ x.provider = runs[r].provider /\ x.kept = runs[r].kept
          /\ x.status = "cancelled" /\ x.phase = "dying"
      BY <1>1, <2>1
    <3> HIDE DEF x
    <3>4. runs'[r] = x
      BY <3>1 DEF x
    <3> QED BY <3>2, <3>3, <3>4
  <2>3. CASE r \notin R
    <3>1. runs'[r] = runs[r]
      BY <2>3 DEF Cancelled
    <3> QED BY <2>1, <3>1
  <2> QED BY <2>2, <2>3
<1>3. runs' \in [RunIds -> Run]
  <2>1. runs' = [r \in RunIds |-> runs'[r]]
    BY DEF Cancelled
  <2> QED BY <1>2, <2>1
<1>4. ASSUME NEW r \in RunIds
      PROVE  RunOK(runs'[r], r, started)
  <2>1. RunOK(runs[r], r, started)
    BY <1>0 DEF RunsOK
  <2>2. NoRun.phase = "absent"
    BY DEF NoRun
  <2> QED BY <1>2, <2>1, <2>2 DEF RunOK
<1>5. RunsOK(runs', started)
  BY <1>4 DEF RunsOK
<1>6. RunsMove(runs', runs)
  <2>1. ASSUME NEW r \in RunIds
        PROVE  /\ runs[r].phase = "spawning" => runs'[r].phase = "spawning"
               /\ runs[r].phase \notin Unborn => runs'[r].phase \notin Unborn
               /\ runs[r].status # "error" => runs'[r].status # "error"
               /\ runs[r].status = "succeeded" => runs'[r].status = "succeeded"
               /\ RunningIn(runs', r) => RunningIn(runs, r)
    <3>1. RunOK(runs[r], r, started)
      BY <1>0 DEF RunsOK
    <3> QED BY <1>2, <3>1 DEF RunOK, RunningIn, Unborn
  <2> QED BY <1>2, <2>1 DEF RunsMove
<1> QED BY <1>0, <1>3, <1>5, <1>6, RecordsMoved DEF TypeOK

-----------------------------------------------------------------------------
(* The theorems.                                                           *)

\* Init establishes the invariant.
LEMMA InitOK == Init => IInv
<1> SUFFICES ASSUME Init PROVE IInv
  OBVIOUS
<1>1. NoItem \in Item /\ NoItem.status = "absent" /\ NoItem.run = 0
  BY DEF NoItem, Item
<1>2. NoRun \in Run /\ NoRun.status = "absent" /\ NoRun.phase = "absent"
  BY DEF NoRun, Run
<1>3. NoFrame \in Frame /\ NoFrame.pc = "idle"
  BY NoFrameOK DEF NoFrame
<1>4. TypeOK
  <2>1. items \in [ItemIds -> Item] /\ runs \in [RunIds -> Run] /\ frames \in [Coroutines -> Frame]
    BY <1>1, <1>2, <1>3 DEF Init
  <2>2. enqueued \in 0..ItemCap /\ started \in 0..RunCap
    BY DEF Init
  <2>3. consulted \in [Tasks -> 0..ConsultLimit]
    BY DEF Init
  <2>4. stepState \in [Tasks -> [Steps -> StepStatuses]]
    <3>1. "idle" \in StepStatuses
      BY DEF StepStatuses
    <3> QED BY <3>1 DEF Init
  <2> QED BY <2>1, <2>2, <2>3, <2>4 DEF Init, TypeOK
<1>5. RunsOK(runs, started)
  BY <1>2 DEF Init, RunsOK, RunOK, RunIds
<1>6. ItemsOK(items, runs, enqueued)
  BY <1>1 DEF Init, ItemsOK
<1>7. FramesOK(frames, items, runs, enqueued, consulted)
  BY <1>3, NoFrameOK DEF Init, FramesOK
<1>8. LaneExclusive
  BY <1>2 DEF Init, LaneExclusive, Running, RunningIn
<1> QED BY <1>4, <1>5, <1>6, <1>7, <1>8 DEF IInv

\* Every step keeps the invariant.
LEMMA NextOK == IInv /\ [Next]_vars => IInv'
<1> SUFFICES ASSUME IInv, [Next]_vars PROVE IInv'
  OBVIOUS
<1>1. CASE EventLoop
  BY <1>1, TickOK, ConsultStartOK, ConsultSpawnedOK, GitDoneOK, StepSpawnedOK, StepSpawnErrorOK
     DEF EventLoop
<1>2. CASE Processes
  <2>1. ASSUME NEW r \in RunIds, Cancel(r) PROVE IInv'
    BY <2>1, CancelledOK DEF Cancel
  <2>2. ASSUME CancelAll PROVE IInv'
    <3>1. {r \in RunIds : Cancellable(r)} \in SUBSET RunIds
      OBVIOUS
    <3> QED BY <2>2, <3>1, CancelledOK DEF CancelAll
  <2> QED BY <1>2, <2>1, <2>2, ExitOK, CompleteOK, EvictOK DEF Processes
<1>3. CASE UserRequest
  <2>1. ASSUME NEW c \in Requests, NEW t \in Tasks, NEW s \in Steps, NEW confirm,
               RunStepNow(c, t, s, confirm)
        PROVE  IInv'
    <3>1. StepProvider[s] \in Providers
      OBVIOUS
    <3> QED BY <2>1, <3>1, DirectOK DEF RunStepNow
  <2>2. ASSUME NEW c \in Requests, NEW t \in Tasks, NEW s \in Steps, NEW p \in Providers,
               NEW confirm, SequenceStep(c, t, s, p, confirm)
        PROVE  IInv'
    BY <2>2, DirectOK DEF SequenceStep
  <2>3. /\ mode \in {"balanced", "manual_approval"} /\ red \in BOOLEAN
        /\ sequencing \subseteq Tasks
    BY DEF IInv, TypeOK
  <2>4. ASSUME SetMode PROVE IInv'
    BY <2>3, <2>4, SettingsOK DEF SetMode
  <2>5. ASSUME SetHealth PROVE IInv'
    BY <2>3, <2>5, SettingsOK DEF SetHealth
  <2>6. ASSUME NEW t \in Tasks, BeginSequence(t) \/ EndSequence(t) PROVE IInv'
    BY <2>3, <2>6, SettingsOK DEF BeginSequence, EndSequence
  <2>7. ASSUME NEW t \in Tasks, NEW s \in Steps, AddStep(t, s) PROVE IInv'
    BY <2>7, AddStepOK
  <2>8. ASSUME NEW c \in Requests, NEW i \in ItemIds, Approve(c, i) PROVE IInv'
    BY <2>8, ApproveOK
  <2>9. ASSUME NEW i \in ItemIds, Retry(i) \/ Skip(i) \/ Remove(i) PROVE IInv'
    BY <2>9, RetryOK, SkipOK, RemoveOK
  <2>10. ASSUME NEW i \in ItemIds, NEW p \in Providers, Reroute(i, p) PROVE IInv'
    BY <2>10, RerouteOK
  <2>11. ASSUME Clear PROVE IInv'
    BY <2>11, ClearOK
  <2> QED BY <1>3, <2>1, <2>2, <2>4, <2>5, <2>6, <2>7, <2>8, <2>9, <2>10, <2>11
          DEF UserRequest
<1>4. CASE UNCHANGED vars
  <2>1. /\ UNCHANGED <<queueVars, runVars, frames, stepState>>
        /\ mode' = mode /\ red' = red /\ sequencing' = sequencing
    BY <1>4 DEF vars, settings
  <2> QED BY <2>1, SettingsOK DEF IInv, TypeOK
<1> QED BY <1>1, <1>2, <1>3, <1>4 DEF Next

\* The inductive invariant: whatever requests, cancellations and evictions
\* interleave with the dispatcher's awaits, every item, record and waiting
\* coroutine stays in a state its history explains.
THEOREM Invariance == Spec => []IInv
<1>1. Init => IInv
  BY InitOK
<1>2. IInv /\ [Next]_vars => IInv'
  BY NextOK
<1> QED BY <1>1, <1>2, PTL DEF Spec

\* queue.json, the run records and the task metadata keep their types.
THEOREM TypeCorrect == Spec => []TypeOK
<1>1. IInv => TypeOK
  BY DEF IInv
<1> QED BY <1>1, Invariance, PTL

\* Two records of step runs that say running are on different providers, for
\* any mix of dispatches, approvals, direct runs and full sequences.
THEOREM OneRunPerLane == Spec => []LaneExclusive
<1>1. IInv => LaneExclusive
  BY DEF IInv
<1> QED BY <1>1, Invariance, PTL

\* An item is never settled with the result of somebody else's run.
THEOREM ItemOwnsItsRun == Spec => []RunningItemOwnsRun
<1>1. IInv => RunningItemOwnsRun
  <2> SUFFICES ASSUME IInv PROVE RunningItemOwnsRun
    OBVIOUS
  <2>1. TypeOK /\ RunsOK(runs, started) /\ ItemsOK(items, runs, enqueued)
    BY DEF IInv
  <2> SUFFICES ASSUME NEW i \in ItemIds, items[i].status = "running"
               PROVE  /\ items[i].run # 0
                      /\ runs[items[i].run].phase \in {"alive", "dying", "completing", "over"}
                      /\ runs[items[i].run].status # "error"
                      /\ runs[items[i].run].task = items[i].task
                      /\ runs[items[i].run].step = items[i].step
                      /\ \A j \in ItemIds : j # i /\ items[j].status = "running"
                                                => items[j].run # items[i].run
    BY DEF RunningItemOwnsRun
  <2>2. items[i].run # 0 /\ items[i].run \in RunIds
    BY <2>1 DEF ItemsOK, TypeOK, Item
  <2>3. runs[items[i].run] \in Run
    BY <2>1, <2>2 DEF TypeOK
  <2>4. runs[items[i].run].phase \in {"alive", "dying", "completing", "over"}
    BY <2>1, <2>2, <2>3 DEF ItemsOK, Unborn, Run
  <2> QED BY <2>1, <2>2, <2>4 DEF ItemsOK
<1> QED BY <1>1, Invariance, PTL

\* An item that says done ran, and its run succeeded.
THEOREM DoneIsEarned == Spec => []DoneMeansSucceeded
<1>1. IInv => DoneMeansSucceeded
  BY DEF IInv, ItemsOK, DoneMeansSucceeded
<1> QED BY <1>1, Invariance, PTL

-----------------------------------------------------------------------------
(* The refinement: what each step is for RunLifecycle.                     *)

Reported == {r \in RunIds : runs[r].phase = "over" /\ runs[r].status # "error"}
StatusOf == [r \in RunIds |-> runs[r].status]
LifecycleStep == [Lifecycle!Next]_<<StatusOf, Reported>>

\* A step that changes no status and takes no run into or out of "over" stutters.
LEMMA Stutters ==
  ASSUME \A r \in RunIds : /\ runs'[r].status = runs[r].status
                           /\ runs'[r].phase = "over" <=> runs[r].phase = "over"
  PROVE  LifecycleStep
BY DEF LifecycleStep, StatusOf, Reported

\* A step that gives one running run its verdict, and reports nothing.
LEMMA Settles ==
  ASSUME NEW S \in SUBSET RunIds, NEW v \in RunStatuses \ {"running"},
         \A r \in S : runs[r].status = "running" /\ runs'[r].status = v,
         \A r \in RunIds : r \notin S => runs'[r].status = runs[r].status,
         UNCHANGED Reported
  PROVE  LifecycleStep
<1>1. v \in Lifecycle!Verdicts
  BY DEF Lifecycle!Verdicts, Lifecycle!RunStatuses, RunStatuses
<1>2. Lifecycle!Settle(S, v)
  BY DEF Lifecycle!Settle, Reported
<1> QED
  BY <1>1, <1>2 DEF LifecycleStep, Lifecycle!Next, StatusOf, Reported

\* A new record begins its run.
LEMMA NewRecordBegins ==
  ASSUME IInv, NEW c, NEW t, NEW s, NEW p, NewRecord(c, t, s, p)
  PROVE  LifecycleStep
<1> DEFINE rec == [status |-> "running", phase |-> "spawning", kept |-> TRUE,
                   task |-> t, step |-> s, provider |-> p]
<1>0. started + 1 \in RunIds
  BY CoreAssumption DEF IInv, TypeOK, NewRecord, RunIds
<1> PICK n \in RunIds : n = started + 1
  BY <1>0
<1>1. n > started /\ runs \in [RunIds -> Run]
  BY CoreAssumption DEF IInv, TypeOK
<1>2. runs[n] = NoRun
  BY <1>1 DEF IInv, RunsOK, RunOK
<1>3. runs' = [runs EXCEPT ![n] = rec]
  BY DEF NewRecord
<1>4. /\ runs[n].status = "absent" /\ runs[n].phase = "absent"
      /\ runs'[n].status = "running" /\ runs'[n].phase = "spawning"
      /\ \A r \in RunIds : r # n => runs'[r] = runs[r]
  BY <1>1, <1>2, <1>3 DEF NoRun
<1>5. UNCHANGED Reported
  BY <1>4 DEF Reported
<1>6. StatusOf' = [StatusOf EXCEPT ![n] = "running"]
  BY <1>4 DEF StatusOf
<1>7. Lifecycle!Begin(n)
  BY <1>4, <1>5, <1>6 DEF Lifecycle!Begin, StatusOf, Reported
<1> QED
  BY <1>7 DEF LifecycleStep, Lifecycle!Next, StatusOf, Reported

\* A coroutine that waits for its process has a run that says running.
LEMMA SpawningRuns ==
  ASSUME IInv, NEW c \in Coroutines, frames[c].pc = "spawn"
  PROVE  /\ frames[c].run \in RunIds
         /\ runs[frames[c].run].phase = "spawning"
         /\ runs[frames[c].run].status = "running"
<1>1. frames[c].run # 0 /\ runs[frames[c].run].phase = "spawning"
  BY DEF IInv, FramesOK, FrameOK
<1>2. frames[c].run \in RunIds
  BY <1>1 DEF IInv, TypeOK, Frame
<1> QED
  BY <1>1, <1>2 DEF IInv, RunsOK, RunOK

\* A process that could not be created settles its run.
LEMMA ErrorSettles ==
  ASSUME IInv, NEW r \in RunIds, runs[r].phase = "spawning", runs[r].status = "running",
         runs' = [runs EXCEPT ![r].status = "error", ![r].phase = "over"]
  PROVE  LifecycleStep
<1>1. /\ runs'[r].status = "error" /\ \A q \in RunIds : q # r => runs'[q] = runs[q]
  BY DEF IInv, TypeOK, Run
<1>2. UNCHANGED Reported
  BY <1>1 DEF Reported
<1>3. "error" \in RunStatuses \ {"running"}
  BY DEF RunStatuses
<1>4. /\ \A q \in {r} : runs[q].status = "running" /\ runs'[q].status = "error"
      /\ \A q \in RunIds : q \notin {r} => runs'[q].status = runs[q].status
  BY <1>1
<1> QED
  BY <1>2, <1>3, <1>4, Settles

\* A process that was created changes no status.
LEMMA CreationStutters ==
  ASSUME IInv, NEW r \in RunIds, runs[r].phase = "spawning",
         runs' = [runs EXCEPT ![r].phase = "alive"]
  PROVE  LifecycleStep
<1>1. /\ runs'[r].status = runs[r].status /\ runs'[r].phase = "alive"
      /\ \A q \in RunIds : q # r => runs'[q] = runs[q]
  BY DEF IInv, TypeOK, Run
<1> QED
  BY <1>1, Stutters

\* An exit settles a live run and is nothing new for a cancelled one.
LEMMA ExitImplements == ASSUME IInv, NEW r \in RunIds, Exit(r) PROVE LifecycleStep
<1>1. ASSUME runs[r].phase = "alive", NEW v \in {"succeeded", "failed", "cancelled"},
             runs' = [runs EXCEPT ![r].status = v, ![r].phase = "completing"]
      PROVE  LifecycleStep
  <2>1. /\ runs'[r].status = v /\ runs'[r].phase = "completing"
        /\ \A q \in RunIds : q # r => runs'[q] = runs[q]
    BY <1>1 DEF IInv, TypeOK, Run
  <2>2. UNCHANGED Reported /\ v \in RunStatuses \ {"running"}
    BY <1>1, <2>1 DEF Reported, RunStatuses
  <2>3. runs[r].status = "running"
    BY <1>1 DEF IInv, RunsOK, RunOK
  <2>4. /\ \A q \in {r} : runs[q].status = "running" /\ runs'[q].status = v
        /\ \A q \in RunIds : q \notin {r} => runs'[q].status = runs[q].status
    BY <2>1, <2>3
  <2> QED
    BY <2>2, <2>4, Settles
<1>2. ASSUME runs[r].phase = "dying", runs' = [runs EXCEPT ![r].phase = "completing"]
      PROVE  LifecycleStep
  <2>1. /\ runs'[r].status = runs[r].status /\ runs'[r].phase = "completing"
        /\ \A q \in RunIds : q # r => runs'[q] = runs[q]
    BY <1>2 DEF IInv, TypeOK, Run
  <2> QED
    BY <1>2, <2>1, Stutters
<1> QED
  BY <1>1, <1>2 DEF Exit

\* The end of the hook reports its run.
LEMMA CompleteImplements ==
  ASSUME IInv, NEW r \in RunIds, Complete(r) PROVE LifecycleStep
<1>1. /\ runs'[r].status = runs[r].status /\ runs'[r].phase = "over"
      /\ \A q \in RunIds : q # r => runs'[q] = runs[q]
      /\ runs[r].phase = "completing"
  BY DEF IInv, TypeOK, Run, Complete
<1>2. runs[r].status \in {"succeeded", "failed", "cancelled"}
  <2>1. RunOK(runs[r], r, started) /\ runs[r] \in Run
    BY DEF IInv, TypeOK, RunsOK
  <2>2. ~(r > started)
    BY <1>1, <2>1 DEF RunOK, NoRun
  <2>3. r <= started
    BY <2>2, CoreAssumption DEF IInv, TypeOK, RunIds
  <2>4. runs[r].status \notin {"absent", "running", "error"}
    BY <1>1, <2>1, <2>3 DEF RunOK
  <2> QED
    BY <2>1, <2>4 DEF Run, RunStatuses
<1>3. r \notin Reported /\ Reported' = Reported \cup {r}
  BY <1>1, <1>2 DEF Reported
<1>4. StatusOf' = StatusOf
  BY <1>1 DEF StatusOf
<1>5. Lifecycle!Report(r)
  BY <1>2, <1>3, <1>4
     DEF Lifecycle!Report, Lifecycle!Verdicts, Lifecycle!RunStatuses, StatusOf, Reported
<1> QED
  BY <1>5 DEF LifecycleStep, Lifecycle!Next, StatusOf, Reported

\* Stopping runs settles them together.
LEMMA CancelledSettles ==
  ASSUME IInv, NEW R \in SUBSET RunIds, \A r \in R : Cancellable(r), runs' = Cancelled(R)
  PROVE  LifecycleStep
<1>1. \A r \in R : runs[r].status = "running" /\ runs[r].phase = "alive"
  BY DEF IInv, RunsOK, RunOK, Cancellable
<1>2. /\ \A r \in R : runs'[r].status = "cancelled" /\ runs'[r].phase = "dying"
      /\ \A r \in RunIds : r \notin R => runs'[r] = runs[r]
  <2>1. ASSUME NEW x \in Run
        PROVE  /\ [x EXCEPT !.status = "cancelled", !.phase = "dying"].status = "cancelled"
               /\ [x EXCEPT !.status = "cancelled", !.phase = "dying"].phase = "dying"
    BY DEF Run
  <2>2. \A r \in RunIds : runs[r] \in Run
    BY DEF IInv, TypeOK
  <2> QED
    BY <2>1, <2>2 DEF Cancelled
<1>3. UNCHANGED Reported
  BY <1>1, <1>2 DEF Reported
<1>4. "cancelled" \in RunStatuses \ {"running"}
  BY DEF RunStatuses
<1>5. /\ \A r \in R : runs[r].status = "running" /\ runs'[r].status = "cancelled"
      /\ \A r \in RunIds : r \notin R => runs'[r].status = runs[r].status
  BY <1>1, <1>2
<1> QED
  BY <1>3, <1>4, <1>5, Settles

\* Dropping a record changes no status.
LEMMA EvictStutters == ASSUME IInv, NEW r \in RunIds, Evict(r) PROVE LifecycleStep
<1>1. /\ runs'[r].status = runs[r].status /\ runs'[r].phase = runs[r].phase
      /\ \A q \in RunIds : q # r => runs'[q] = runs[q]
  BY DEF IInv, TypeOK, Run, Evict
<1> QED
  BY <1>1, Stutters

\* A step that leaves the records alone stutters.
LEMMA QueueStutters == ASSUME UNCHANGED runs PROVE LifecycleStep
BY Stutters

\* Every step is a step of RunLifecycle or a stutter.
LEMMA StepImplements == IInv /\ [Next]_vars => LifecycleStep
<1> SUFFICES ASSUME IInv, [Next]_vars PROVE LifecycleStep
  OBVIOUS
<1>0. Dispatcher \in Coroutines
  BY DEF Coroutines
<1>1. CASE EventLoop
  <2>1. CASE Tick
    BY <2>1, QueueStutters DEF Tick, runVars
  <2>2. CASE ConsultStart
    BY <2>2, NewRecordBegins DEF ConsultStart
  <2>3. CASE ConsultSpawned
    <3> DEFINE r == frames[Dispatcher].run
    <3>1. r \in RunIds /\ runs[r].phase = "spawning" /\ runs[r].status = "running"
      BY <1>0, <2>3, SpawningRuns DEF ConsultSpawned
    <3> QED
      BY <2>3, <3>1, ErrorSettles, CreationStutters DEF ConsultSpawned
  <2>4. ASSUME NEW c \in Coroutines, GitDone(c) PROVE LifecycleStep
    BY <2>4, NewRecordBegins, QueueStutters DEF GitDone, runVars
  <2>5. ASSUME NEW c \in Coroutines, StepSpawned(c) PROVE LifecycleStep
    <3>1. frames[c].run \in RunIds /\ runs[frames[c].run].phase = "spawning"
      BY <2>5, SpawningRuns DEF StepSpawned
    <3> QED
      BY <2>5, <3>1, CreationStutters DEF StepSpawned
  <2>6. ASSUME NEW c \in Coroutines, StepSpawnError(c) PROVE LifecycleStep
    <3>1. /\ frames[c].run \in RunIds /\ runs[frames[c].run].phase = "spawning"
          /\ runs[frames[c].run].status = "running"
      BY <2>6, SpawningRuns DEF StepSpawnError
    <3> QED
      BY <2>6, <3>1, ErrorSettles DEF StepSpawnError
  <2> QED
    BY <1>1, <2>1, <2>2, <2>3, <2>4, <2>5, <2>6 DEF EventLoop
<1>2. CASE Processes
  <2>1. ASSUME NEW r \in RunIds, Cancel(r) PROVE LifecycleStep
    BY <2>1, CancelledSettles DEF Cancel
  <2>2. CASE CancelAll
    BY <2>2, CancelledSettles DEF CancelAll
  <2> QED
    BY <1>2, <2>1, <2>2, ExitImplements, CompleteImplements, EvictStutters DEF Processes
<1>3. CASE UserRequest
  <2>1. UNCHANGED runs
    BY <1>3 DEF UserRequest, AddStep, Approve, RunStepNow, SequenceStep, Retry, Skip,
                Remove, Reroute, BeginSequence, EndSequence, Clear, SetMode, SetHealth, runVars
  <2> QED
    BY <2>1, QueueStutters
<1>4. CASE UNCHANGED vars
  BY <1>4, QueueStutters DEF vars, runVars
<1> QED
  BY <1>1, <1>2, <1>3, <1>4 DEF Next

\* The queue's runs implement the run life cycle: one verdict per run, never
\* revised by a late exit or a late cancellation, and the step's result recorded
\* once, after it.
THEOREM RunsImplementLifecycle == Spec => RunsLiveOnce
<1>1. Init => Lifecycle!Init
  BY DEF Init, Lifecycle!Init, NoRun
<1> QED
  BY <1>1, StepImplements, Invariance, PTL
     DEF Spec, RunsLiveOnce, Lifecycle!Spec, LifecycleStep, StatusOf, Reported
=============================================================================
