----------------------- MODULE DispatcherAloneProofs -----------------------
(***************************************************************************)
(* What QueueDispatcher promises when only the dispatcher starts steps:    *)
(* proofs for every set of tasks, steps and providers, every routing and   *)
(* every bound.  The dispatcher is one coroutine, so while a dispatch      *)
(* waits for the snapshot or for the process no other item is started.     *)
(* The proofs are about what users do to the list in the meantime.         *)
(***************************************************************************)
EXTENDS QueueDispatcherProofs

USE CoreAssumption

-----------------------------------------------------------------------------
(* The hypotheses of the theorems.                                         *)

\* No request starts a step: no approval, no direct run, no full sequence.
DispatcherAlone == Requests = {}

\* What else the user leaves alone, where a theorem needs it.
NoRetries == "retry" \notin Ops /\ "reroute" \notin Ops
NoRemovals == "remove" \notin Ops
NoSkips == "skip" \notin Ops

-----------------------------------------------------------------------------
(* The invariant.                                                          *)

\* A dispatch waits: its item is not written yet.
InFlight(f) == f.pc \in {"git", "spawn"} /\ f.step # Orchestrate

\* TaskInOrder and LiveRunTracked, of any items and records.
OrderIn(its) ==
  \A i, j \in ItemIds :
    i < j /\ its[i].task = its[j].task /\ its[j].status = "running"
      => its[i].status \notin ActiveStatuses

TrackedIn(its, rs) ==
  \A r \in RunIds : rs[r].phase = "alive" /\ rs[r].step \in Steps =>
    \E i \in ItemIds : its[i].status = "running" /\ its[i].run = r

\* No item of its task is in front of i, and none behind it runs.
FirstInLine(i, its) ==
  \A j \in ItemIds : its[j].task = its[i].task =>
    /\ j < i => its[j].status \notin ActiveStatuses
    /\ j > i => its[j].status # "running"

\* The item of a dispatch that waits is not running, and what was true of it when
\* it was picked still is, unless the user does what the theorem excludes.
FlightOK(f, its) ==
  InFlight(f) =>
    /\ f.item \in ItemIds
    /\ its[f.item].status # "running"
    /\ NoSkips => its[f.item].status \in {"queued", "absent"}
    /\ NoRemovals => its[f.item].status # "absent"
    /\ NoRetries /\ its[f.item].status # "absent" => FirstInLine(f.item, its)

AloneInv ==
  /\ IInv
  /\ FlightOK(frames[Dispatcher], items)
  /\ NoRetries => OrderIn(items)
  /\ NoRemovals => TrackedIn(items, runs)

\* The bodies of FailureHoldsTask and QueueTableHolds.
HoldsStep ==
  \A i \in ItemIds :
    items[i].status = "running" /\ items'[i].status \in {"failed", "cancelled"} =>
      \A j \in ItemIds : items[j].task = items[i].task => items'[j].status # "queued"

TableStep ==
  \A i \in ItemIds : items[i].status # "absent" /\ items'[i].status # "absent"
    => QueueStepOK(items[i].status, items'[i].status)

-----------------------------------------------------------------------------
\* The rows of the table, one status after the other.
LEMMA TableRows ==
  /\ \A st \in QueueStatuses : QueueStepOK(st, st)
  /\ \A st \in {"running"} \cup Refused : QueueStepOK("queued", st)
  /\ \A st \in {"done", "failed", "cancelled"} : QueueStepOK("running", st)
  /\ \A st \in {"failed", "blocked", "skipped", "cancelled"} : QueueStepOK(st, "queued")
<1> USE DEF QueueStepOK, IsValid
<1>1. /\ QueueTransitions["queued"] =
           {"running", "awaiting_approval", "blocked", "skipped", "cancelled", "failed"}
      /\ QueueTransitions["running"] = {"done", "failed", "cancelled"}
      /\ "queued" \in QueueTransitions["failed"]
      /\ "queued" \in QueueTransitions["blocked"]
      /\ "queued" \in QueueTransitions["skipped"]
      /\ "queued" \in QueueTransitions["cancelled"]
      /\ {"queued", "running", "failed", "blocked", "skipped", "cancelled"} \subseteq DOMAIN QueueTransitions
  BY DEF QueueTransitions
<1>2. \A st \in QueueStatuses : QueueStepOK(st, st)
  OBVIOUS
<1>3. \A st \in {"running"} \cup Refused : QueueStepOK("queued", st)
  BY <1>1 DEF Refused
<1>4. \A st \in {"done", "failed", "cancelled"} : QueueStepOK("running", st)
  BY <1>1
<1>5. \A st \in {"failed", "blocked", "skipped", "cancelled"} : QueueStepOK(st, "queued")
  BY <1>1
<1> QED BY <1>2, <1>3, <1>4, <1>5

-----------------------------------------------------------------------------
(* Edits of the list while a dispatch may be waiting.                      *)

\* The items from old to new as users edit them: never a running one.
Edited(new, old) ==
  \A i \in ItemIds :
    /\ old[i].status = "running" => new[i] = old[i]
    /\ new[i].status = "running" => old[i].status = "running"
    /\ new[i].status # "absent" => old[i].status # "absent" /\ new[i].task = old[i].task
    /\ NoRetries /\ new[i].status \in ActiveStatuses => old[i].status \in ActiveStatuses
    /\ NoSkips /\ old[i].status = "queued" => new[i].status \in {"queued", "absent"}
    /\ NoRemovals /\ old[i].status # "absent" => new[i].status # "absent"

LEMMA ActiveIs ==
  /\ "running" \in ActiveStatuses /\ "queued" \in ActiveStatuses /\ "absent" \notin ActiveStatuses
  /\ "blocked" \in ActiveStatuses /\ "awaiting_approval" \in ActiveStatuses
  /\ \A st \in QueueTerminal : st \notin ActiveStatuses
BY DEF ActiveStatuses, QueueTerminal

LEMMA EditedOrder ==
  ASSUME NEW new, NEW old, Edited(new, old), NoRetries, OrderIn(old)
  PROVE  OrderIn(new)
<1> SUFFICES ASSUME NEW i \in ItemIds, NEW j \in ItemIds, i < j, new[i].task = new[j].task,
                    new[j].status = "running", new[i].status \in ActiveStatuses
             PROVE  FALSE
  BY DEF OrderIn
<1>1. new[i].status # "absent"
  BY ActiveIs
<1>2. old[j].status = "running" /\ new[j].task = old[j].task /\ old[i].status \in ActiveStatuses
      /\ new[i].task = old[i].task
  BY <1>1 DEF Edited
<1> QED BY <1>2 DEF OrderIn

LEMMA EditedTracked ==
  ASSUME NEW new, NEW old, NEW rs, Edited(new, old), TrackedIn(old, rs)
  PROVE  TrackedIn(new, rs)
BY DEF Edited, TrackedIn

LEMMA EditedFlight ==
  ASSUME NEW new, NEW old, NEW f, Edited(new, old), FlightOK(f, old)
  PROVE  FlightOK(f, new)
<1> SUFFICES ASSUME InFlight(f)
             PROVE  /\ f.item \in ItemIds
                    /\ new[f.item].status # "running"
                    /\ NoSkips => new[f.item].status \in {"queued", "absent"}
                    /\ NoRemovals => new[f.item].status # "absent"
                    /\ NoRetries /\ new[f.item].status # "absent" => FirstInLine(f.item, new)
  BY DEF FlightOK
<1>1. /\ f.item \in ItemIds
      /\ old[f.item].status # "running"
      /\ NoSkips => old[f.item].status \in {"queued", "absent"}
      /\ NoRemovals => old[f.item].status # "absent"
      /\ NoRetries /\ old[f.item].status # "absent" => FirstInLine(f.item, old)
  BY DEF FlightOK
<1>2. ASSUME NoRetries, new[f.item].status # "absent" PROVE FirstInLine(f.item, new)
  <2>1. old[f.item].status # "absent" /\ new[f.item].task = old[f.item].task
    BY <1>1, <1>2 DEF Edited
  <2>2. FirstInLine(f.item, old)
    BY <1>1, <1>2, <2>1
  <2>3. ASSUME NEW j \in ItemIds, new[j].task = new[f.item].task
        PROVE  /\ j < f.item => new[j].status \notin ActiveStatuses
               /\ j > f.item => new[j].status # "running"
    <3>1. CASE new[j].status = "absent"
      BY <3>1, ActiveIs
    <3>2. CASE new[j].status # "absent"
      <4>1. old[j].task = old[f.item].task
        BY <3>2, <2>1, <2>3 DEF Edited
      <4> QED BY <4>1, <2>2, <1>2 DEF Edited, FirstInLine
    <3> QED BY <3>1, <3>2
  <2> QED BY <2>3 DEF FirstInLine
<1> QED BY <1>1, <1>2 DEF Edited

\* An edit by the user.
LEMMA EditKeeps ==
  ASSUME AloneInv, IInv', Edited(items', items), UNCHANGED <<runs, frames>>
  PROVE  AloneInv' /\ HoldsStep
<1>1. AloneInv'
  BY EditedOrder, EditedTracked, EditedFlight DEF AloneInv
<1>2. HoldsStep
  BY DEF HoldsStep, Edited
<1> QED BY <1>1, <1>2

LEMMA RetryAlone ==
  ASSUME AloneInv, NEW i \in ItemIds, Retry(i)
  PROVE  Edited(items', items) /\ TableStep
<1> DEFINE mid == [items EXCEPT ![i].status = "queued", ![i].run = 0]
<1>1. items \in [ItemIds -> Item]
  BY DEF AloneInv, IInv, TypeOK
<1>2. mid[i].task = items[i].task /\ mid[i].status = "queued" /\ \A j \in ItemIds : j # i => mid[j] = items[j]
  BY <1>1 DEF Item
<1>3. items' = Unblocked(mid, i) /\ "retry" \in Ops
      /\ items[i].status \in {"failed", "blocked", "skipped", "cancelled"}
  BY DEF Retry
<1> HIDE DEF mid
<1>4. items'[i] = mid[i]
  BY <1>3 DEF Unblocked
<1>5. ASSUME NEW j \in ItemIds, j # i
      PROVE  \/ items'[j] = items[j]
             \/ /\ items[j].status = "blocked" /\ items'[j].status = "queued"
                /\ items'[j].task = items[j].task
  BY <1>1, <1>2, <1>3, <1>5 DEF Unblocked, Item
<1>6. Edited(items', items)
  BY <1>2, <1>3, <1>4, <1>5, ActiveIs DEF Edited, NoRetries
<1>7. TableStep
  <2> SUFFICES ASSUME NEW j \in ItemIds, items[j].status # "absent", items'[j].status # "absent"
               PROVE  QueueStepOK(items[j].status, items'[j].status)
    BY DEF TableStep
  <2>1. items[j].status \in QueueStatuses
    BY <1>1 DEF Item
  <2> QED BY <2>1, <1>2, <1>3, <1>4, <1>5, TableRows
<1> QED BY <1>6, <1>7

LEMMA SkipAlone ==
  ASSUME AloneInv, NEW i \in ItemIds, Skip(i)
  PROVE  Edited(items', items)
<1> DEFINE mid == [items EXCEPT ![i].status = "skipped"]
<1>1. items \in [ItemIds -> Item]
  BY DEF AloneInv, IInv, TypeOK
<1>2. mid[i].task = items[i].task /\ mid[i].status = "skipped" /\ \A j \in ItemIds : j # i => mid[j] = items[j]
  BY <1>1 DEF Item
<1>3. items' = Unblocked(mid, i) /\ "skip" \in Ops /\ items[i].status \notin {"absent", "running"}
  BY DEF Skip
<1> HIDE DEF mid
<1>4. items'[i] = mid[i]
  BY <1>3 DEF Unblocked
<1>5. ASSUME NEW j \in ItemIds, j # i
      PROVE  \/ items'[j] = items[j]
             \/ /\ items[j].status = "blocked" /\ items'[j].status = "queued"
                /\ items'[j].task = items[j].task
  BY <1>1, <1>2, <1>3, <1>5 DEF Unblocked, Item
<1>6. "skipped" \notin ActiveStatuses
  BY DEF ActiveStatuses
<1> QED
  BY <1>2, <1>3, <1>4, <1>5, <1>6, ActiveIs DEF Edited, NoSkips

LEMMA RerouteAlone ==
  ASSUME AloneInv, NEW i \in ItemIds, NEW p \in Providers, Reroute(i, p)
  PROVE  Edited(items', items)
<1> DEFINE mid == [items EXCEPT ![i].status = "queued", ![i].run = 0, ![i].override = p]
<1>1. items \in [ItemIds -> Item]
  BY DEF AloneInv, IInv, TypeOK
<1>2. mid[i].task = items[i].task /\ mid[i].status = "queued" /\ \A j \in ItemIds : j # i => mid[j] = items[j]
  BY <1>1 DEF Item
<1>3. items' = Unblocked(mid, i) /\ "reroute" \in Ops /\ items[i].status \notin {"absent", "running"}
  BY DEF Reroute
<1> HIDE DEF mid
<1>4. items'[i] = mid[i]
  BY <1>3 DEF Unblocked
<1>5. ASSUME NEW j \in ItemIds, j # i
      PROVE  \/ items'[j] = items[j]
             \/ /\ items[j].status = "blocked" /\ items'[j].status = "queued"
                /\ items'[j].task = items[j].task
  BY <1>1, <1>2, <1>3, <1>5 DEF Unblocked, Item
<1> QED
  BY <1>2, <1>3, <1>4, <1>5, ActiveIs DEF Edited, NoRetries

LEMMA RemoveAlone ==
  ASSUME AloneInv, (\E i \in ItemIds : Remove(i)) \/ Clear
  PROVE  Edited(items', items) /\ TableStep
<1>1. items \in [ItemIds -> Item]
  BY DEF AloneInv, IInv, TypeOK
<1>2. "remove" \in Ops
      /\ \A j \in ItemIds : items'[j] = items[j] \/ (items'[j] = NoItem /\ items[j].status # "running")
  <2>1. CASE Clear
    BY <2>1 DEF Clear
  <2>2. ASSUME NEW i \in ItemIds, Remove(i)
        PROVE  "remove" \in Ops /\ items[i].status # "running" /\ items' = [items EXCEPT ![i] = NoItem]
    BY <2>2 DEF Remove
  <2> QED BY <1>1, <2>1, <2>2
<1>3. NoItem.status = "absent"
  BY DEF NoItem
<1>4. Edited(items', items)
  BY <1>2, <1>3, ActiveIs DEF Edited, NoRemovals
<1>5. TableStep
  BY <1>1, <1>2, <1>3, TableRows DEF TableStep, Item
<1> QED BY <1>4, <1>5

-----------------------------------------------------------------------------
(* The end of a tick.                                                      *)

\* Dispatching changes one queued item that was in line, or none.
LEMMA DispatchOutcome ==
  ASSUME NEW rs, NEW its \in [ItemIds -> Item], NEW manual, frames \in [Coroutines -> Frame],
         DispatchNext(rs, its, manual)
  PROVE  LET g == frames'[Dispatcher] IN
         \/ items' = its /\ g = NoFrame
         \/ \E i \in Dispatchable(rs, its) :
              \/ items' = its /\ g.pc = "git" /\ g.item = i
              \/ g = NoFrame /\ \E st \in Refused : items' = [its EXCEPT ![i].status = st]
<1> DEFINE g == frames'[Dispatcher]
<1>1. Dispatcher \in Coroutines
  BY DEF Coroutines
<1>2. ASSUME NEW i \in ItemIds, IsFirst(i, Dispatchable(rs, its)),
             DispatchItem(rs, Dispatcher, its, i, TRUE, FALSE)
      PROVE  \/ items' = its /\ g.pc = "git" /\ g.item = i
             \/ g = NoFrame /\ \E st \in Refused : items' = [its EXCEPT ![i].status = st]
  <2> DEFINE v == Verdict(rs, EffectiveProvider(its[i]), TRUE, FALSE)
  <2>1. its[i].status # "absent"
    BY <1>2 DEF IsFirst, Dispatchable
  <2>2. StatusAfter(v) \in Refused
    BY StatusAfterRefused, VerdictNotStarted
  <2>3. \/ items' = its /\ frames' = [frames EXCEPT ![Dispatcher] =
             [pc |-> "git", item |-> i, task |-> its[i].task, step |-> its[i].step,
              provider |-> EffectiveProvider(its[i]), run |-> 0]]
        \/ items' = SetItem(its, i, StatusAfter(v)) /\ frames' = [frames EXCEPT ![Dispatcher] = NoFrame]
    BY <1>2 DEF DispatchItem, RunStep
  <2>4. SetItem(its, i, StatusAfter(v)) = [its EXCEPT ![i].status = StatusAfter(v)]
    BY <2>1 DEF SetItem
  <2> HIDE DEF v
  <2> QED BY <1>1, <2>2, <2>3, <2>4
<1>3. ASSUME NEW i \in ItemIds, items' = [its EXCEPT ![i].status = "awaiting_approval"],
             frames' = [frames EXCEPT ![Dispatcher] = NoFrame]
      PROVE  g = NoFrame /\ \E st \in Refused : items' = [its EXCEPT ![i].status = st]
  BY <1>1, <1>3 DEF Refused
<1>4. ASSUME items' = its, frames' = [frames EXCEPT ![Dispatcher] = NoFrame]
      PROVE  items' = its /\ g = NoFrame
  BY <1>1, <1>4
<1> HIDE DEF g
<1>5. (items' = its /\ g = NoFrame)
      \/ \E i \in Dispatchable(rs, its) :
              \/ items' = its /\ g.pc = "git" /\ g.item = i
              \/ g = NoFrame /\ \E st \in Refused : items' = [its EXCEPT ![i].status = st]
  <2>1. CASE Dispatchable(rs, its) = {} /\ items' = its /\ frames' = [frames EXCEPT ![Dispatcher] = NoFrame]
    BY <2>1, <1>4
  <2>2. ASSUME NEW i \in ItemIds, IsFirst(i, Dispatchable(rs, its)),
               \/ /\ items' = [its EXCEPT ![i].status = "awaiting_approval"]
                  /\ frames' = [frames EXCEPT ![Dispatcher] = NoFrame]
               \/ DispatchItem(rs, Dispatcher, its, i, TRUE, FALSE)
        PROVE \E k \in Dispatchable(rs, its) :
              \/ items' = its /\ g.pc = "git" /\ g.item = k
              \/ g = NoFrame /\ \E st \in Refused : items' = [its EXCEPT ![k].status = st]
    <3>1. i \in Dispatchable(rs, its)
      BY <2>2 DEF IsFirst
    <3> QED BY <3>1, <2>2, <1>2, <1>3
  <2> QED BY <2>1, <2>2 DEF DispatchNext
<1> QED BY <1>5 DEF g

\* Whatever happens at the end of a tick, order and tracking survive it, and
\* the item of a dispatch that waits is in line.
LEMMA DispatchAlone ==
  ASSUME NEW rs, NEW its \in [ItemIds -> Item], NEW manual, frames \in [Coroutines -> Frame],
         DispatchNext(rs, its, manual),
         NoRetries => OrderIn(its), NoRemovals => TrackedIn(its, rs)
  PROVE  /\ FlightOK(frames'[Dispatcher], items')
         /\ NoRetries => OrderIn(items')
         /\ NoRemovals => TrackedIn(items', rs)
         /\ \A j \in ItemIds :
              \/ items'[j] = its[j]
              \/ its[j].status = "queued" /\ items'[j].status \in Refused /\ items'[j].task = its[j].task
<1> DEFINE g == frames'[Dispatcher]
<1>1. NoFrame.pc = "idle"
  BY DEF NoFrame
<1> HIDE DEF g
<1>2. CASE items' = its /\ g = NoFrame
  BY <1>1, <1>2 DEF FlightOK, InFlight, g
<1>3. ASSUME NEW i \in Dispatchable(rs, its), items' = its, g.pc = "git", g.item = i
      PROVE  FlightOK(g, items')
  <2>1. /\ i \in ItemIds /\ its[i].status = "queued"
        /\ \A j \in ItemIds : j < i /\ its[j].task = its[i].task => its[j].status \notin ActiveStatuses
    BY DEF Dispatchable
  <2>2. ASSUME OrderIn(its), NEW j \in ItemIds, its[j].task = its[i].task, j > i
        PROVE  its[j].status # "running"
    BY <2>1, <2>2, ActiveIs DEF OrderIn, ItemIds
  <2>3. NoRetries => FirstInLine(i, its)
    BY <2>1, <2>2 DEF FirstInLine
  <2> QED BY <1>3, <2>1, <2>3 DEF FlightOK
<1>4. ASSUME NEW i \in Dispatchable(rs, its), NEW st \in Refused, items' = [its EXCEPT ![i].status = st]
      PROVE  /\ NoRetries => OrderIn(items')
             /\ NoRemovals => TrackedIn(items', rs)
             /\ \A j \in ItemIds :
                  \/ items'[j] = its[j]
                  \/ its[j].status = "queued" /\ items'[j].status \in Refused /\ items'[j].task = its[j].task
  <2>1. i \in ItemIds /\ its[i].status = "queued"
    BY DEF Dispatchable
  <2>2. /\ items'[i].status = st /\ items'[i].task = its[i].task
        /\ \A j \in ItemIds : j # i => items'[j] = its[j]
    BY <1>4, <2>1 DEF Item
  <2>3. st # "running"
    BY DEF Refused
  <2>4. OrderIn(its) => OrderIn(items')
    BY <2>1, <2>2, <2>3, ActiveIs DEF OrderIn
  <2>5. TrackedIn(its, rs) => TrackedIn(items', rs)
    BY <2>1, <2>2 DEF TrackedIn
  <2> QED BY <2>1, <2>2, <2>4, <2>5
<1>5. ASSUME g = NoFrame PROVE FlightOK(g, items')
  BY <1>1, <1>5 DEF FlightOK, InFlight
<1>6. \/ items' = its /\ g = NoFrame
      \/ \E i \in Dispatchable(rs, its) :
              \/ items' = its /\ g.pc = "git" /\ g.item = i
              \/ g = NoFrame /\ \E st \in Refused : items' = [its EXCEPT ![i].status = st]
  BY DispatchOutcome DEF g
<1>7. FlightOK(g, items')
  BY <1>3, <1>5, <1>6
<1>8. /\ NoRetries => OrderIn(items')
      /\ NoRemovals => TrackedIn(items', rs)
      /\ \A j \in ItemIds :
           \/ items'[j] = its[j]
           \/ its[j].status = "queued" /\ items'[j].status \in Refused /\ items'[j].task = its[j].task
  BY <1>4, <1>6
<1> QED BY <1>7, <1>8 DEF g

-----------------------------------------------------------------------------
(* Settling.                                                               *)

\* What becomes of an item when the queue is settled.
LEMMA FinalizedItem ==
  ASSUME IInv, NEW i \in ItemIds
  PROVE  \/ Finalized[i] = NoItem /\ ~(items[i].status = "running" /\ ~Lost(i) /\ ~Ended(i))
         \/ /\ Finalized[i] = items[i] /\ ~Lost(i) /\ ~Ended(i)
            /\ ~(items[i].status = "queued" /\ items[i].task \in FailedTasks)
         \/ /\ items[i].status = "running" /\ (Lost(i) \/ Ended(i))
            /\ FinalStatus(i) \in {"done", "failed", "cancelled"}
            /\ Finalized[i] = [items[i] EXCEPT !.status = FinalStatus(i)]
         \/ /\ items[i].status = "queued" /\ Finalized[i] = [items[i] EXCEPT !.status = "blocked"]
<1>1. items[i] \in Item
  BY DEF IInv, TypeOK
<1>2. Finalized[i] = NoItem \/ Finalized[i] = Settled(i)
  BY DEF Finalized, Pruned
<1>3. Settled(i).status \notin QueueTerminal => Finalized[i] = Settled(i)
  BY DEF Finalized, Pruned
<1>4. CASE Lost(i) \/ Ended(i)
  <2>1. items[i].status = "running" /\ FinalStatus(i) \in {"done", "failed", "cancelled"}
    BY <1>4, FinalStatusOK DEF Lost, Ended, IInv, Core
  <2>2. Settled(i) = [items[i] EXCEPT !.status = FinalStatus(i)]
    BY <1>4 DEF Settled
  <2> QED BY <1>2, <1>4, <2>1, <2>2
<1>5. CASE ~(Lost(i) \/ Ended(i)) /\ items[i].status = "queued" /\ items[i].task \in FailedTasks
  <2>1. Settled(i) = [items[i] EXCEPT !.status = "blocked"]
    BY <1>5 DEF Settled
  <2> QED BY <1>2, <1>5, <2>1
<1>6. CASE ~(Lost(i) \/ Ended(i)) /\ ~(items[i].status = "queued" /\ items[i].task \in FailedTasks)
  <2>1. Settled(i) = items[i]
    BY <1>6 DEF Settled
  <2>2. items[i].status = "running" => Finalized[i] = items[i]
    BY <1>3, <2>1 DEF QueueTerminal
  <2> QED BY <1>2, <1>6, <2>1, <2>2
<1> QED BY <1>4, <1>5, <1>6

\* A run whose process is alive has a record that says running.
LEMMA AliveIsRunning ==
  ASSUME IInv, NEW i \in ItemIds, items[i].run \in RunIds, runs[items[i].run].phase = "alive"
  PROVE  ~Lost(i) /\ ~Ended(i)
<1> DEFINE r == items[i].run
<1>1. RunOK(runs[r], r, started)
  BY DEF IInv, RunsOK
<1>2. runs[r].status = "running" /\ runs[r].kept
  BY <1>1 DEF RunOK
<1>3. r # 0
  BY DEF RunIds
<1> QED BY <1>2, <1>3 DEF Lost, Ended

LEMMA FinalizedAlone ==
  ASSUME AloneInv
  PROVE  /\ NoRetries => OrderIn(Finalized)
         /\ NoRemovals => TrackedIn(Finalized, runs)
<1>1. NoItem.status = "absent"
  BY DEF NoItem
<1>2. ASSUME NEW i \in ItemIds
      PROVE  /\ Finalized[i].status = "running" => items[i].status = "running"
             /\ Finalized[i].status # "absent" => Finalized[i].task = items[i].task
             /\ Finalized[i].status \in ActiveStatuses => items[i].status \in ActiveStatuses
  <2>1. items[i] \in Item
    BY DEF AloneInv, IInv, TypeOK
  <2>2. CASE Finalized[i] = NoItem
    BY <2>2, <1>1, ActiveIs
  <2>3. CASE Finalized[i] = items[i]
    BY <2>3
  <2>4. CASE /\ items[i].status = "running"
             /\ FinalStatus(i) \in {"done", "failed", "cancelled"}
             /\ Finalized[i] = [items[i] EXCEPT !.status = FinalStatus(i)]
    BY <2>1, <2>4, ActiveIs DEF Item
  <2>5. CASE items[i].status = "queued" /\ Finalized[i] = [items[i] EXCEPT !.status = "blocked"]
    BY <2>1, <2>5, ActiveIs DEF Item
  <2> QED BY <2>2, <2>3, <2>4, <2>5, FinalizedItem DEF AloneInv
<1>3. ASSUME NoRetries PROVE OrderIn(Finalized)
  <2>1. OrderIn(items)
    BY <1>3 DEF AloneInv
  <2> SUFFICES ASSUME NEW i \in ItemIds, NEW j \in ItemIds, i < j, Finalized[i].task = Finalized[j].task,
                      Finalized[j].status = "running", Finalized[i].status \in ActiveStatuses
               PROVE  FALSE
    BY DEF OrderIn
  <2>2. items[i].task = items[j].task /\ items[j].status = "running" /\ items[i].status \in ActiveStatuses
    BY <1>2, ActiveIs
  <2> QED BY <2>1, <2>2 DEF OrderIn
<1>4. ASSUME NoRemovals PROVE TrackedIn(Finalized, runs)
  <2>1. TrackedIn(items, runs)
    BY <1>4 DEF AloneInv
  <2> SUFFICES ASSUME NEW r \in RunIds, runs[r].phase = "alive", runs[r].step \in Steps
               PROVE  \E i \in ItemIds : Finalized[i].status = "running" /\ Finalized[i].run = r
    BY DEF TrackedIn
  <2>2. PICK i \in ItemIds : items[i].status = "running" /\ items[i].run = r
    BY <2>1 DEF TrackedIn
  <2>3. ~Lost(i) /\ ~Ended(i)
    BY <2>2, AliveIsRunning DEF AloneInv
  <2>4. Finalized[i] = items[i]
    BY <2>2, <2>3, FinalizedItem DEF AloneInv
  <2> QED BY <2>2, <2>4
<1> QED BY <1>3, <1>4

-----------------------------------------------------------------------------
(* The steps of the event loop.                                            *)

\* What settling and dispatching in one step do to the statuses.
LEMMA SettledStep ==
  ASSUME IInv,
         \A j \in ItemIds :
            \/ items'[j] = Finalized[j]
            \/ /\ Finalized[j].status = "queued" /\ items'[j].status \in Refused
               /\ items'[j].task = Finalized[j].task
  PROVE  HoldsStep /\ TableStep
<1>1. NoItem.status = "absent"
  BY DEF NoItem
<1>2. \A i \in ItemIds : items[i] \in Item
  BY DEF IInv, TypeOK
<1>3. ASSUME NEW i \in ItemIds, Finalized[i].status = "queued"
      PROVE  /\ items[i].status = "queued" /\ Finalized[i] = items[i]
             /\ items[i].task \notin FailedTasks
  <2>1. "queued" \notin {"done", "failed", "cancelled"}
    OBVIOUS
  <2>2. ([items[i] EXCEPT !.status = FinalStatus(i)]).status = FinalStatus(i)
        /\ ([items[i] EXCEPT !.status = "blocked"]).status = "blocked"
    BY <1>2 DEF Item
  <2> QED BY <1>1, <1>3, <2>1, <2>2, FinalizedItem
<1>4. ASSUME NEW i \in ItemIds, items[i].status = "running", items'[i].status \in {"failed", "cancelled"}
      PROVE  items[i].task \in FailedTasks
  <2>1. items'[i] = Finalized[i]
    BY <1>3, <1>4
  <2>2. /\ Lost(i) \/ Ended(i)
        /\ FinalStatus(i) # "done"
    <3>1. Finalized[i] # NoItem /\ Finalized[i] # items[i]
      BY <1>1, <1>4, <2>1
    <3>2. /\ Lost(i) \/ Ended(i)
          /\ Finalized[i] = [items[i] EXCEPT !.status = FinalStatus(i)]
      BY <3>1, <1>4, FinalizedItem
    <3>3. Finalized[i].status = FinalStatus(i)
      BY <3>2, <1>2 DEF Item
    <3> QED BY <3>2, <3>3, <2>1, <1>4
  <2> QED BY <2>2 DEF FailedTasks
<1>5. HoldsStep
  <2> SUFFICES ASSUME NEW i \in ItemIds, items[i].status = "running",
                      items'[i].status \in {"failed", "cancelled"},
                      NEW j \in ItemIds, items[j].task = items[i].task, items'[j].status = "queued"
               PROVE  FALSE
    BY DEF HoldsStep
  <2>1. items'[j] = Finalized[j]
    BY DEF Refused
  <2>2. items[j].task \notin FailedTasks
    BY <2>1, <1>3
  <2> QED BY <2>2, <1>4
<1>6. TableStep
  <2> SUFFICES ASSUME NEW i \in ItemIds, items[i].status # "absent", items'[i].status # "absent"
               PROVE  QueueStepOK(items[i].status, items'[i].status)
    BY DEF TableStep
  <2>1. items[i].status \in QueueStatuses
    BY <1>2 DEF Item
  <2>2. CASE Finalized[i].status = "queued" /\ items'[i].status \in Refused
    BY <2>2, <1>3, TableRows
  <2>3. CASE items'[i] = Finalized[i]
    <3>1. Finalized[i] # NoItem
      BY <2>3, <1>1
    <3>2. CASE Finalized[i] = items[i]
      BY <3>2, <2>1, <2>3, TableRows
    <3>3. CASE /\ items[i].status = "running"
               /\ FinalStatus(i) \in {"done", "failed", "cancelled"}
               /\ Finalized[i] = [items[i] EXCEPT !.status = FinalStatus(i)]
      <4>1. Finalized[i].status = FinalStatus(i)
        BY <3>3, <1>2 DEF Item
      <4> QED BY <4>1, <3>3, <2>3, TableRows
    <3>4. CASE items[i].status = "queued" /\ Finalized[i] = [items[i] EXCEPT !.status = "blocked"]
      <4>1. Finalized[i].status = "blocked"
        BY <3>4, <1>2 DEF Item
      <4> QED BY <4>1, <3>4, <2>3, TableRows DEF Refused
    <3> QED BY <3>1, <3>2, <3>3, <3>4, FinalizedItem
  <2> QED BY <2>2, <2>3
<1> QED BY <1>5, <1>6

LEMMA TickAlone ==
  ASSUME AloneInv, IInv', Tick
  PROVE  AloneInv' /\ HoldsStep /\ TableStep
<1>1. Finalized \in [ItemIds -> Item] /\ frames \in [Coroutines -> Frame] /\ Dispatcher \in Coroutines
  BY FinalizedOK DEF AloneInv, IInv, TypeOK, Core, Coroutines
<1>2. ASSUME NEW manual, DispatchNext(runs, Finalized, manual)
      PROVE  AloneInv' /\ HoldsStep /\ TableStep
  <2>1. UNCHANGED runs
    BY DEF Tick, runVars
  <2>2. /\ FlightOK(frames'[Dispatcher], items')
        /\ NoRetries => OrderIn(items')
        /\ NoRemovals => TrackedIn(items', runs)
        /\ \A j \in ItemIds :
             \/ items'[j] = Finalized[j]
             \/ /\ Finalized[j].status = "queued" /\ items'[j].status \in Refused
                /\ items'[j].task = Finalized[j].task
    BY <1>1, <1>2, FinalizedAlone, DispatchAlone
  <2> QED BY <2>1, <2>2, SettledStep DEF AloneInv
<1>3. ASSUME NEW t, items' = Finalized,
             frames' = [frames EXCEPT ![Dispatcher] =
                         [pc |-> "consult", item |-> 0, task |-> t,
                          step |-> Orchestrate, provider |-> Controller, run |-> 0]]
      PROVE  AloneInv' /\ HoldsStep /\ TableStep
  <2>1. UNCHANGED runs
    BY DEF Tick, runVars
  <2>2. frames'[Dispatcher].pc = "consult"
    BY <1>1, <1>3
  <2>3. FlightOK(frames'[Dispatcher], items')
    BY <2>2 DEF FlightOK, InFlight
  <2> QED BY <1>3, <2>1, <2>3, FinalizedAlone, SettledStep DEF AloneInv
<1> QED BY <1>2, <1>3 DEF Tick

\* A step that leaves the items as they are.
LEMMA ItemsStay ==
  ASSUME AloneInv, IInv', UNCHANGED items, FlightOK(frames'[Dispatcher], items),
         TrackedIn(items, runs) => TrackedIn(items, runs')
  PROVE  AloneInv' /\ HoldsStep /\ TableStep
<1>1. AloneInv'
  BY DEF AloneInv
<1>2. HoldsStep
  BY DEF HoldsStep
<1>3. TableStep
  BY TableRows DEF TableStep, AloneInv, IInv, TypeOK, Item
<1> QED BY <1>1, <1>2, <1>3

\* The records only lose live processes.
FewerAlive ==
  \A r \in RunIds : runs'[r].phase = "alive" /\ runs'[r].step \in Steps =>
    runs[r].phase = "alive" /\ runs[r].step \in Steps

LEMMA FewerTracked ==
  ASSUME FewerAlive, TrackedIn(items, runs)
  PROVE  TrackedIn(items, runs')
BY DEF FewerAlive, TrackedIn

LEMMA NewRecordAlive ==
  ASSUME IInv, NEW c, NEW t, NEW s, NEW p, NewRecord(c, t, s, p)
  PROVE  FewerAlive
<1>1. runs \in [RunIds -> Run] /\ started + 1 \in RunIds
  <2>1. started \in 0 .. RunCap /\ started < RunCap /\ RunCap \in Nat
    BY DEF IInv, TypeOK, NewRecord
  <2> QED BY <2>1 DEF IInv, TypeOK, RunIds
<1>2. /\ runs'[started + 1].phase = "spawning"
      /\ \A r \in RunIds : r # started + 1 => runs'[r] = runs[r]
  BY <1>1 DEF NewRecord
<1> QED BY <1>2 DEF FewerAlive

LEMMA ConsultStartAlone ==
  ASSUME AloneInv, IInv', ConsultStart
  PROVE  AloneInv' /\ HoldsStep /\ TableStep
<1>1. frames \in [Coroutines -> Frame] /\ Dispatcher \in Coroutines
  BY DEF AloneInv, IInv, TypeOK, Coroutines
<1>2. frames[Dispatcher].step = Orchestrate
  BY <1>1 DEF AloneInv, IInv, FramesOK, FrameOK, ConsultStart
<1>3. frames'[Dispatcher].step = Orchestrate /\ UNCHANGED items
  BY <1>1, <1>2 DEF ConsultStart, NewRecord
<1>4. FlightOK(frames'[Dispatcher], items)
  BY <1>3 DEF FlightOK, InFlight
<1>5. FewerAlive
  BY NewRecordAlive DEF ConsultStart, AloneInv
<1> QED BY <1>3, <1>4, <1>5, FewerTracked, ItemsStay

\* A list in which only a dispatch was refused.
LEMMA RefusedStep ==
  ASSUME IInv,
         \A j \in ItemIds :
            \/ items'[j] = items[j]
            \/ items[j].status = "queued" /\ items'[j].status \in Refused
  PROVE  HoldsStep /\ TableStep
<1>1. \A j \in ItemIds : items[j].status = "running" => items'[j].status \notin {"failed", "cancelled"}
  OBVIOUS
<1>2. HoldsStep
  BY <1>1 DEF HoldsStep
<1>3. TableStep
  BY TableRows DEF TableStep, IInv, TypeOK, Item
<1> QED BY <1>2, <1>3

LEMMA ConsultSpawnedAlone ==
  ASSUME AloneInv, IInv', ConsultSpawned
  PROVE  AloneInv' /\ HoldsStep /\ TableStep
<1> DEFINE f == frames[Dispatcher]
<1>1. /\ frames \in [Coroutines -> Frame] /\ Dispatcher \in Coroutines
      /\ items \in [ItemIds -> Item] /\ runs \in [RunIds -> Run]
  BY DEF AloneInv, IInv, TypeOK, Coroutines
<1>2. /\ f.pc = "spawn" /\ f.step = Orchestrate
      /\ \/ runs' = [runs EXCEPT ![f.run].phase = "alive"]
         \/ runs' = [runs EXCEPT ![f.run].status = "error", ![f.run].phase = "over"]
      /\ DispatchNext(runs', items, FALSE)
  BY DEF ConsultSpawned
<1>3. f.run \in RunIds /\ runs[f.run].step = Orchestrate
  BY <1>1, <1>2 DEF AloneInv, IInv, FramesOK, FrameOK, Frame
<1>4. FewerAlive
  <2>1. \A r \in RunIds : r # f.run => runs'[r] = runs[r]
    BY <1>1, <1>2
  <2>2. runs'[f.run].step = Orchestrate
    BY <1>1, <1>2, <1>3 DEF Run
  <2>3. Orchestrate \notin Steps
    OBVIOUS
  <2> HIDE DEF f
  <2> QED BY <2>1, <2>2, <2>3 DEF FewerAlive
<1>5. /\ NoRetries => OrderIn(items)
      /\ NoRemovals => TrackedIn(items, runs')
  BY <1>4, FewerTracked DEF AloneInv
<1> HIDE DEF f
<1>6. /\ FlightOK(frames'[Dispatcher], items')
      /\ NoRetries => OrderIn(items')
      /\ NoRemovals => TrackedIn(items', runs')
      /\ \A j \in ItemIds :
           \/ items'[j] = items[j]
           \/ items[j].status = "queued" /\ items'[j].status \in Refused /\ items'[j].task = items[j].task
  BY <1>1, <1>2, <1>5, DispatchAlone
<1> QED BY <1>6, RefusedStep DEF AloneInv

\* A dispatch that comes to nothing: its item is set to failed.
LEMMA FlightFails ==
  ASSUME AloneInv, IInv', InFlight(frames[Dispatcher]),
         items' = SetItem(items, frames[Dispatcher].item, "failed"),
         frames' = [frames EXCEPT ![Dispatcher] = NoFrame], FewerAlive
  PROVE  AloneInv' /\ HoldsStep /\ (NoSkips => TableStep)
<1> DEFINE k == frames[Dispatcher].item
<1>1. /\ frames \in [Coroutines -> Frame] /\ Dispatcher \in Coroutines /\ items \in [ItemIds -> Item]
  BY DEF AloneInv, IInv, TypeOK, Coroutines
<1>2. /\ k \in ItemIds /\ items[k].status # "running"
      /\ NoSkips => items[k].status \in {"queued", "absent"}
  BY DEF AloneInv, FlightOK
<1> HIDE DEF k
<1>3. /\ items'[k] = items[k] \/ (items'[k].status = "failed" /\ items'[k].task = items[k].task
                                   /\ items[k].status # "absent")
      /\ \A j \in ItemIds : j # k => items'[j] = items[j]
  BY <1>1, <1>2 DEF SetItem, Item, k
<1>4. "failed" \notin ActiveStatuses
  BY DEF ActiveStatuses
<1>5. frames'[Dispatcher] = NoFrame
  BY <1>1
<1>6. FlightOK(frames'[Dispatcher], items')
  BY <1>5 DEF FlightOK, InFlight, NoFrame
<1>7. OrderIn(items) => OrderIn(items')
  <2> SUFFICES ASSUME OrderIn(items), NEW i \in ItemIds, NEW j \in ItemIds, i < j,
                      items'[i].task = items'[j].task, items'[j].status = "running"
               PROVE  items'[i].status \notin ActiveStatuses
    BY DEF OrderIn
  <2>1. items'[j] = items[j] /\ items'[i].task = items[i].task
    BY <1>3
  <2>2. items[i].status \notin ActiveStatuses
    BY <2>1 DEF OrderIn
  <2> QED BY <2>2, <1>3, <1>4
<1>8. TrackedIn(items, runs) => TrackedIn(items', runs)
  <2> SUFFICES ASSUME TrackedIn(items, runs), NEW r \in RunIds, runs[r].phase = "alive", runs[r].step \in Steps
               PROVE  \E i \in ItemIds : items'[i].status = "running" /\ items'[i].run = r
    BY DEF TrackedIn
  <2>1. PICK i \in ItemIds : items[i].status = "running" /\ items[i].run = r
    BY DEF TrackedIn
  <2> QED BY <2>1, <1>2, <1>3
<1>9. TrackedIn(items', runs) => TrackedIn(items', runs')
  BY DEF TrackedIn, FewerAlive
<1>10. AloneInv'
  BY <1>6, <1>7, <1>8, <1>9 DEF AloneInv
<1>11. HoldsStep
  BY <1>2, <1>3 DEF HoldsStep
<1>12. ASSUME NoSkips PROVE TableStep
  BY <1>1, <1>2, <1>3, <1>12, TableRows DEF TableStep, Item, Refused
<1> QED BY <1>10, <1>11, <1>12

LEMMA GitDoneAlone ==
  ASSUME AloneInv, IInv', GitDone(Dispatcher)
  PROVE  AloneInv' /\ HoldsStep /\ (NoSkips => TableStep)
<1> DEFINE f == frames[Dispatcher]
<1>1. frames \in [Coroutines -> Frame] /\ Dispatcher \in Coroutines
  BY DEF AloneInv, IInv, TypeOK, Coroutines
<1>2. f.pc = "git" /\ f.step # Orchestrate /\ InFlight(f)
  BY <1>1 DEF AloneInv, IInv, FramesOK, FrameOK, GitDone, InFlight
<1>3. CASE NewRecord(Dispatcher, f.task, f.step, f.provider) /\ UNCHANGED items
  <2> DEFINE g == frames'[Dispatcher]
  <2>1. g.item = f.item
    BY <1>1, <1>3 DEF NewRecord, Frame
  <2>2. FlightOK(f, items)
    BY DEF AloneInv
  <2>3. FewerAlive
    BY <1>3, NewRecordAlive DEF AloneInv
  <2> HIDE DEF f, g
  <2>4. FlightOK(g, items)
    BY <1>2, <2>1, <2>2 DEF FlightOK
  <2> QED BY <1>3, <2>3, <2>4, FewerTracked, ItemsStay DEF g
<1>4. CASE /\ items' = SetItem(items, f.item, StatusAfter("provider_busy"))
           /\ frames' = [frames EXCEPT ![Dispatcher] = NoFrame]
           /\ UNCHANGED runVars
  <2>1. StatusAfter("provider_busy") = "failed"
    BY DEF StatusAfter
  <2>2. FewerAlive
    BY <1>4 DEF FewerAlive, runVars
  <2> QED BY <1>2, <1>4, <2>1, <2>2, FlightFails
<1> QED BY <1>3, <1>4 DEF GitDone

LEMMA StepSpawnErrorAlone ==
  ASSUME AloneInv, IInv', StepSpawnError(Dispatcher)
  PROVE  AloneInv' /\ HoldsStep /\ (NoSkips => TableStep)
<1> DEFINE f == frames[Dispatcher]
<1>1. runs \in [RunIds -> Run]
  BY DEF AloneInv, IInv, TypeOK
<1>2. /\ InFlight(f) /\ frames' = [frames EXCEPT ![Dispatcher] = NoFrame]
      /\ items' = SetItem(items, f.item, StatusAfter("error"))
      /\ runs' = [runs EXCEPT ![f.run].status = "error", ![f.run].phase = "over"]
  BY DEF StepSpawnError, InFlight
<1>3. StatusAfter("error") = "failed"
  BY DEF StatusAfter
<1>4. FewerAlive
  <2>1. \A r \in RunIds : r # f.run => runs'[r] = runs[r]
    BY <1>1, <1>2
  <2>2. f.run \in RunIds => runs'[f.run].phase = "over"
    BY <1>1, <1>2 DEF Run
  <2> HIDE DEF f
  <2> QED BY <2>1, <2>2 DEF FewerAlive
<1> QED BY <1>2, <1>3, <1>4, FlightFails

\* The process exists: the item in line is running, and tracks it.
LEMMA StepSpawnedAlone ==
  ASSUME AloneInv, IInv', StepSpawned(Dispatcher)
  PROVE  AloneInv' /\ HoldsStep /\ (NoSkips => TableStep)
<1> DEFINE f == frames[Dispatcher]
           k == f.item
           r == f.run
<1>1. /\ frames \in [Coroutines -> Frame] /\ Dispatcher \in Coroutines /\ items \in [ItemIds -> Item]
      /\ runs \in [RunIds -> Run]
  BY DEF AloneInv, IInv, TypeOK, Coroutines
<1>2. InFlight(f)
  BY DEF StepSpawned, InFlight
<1>3. /\ k \in ItemIds /\ items[k].status # "running"
      /\ NoSkips => items[k].status \in {"queued", "absent"}
      /\ NoRemovals => items[k].status # "absent"
      /\ NoRetries /\ items[k].status # "absent" => FirstInLine(k, items)
  BY <1>2 DEF AloneInv, FlightOK
<1>4. StatusAfter("started") = "running"
  BY DEF StatusAfter
<1>5. /\ runs' = [runs EXCEPT ![r].phase = "alive"]
      /\ items' = IF items[k].status # "absent"
                  THEN [items EXCEPT ![k].status = "running", ![k].run = r]
                  ELSE items
      /\ frames' = [frames EXCEPT ![Dispatcher] = NoFrame]
  BY <1>3, <1>4 DEF StepSpawned
<1> HIDE DEF f, k, r
<1>6. /\ \A j \in ItemIds : j # k => items'[j] = items[j]
      /\ items[k].status = "absent" => items'[k] = items[k]
      /\ items[k].status # "absent" =>
           items'[k].status = "running" /\ items'[k].run = r /\ items'[k].task = items[k].task
  BY <1>1, <1>3, <1>5 DEF Item
<1>7. \A q \in RunIds : q # r => runs'[q] = runs[q]
  BY <1>1, <1>5
<1>8. FlightOK(frames'[Dispatcher], items')
  <2>1. frames'[Dispatcher] = NoFrame
    BY <1>1, <1>5
  <2> QED BY <2>1 DEF FlightOK, InFlight, NoFrame
<1>9. ASSUME NoRetries PROVE OrderIn(items')
  <2>1. OrderIn(items)
    BY <1>9 DEF AloneInv
  <2>2. CASE items[k].status = "absent"
    <3>1. \A j \in ItemIds : items'[j] = items[j]
      BY <2>2, <1>6
    <3> QED BY <2>1, <3>1 DEF OrderIn
  <2>3. CASE items[k].status # "absent"
    <3>1. FirstInLine(k, items)
      BY <1>3, <1>9, <2>3
    <3> SUFFICES ASSUME NEW i \in ItemIds, NEW j \in ItemIds, i < j,
                        items'[i].task = items'[j].task, items'[j].status = "running"
                 PROVE  items'[i].status \notin ActiveStatuses
      BY DEF OrderIn
    <3>2. CASE j = k
      <4>1. i # k /\ i < k /\ items[i].task = items[k].task
        BY <1>6, <2>3, <3>2 DEF ItemIds
      <4> QED BY <4>1, <3>1, <1>6 DEF FirstInLine
    <3>3. CASE j # k /\ i = k
      <4>1. items[j].status = "running" /\ items[j].task = items[k].task /\ j > k
        BY <1>6, <2>3, <3>3 DEF ItemIds
      <4> QED BY <4>1, <3>1 DEF FirstInLine
    <3>4. CASE j # k /\ i # k
      BY <1>6, <2>1, <3>4 DEF OrderIn
    <3> QED BY <3>2, <3>3, <3>4
  <2> QED BY <2>2, <2>3
<1>10. ASSUME NoRemovals PROVE TrackedIn(items', runs')
  <2>1. TrackedIn(items, runs)
    BY <1>10 DEF AloneInv
  <2>2. items[k].status # "absent"
    BY <1>3, <1>10
  <2> SUFFICES ASSUME NEW q \in RunIds, runs'[q].phase = "alive", runs'[q].step \in Steps
               PROVE  \E i \in ItemIds : items'[i].status = "running" /\ items'[i].run = q
    BY DEF TrackedIn
  <2>3. CASE q = r
    BY <2>2, <2>3, <1>3, <1>6
  <2>4. CASE q # r
    <3>1. PICK i \in ItemIds : items[i].status = "running" /\ items[i].run = q
      BY <2>1, <2>4, <1>7 DEF TrackedIn
    <3> QED BY <3>1, <1>3, <1>6
  <2> QED BY <2>3, <2>4
<1>11. AloneInv'
  BY <1>8, <1>9, <1>10 DEF AloneInv
<1>12. HoldsStep
  <2>1. \A j \in ItemIds : items'[j].status \in {"failed", "cancelled"} => items'[j] = items[j]
    BY <1>6
  <2> QED BY <2>1 DEF HoldsStep
<1>13. ASSUME NoSkips PROVE TableStep
  <2>1. \A j \in ItemIds : items[j].status # "absent" => items[j].status \in QueueStatuses
    BY <1>1 DEF Item
  <2> QED BY <1>3, <1>6, <1>13, <2>1, TableRows DEF TableStep
<1> QED BY <1>11, <1>12, <1>13

-----------------------------------------------------------------------------
(* All other steps.                                                        *)

LEMMA ProcessesAlone ==
  ASSUME AloneInv, IInv', Processes
  PROVE  AloneInv' /\ HoldsStep /\ TableStep
<1>1. runs \in [RunIds -> Run]
  BY DEF AloneInv, IInv, TypeOK
<1>2. UNCHANGED <<items, frames>>
  BY DEF Processes, Exit, Complete, Cancel, Evict, CancelAll, queueVars
<1>3. FewerAlive
  <2>1. ASSUME NEW r \in RunIds, Exit(r) \/ Complete(r) \/ Evict(r) PROVE FewerAlive
    <3>1. \A q \in RunIds : q # r => runs'[q] = runs[q]
      BY <1>1, <2>1 DEF Exit, Complete, Evict
    <3>2. runs'[r].step = runs[r].step /\ (runs'[r].phase = "alive" => runs[r].phase = "alive")
      BY <1>1, <2>1 DEF Exit, Complete, Evict, Run
    <3> QED BY <3>1, <3>2 DEF FewerAlive
  <2>2. ASSUME NEW R, runs' = Cancelled(R) PROVE FewerAlive
    <3> SUFFICES ASSUME NEW q \in RunIds, runs'[q].phase = "alive"
                 PROVE  runs'[q] = runs[q]
      BY DEF FewerAlive
    <3>1. q \in R => runs'[q].phase = "dying"
      BY <1>1, <2>2 DEF Cancelled, Run
    <3> QED BY <2>2, <3>1 DEF Cancelled
  <2> QED BY <1>2, <2>1, <2>2 DEF Processes, Cancel, CancelAll
<1>4. FlightOK(frames'[Dispatcher], items)
  BY <1>2 DEF AloneInv
<1> QED BY <1>2, <1>3, <1>4, FewerTracked, ItemsStay

LEMMA AddStepAlone ==
  ASSUME AloneInv, IInv', NEW t \in Tasks, NEW s \in Steps, AddStep(t, s)
  PROVE  AloneInv' /\ HoldsStep /\ TableStep
<1> DEFINE n == enqueued + 1
<1>1. items \in [ItemIds -> Item] /\ n \in ItemIds /\ enqueued \in Nat
  <2>1. enqueued \in 0 .. ItemCap /\ enqueued < ItemCap /\ ItemCap \in Nat
    BY DEF AloneInv, IInv, TypeOK, AddStep
  <2> QED BY <2>1 DEF AloneInv, IInv, TypeOK, ItemIds
<1>2. \A i \in ItemIds : items[i].status # "absent" => i < n
  BY <1>1 DEF AloneInv, IInv, ItemsOK, ItemIds
<1>3. UNCHANGED <<runs, frames>>
  BY DEF AddStep, runVars
<1>4. items' = [items EXCEPT ![n] = [status |-> "queued", task |-> t, step |-> s, override |-> None, run |-> 0]]
  BY DEF AddStep
<1> HIDE DEF n
<1>5. items'[n].status = "queued" /\ \A i \in ItemIds : i # n => items'[i] = items[i]
  BY <1>1, <1>4
<1>6. items[n].status = "absent"
  BY <1>1, <1>2 DEF ItemIds
<1>7. OrderIn(items) => OrderIn(items')
  <2> SUFFICES ASSUME OrderIn(items), NEW i \in ItemIds, NEW j \in ItemIds, i < j,
                      items'[i].task = items'[j].task, items'[j].status = "running"
               PROVE  items'[i].status \notin ActiveStatuses
    BY DEF OrderIn
  <2>1. j # n /\ items[j].status = "running"
    BY <1>5
  <2>2. i # n
    BY <1>1, <1>2, <2>1, ActiveIs DEF ItemIds
  <2> QED BY <1>5, <2>1, <2>2 DEF OrderIn
<1>8. TrackedIn(items, runs) => TrackedIn(items', runs')
  <2> SUFFICES ASSUME TrackedIn(items, runs), NEW r \in RunIds, runs[r].phase = "alive", runs[r].step \in Steps
               PROVE  \E i \in ItemIds : items'[i].status = "running" /\ items'[i].run = r
    BY <1>3 DEF TrackedIn
  <2>1. PICK i \in ItemIds : items[i].status = "running" /\ items[i].run = r
    BY DEF TrackedIn
  <2> QED BY <2>1, <1>5, <1>6
<1>9. FlightOK(frames'[Dispatcher], items')
  <2> DEFINE f == frames[Dispatcher]
  <2> SUFFICES ASSUME InFlight(f)
               PROVE  /\ f.item \in ItemIds
                      /\ items'[f.item].status # "running"
                      /\ NoSkips => items'[f.item].status \in {"queued", "absent"}
                      /\ NoRemovals => items'[f.item].status # "absent"
                      /\ NoRetries /\ items'[f.item].status # "absent" => FirstInLine(f.item, items')
    BY <1>3 DEF FlightOK
  <2>1. /\ f.item \in ItemIds
        /\ items[f.item].status # "running"
        /\ NoSkips => items[f.item].status \in {"queued", "absent"}
        /\ NoRemovals => items[f.item].status # "absent"
        /\ NoRetries /\ items[f.item].status # "absent" => FirstInLine(f.item, items)
    BY DEF AloneInv, FlightOK
  <2>2. f.item < n
    <3>1. Dispatcher \in Coroutines /\ frames[Dispatcher] \in Frame
      BY DEF AloneInv, IInv, TypeOK, Coroutines
    <3>2. FrameOK(frames[Dispatcher], Dispatcher, items, runs, enqueued, consulted)
      BY <3>1 DEF AloneInv, IInv, FramesOK
    <3>3. f.item <= enqueued
      BY <3>2, <2>1 DEF FrameOK, InFlight, ItemIds
    <3> QED BY <3>3, <2>1, <1>1 DEF ItemIds, n
  <2> HIDE DEF f
  <2>3. items'[f.item] = items[f.item] /\ f.item # n
    BY <1>1, <1>5, <2>1, <2>2 DEF ItemIds
  <2>4. FirstInLine(f.item, items) => FirstInLine(f.item, items')
    <3> SUFFICES ASSUME FirstInLine(f.item, items), NEW j \in ItemIds, items'[j].task = items'[f.item].task
                 PROVE  /\ j < f.item => items'[j].status \notin ActiveStatuses
                        /\ j > f.item => items'[j].status # "running"
      BY DEF FirstInLine
    <3>1. CASE j = n
      BY <1>1, <1>5, <2>1, <2>2, <3>1 DEF ItemIds
    <3>2. CASE j # n
      BY <1>5, <2>3, <3>2 DEF FirstInLine
    <3> QED BY <3>1, <3>2
  <2> QED BY <2>1, <2>3, <2>4
<1>10. AloneInv'
  BY <1>7, <1>8, <1>9 DEF AloneInv
<1>11. HoldsStep
  BY <1>5, <1>6 DEF HoldsStep
<1>12. TableStep
  BY <1>1, <1>5, <1>6, TableRows DEF TableStep, Item
<1> QED BY <1>10, <1>11, <1>12

LEMMA InitAlone == Init => AloneInv
<1> SUFFICES ASSUME Init PROVE AloneInv
  OBVIOUS
<1>1. Dispatcher \in Coroutines
  BY DEF Coroutines
<1>2. FlightOK(frames[Dispatcher], items)
  BY <1>1 DEF Init, FlightOK, InFlight, NoFrame
<1>3. OrderIn(items)
  BY DEF Init, OrderIn, NoItem
<1>4. TrackedIn(items, runs)
  BY DEF Init, TrackedIn, NoRun
<1> QED BY <1>2, <1>3, <1>4, InitOK DEF AloneInv

LEMMA NextAlone ==
  ASSUME DispatcherAlone
  PROVE  AloneInv /\ [Next]_vars =>
           AloneInv' /\ HoldsStep /\ (NoSkips /\ "reroute" \notin Ops => TableStep)
<1> SUFFICES ASSUME AloneInv, [Next]_vars
             PROVE  AloneInv' /\ HoldsStep /\ (NoSkips /\ "reroute" \notin Ops => TableStep)
  OBVIOUS
<1>1. IInv'
  BY NextOK DEF AloneInv
<1>2. Coroutines = {Dispatcher} /\ Requests = {}
  BY DEF DispatcherAlone, Coroutines
<1>3. ASSUME UNCHANGED <<items, runs, frames>> PROVE AloneInv' /\ HoldsStep /\ TableStep
  BY <1>1, <1>3, ItemsStay DEF AloneInv
<1>4. CASE UNCHANGED vars
  BY <1>3, <1>4 DEF vars, queueVars, runVars
<1>5. CASE EventLoop
  <2>1. CASE Tick
    BY <1>1, <2>1, TickAlone
  <2>2. CASE ConsultStart
    BY <1>1, <2>2, ConsultStartAlone
  <2>3. CASE ConsultSpawned
    BY <1>1, <2>3, ConsultSpawnedAlone
  <2>4. ASSUME NEW c \in Coroutines, GitDone(c) \/ StepSpawned(c) \/ StepSpawnError(c)
        PROVE  AloneInv' /\ HoldsStep /\ (NoSkips => TableStep)
    <3>1. c = Dispatcher
      BY <1>2
    <3> QED BY <1>1, <2>4, <3>1, GitDoneAlone, StepSpawnedAlone, StepSpawnErrorAlone
  <2> QED BY <1>5, <2>1, <2>2, <2>3, <2>4 DEF EventLoop
<1>6. CASE Processes
  BY <1>1, <1>6, ProcessesAlone
<1>7. CASE UserRequest
  <2>1. ASSUME NEW t \in Tasks, NEW s \in Steps, AddStep(t, s) PROVE AloneInv' /\ HoldsStep /\ TableStep
    BY <1>1, <2>1, AddStepAlone
  <2>2. ASSUME NEW i \in ItemIds, Retry(i) PROVE AloneInv' /\ HoldsStep /\ TableStep
    <3>1. UNCHANGED <<runs, frames>>
      BY <2>2 DEF Retry, runVars
    <3> QED BY <1>1, <2>2, <3>1, RetryAlone, EditKeeps
  <2>3. ASSUME NEW i \in ItemIds, Skip(i) PROVE AloneInv' /\ HoldsStep /\ ~NoSkips
    <3>1. UNCHANGED <<runs, frames>> /\ ~NoSkips
      BY <2>3 DEF Skip, runVars, NoSkips
    <3> QED BY <1>1, <2>3, <3>1, SkipAlone, EditKeeps
  <2>4. ASSUME NEW i \in ItemIds, NEW p \in Providers, Reroute(i, p)
        PROVE  AloneInv' /\ HoldsStep /\ "reroute" \in Ops
    <3>1. UNCHANGED <<runs, frames>> /\ "reroute" \in Ops
      BY <2>4 DEF Reroute, runVars
    <3> QED BY <1>1, <2>4, <3>1, RerouteAlone, EditKeeps
  <2>5. CASE (\E i \in ItemIds : Remove(i)) \/ Clear
    <3>1. UNCHANGED <<runs, frames>>
      BY <2>5 DEF Remove, Clear, runVars
    <3> QED BY <1>1, <2>5, <3>1, RemoveAlone, EditKeeps
  <2>6. CASE SetMode \/ SetHealth
    BY <1>3, <2>6 DEF SetMode, SetHealth, queueVars, runVars
  <2>7. ASSUME NEW t \in Tasks, BeginSequence(t) \/ EndSequence(t) PROVE AloneInv' /\ HoldsStep /\ TableStep
    BY <1>3, <2>7 DEF BeginSequence, EndSequence, queueVars, runVars
  <2> QED
    BY <1>2, <1>7, <2>1, <2>2, <2>3, <2>4, <2>5, <2>6, <2>7 DEF UserRequest
<1> QED
  BY <1>4, <1>5, <1>6, <1>7 DEF Next

\* "Queue order preserved within a task" (queue_service._pick_candidate): an item
\* runs only when every earlier item of its task has come to an end, for every
\* interleaving of ticks, consults, cancellations, skips and removals, as long as
\* the dispatcher alone starts steps and nothing that has ended is queued again.
THEOREM QueueOrderKept == ASSUME DispatcherAlone, NoRetries PROVE Spec => []TaskInOrder
<1>1. AloneInv => TaskInOrder
  BY DEF AloneInv, OrderIn, TaskInOrder
<1>2. AloneInv /\ [Next]_vars => AloneInv'
  BY NextAlone
<1> QED
  BY <1>1, <1>2, InitAlone, PTL DEF Spec

\* Every live process of a step has the item that tracks it, as long as the
\* dispatcher alone starts steps and no item is removed while it is dispatched
\* (queue_service.dispatch_item writes the item after the process exists).
THEOREM RunsAreTracked == ASSUME DispatcherAlone, NoRemovals PROVE Spec => []LiveRunTracked
<1>1. AloneInv => LiveRunTracked
  BY DEF AloneInv, TrackedIn, LiveRunTracked
<1>2. AloneInv /\ [Next]_vars => AloneInv'
  BY NextAlone
<1> QED
  BY <1>1, <1>2, InitAlone, PTL DEF Spec

\* The tick that settles a running item as failed or cancelled leaves no queued
\* item of its task (queue_service._finalize_running), whatever the users do to
\* the list, as long as the dispatcher alone starts steps.
THEOREM FailuresHold == ASSUME DispatcherAlone PROVE Spec => FailureHoldsTask
<1>1. AloneInv /\ [Next]_vars => AloneInv' /\ [HoldsStep]_vars
  BY NextAlone
<1>2. [HoldsStep]_vars =>
        [\A i \in ItemIds :
           items[i].status = "running" /\ items'[i].status \in {"failed", "cancelled"} =>
             \A j \in ItemIds : items[j].task = items[i].task => items'[j].status # "queued"]_vars
  BY DEF HoldsStep
<1> QED
  BY <1>1, <1>2, InitAlone, PTL DEF Spec, FailureHoldsTask

\* Every change of an item's status is one QUEUE_TRANSITIONS allows
\* (queue_service._apply_status), as long as the dispatcher alone starts steps
\* and nothing is skipped or rerouted, which the table does not foresee.
THEOREM TableIsKept == ASSUME DispatcherAlone, NoSkips, "reroute" \notin Ops PROVE Spec => QueueTableHolds
<1>1. AloneInv /\ [Next]_vars => AloneInv' /\ [TableStep]_vars
  BY NextAlone
<1>2. [TableStep]_vars =>
        [\A i \in ItemIds : items[i].status # "absent" /\ items'[i].status # "absent"
           => QueueStepOK(items[i].status, items'[i].status)]_vars
  BY DEF TableStep
<1> QED
  BY <1>1, <1>2, InitAlone, PTL DEF Spec, QueueTableHolds
=============================================================================
