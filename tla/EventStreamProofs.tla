-------------------------- MODULE EventStreamProofs --------------------------
(* Proofs about EventStream, for every number of events and workspaces, every *)
(* size of the buffer and every limit on what is read at once.                *)
EXTENDS EventStream, WellFoundedInduction, FiniteSetTheorems, TLAPS

-----------------------------------------------------------------------------
(* The least and the greatest element of a set of ids.                     *)

\* A set of natural numbers has a least element.
LEMMA Least ==
  ASSUME NEW S \in SUBSET Nat, S # {}
  PROVE  \E x \in S : \A y \in S : x <= y
<1>1. IsWellFoundedOn(OpToRel(<, Nat), Nat)
  BY NatLessThanWellFounded
<1>2. PICK x \in S : \A y \in S : ~(<<y, x>> \in OpToRel(<, Nat))
  BY <1>1, WFMin
<1>3. \A y \in S : ~(y < x)
  BY <1>2 DEF OpToRel
<1> QED
  BY <1>3

\* What Min of the community modules returns.
LEMMA MinOf ==
  ASSUME NEW S \in SUBSET Nat, S # {}
  PROVE  Min(S) \in S /\ \A y \in S : Min(S) <= y
BY Least DEF Min

\* What Max returns, for a set of numbers with a bound.
LEMMA MaxOf ==
  ASSUME NEW N \in Nat, NEW S \in SUBSET (0..N), S # {}
  PROVE  Max(S) \in S /\ \A y \in S : Max(S) >= y
<1> DEFINE D == {N - x : x \in S}
<1>1. PICK d \in D : \A e \in D : d <= e
  <2>1. \A x \in S : N - x \in Nat
    OBVIOUS
  <2>2. D \in SUBSET Nat /\ D # {}
    BY <2>1
  <2> QED
    BY <2>2, Least
<1>2. PICK x \in S : d = N - x
  OBVIOUS
<1>3. \A y \in S : N - x <= N - y
  BY <1>1, <1>2
<1>4. \A y \in S : x >= y
  BY <1>3
<1> QED
  BY <1>4 DEF Max

-----------------------------------------------------------------------------
(* What applying events does to the store.                                 *)

\* Event numbers and ids are numbers.
LEMMA Numbers ==
  ASSUME TypeOK
  PROVE  /\ EventCap \in Nat /\ published \in Nat /\ base \in Nat /\ base <= published
         /\ published <= EventCap /\ cursor \in Nat /\ lastId \in Nat /\ feed.last \in Nat
         /\ \A k \in Events : k \in Nat /\ k > 0 /\ idOf[k] \in Nat /\ shown[k] \in Nat
         /\ 1..published \subseteq Events
BY StreamAssumption DEF TypeOK, Events

\* The cursor moves to the greatest id applied, and an event is counted if and only
\* if its id was beyond the cursor.
LEMMA AppliedStore ==
  ASSUME IInv, NEW S \in SUBSET (1..published), Applied(S)
  PROVE  /\ cursor' \in 0..EventCap /\ cursor <= cursor'
         /\ \A k \in S : idOf[k] <= cursor'
         /\ cursor' = cursor \/ \E k \in S : cursor' = idOf[k]
         /\ shown' \in [Events -> Nat]
         /\ \A k \in Events :
              /\ shown'[k] <= 1
              /\ shown[k] > 0 => shown'[k] > 0
              /\ k \in S /\ idOf[k] > cursor => shown'[k] > 0
              /\ k > published => shown'[k] = 0
              /\ shown'[k] > 0 => idOf[k] <= cursor'
<1> DEFINE new == {k \in S : idOf[k] > cursor}
           C == {cursor} \cup {idOf[k] : k \in new}
<1>1. TypeOK /\ ShownOnce /\ IdsOK
  BY DEF IInv
<1>2. S \subseteq Events
  BY <1>1, Numbers
<1>3. C \in SUBSET (0..EventCap) /\ C # {}
  <2>1. cursor \in 0..EventCap /\ \A k \in new : idOf[k] \in 0..EventCap
    BY <1>1, <1>2 DEF TypeOK
  <2> QED
    BY <2>1
<1>4. Max(C) \in C /\ \A y \in C : Max(C) >= y
  BY <1>1, <1>3, Numbers, MaxOf
<1>5. cursor' = Max(C) /\ shown' = [k \in Events |-> IF k \in new THEN shown[k] + 1 ELSE shown[k]]
  BY DEF Applied
<1>6. cursor' \in 0..EventCap /\ cursor <= cursor'
  <2>1. cursor \in C /\ cursor' \in C /\ cursor' >= cursor
    BY <1>4, <1>5
  <2>2. cursor \in 0..EventCap /\ cursor' \in 0..EventCap
    BY <1>3, <2>1
  <2> QED
    BY <1>1, <2>1, <2>2, Numbers
<1>7. \A k \in S : idOf[k] <= cursor'
  <2> SUFFICES ASSUME NEW k \in S PROVE idOf[k] <= cursor'
    OBVIOUS
  <2>1. k \in Events /\ idOf[k] \in Nat /\ cursor \in Nat /\ cursor' \in Nat
    BY <1>1, <1>2, <1>6, Numbers
  <2>2. CASE k \in new
    BY <1>4, <1>5, <2>1, <2>2
  <2>3. CASE k \notin new
    BY <1>6, <2>1, <2>3
  <2> QED
    BY <2>2, <2>3
<1>8. cursor' = cursor \/ \E k \in S : cursor' = idOf[k]
  BY <1>4, <1>5
<1>9. ASSUME NEW k \in Events
      PROVE  /\ shown'[k] \in Nat /\ shown'[k] <= 1
             /\ shown[k] > 0 => shown'[k] > 0
             /\ k \in S /\ idOf[k] > cursor => shown'[k] > 0
             /\ k > published => shown'[k] = 0
             /\ shown'[k] > 0 => idOf[k] <= cursor'
  <2>1. /\ k \in Nat /\ published \in Nat /\ cursor \in Nat /\ cursor' \in Nat
        /\ idOf[k] \in Nat /\ shown[k] \in Nat /\ shown[k] <= 1
        /\ k > published => shown[k] = 0
        /\ shown[k] > 0 => idOf[k] <= cursor
    BY <1>1, <1>6, Numbers DEF ShownOnce, IdsOK
  <2>2. CASE k \in new
    <3>1. shown[k] = 0 /\ shown'[k] = 1 /\ ~(k > published)
      BY <1>5, <2>1, <2>2
    <3> QED
      BY <1>7, <2>1, <2>2, <3>1
  <2>3. CASE k \notin new
    <3>1. shown'[k] = shown[k]
      BY <1>5, <2>3
    <3> QED
      BY <1>6, <2>1, <2>3, <3>1
  <2> QED
    BY <2>2, <2>3
<1>10. shown' \in [Events -> Nat]
  BY <1>5, <1>9
<1> QED
  BY <1>6, <1>7, <1>8, <1>9, <1>10

\* The buffered events have ids, in the order of their numbers.
LEMMA BufferedIds ==
  ASSUME TypeOK, IdsOK, NEW j \in Buffered
  PROVE  j \in Events /\ base < j /\ j <= published /\ idOf[j] = j - base /\ idOf[j] > 0
BY Numbers DEF Buffered, IdsOK

\* What is read is a prefix of the unseen events of one workspace: nothing between
\* the id it was asked for and any event of it is left out.
LEMMA PrefixRead ==
  ASSUME TypeOK, IdsOK, NEW w \in Workspaces, NEW id \in Nat
  PROVE  \A k \in EventsAfter(w, id) :
           /\ k \in Buffered /\ wsOf[k] = w /\ idOf[k] > id
           /\ \A j \in Buffered :
                wsOf[j] = w /\ id < idOf[j] /\ idOf[j] <= idOf[k] => j \in EventsAfter(w, id)
<1> DEFINE unseen == {k \in Buffered : wsOf[k] = w /\ idOf[k] > id}
<1>1. EventsAfter(w, id) = {k \in unseen : Cardinality({j \in unseen : j < k}) < BatchSize}
  BY DEF EventsAfter
<1> SUFFICES ASSUME NEW k \in EventsAfter(w, id), NEW j \in Buffered,
                    wsOf[j] = w, id < idOf[j], idOf[j] <= idOf[k]
             PROVE  j \in EventsAfter(w, id)
  BY <1>1
<1> DEFINE A == {i \in unseen : i < j}
           B == {i \in unseen : i < k}
<1>2. /\ k \in Buffered /\ j \in unseen /\ k \in Nat /\ j \in Nat /\ base \in Nat
      /\ idOf[k] = k - base /\ idOf[j] = j - base
  BY <1>1, BufferedIds, Numbers
<1>3. j <= k
  BY <1>2
<1>4. A \subseteq B
  <2>1. ASSUME NEW i \in unseen, i < j PROVE i < k
    <3>1. i \in Nat
      BY Numbers DEF Buffered
    <3> QED
      BY <1>2, <1>3, <2>1, <3>1
  <2> QED
    BY <2>1
<1>5. IsFiniteSet(B)
  <2>1. IsFiniteSet(Events)
    <3>1. EventCap \in Int /\ 1 \in Int
      BY StreamAssumption
    <3> QED
      BY <3>1, FS_Interval DEF Events
  <2>2. B \in SUBSET Events
    BY DEF Buffered
  <2> QED
    BY <2>1, <2>2, FS_Subset
<1>6. /\ Cardinality(A) <= Cardinality(B)
      /\ Cardinality(A) \in Nat /\ Cardinality(B) \in Nat /\ BatchSize \in Nat
  BY <1>4, <1>5, FS_Subset, FS_CardinalityType, StreamAssumption
<1>7. Cardinality(B) < BatchSize
  BY <1>1
<1> QED
  BY <1>1, <1>2, <1>6, <1>7

-----------------------------------------------------------------------------
(* The invariant holds initially and is kept by every action.              *)

\* Init establishes the invariant: nothing is published.
LEMMA InitOK == Init => IInv
<1> SUFFICES ASSUME Init PROVE IInv
  OBVIOUS
<1>1. NoFeed \in [ws : Workspaces, last : 0..EventCap]
  BY StreamAssumption DEF NoFeed
<1>2. TypeOK
  <2>1. 0 \in 0..EventCap /\ 0 \in 0..0 /\ NoFeed.ws \in Workspaces
    BY <1>1, StreamAssumption
  <2>2. wsOf \in [Events -> Workspaces] /\ idOf \in [Events -> 0..EventCap] /\ shown \in [Events -> Nat]
    BY <2>1 DEF Init
  <2> QED
    BY <1>1, <2>1, <2>2 DEF Init, TypeOK
<1>3. \A k \in Events : k > 0 /\ k \in Nat
  BY StreamAssumption DEF Events
<1>4. ShownOnce /\ IdsOK
  BY <1>3 DEF Init, ShownOnce, IdsOK
<1>5. Buffered = {}
  BY <1>3 DEF Init, Buffered
<1>6. NothingSkipped
  BY <1>5 DEF Init, NothingSkipped
<1> QED
  BY <1>2, <1>4, <1>6 DEF IInv

\* A new event has a new id, beyond everything shown, sent or asked for.
LEMMA PublishOK == ASSUME IInv, NEW w \in Workspaces, Publish(w) PROVE IInv'
<1> DEFINE n == published + 1
<1>1. TypeOK /\ ShownOnce /\ IdsOK
  BY DEF IInv
<1>2. n \in Events /\ n \in Nat /\ n - base \in 1..EventCap /\ n > published
  BY <1>1, Numbers DEF Publish, Events
<1>3. /\ published' = n /\ base' = base
      /\ wsOf' = [wsOf EXCEPT ![n] = w] /\ idOf' = [idOf EXCEPT ![n] = n - base]
      /\ UNCHANGED <<current, page, cursor, shown, source, opened, lastId, feed, wire,
                     answer, stale, pure>>
  <2>1. published' = n /\ idOf' = [idOf EXCEPT ![n] = n - base] /\ wsOf' = [wsOf EXCEPT ![n] = w]
    BY DEF Publish
  <2>2. base' = base /\ UNCHANGED <<current, page, cursor, shown, source, opened, lastId, feed,
                                    wire, answer, stale, pure>>
    BY DEF Publish, store, connection, polls
  <2> QED
    BY <2>1, <2>2
<1>4. TypeOK'
  <2>1. /\ published' \in 0..EventCap /\ base' \in 0..published'
        /\ wsOf' \in [Events -> Workspaces] /\ idOf' \in [Events -> 0..EventCap]
    BY <1>1, <1>2, <1>3, Numbers DEF TypeOK, Publish
  <2> QED
    BY <1>1, <1>3, <2>1 DEF TypeOK, store, connection, polls
<1>5. \A k \in Events : k # n => idOf'[k] = idOf[k] /\ wsOf'[k] = wsOf[k]
  BY <1>1, <1>3 DEF TypeOK
<1>6. idOf'[n] = n - base /\ wsOf'[n] = w
  BY <1>1, <1>2, <1>3 DEF TypeOK
<1>7. \A k \in Events : k <= n => k <= published \/ k = n
  BY <1>1, <1>2, Numbers
<1>8. \A k \in 1..published : k # n
  BY <1>1, <1>2, Numbers
<1>9. shown' = shown /\ cursor' = cursor /\ wire' = wire /\ answer' = answer /\ stale' = stale
  BY <1>3 DEF store, connection, polls
<1>10. IdsOK'
  <2>1. ASSUME NEW k \in Events
        PROVE  /\ base < k /\ k <= n => idOf'[k] = k - base
               /\ k > n => shown[k] = 0
               /\ k <= n => idOf'[k] > 0
               /\ shown[k] > 0 => idOf'[k] <= cursor
    <3>1. CASE k = n
      <4>1. shown[k] = 0 /\ idOf'[k] = k - base /\ idOf'[k] > 0
        BY <1>1, <1>2, <1>6, <3>1, Numbers DEF IdsOK
      <4> QED
        BY <3>1, <1>2, <4>1
    <3>2. CASE k # n
      <4>1. idOf'[k] = idOf[k] /\ (k <= n => k <= published) /\ (k > n => k > published)
        BY <1>1, <1>5, <1>7, <3>2, Numbers
      <4> QED
        BY <1>1, <4>1 DEF IdsOK
    <3> QED
      BY <3>1, <3>2
  <2>2. /\ wire \subseteq 1..published' /\ (source # "open" => wire = {})
        /\ \A b \in answer \cup stale : b \subseteq 1..published'
    <3>1. 1..published \subseteq 1..published'
      BY <1>1, <1>3, Numbers
    <3> QED
      BY <1>1, <3>1 DEF IdsOK
  <2> QED
    BY <1>3, <1>9, <2>1, <2>2 DEF IdsOK
<1>11. ASSUME pure' PROVE NothingSkipped'
  <2>1. NothingSkipped /\ cursor < idOf'[n] /\ (source = "open" => feed.last < idOf'[n])
    <3>1. NothingSkipped
      BY <1>3, <1>11 DEF IInv
    <3>2. cursor <= published - base /\ (source = "open" => feed.last <= published - base)
      BY <3>1 DEF NothingSkipped
    <3> QED
      BY <1>1, <1>6, <3>1, <3>2, Numbers
  <2>2. ASSUME NEW j \in Buffered', j # n PROVE j \in Buffered
    <3>1. /\ j \in Events /\ base < j /\ j <= published /\ n < j + BufferSize
      BY <1>1, <1>3, <1>7, <2>2 DEF Buffered
    <3>2. j \in Nat /\ published \in Nat /\ BufferSize \in Nat
      BY <1>1, <3>1, Numbers, StreamAssumption
    <3> QED
      BY <3>1, <3>2 DEF Buffered
  <2>3. \A j \in Buffered : j \in Events
    BY DEF Buffered
  <2>4. \A j \in Buffered' : wsOf'[j] = page /\ idOf'[j] <= cursor => shown[j] > 0
    <3> SUFFICES ASSUME NEW j \in Buffered', wsOf'[j] = page, idOf'[j] <= cursor
                 PROVE  shown[j] > 0
      OBVIOUS
    <3>1. j # n
      BY <1>1, <1>4, <1>2, <2>1, Numbers DEF TypeOK
    <3> QED
      BY <1>5, <2>1, <2>2, <2>3, <3>1 DEF NothingSkipped
  <2>5. cursor <= published' - base
    BY <1>1, <1>3, <2>1, Numbers DEF NothingSkipped
  <2>6. source # "polling" => cursor = lastId /\ answer = {}
    BY <2>1 DEF NothingSkipped
  <2>7. ASSUME source = "open"
        PROVE  /\ lastId <= feed.last /\ feed.last <= published' - base
               /\ \A k \in wire :
                    base < k /\ wsOf'[k] = feed.ws /\ lastId < idOf'[k] /\ idOf'[k] <= feed.last
               /\ \A j \in Buffered' :
                    wsOf'[j] = feed.ws /\ lastId < idOf'[j] /\ idOf'[j] <= feed.last => j \in wire
    <3>1. lastId <= feed.last /\ feed.last <= published' - base
      BY <1>1, <1>3, <2>1, <2>7, Numbers DEF NothingSkipped
    <3>2. \A k \in wire : k \in Events /\ k # n
      BY <1>1, <1>8, Numbers DEF IdsOK
    <3>3. \A k \in wire :
            base < k /\ wsOf'[k] = feed.ws /\ lastId < idOf'[k] /\ idOf'[k] <= feed.last
      BY <1>5, <2>1, <2>7, <3>2 DEF NothingSkipped
    <3>4. ASSUME NEW j \in Buffered', wsOf'[j] = feed.ws, lastId < idOf'[j], idOf'[j] <= feed.last
          PROVE  j \in wire
      <4>1. j # n
        BY <1>1, <1>4, <1>2, <2>1, <2>7, <3>4, Numbers DEF TypeOK
      <4> QED
        BY <1>5, <2>1, <2>2, <2>3, <2>7, <3>4, <4>1 DEF NothingSkipped
    <3> QED
      BY <3>1, <3>3, <3>4
  <2>8. ASSUME NEW b \in answer, NEW k \in b
        PROVE  /\ base < k
               /\ \A j \in Buffered' :
                    wsOf'[j] = wsOf'[k] /\ cursor < idOf'[j] /\ idOf'[j] <= idOf'[k] => j \in b
    <3>1. k \in 1..published /\ k \in Events /\ k # n /\ base < k
      BY <1>1, <1>8, <2>1, Numbers DEF IdsOK, NothingSkipped
    <3>2. idOf'[k] = k - base /\ idOf'[k] < idOf'[n]
      BY <1>1, <1>5, <1>6, <3>1, Numbers DEF IdsOK
    <3>3. ASSUME NEW j \in Buffered', wsOf'[j] = wsOf'[k], cursor < idOf'[j], idOf'[j] <= idOf'[k]
          PROVE  j \in b
      <4>1. j # n
        BY <1>4, <1>2, <3>1, <3>2, <3>3 DEF TypeOK
      <4> QED
        BY <1>5, <2>1, <2>2, <2>3, <3>1, <3>3, <4>1 DEF NothingSkipped
    <3> QED
      BY <3>1, <3>3
  <2> QED
    BY <1>3, <1>9, <2>4, <2>5, <2>6, <2>7, <2>8 DEF NothingSkipped, connection, polls
<1> QED
  BY <1>1, <1>4, <1>9, <1>10, <1>11 DEF IInv, ShownOnce

\* Steps that leave the bus alone leave the buffer alone.
LEMMA SameBuffer == ASSUME UNCHANGED bus PROVE Buffered' = Buffered /\ UNCHANGED <<published, base, wsOf, idOf>>
BY DEF bus, Buffered

\* The types of what the connection and the polls hold suffice when bus, store and
\* workspaces keep theirs.
LEMMA ConnectionTypes ==
  ASSUME TypeOK, UNCHANGED <<bus, current, page, store, pure>>,
         source' \in {"connecting", "open", "failed", "polling"},
         opened' \in BOOLEAN, lastId' \in 0..EventCap,
         feed' \in [ws : Workspaces, last : 0..EventCap], wire' \subseteq Events,
         answer' \in {{}} \cup {{b} : b \in SUBSET Events}, stale' \subseteq SUBSET Events
  PROVE  TypeOK'
BY DEF TypeOK, bus, store

\* A new connection resumes after the last event received.
LEMMA ConnectOK == ASSUME IInv, Connect PROVE IInv'
<1>1. TypeOK /\ ShownOnce /\ IdsOK
  BY DEF IInv
<1>2. /\ UNCHANGED <<bus, page, cursor, shown, lastId, wire, answer, stale, pure>>
      /\ source = "connecting" /\ source' = "open" /\ feed' = [ws |-> current, last |-> lastId]
  BY DEF Connect, store, polls
<1>3. TypeOK'
  <2>1. feed' \in [ws : Workspaces, last : 0..EventCap]
    BY <1>1, <1>2 DEF TypeOK
  <2> QED
    BY <1>1, <2>1, ConnectionTypes DEF Connect, TypeOK, polls
<1>4. ShownOnce' /\ IdsOK'
  BY <1>1, <1>2 DEF ShownOnce, IdsOK, bus
<1>5. ASSUME pure' PROVE NothingSkipped'
  <2>1. NothingSkipped
    BY <1>2, <1>5 DEF IInv
  <2>2. Buffered' = Buffered /\ UNCHANGED <<published, base, wsOf, idOf>>
    BY <1>2, SameBuffer
  <2>3. feed'.last = lastId /\ lastId = cursor /\ wire = {} /\ answer = {}
    BY <1>1, <1>2, <2>1 DEF NothingSkipped, IdsOK
  <2>4. lastId <= lastId /\ \A j \in Buffered : ~(lastId < idOf[j] /\ idOf[j] <= lastId)
    BY <1>1, Numbers DEF Buffered
  <2> QED
    BY <1>2, <2>1, <2>2, <2>3, <2>4 DEF NothingSkipped
<1> QED
  BY <1>3, <1>4, <1>5 DEF IInv

\* Losing or giving up a connection skips nothing: what was on its way is sent again.
LEMMA DisconnectOK ==
  ASSUME IInv, GiveUp \/ Refused \/ Broken PROVE IInv'
<1>1. TypeOK /\ ShownOnce /\ IdsOK
  BY DEF IInv
<1>2. /\ UNCHANGED <<bus, current, page, cursor, shown, opened, lastId, feed, answer, stale, pure>>
      /\ source' \in {"connecting", "failed", "polling"}
      /\ source # "polling" /\ wire' = {}
  BY <1>1 DEF GiveUp, Refused, Broken, store, polls, IdsOK
<1>3. TypeOK'
  BY <1>1, <1>2, ConnectionTypes DEF TypeOK, store
<1>4. ShownOnce' /\ IdsOK'
  BY <1>1, <1>2 DEF ShownOnce, IdsOK, bus
<1>5. ASSUME pure' PROVE NothingSkipped'
  <2>1. NothingSkipped
    BY <1>2, <1>5 DEF IInv
  <2>2. Buffered' = Buffered /\ UNCHANGED <<published, base, wsOf, idOf>>
    BY <1>2, SameBuffer
  <2> QED
    BY <1>2, <2>1, <2>2 DEF NothingSkipped
<1> QED
  BY <1>3, <1>4, <1>5 DEF IInv

\* A batch that is sent leaves nothing out between the last one and itself.
LEMMA SendOK == ASSUME IInv, Send PROVE IInv'
<1> DEFINE batch == EventsAfter(feed.ws, feed.last)
           ids == {idOf[k] : k \in batch}
<1>1. TypeOK /\ ShownOnce /\ IdsOK
  BY DEF IInv
<1>2. /\ UNCHANGED <<bus, current, page, cursor, shown, opened, lastId, answer, stale, pure>>
      /\ source = "open" /\ source' = "open" /\ batch # {}
      /\ wire' = wire \cup batch /\ feed' = [feed EXCEPT !.last = Max(ids)]
  BY DEF Send, store, polls
<1>3. feed.ws \in Workspaces /\ feed.last \in Nat
  BY <1>1, Numbers DEF TypeOK
<1>4. \A k \in batch :
        /\ k \in Buffered /\ wsOf[k] = feed.ws /\ idOf[k] > feed.last
        /\ \A j \in Buffered :
             wsOf[j] = feed.ws /\ feed.last < idOf[j] /\ idOf[j] <= idOf[k] => j \in batch
  BY <1>1, <1>3, PrefixRead
<1>5. \A k \in Buffered :
        /\ k \in Events /\ base < k /\ k \in 1..published /\ idOf[k] \in 0..EventCap
        /\ idOf[k] <= published - base
  BY <1>1, BufferedIds, Numbers DEF TypeOK
<1>6. Max(ids) \in ids /\ \A y \in ids : Max(ids) >= y
  <2>1. ids \in SUBSET (0..EventCap) /\ ids # {}
    BY <1>2, <1>4, <1>5
  <2> QED
    BY <1>1, <2>1, MaxOf, Numbers
<1>7. PICK m \in batch : Max(ids) = idOf[m]
  BY <1>6
<1>8. feed'.last = idOf[m] /\ feed'.ws = feed.ws /\ feed' \in [ws : Workspaces, last : 0..EventCap]
  BY <1>1, <1>2, <1>4, <1>5, <1>7 DEF TypeOK
<1>9. TypeOK'
  <2>1. wire' \subseteq Events
    BY <1>1, <1>2, <1>4, <1>5 DEF TypeOK
  <2> QED
    BY <1>1, <1>2, <1>8, <2>1, ConnectionTypes DEF TypeOK, store
<1>10. ShownOnce' /\ IdsOK'
  <2>1. wire' \subseteq 1..published
    BY <1>1, <1>2, <1>4, <1>5 DEF IdsOK
  <2> QED
    BY <1>1, <1>2, <2>1 DEF ShownOnce, IdsOK, bus
<1>11. ASSUME pure' PROVE NothingSkipped'
  <2>1. NothingSkipped
    BY <1>2, <1>11 DEF IInv
  <2>2. Buffered' = Buffered /\ UNCHANGED <<published, base, wsOf, idOf>>
    BY <1>2, SameBuffer
  <2>3. lastId <= feed.last /\ lastId <= feed'.last /\ feed'.last <= published - base
    <3>1. lastId <= feed.last /\ idOf[m] > feed.last /\ idOf[m] \in Nat /\ lastId \in Nat
      BY <1>1, <1>2, <1>4, <1>5, <2>1, Numbers DEF NothingSkipped
    <3> QED
      BY <1>3, <1>4, <1>5, <1>8, <3>1
  <2>4. ASSUME NEW k \in wire'
        PROVE  base < k /\ wsOf[k] = feed.ws /\ lastId < idOf[k] /\ idOf[k] <= feed'.last
    <3>1. CASE k \in batch
      <4>1. idOf[k] <= Max(ids) /\ idOf[k] \in Nat /\ lastId \in Nat
        BY <1>1, <1>4, <1>5, <1>6, <3>1, Numbers
      <4>2. lastId < idOf[k]
        BY <1>3, <1>4, <2>3, <3>1, <4>1
      <4> QED
        BY <1>4, <1>5, <1>7, <1>8, <3>1, <4>1, <4>2
    <3>2. CASE k \in wire
      <4>1. /\ k \in Events /\ base < k /\ wsOf[k] = feed.ws
            /\ lastId < idOf[k] /\ idOf[k] <= feed.last
        BY <1>1, <1>2, <2>1, <3>2 DEF NothingSkipped, TypeOK
      <4>2. feed.last < idOf[m] /\ idOf[m] \in Nat /\ idOf[k] \in Nat
        BY <1>1, <1>4, <1>5, <4>1, Numbers
      <4> QED
        BY <1>3, <1>8, <4>1, <4>2
    <3> QED
      BY <1>2, <3>1, <3>2
  <2>5. ASSUME NEW j \in Buffered, wsOf[j] = feed.ws, lastId < idOf[j], idOf[j] <= feed'.last
        PROVE  j \in wire'
    <3>1. CASE idOf[j] <= feed.last
      BY <1>2, <2>1, <2>5, <3>1 DEF NothingSkipped
    <3>2. CASE feed.last < idOf[j]
      BY <1>2, <1>4, <1>8, <2>5, <3>2
    <3> QED
      BY <1>3, <1>5, <3>1, <3>2
  <2> QED
    BY <1>2, <1>8, <2>1, <2>2, <2>3, <2>4, <2>5 DEF NothingSkipped
<1> QED
  BY <1>9, <1>10, <1>11 DEF IInv

\* The types after events were applied.
LEMMA StoreTypes ==
  ASSUME TypeOK, UNCHANGED <<bus, current, page, source, opened, feed>>,
         cursor' \in 0..EventCap, shown' \in [Events -> Nat], lastId' \in 0..EventCap,
         wire' \subseteq Events, answer' \in {{}, answer}, stale' \subseteq SUBSET Events,
         pure' \in BOOLEAN
  PROVE  TypeOK'
BY DEF TypeOK, bus

\* An event of the page's workspace arrives only after all before it did.
LEMMA ReceiveOK == ASSUME IInv, Receive PROVE IInv'
<1> DEFINE k == Min(wire)
<1>1. TypeOK /\ ShownOnce /\ IdsOK
  BY DEF IInv
<1>2. /\ UNCHANGED <<bus, current, page, source, opened, feed, answer, stale>>
      /\ source = "open" /\ wire # {} /\ Applied({k})
      /\ wire' = wire \ {k} /\ lastId' = idOf[k]
      /\ pure' = (pure /\ ~Impure({k}))
  BY DEF Receive, polls
<1>3. k \in wire /\ \A j \in wire : k <= j
  <2>1. wire \in SUBSET Nat
    BY <1>1, Numbers DEF TypeOK
  <2> QED
    BY <1>2, <2>1, MinOf
<1>4. k \in 1..published /\ k \in Events /\ idOf[k] \in 0..EventCap
  BY <1>1, <1>3, Numbers DEF IdsOK, TypeOK
<1>5. /\ cursor' \in 0..EventCap /\ cursor <= cursor' /\ idOf[k] <= cursor'
      /\ cursor' = cursor \/ cursor' = idOf[k]
      /\ shown' \in [Events -> Nat]
      /\ \A j \in Events :
           /\ shown'[j] <= 1
           /\ shown[j] > 0 => shown'[j] > 0
           /\ j = k /\ idOf[j] > cursor => shown'[j] > 0
           /\ j > published => shown'[j] = 0
           /\ shown'[j] > 0 => idOf[j] <= cursor'
  BY <1>2, <1>4, AppliedStore
<1>6. TypeOK'
  <2>1. wire' \subseteq Events
    BY <1>1, <1>2 DEF TypeOK
  <2>2. pure' \in BOOLEAN /\ lastId' \in 0..EventCap /\ stale' \subseteq SUBSET Events
    BY <1>1, <1>2, <1>4 DEF TypeOK
  <2> QED
    BY <1>1, <1>2, <1>5, <2>1, <2>2, StoreTypes
<1>7. ShownOnce' /\ IdsOK'
  <2>1. UNCHANGED <<published, base, idOf>>
    BY <1>2 DEF bus
  <2> QED
    BY <1>1, <1>2, <1>5, <2>1 DEF ShownOnce, IdsOK
<1>8. ASSUME pure' PROVE NothingSkipped'
  <2>1. NothingSkipped /\ wsOf[k] = page
    BY <1>2, <1>8 DEF IInv, Impure
  <2>2. Buffered' = Buffered /\ UNCHANGED <<published, base, wsOf, idOf>>
    BY <1>2, SameBuffer
  <2>3. /\ cursor = lastId /\ answer = {} /\ feed.ws = page /\ base < k
        /\ lastId < idOf[k] /\ idOf[k] <= feed.last /\ feed.last <= published - base
    BY <1>2, <1>3, <2>1 DEF NothingSkipped
  <2>4. idOf[k] = k - base /\ cursor' = idOf[k]
    BY <1>1, <1>4, <1>5, <2>3, Numbers DEF IdsOK
  <2>5. \A j \in Buffered : j \in Events /\ j \in Nat /\ base < j /\ idOf[j] = j - base
    BY <1>1, BufferedIds, Numbers
  <2>6. ASSUME NEW j \in Buffered, wsOf[j] = page, idOf[j] <= cursor'
        PROVE  shown'[j] > 0
    <3>1. CASE idOf[j] <= cursor
      BY <1>5, <2>1, <2>5, <2>6, <3>1 DEF NothingSkipped
    <3>2. CASE ~(idOf[j] <= cursor)
      <4>1. lastId < idOf[j] /\ idOf[j] <= feed.last
        BY <1>1, <1>4, <2>3, <2>4, <2>5, <2>6, <3>2, Numbers
      <4>2. j \in wire
        BY <1>2, <2>1, <2>3, <2>6, <4>1 DEF NothingSkipped
      <4>3. j = k
        BY <1>1, <1>3, <1>4, <2>4, <2>5, <2>6, <4>2, Numbers
      <4> QED
        BY <1>1, <1>5, <2>3, <2>5, <4>1, <4>3, Numbers
    <3> QED
      BY <3>1, <3>2
  <2>7. cursor' = lastId' /\ cursor' <= published - base /\ lastId' <= feed.last
    BY <1>1, <1>2, <1>4, <2>3, <2>4, Numbers
  <2>8. ASSUME NEW j \in wire'
        PROVE  base < j /\ wsOf[j] = feed.ws /\ lastId' < idOf[j] /\ idOf[j] <= feed.last
    <3>1. base < j /\ wsOf[j] = feed.ws /\ idOf[j] <= feed.last /\ j # k /\ k <= j /\ j \in 1..published
      BY <1>1, <1>2, <1>3, <2>1, <2>8 DEF NothingSkipped, IdsOK
    <3>2. idOf[j] = j - base /\ j \in Nat
      BY <1>1, <3>1, Numbers DEF IdsOK
    <3> QED
      BY <1>1, <1>2, <1>4, <2>4, <3>1, <3>2, Numbers
  <2>9. ASSUME NEW j \in Buffered, wsOf[j] = feed.ws, lastId' < idOf[j], idOf[j] <= feed.last
        PROVE  j \in wire'
    <3>1. j # k /\ lastId < idOf[j]
      BY <1>1, <1>2, <1>4, <2>3, <2>5, <2>9, Numbers
    <3> QED
      BY <1>2, <2>1, <2>9, <3>1 DEF NothingSkipped
  <2> QED
    BY <1>2, <2>2, <2>3, <2>6, <2>7, <2>8, <2>9 DEF NothingSkipped
<1> QED
  BY <1>6, <1>7, <1>8 DEF IInv

\* A poll reads the oldest events behind the cursor.
LEMMA PollOK == ASSUME IInv, Poll PROVE IInv'
<1> DEFINE b == EventsAfter(current, cursor)
<1>1. TypeOK /\ ShownOnce /\ IdsOK
  BY DEF IInv
<1>2. /\ UNCHANGED <<bus, current, page, cursor, shown, source, opened, lastId, feed, wire, stale, pure>>
      /\ source = "polling" /\ answer' = {b}
  BY DEF Poll, store, connection
<1>3. \A k \in b :
        /\ k \in Buffered
        /\ \A j \in Buffered :
             wsOf[j] = wsOf[k] /\ cursor < idOf[j] /\ idOf[j] <= idOf[k] => j \in b
  <2>1. current \in Workspaces /\ cursor \in Nat
    BY <1>1, Numbers DEF TypeOK
  <2>2. \A k \in b :
          /\ k \in Buffered /\ wsOf[k] = current
          /\ \A j \in Buffered :
               wsOf[j] = current /\ cursor < idOf[j] /\ idOf[j] <= idOf[k] => j \in b
    BY <1>1, <2>1, PrefixRead
  <2> QED
    BY <2>2
<1>4. \A k \in Buffered : k \in Events /\ base < k /\ k \in 1..published
  BY <1>1, BufferedIds, Numbers
<1>5. b \subseteq Events /\ b \subseteq 1..published
  BY <1>3, <1>4
<1>6. TypeOK'
  BY <1>1, <1>2, <1>5, ConnectionTypes DEF TypeOK, store
<1>7. ShownOnce' /\ IdsOK'
  <2>1. \A a \in answer' \cup stale : a \subseteq 1..published
    BY <1>1, <1>2, <1>5 DEF IdsOK
  <2> QED
    BY <1>1, <1>2, <2>1 DEF ShownOnce, IdsOK, bus
<1>8. ASSUME pure' PROVE NothingSkipped'
  <2>1. NothingSkipped
    BY <1>2, <1>8 DEF IInv
  <2>2. Buffered' = Buffered /\ UNCHANGED <<published, base, wsOf, idOf>>
    BY <1>2, SameBuffer
  <2>3. \A a \in answer' : \A k \in a :
          /\ base < k
          /\ \A j \in Buffered :
               wsOf[j] = wsOf[k] /\ cursor < idOf[j] /\ idOf[j] <= idOf[k] => j \in a
    BY <1>2, <1>3, <1>4
  <2> QED
    BY <1>2, <2>1, <2>2, <2>3 DEF NothingSkipped
<1> QED
  BY <1>6, <1>7, <1>8 DEF IInv

\* The answer of a poll fills the store up to its last event.
LEMMA AnsweredOK == ASSUME IInv, Answered PROVE IInv'
<1>1. TypeOK /\ ShownOnce /\ IdsOK
  BY DEF IInv
<1>2. PICK b \in answer :
        /\ Applied(b) /\ answer' = {} /\ pure' = (pure /\ ~Impure(b))
        /\ UNCHANGED <<bus, current, page, connection, stale>>
  BY DEF Answered
<1>3. UNCHANGED <<source, opened, lastId, feed, wire>>
  BY <1>2 DEF connection
<1>4. b \subseteq 1..published
  BY <1>1 DEF IdsOK
<1>5. /\ cursor' \in 0..EventCap /\ cursor <= cursor' /\ \A k \in b : idOf[k] <= cursor'
      /\ cursor' = cursor \/ \E k \in b : cursor' = idOf[k]
      /\ shown' \in [Events -> Nat]
      /\ \A j \in Events :
           /\ shown'[j] <= 1
           /\ shown[j] > 0 => shown'[j] > 0
           /\ j \in b /\ idOf[j] > cursor => shown'[j] > 0
           /\ j > published => shown'[j] = 0
           /\ shown'[j] > 0 => idOf[j] <= cursor'
  BY <1>2, <1>4, AppliedStore
<1>6. TypeOK'
  <2>1. /\ wire' \subseteq Events /\ pure' \in BOOLEAN /\ lastId' \in 0..EventCap
        /\ stale' \subseteq SUBSET Events /\ answer' \in {{}, answer}
    BY <1>1, <1>2, <1>3 DEF TypeOK
  <2> QED
    BY <1>1, <1>2, <1>3, <1>5, <2>1, StoreTypes
<1>7. ShownOnce' /\ IdsOK'
  <2>1. UNCHANGED <<published, base, idOf>>
    BY <1>2 DEF bus
  <2> QED
    BY <1>1, <1>2, <1>3, <1>5, <2>1 DEF ShownOnce, IdsOK
<1>8. ASSUME pure' PROVE NothingSkipped'
  <2>1. NothingSkipped /\ \A k \in b : wsOf[k] = page
    BY <1>2, <1>8 DEF IInv, Impure
  <2>2. Buffered' = Buffered /\ UNCHANGED <<published, base, wsOf, idOf>>
    BY <1>2, SameBuffer
  <2>3. source = "polling"
    BY <1>2, <2>1 DEF NothingSkipped
  <2>4. \A j \in Buffered : j \in Events /\ idOf[j] \in Nat
    BY <1>1, BufferedIds, Numbers
  <2>5. ASSUME NEW j \in Buffered, wsOf[j] = page, idOf[j] <= cursor'
        PROVE  shown'[j] > 0
    <3>1. CASE idOf[j] <= cursor
      BY <1>5, <2>1, <2>4, <2>5, <3>1 DEF NothingSkipped
    <3>2. CASE ~(idOf[j] <= cursor)
      <4>1. PICK k \in b : cursor' = idOf[k]
        BY <1>5, <2>5, <3>2
      <4>2. cursor < idOf[j]
        BY <1>1, <2>4, <3>2, Numbers
      <4>3. j \in b
        BY <2>1, <2>5, <4>1, <4>2 DEF NothingSkipped
      <4> QED
        BY <1>1, <1>5, <2>4, <4>2, <4>3, Numbers
    <3> QED
      BY <3>1, <3>2
  <2>6. cursor' <= published - base
    <3>1. ASSUME NEW k \in b PROVE idOf[k] <= published - base
      <4>1. base < k /\ k \in 1..published
        BY <1>4, <2>1, <3>1 DEF NothingSkipped
      <4>2. idOf[k] = k - base
        BY <1>1, <4>1, Numbers DEF IdsOK
      <4> QED
        BY <1>1, <4>1, <4>2, Numbers
    <3> QED
      BY <1>5, <2>1, <3>1 DEF NothingSkipped
  <2> QED
    BY <1>2, <1>3, <2>2, <2>3, <2>5, <2>6 DEF NothingSkipped
<1> QED
  BY <1>6, <1>7, <1>8 DEF IInv

\* A late answer may disturb the store, but shows no event twice.
LEMMA AnsweredLateOK == ASSUME IInv, AnsweredLate PROVE IInv'
<1>1. TypeOK /\ ShownOnce /\ IdsOK
  BY DEF IInv
<1>2. PICK b \in stale :
        /\ Applied(b) /\ stale' = stale \ {b} /\ pure' = FALSE
        /\ UNCHANGED <<bus, current, page, connection, answer>>
  BY DEF AnsweredLate
<1>3. UNCHANGED <<source, opened, lastId, feed, wire>>
  BY <1>2 DEF connection
<1>4. b \subseteq 1..published
  BY <1>1 DEF IdsOK
<1>5. /\ cursor' \in 0..EventCap /\ shown' \in [Events -> Nat]
      /\ \A j \in Events :
           /\ shown'[j] <= 1
           /\ j > published => shown'[j] = 0
           /\ shown'[j] > 0 => idOf[j] <= cursor'
  BY <1>2, <1>4, AppliedStore
<1>6. TypeOK'
  <2>1. /\ wire' \subseteq Events /\ pure' \in BOOLEAN /\ lastId' \in 0..EventCap
        /\ stale' \subseteq SUBSET Events /\ answer' \in {{}, answer}
    BY <1>1, <1>2, <1>3 DEF TypeOK
  <2> QED
    BY <1>1, <1>2, <1>3, <1>5, <2>1, StoreTypes
<1>7. ShownOnce' /\ IdsOK'
  <2>1. UNCHANGED <<published, base, idOf>>
    BY <1>2 DEF bus
  <2> QED
    BY <1>1, <1>2, <1>3, <1>5, <2>1 DEF ShownOnce, IdsOK
<1> QED
  BY <1>2, <1>6, <1>7 DEF IInv

\* A lost answer, or another workspace on the server, changes nothing of this.
LEMMA QuietOK ==
  ASSUME IInv, PollLost \/ \E w \in Workspaces : SwitchServer(w) PROVE IInv'
<1>1. TypeOK /\ ShownOnce /\ IdsOK
  BY DEF IInv
<1>2. /\ UNCHANGED <<bus, page, cursor, shown, source, opened, lastId, feed, wire, stale, pure>>
      /\ current' \in Workspaces /\ answer' \in {{}, answer}
  BY <1>1 DEF PollLost, SwitchServer, store, connection, polls, TypeOK
<1>3. TypeOK'
  BY <1>1, <1>2 DEF TypeOK, bus
<1>4. ShownOnce' /\ IdsOK'
  BY <1>1, <1>2 DEF ShownOnce, IdsOK, bus
<1>5. ASSUME pure' PROVE NothingSkipped'
  <2>1. NothingSkipped
    BY <1>2, <1>5 DEF IInv
  <2>2. Buffered' = Buffered /\ UNCHANGED <<published, base, wsOf, idOf>>
    BY <1>2, SameBuffer
  <2> QED
    BY <1>2, <2>1, <2>2 DEF NothingSkipped
<1> QED
  BY <1>3, <1>4, <1>5 DEF IInv

\* A new page starts with an empty store, behind every event.
LEMMA SwitchPageOK == ASSUME IInv, SwitchPage PROVE IInv'
<1>1. TypeOK /\ ShownOnce /\ IdsOK
  BY DEF IInv
<1>2. /\ UNCHANGED <<bus, current>> /\ page' = current
      /\ cursor' = 0 /\ shown' = [k \in Events |-> 0] /\ lastId' = 0
      /\ source' = "connecting" /\ opened' = FALSE
      /\ feed' = NoFeed /\ wire' = {} /\ stale' = stale \cup answer /\ answer' = {} /\ pure' = TRUE
  BY DEF SwitchPage
<1>3. TypeOK'
  <2>1. NoFeed \in [ws : Workspaces, last : 0..EventCap] /\ 0 \in 0..EventCap
    BY StreamAssumption DEF NoFeed
  <2>2. shown' \in [Events -> Nat]
    BY <1>2
  <2>3. stale' \subseteq SUBSET Events
    BY <1>1, <1>2 DEF TypeOK
  <2> QED
    BY <1>1, <1>2, <2>1, <2>2, <2>3 DEF TypeOK, bus
<1>4. ShownOnce' /\ IdsOK'
  <2>1. \A k \in Events : shown'[k] = 0
    BY <1>2
  <2>2. UNCHANGED <<published, base, idOf>>
    BY <1>2 DEF bus
  <2> QED
    BY <1>1, <1>2, <2>1, <2>2 DEF ShownOnce, IdsOK
<1>5. NothingSkipped'
  <2>1. Buffered' = Buffered /\ UNCHANGED <<published, base, wsOf, idOf>>
    BY <1>2, SameBuffer
  <2>2. \A j \in Buffered : idOf[j] > 0 /\ idOf[j] \in Nat
    BY <1>1, BufferedIds, Numbers
  <2>3. 0 <= published - base
    BY <1>1, Numbers
  <2> QED
    BY <1>2, <2>1, <2>2, <2>3 DEF NothingSkipped
<1> QED
  BY <1>3, <1>4, <1>5 DEF IInv

\* After a restart the ids start again; what was shown is still behind the cursor.
LEMMA RestartOK == ASSUME IInv, Restart PROVE IInv'
<1>1. TypeOK /\ ShownOnce /\ IdsOK
  BY DEF IInv
<1>2. /\ UNCHANGED <<published, wsOf, idOf, current, page, cursor, shown, opened, lastId, feed, answer, stale>>
      /\ base' = published /\ wire' = {} /\ pure' = FALSE
      /\ source' = IF source = "open" THEN "connecting" ELSE source
  BY DEF Restart, store, polls
<1>3. TypeOK'
  <2>1. base' \in 0..published'
    BY <1>1, <1>2, Numbers
  <2> QED
    BY <1>1, <1>2, <2>1 DEF TypeOK
<1>4. ShownOnce' /\ IdsOK'
  <2>1. \A k \in Events : ~(published < k /\ k <= published)
    BY <1>1, Numbers
  <2> QED
    BY <1>1, <1>2, <2>1 DEF ShownOnce, IdsOK
<1> QED
  BY <1>2, <1>3, <1>4 DEF IInv

\* A stuttering step.
LEMMA StutterOK == ASSUME IInv, UNCHANGED vars PROVE IInv'
<1>1. UNCHANGED <<published, base, wsOf, idOf, current, page, cursor, shown, source, opened, lastId,
                  feed, wire, answer, stale, pure>>
  BY DEF vars, bus, store, connection, polls
<1> QED
  BY <1>1 DEF IInv, TypeOK, ShownOnce, IdsOK, NothingSkipped, Buffered

-----------------------------------------------------------------------------
(* The theorems.                                                           *)

\* IInv is inductive: whatever breaks, comes late, switches or restarts, ids count
\* up, what was shown is behind the cursor, and an undisturbed page skipped nothing.
THEOREM StreamInvariance == Spec => []IInv
<1>1. ASSUME IInv, [Next]_vars PROVE IInv'
  <2>1. CASE Server
    BY <1>1, <2>1, SendOK, RestartOK, PublishOK, QuietOK DEF Server
  <2>2. CASE Network
    BY <1>1, <2>2, ConnectOK, DisconnectOK, ReceiveOK, QuietOK DEF Network
  <2>3. CASE Page
    BY <1>1, <2>3, PollOK, AnsweredOK, AnsweredLateOK, SwitchPageOK DEF Page
  <2>4. CASE UNCHANGED vars
    BY <1>1, <2>4, StutterOK
  <2> QED
    BY <1>1, <2>1, <2>2, <2>3, <2>4 DEF Next
<1> QED
  BY <1>1, InitOK, PTL DEF Spec

\* "Never duplicates text": no event is shown twice by one page, whatever is sent
\* again and whatever answer comes late.
THEOREM NeverTwice == Spec => []ShownOnce
<1>1. IInv => ShownOnce
  BY DEF IInv
<1> QED
  BY <1>1, StreamInvariance, PTL

\* "Resumes by cursor": an undisturbed page shows no event before the earlier ones
\* the bus still has.
THEOREM NoHoles == Spec => []NoGap
<1>1. ASSUME IInv PROVE NoGap
  <2> SUFFICES ASSUME pure, NEW j \in Events, NEW k \in Events,
                      j < k, j \in Buffered, wsOf[j] = page, wsOf[k] = page, shown[k] > 0
               PROVE  shown[j] > 0
    BY DEF NoGap
  <2>1. TypeOK /\ IdsOK /\ NothingSkipped
    BY <1>1 DEF IInv
  <2>2. k <= published /\ idOf[k] <= cursor
    BY <2>1, Numbers DEF IdsOK
  <2>3. base < j /\ base < k
    BY <2>1, Numbers DEF Buffered
  <2>4. idOf[j] = j - base /\ idOf[k] = k - base
    BY <2>1, <2>2, <2>3, BufferedIds DEF IdsOK
  <2>5. idOf[j] <= cursor
    BY <2>1, <2>2, <2>4, Numbers
  <2> QED
    BY <2>1, <2>5 DEF NothingSkipped
<1> QED
  BY <1>1, StreamInvariance, PTL
=============================================================================
