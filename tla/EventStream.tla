----------------------------- MODULE EventStream -----------------------------
(***************************************************************************)
(* The live event stream: event_bus.py (ids and a bounded buffer), the two *)
(* routes that read it (api/routes_state.py: a server-sent stream and its  *)
(* polling fallback) and the one store of the browser (frontend            *)
(* src/stream.tsx), across lost connections, answers that come late, a     *)
(* change of workspace and a restart of the server.                        *)
(*                                                                         *)
(* Events are numbered in the order they are published; the id the bus     *)
(* gives an event starts again at 1 when the server does.                  *)
(***************************************************************************)
EXTENDS Naturals, FiniteSets, FiniteSetsExt

CONSTANTS
  Workspaces,
  EventCap,     \* bound on the events ever published
  BufferSize,   \* events the bus keeps (4000)
  BatchSize,    \* most events read at once (1000 by the stream, 500 by a poll)
  StaleCap      \* bound on the answers in flight for a page that is gone

Events == 1..EventCap

ASSUME StreamAssumption ==
  /\ EventCap \in Nat /\ StaleCap \in Nat
  /\ BufferSize \in Nat \ {0} /\ BatchSize \in Nat \ {0}
  /\ Workspaces # {}

VARIABLES
  published,  \* how many events were ever published
  base,       \* how many of them before the last restart
  wsOf, idOf, \* an event's workspace and the id the bus gave it
  current,    \* the server's workspace
  page,       \* the workspace the page is mounted for
  cursor,     \* streamStore.cursor: the largest id applied
  shown,      \* how often each event was applied since the last reset
  source,     \* the page's EventSource; "polling" when it was given up
  opened,     \* it was open once
  lastId,     \* the Last-Event-ID the browser sends when it reconnects
  feed,       \* the generator behind the connection: its workspace and last id
  wire,       \* events it sent that have not arrived
  answer,     \* the poll in flight: at most one set of events
  stale,      \* answers in flight to polls of pages that are gone
  pure        \* (history) see Impure

bus == <<published, base, wsOf, idOf>>
store == <<cursor, shown>>
connection == <<source, opened, lastId, feed, wire>>
polls == <<answer, stale>>
vars == <<bus, current, page, store, connection, polls, pure>>

NoFeed == [ws |-> CHOOSE w \in Workspaces : TRUE, last |-> 0]

\* Types of all the state.
TypeOK ==
  /\ published \in 0..EventCap /\ base \in 0..published
  /\ wsOf \in [Events -> Workspaces] /\ idOf \in [Events -> 0..EventCap]
  /\ current \in Workspaces /\ page \in Workspaces
  /\ cursor \in 0..EventCap /\ shown \in [Events -> Nat]
  /\ source \in {"connecting", "open", "failed", "polling"}
  /\ opened \in BOOLEAN /\ lastId \in 0..EventCap
  /\ feed \in [ws : Workspaces, last : 0..EventCap]
  /\ wire \subseteq Events
  /\ answer \in {{}} \cup {{b} : b \in SUBSET Events} /\ stale \subseteq SUBSET Events
  /\ pure \in BOOLEAN

Init ==
  /\ published = 0 /\ base = 0
  /\ wsOf = [k \in Events |-> NoFeed.ws] /\ idOf = [k \in Events |-> 0]
  /\ current \in Workspaces /\ page = current
  /\ cursor = 0 /\ shown = [k \in Events |-> 0]
  /\ source = "connecting" /\ opened = FALSE /\ lastId = 0
  /\ feed = NoFeed /\ wire = {}
  /\ answer = {} /\ stale = {}
  /\ pure = TRUE

-----------------------------------------------------------------------------
(* The bus.                                                                *)

\* The ring buffer: the newest events since the server started.
Buffered == {k \in Events : base < k /\ k <= published /\ published < k + BufferSize}

\* Mutant: the newest of too many events.
NewestAfter(ws, id) ==
  LET unseen == {k \in Buffered : wsOf[k] = ws /\ idOf[k] > id} IN
  {k \in unseen : Cardinality({j \in unseen : j > k}) < BatchSize}

\* events_after: the oldest unseen events of a workspace, not too many.
EventsAfter(ws, id) ==
  LET unseen == {k \in Buffered : wsOf[k] = ws /\ idOf[k] > id} IN
  {k \in unseen : Cardinality({j \in unseen : j < k}) < BatchSize}

Publish(w) ==
  /\ published < EventCap
  /\ published' = published + 1
  /\ wsOf' = [wsOf EXCEPT ![published + 1] = w]
  /\ idOf' = [idOf EXCEPT ![published + 1] = (published + 1) - base]
  /\ UNCHANGED <<base, current, page, store, connection, polls, pure>>

-----------------------------------------------------------------------------
(* The store.                                                              *)

Impure(S) == \E k \in S : wsOf[k] # page

\* Mutant: no look at the id.
AppliedTwice(S) ==
  /\ shown' = [k \in Events |-> IF k \in S THEN shown[k] + 1 ELSE shown[k]]
  /\ cursor' = Max({cursor} \cup {idOf[k] : k \in S})

\* StreamStore.apply for the events of S in the order of their ids: those not
\* beyond the cursor are taken for repetitions.
Applied(S) ==
  LET new == {k \in S : idOf[k] > cursor} IN
  /\ shown' = [k \in Events |-> IF k \in new THEN shown[k] + 1 ELSE shown[k]]
  /\ cursor' = Max({cursor} \cup {idOf[k] : k \in new})

-----------------------------------------------------------------------------
(* The server-sent stream.                                                 *)

\* Mutant: the generator starts at the end of the bus.
ConnectAtEnd ==
  /\ source = "connecting"
  /\ source' = "open" /\ opened' = TRUE
  /\ feed' = [ws |-> current, last |-> published - base]
  /\ UNCHANGED <<bus, current, page, store, lastId, wire, polls, pure>>

\* The request arrives: its generator serves the workspace of that moment, and
\* resumes after Last-Event-ID (the cursor in the url is that of a fresh store).
Connect ==
  /\ source = "connecting"
  /\ source' = "open" /\ opened' = TRUE
  /\ feed' = [ws |-> current, last |-> lastId]
  /\ UNCHANGED <<bus, current, page, store, lastId, wire, polls, pure>>

\* onerror before the first onopen: polling for good.
GiveUp ==
  /\ source = "connecting" /\ ~opened
  /\ source' = "polling"
  /\ UNCHANGED <<bus, current, page, store, opened, lastId, feed, wire, polls, pure>>

\* The browser reconnects after a lost connection, but not when its request is
\* answered with an error; the page shows "polling" either way.
Refused ==
  /\ source = "connecting" /\ opened
  /\ source' = "failed"
  /\ UNCHANGED <<bus, current, page, store, opened, lastId, feed, wire, polls, pure>>

Broken ==
  /\ source = "open"
  /\ source' = "connecting" /\ wire' = {}
  /\ UNCHANGED <<bus, current, page, store, opened, lastId, feed, polls, pure>>

Send ==
  LET batch == EventsAfter(feed.ws, feed.last) IN
  /\ source = "open" /\ batch # {}
  /\ wire' = wire \cup batch
  /\ feed' = [feed EXCEPT !.last = Max({idOf[k] : k \in batch})]
  /\ UNCHANGED <<bus, current, page, store, source, opened, lastId, polls, pure>>

\* The next event arrives.
Receive ==
  /\ source = "open" /\ wire # {}
  /\ Applied({Min(wire)})
  /\ wire' = wire \ {Min(wire)}
  /\ lastId' = idOf[Min(wire)]
  /\ pure' = (pure /\ ~Impure({Min(wire)}))
  /\ UNCHANGED <<bus, current, page, source, opened, feed, polls>>

-----------------------------------------------------------------------------
(* The polling fallback.                                                   *)

\* A poll is asked and served; its answer takes its time, or is lost.
Poll ==
  /\ source = "polling" /\ answer = {}
  /\ answer' = {EventsAfter(current, cursor)}
  /\ UNCHANGED <<bus, current, page, store, connection, stale, pure>>

Answered ==
  \E b \in answer :
    /\ Applied(b)
    /\ answer' = {}
    /\ pure' = (pure /\ ~Impure(b))
    /\ UNCHANGED <<bus, current, page, connection, stale>>

PollLost ==
  /\ answer # {}
  /\ answer' = {}
  /\ UNCHANGED <<bus, current, page, store, connection, stale, pure>>

\* An answer to a page that is gone is applied to the store of the present one.
AnsweredLate ==
  \E b \in stale :
    /\ Applied(b)
    /\ stale' = stale \ {b}
    /\ pure' = FALSE
    /\ UNCHANGED <<bus, current, page, connection, answer>>

-----------------------------------------------------------------------------
(* Workspaces and restarts.                                                *)

\* The workspace is set, by this page or by another.
SwitchServer(w) ==
  /\ w # current
  /\ current' = w
  /\ UNCHANGED <<bus, page, store, connection, polls, pure>>

\* The page follows: the store is reset and the effect starts anew.
SwitchPage ==
  /\ page # current
  /\ Cardinality(stale \cup answer) <= StaleCap
  /\ page' = current
  /\ cursor' = 0 /\ shown' = [k \in Events |-> 0]
  /\ source' = "connecting" /\ opened' = FALSE /\ lastId' = 0
  /\ feed' = NoFeed /\ wire' = {}
  /\ stale' = stale \cup answer /\ answer' = {}
  /\ pure' = TRUE
  /\ UNCHANGED <<bus, current>>

\* The server starts again: the buffer is empty, ids start at 1, and the cursor
\* of the page and of the browser stay what they are.
Restart ==
  /\ base < published
  /\ base' = published
  /\ source' = IF source = "open" THEN "connecting" ELSE source
  /\ wire' = {}
  /\ pure' = FALSE
  /\ UNCHANGED <<published, wsOf, idOf, current, page, store, opened, lastId, feed, polls>>

-----------------------------------------------------------------------------
Server == Send \/ Restart \/ \E w \in Workspaces : Publish(w) \/ SwitchServer(w)
Network == Connect \/ GiveUp \/ Refused \/ Broken \/ Receive \/ PollLost
Page == Poll \/ Answered \/ AnsweredLate \/ SwitchPage

Next == Server \/ Network \/ Page

Spec == Init /\ [][Next]_vars

\* The generator and the polls run for ever; a connection that is made again and
\* again carries an event some time, a poll repeated again and again is answered.
Fairness ==
  /\ WF_vars(Connect \/ GiveUp \/ Refused) /\ SF_vars(Send) /\ SF_vars(Receive)
  /\ WF_vars(Poll) /\ SF_vars(Answered)

FairSpec == Spec /\ Fairness

-----------------------------------------------------------------------------
(* What the stream promises.                                               *)

\* "A UI refresh/reconnect never duplicates text": whatever is sent again after a
\* lost connection, and whatever answer comes late, no event is shown twice.
ShownOnce == \A k \in Events : shown[k] <= 1

\* "Resumes by cursor": text has no holes.  While all a page was given comes from
\* its own requests, its own workspace and one life of the server, an event is
\* shown only after all earlier ones that the bus still has.
NoGap ==
  pure => \A j, k \in Events :
    j < k /\ j \in Buffered /\ wsOf[j] = page /\ wsOf[k] = page /\ shown[k] > 0
      => shown[j] > 0

\* An event reaches the page that is connected to its workspace, over the stream or
\* the fallback, however often the connection breaks; unless the bus has dropped it,
\* the page left, or the browser gave up the stream (which nothing repairs).
Undisturbed(k) ==
  /\ k \in Buffered /\ pure /\ wsOf[k] = page /\ page = current
  /\ source # "failed" /\ (source = "open" => feed.ws = page)
EventsArrive ==
  \A k \in Events : Undisturbed(k) ~> shown[k] > 0 \/ ~Undisturbed(k)

-----------------------------------------------------------------------------
(* The inductive invariant behind ShownOnce and NoGap.                     *)

\* Ids count the events of this life of the server, and what was shown is behind
\* the cursor.
IdsOK ==
  /\ \A k \in Events : base < k /\ k <= published => idOf[k] = k - base
  /\ \A k \in Events : k > published => shown[k] = 0
  /\ \A k \in Events : k <= published => idOf[k] > 0
  /\ \A k \in Events : shown[k] > 0 => idOf[k] <= cursor
  /\ wire \subseteq 1..published /\ (source # "open" => wire = {})
  /\ \A b \in answer \cup stale : b \subseteq 1..published

\* Nothing the bus still has was skipped: not behind the cursor, not between the
\* last event received and the last one sent, not within the answer of a poll.
NothingSkipped ==
  /\ \A j \in Buffered : wsOf[j] = page /\ idOf[j] <= cursor => shown[j] > 0
  /\ cursor <= published - base
  /\ source # "polling" => cursor = lastId /\ answer = {}
  /\ source = "open" =>
       /\ lastId <= feed.last /\ feed.last <= published - base
       /\ \A k \in wire :
            base < k /\ wsOf[k] = feed.ws /\ lastId < idOf[k] /\ idOf[k] <= feed.last
       /\ \A j \in Buffered :
            wsOf[j] = feed.ws /\ lastId < idOf[j] /\ idOf[j] <= feed.last => j \in wire
  /\ \A b \in answer : \A k \in b :
       /\ base < k
       /\ \A j \in Buffered :
            wsOf[j] = wsOf[k] /\ cursor < idOf[j] /\ idOf[j] <= idOf[k] => j \in b

IInv ==
  /\ TypeOK
  /\ ShownOnce
  /\ IdsOK
  /\ pure => NothingSkipped
=============================================================================
