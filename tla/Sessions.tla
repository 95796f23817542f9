------------------------------ MODULE Sessions ------------------------------
(***************************************************************************)
(* Terminal sessions (terminal_service.py, api/routes_terminals.py): one   *)
(* shell on a PTY per workspace and provider, whose output is fanned out   *)
(* to the web sockets attached to it, and whose process group is to be     *)
(* found again if the backend dies.                                        *)
(*                                                                         *)
(* The event loop runs one handler at a time: an action is what a handler  *)
(* does between two awaits.  The shell leads a process group, and others   *)
(* of the group may outlive it.  They start, write and die between any two *)
(* actions.  A chunk of output is its number.  Resizing, repainting,       *)
(* keystrokes and diagnostics change nothing the properties tell apart.    *)
(***************************************************************************)
EXTENDS Naturals, Sequences, FiniteSets

CONSTANTS
    Keys,        \* workspace::provider
    Clients,     \* web sockets
    SessionCap,  \* bound: sessions ever created
    ChunkCap,    \* bound: chunks a shell writes
    Scrollback,  \* chunks the scrollback keeps (SCROLLBACK_BYTES)
    QueueSize,   \* items a client's queue holds (2000)
    LifeCap      \* bound: times the backend goes down

ASSUME SessionsAssumption ==
    /\ SessionCap \in Nat /\ ChunkCap \in Nat /\ LifeCap \in Nat
    /\ Scrollback \in Nat \ {0} /\ QueueSize \in Nat \ {0}

Sessions == 1 .. SessionCap
NoSession == 0

VARIABLES
    backend,  \* "up", "stopping" or "down"
    lives,    \* times it has gone down
    table,    \* TerminalManager.sessions: key -> session
    key,      \* per session its key
    state,    \* "none"; "starting" until start() returns; "prompt" until the CLI
              \* is typed; "launching", "ready", "closed"; "gone" with its backend
    shell,    \* and its process group: "none", "alive", "left" when the shell has
              \* exited and others of the group run on, "dead"
    pidfile,  \* "none" unless recorded, "there", "cleared"
    ending,   \* terminate() waits for the group to go
    watched,  \* _watch_exit has run
    out,      \* chunks in the output so far
    conn      \* per client its socket
vars == <<backend, lives, table, key, state, shell, pidfile, ending, watched, out, conn>>

Unconnected == [phase |-> "closed", session |-> NoSession, snapshot |-> <<>>, queue |-> <<>>, got |-> <<>>,
                from |-> 0, lost |-> FALSE]

Init == /\ backend = "up" /\ lives = 0
        /\ table = [k \in Keys |-> NoSession]
        /\ key \in [Sessions -> Keys] /\ \A s \in Sessions : key[s] = CHOOSE k \in Keys : TRUE
        /\ state = [s \in Sessions |-> "none"]
        /\ shell = [s \in Sessions |-> "none"]
        /\ pidfile = [s \in Sessions |-> "none"]
        /\ ending = [s \in Sessions |-> FALSE]
        /\ watched = [s \in Sessions |-> FALSE]
        /\ out = [s \in Sessions |-> 0]
        /\ conn = [c \in Clients |-> Unconnected]

Started == {s \in Sessions : state[s] # "none"}
Exited(s) == shell[s] \in {"left", "dead"}
Open(s) == state[s] \in {"prompt", "launching", "ready"}

\* The chunks the scrollback holds, oldest first.
Trimmed(s) == IF out[s] > Scrollback THEN out[s] - Scrollback ELSE 0
Buffer(s) == [i \in 1 .. out[s] - Trimmed(s) |-> Trimmed(s) + i]

-----------------------------------------------------------------------------
(* What a session tells its clients.                                       *)

\* A chunk of output, a state, and the sentinel CLOSED.
Chunk(n) == <<"chunk", n>>
Meta(name) == <<"meta", name>>
End == <<"end", 0>>

\* Mutant: only the clients that have been greeted are told.
AttachedWhenGreeted(s) == {c \in Clients : conn[c].session = s /\ conn[c].phase = "open"}

\* The clients whose queue is registered with the session.
Attached(s) == {c \in Clients : conn[c].session = s /\ conn[c].phase \in {"greeting", "open"}}

\* A full queue refuses the item and nobody is told.
Told(record, items) ==
    LET room == QueueSize - Len(record.queue)
    IN  [record EXCEPT !.queue = @ \o SubSeq(items, 1, IF Len(items) < room THEN Len(items) ELSE room),
                       !.lost  = @ \/ Len(items) > room]

Broadcast(s, items) == [c \in Clients |-> IF c \in Attached(s) THEN Told(conn[c], items) ELSE conn[c]]

\* What closing says: the state, if it was another, and the end.
Ending(s) == IF state[s] = "closed" THEN <<End>> ELSE <<Meta("closed"), End>>

-----------------------------------------------------------------------------
(* Connections.                                                            *)

\* The snapshot and the registration are one step (`from`: what the client
\* cannot have any more).
Attach(record, s) == [record EXCEPT !.phase = "greeting", !.session = s, !.snapshot = Buffer(s),
                                    !.from = Trimmed(s)]

\* get_or_create finds the session, or makes one and waits for its shell.
Connect(c, k) ==
    /\ backend = "up" /\ conn[c].phase = "closed"
    /\ IF table[k] # NoSession /\ state[table[k]] # "closed"
       THEN /\ conn' = [conn EXCEPT ![c] = Attach(Unconnected, table[k])]
            /\ UNCHANGED <<key, state>>
       ELSE \E s \in Sessions \ Started :
                /\ \A other \in Sessions \ Started : s <= other
                /\ key' = [key EXCEPT ![s] = k]
                /\ state' = [state EXCEPT ![s] = "starting"]
                /\ conn' = [conn EXCEPT ![c] = [Unconnected EXCEPT !.phase = "starting", !.session = s]]
    /\ UNCHANGED <<backend, lives, table, shell, pidfile, ending, watched, out>>

\* The process exists before the handler that asked for it runs again.
Fork(s) == /\ backend = "up" /\ state[s] = "starting" /\ shell[s] = "none"
           /\ shell' = [shell EXCEPT ![s] = "alive"]
           /\ UNCHANGED <<backend, lives, table, key, state, pidfile, ending, watched, out, conn>>

\* The rest of start(), the entry of the table, and the attachment of the
\* client that waited: whatever the table holds by now is overwritten.  A
\* provider without a CLI has nothing to type.  The pidfile cannot always be
\* written, and then the session goes on without one.
Start(s) ==
    /\ backend = "up" /\ state[s] = "starting" /\ shell[s] # "none"
    /\ \E recorded \in {"none", "there"} : pidfile' = [pidfile EXCEPT ![s] = recorded]
    /\ \E typed \in {"prompt", "launching"} : state' = [state EXCEPT ![s] = typed]
    /\ table' = [table EXCEPT ![key[s]] = s]
    /\ conn' = [c \in Clients |-> IF conn[c].phase = "starting" /\ conn[c].session = s
                                  THEN Attach(conn[c], s) ELSE conn[c]]
    /\ UNCHANGED <<backend, lives, key, shell, ending, watched, out>>

\* The shell cannot be started: the socket dies with the exception.
StartFails(s) ==
    /\ backend = "up" /\ state[s] = "starting" /\ shell[s] = "none"
    /\ state' = [state EXCEPT ![s] = "gone"]
    /\ conn' = [c \in Clients |-> IF conn[c].session = s THEN Unconnected ELSE conn[c]]
    /\ UNCHANGED <<backend, lives, table, key, shell, pidfile, ending, watched, out>>

\* The snapshot and the state have been sent: the pump starts.
Greet(c) == /\ conn[c].phase = "greeting"
            /\ conn' = [conn EXCEPT ![c].phase = "open", ![c].got = conn[c].snapshot, ![c].snapshot = <<>>]
            /\ UNCHANGED <<backend, lives, table, key, state, shell, pidfile, ending, watched, out>>

\* Mutant: the end is passed on like any other item.
PumpOn(c) ==
    /\ conn[c].phase = "open" /\ conn[c].queue # <<>>
    /\ LET item == Head(conn[c].queue)
       IN  conn' = [conn EXCEPT ![c].queue = Tail(@),
                                ![c].got = IF item[1] = "chunk" THEN Append(@, item[2]) ELSE @]
    /\ UNCHANGED <<backend, lives, table, key, state, shell, pidfile, ending, watched, out>>

\* One turn of pump(): the end closes the socket.
Pump(c) ==
    /\ conn[c].phase = "open" /\ conn[c].queue # <<>>
    /\ LET item == Head(conn[c].queue)
       IN  conn' = IF item = End
                   THEN [conn EXCEPT ![c] = Unconnected]
                   ELSE [conn EXCEPT ![c].queue = Tail(@),
                                     ![c].got = IF item[1] = "chunk" THEN Append(@, item[2]) ELSE @]
    /\ UNCHANGED <<backend, lives, table, key, state, shell, pidfile, ending, watched, out>>

\* The browser leaves.  (In the middle of the greeting its queue stays
\* registered, and nobody ever reads it.)
Disconnect(c) ==
    /\ conn[c].phase \in {"greeting", "open"}
    /\ conn' = [conn EXCEPT ![c] = Unconnected]
    /\ UNCHANGED <<backend, lives, table, key, state, shell, pidfile, ending, watched, out>>

-----------------------------------------------------------------------------
(* The shell and its group.                                                *)

Clear(s) == pidfile' = [pidfile EXCEPT ![s] = IF @ = "there" THEN "cleared" ELSE @]

\* _kick types the CLI once the shell had time for its prompt.
Type(s) == /\ backend # "down" /\ state[s] = "prompt"
           /\ state' = [state EXCEPT ![s] = "launching"]
           /\ UNCHANGED <<backend, lives, table, key, shell, pidfile, ending, watched, out, conn>>

\* _on_readable: the first output after the CLI was typed makes it ready.  What
\* the group wrote is read until the end of the shell is noticed.
Output(s) ==
    /\ backend # "down" /\ Open(s) /\ shell[s] # "none" /\ ~ending[s] /\ out[s] < ChunkCap
    /\ out' = [out EXCEPT ![s] = @ + 1]
    /\ state' = [state EXCEPT ![s] = IF @ = "launching" THEN "ready" ELSE @]
    /\ conn' = Broadcast(s, IF state[s] = "launching" THEN <<Meta("ready"), Chunk(out[s] + 1)>>
                          ELSE <<Chunk(out[s] + 1)>>)
    /\ UNCHANGED <<backend, lives, table, key, shell, pidfile, ending, watched>>

\* The user types exit, a signal is obeyed, or the PTY's end is noticed: by the
\* whole group, or by the shell alone.
ShellExit(s) == /\ shell[s] = "alive"
                /\ \E rest \in {"left", "dead"} : shell' = [shell EXCEPT ![s] = rest]
                /\ UNCHANGED <<backend, lives, table, key, state, pidfile, ending, watched, out, conn>>

GroupExit(s) == /\ shell[s] = "left"
                /\ shell' = [shell EXCEPT ![s] = "dead"]
                /\ UNCHANGED <<backend, lives, table, key, state, pidfile, ending, watched, out, conn>>

\* _watch_exit: a note is added to the output and the session is closed, also
\* when terminate() has closed it before.  Only the shell is looked at.
WatchExit(s) ==
    /\ backend # "down" /\ state[s] \in {"prompt", "launching", "ready", "closed"}
    /\ Exited(s) /\ ~watched[s]
    /\ watched' = [watched EXCEPT ![s] = TRUE]
    /\ Clear(s)
    /\ out' = [out EXCEPT ![s] = @ + 1]
    /\ conn' = Broadcast(s, <<Chunk(out[s] + 1)>> \o Ending(s))
    /\ state' = [state EXCEPT ![s] = "closed"]
    /\ UNCHANGED <<backend, lives, table, key, shell, ending>>

-----------------------------------------------------------------------------
(* terminate(): by the user, or by the shutdown.                           *)

\* What is left to do once the process is known to be gone.
TerminateAtOnce(s) == /\ conn' = Broadcast(s, Ending(s))
                      /\ state' = [state EXCEPT ![s] = "closed"]
                      /\ Clear(s)
                      /\ UNCHANGED ending

\* Mutant: the pidfile goes with the signal.
TerminateForgets(s) ==
    \/ Exited(s) /\ TerminateAtOnce(s)
    \/ /\ ~watched[s]
       /\ ending' = [ending EXCEPT ![s] = TRUE]
       /\ Clear(s)
       /\ UNCHANGED <<conn, state>>

\* Up to its first wait: a shell known to be dead leaves nothing to wait for,
\* with any other the group gets SIGTERM and the shell a second to go.
Terminate(s) ==
    \/ Exited(s) /\ TerminateAtOnce(s)
    \/ /\ ~watched[s]
       /\ ending' = [ending EXCEPT ![s] = TRUE]
       /\ UNCHANGED <<conn, state, pidfile>>

\* SIGKILL for the group if the shell is still there, and the end.
TerminateEnds(s) ==
    /\ backend # "down" /\ ending[s]
    /\ ending' = [ending EXCEPT ![s] = FALSE]
    /\ \/ Exited(s) /\ UNCHANGED shell
       \/ shell' = [shell EXCEPT ![s] = "dead"]
    /\ Clear(s)
    /\ conn' = Broadcast(s, Ending(s))
    /\ state' = [state EXCEPT ![s] = "closed"]
    /\ UNCHANGED <<backend, lives, table, key, watched, out>>

Kill(k) ==
    /\ backend = "up" /\ table[k] # NoSession
    /\ table' = [table EXCEPT ![k] = NoSession]
    /\ Terminate(table[k])
    /\ UNCHANGED <<backend, lives, key, shell, watched, out>>

-----------------------------------------------------------------------------
(* The backend.                                                            *)

BeginShutdown == /\ backend = "up" /\ lives < LifeCap
                 /\ backend' = "stopping"
                 /\ UNCHANGED <<lives, table, key, state, shell, pidfile, ending, watched, out, conn>>

\* One session after the other; the table is cleared at the end.
ShutdownSession(k) ==
    /\ backend = "stopping" /\ table[k] # NoSession
    /\ \A s \in Sessions : ~ending[s]
    /\ table' = [table EXCEPT ![k] = NoSession]
    /\ Terminate(table[k])
    /\ UNCHANGED <<backend, lives, key, shell, watched, out>>

\* All that is in memory goes; shells and pidfiles stay.
GoesDown == /\ backend' = "down" /\ lives' = lives + 1
            /\ table' = [k \in Keys |-> NoSession]
            /\ state' = [s \in Sessions |-> IF s \in Started THEN "gone" ELSE "none"]
            /\ ending' = [s \in Sessions |-> FALSE]
            /\ conn' = [c \in Clients |-> Unconnected]
            /\ UNCHANGED <<key, shell, pidfile, watched, out>>

Stop == /\ backend = "stopping" /\ \A k \in Keys : table[k] = NoSession
        /\ \A s \in Sessions : ~ending[s]
        /\ GoesDown

Crash == backend # "down" /\ lives < LifeCap /\ GoesDown

\* sweep_orphaned_sessions.  A group is killed if its shell is found again: ps
\* answers in time, without a terminal and with the recorded name, and the
\* signal can be sent.  The pidfile goes in any case.  An exception ends the
\* sweep and leaves the rest.
Sweep ==
    \E seen \in SUBSET {s \in Sessions : pidfile[s] = "there"} :
    \E killed \in SUBSET {s \in seen : shell[s] = "alive"} :
        /\ shell' = [s \in Sessions |-> IF s \in killed THEN "dead" ELSE shell[s]]
        /\ pidfile' = [s \in Sessions |-> IF s \in seen THEN "cleared" ELSE pidfile[s]]

Restart == /\ backend = "down"
           /\ backend' = "up"
           /\ Sweep
           /\ UNCHANGED <<lives, table, key, state, ending, watched, out, conn>>

-----------------------------------------------------------------------------
Next ==
    \/ \E c \in Clients : \E k \in Keys : Connect(c, k)
    \/ \E c \in Clients : Greet(c) \/ Pump(c) \/ Disconnect(c)
    \/ \E s \in Sessions :
          \/ Fork(s) \/ Start(s) \/ StartFails(s)
          \/ Type(s) \/ Output(s) \/ WatchExit(s) \/ TerminateEnds(s)
          \/ ShellExit(s) \/ GroupExit(s)
    \/ \E k \in Keys : Kill(k) \/ ShutdownSession(k)
    \/ BeginShutdown \/ Stop \/ Crash \/ Restart

Spec == Init /\ [][Next]_vars

\* The event loop runs the handler of each socket that has something to do.
FairSpec == Spec /\ \A c \in Clients : WF_vars(Greet(c) \/ Pump(c))

-----------------------------------------------------------------------------
(* Properties.                                                             *)

\* A backend never forgets a shell that is alive: from when it is recorded until
\* it is dead its pidfile stays, across a termination cut short by a crash.
\* Only a sweep in a later life may have given it up
\* (terminal_service.terminate, _watch_exit, sweep_orphaned_sessions).
ShellsCanBeReaped ==
    \A s \in Sessions : shell[s] = "alive" /\ pidfile[s] = "cleared" => state[s] = "gone" /\ lives > 0

\* The chunks among these items are those after chunk a up to chunk b, each
\* once and in order.
Continue(items, a, b) ==
    LET chunks == {i \in DOMAIN items : items[i][1] = "chunk"}
    IN  /\ a <= b
        /\ {items[i][2] : i \in chunks} = (a + 1) .. b
        /\ \A i, j \in chunks : i < j => items[i][2] < items[j][2]

\* What a client has been sent, and what waits for it, is the output from the
\* scrollback it found to the last chunk, without a gap or a repetition, unless
\* its queue overflowed
\* (routes_terminals.terminal_ws: snapshot and registration in one step).
OutputHasNoGap ==
    \A c \in Clients :
        LET record == conn[c]
            sent == record.snapshot \o record.got
        IN  record.phase \in {"greeting", "open"} /\ ~record.lost =>
                /\ sent = [i \in 1 .. Len(sent) |-> record.from + i]
                /\ Continue(record.queue, record.from + Len(sent), out[record.session])

\* A client whose queue never overflowed learns that its session has ended: its
\* socket is closed, so that the pane reconnects (routes_terminals.pump).
EndIsTold ==
    \A c \in Clients :
        /\ conn[c].phase = "open" /\ ~conn[c].lost
        /\ conn[c].session # NoSession /\ state[conn[c].session] = "closed"
        ~> conn[c].phase # "open" \/ conn[c].lost
=============================================================================
