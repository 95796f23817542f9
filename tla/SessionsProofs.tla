--------------------------- MODULE SessionsProofs ---------------------------
(* Proofs that shells can be reaped and that no output is lost on its way   *)
(* to a client, for every number of keys, clients, sessions, chunks and     *)
(* lives of the backend, and every size of queues and scrollback.           *)
EXTENDS Sessions, SequenceTheorems, TLAPS

States == {"none", "starting", "prompt", "launching", "ready", "closed", "gone"}

Types ==
    /\ backend \in {"up", "stopping", "down"} /\ lives \in Nat
    /\ backend = "down" => \A s \in Sessions : state[s] \in {"none", "gone"}
    /\ state \in [Sessions -> States]
    /\ shell \in [Sessions -> {"none", "alive", "left", "dead"}]
    /\ pidfile \in [Sessions -> {"none", "there", "cleared"}]

\* What the life of one session says of its shell and its pidfile: no file
\* before the session is in the table, and none cleared while the shell is alive,
\* also while it is told to end, until a later life sweeps.
SessionOK(s) ==
    /\ state[s] = "none" => shell[s] = "none"
    /\ state[s] \in {"none", "starting"} => pidfile[s] = "none"
    /\ pidfile[s] = "there" /\ state[s] = "gone" => lives > 0
    /\ shell[s] = "none" => state[s] \in {"none", "starting", "gone"} /\ pidfile[s] = "none"
    /\ shell[s] = "alive" /\ pidfile[s] = "cleared" => state[s] = "gone" /\ lives > 0

ShellsInv == Types /\ \A s \in Sessions : SessionOK(s)

-----------------------------------------------------------------------------
LEMMA ShellsInit == Init => ShellsInv
BY DEF Init, ShellsInv, Types, SessionOK, States

\* Termination up to its wait: only a shell that has exited loses its pidfile.
LEMMA TerminateKeeps ==
    ASSUME ShellsInv, NEW t, Terminate(t), backend # "down", UNCHANGED <<backend, lives, shell>>
    PROVE  ShellsInv'
<1>1. Types'
    <2>1. CASE Exited(t) /\ TerminateAtOnce(t)
        BY <2>1 DEF ShellsInv, Types, States, SessionOK, Exited, TerminateAtOnce, Clear
    <2>2. CASE UNCHANGED <<state, pidfile>>
        BY <2>2 DEF ShellsInv, Types
    <2> QED
        BY <2>1, <2>2 DEF Terminate
<1>2. ASSUME NEW s \in Sessions PROVE SessionOK(s)'
    <2>1. CASE Exited(t) /\ TerminateAtOnce(t)
        BY <2>1 DEF ShellsInv, Types, SessionOK, TerminateAtOnce, Exited, Clear
    <2>2. CASE UNCHANGED <<state, pidfile>>
        BY <2>2 DEF ShellsInv, SessionOK
    <2> QED
        BY <2>1, <2>2 DEF Terminate
<1> QED
    BY <1>1, <1>2 DEF ShellsInv

\* The end of the process that runs the backend, orderly or not.
LEMMA GoesDownKeeps ==
    ASSUME ShellsInv, GoesDown
    PROVE  ShellsInv'
BY DEF ShellsInv, Types, States, SessionOK, GoesDown, Started

LEMMA ShellsStep == ShellsInv /\ [Next]_vars => ShellsInv'
<1> SUFFICES ASSUME ShellsInv, [Next]_vars PROVE ShellsInv'
    OBVIOUS
<1> USE DEF ShellsInv, Types, States
<1>1. CASE UNCHANGED vars
    BY <1>1 DEF vars, SessionOK
<1>2. ASSUME NEW c \in Clients, NEW k \in Keys, Connect(c, k) PROVE ShellsInv'
    <2>1. CASE UNCHANGED state
        BY <1>2, <2>1 DEF Connect, SessionOK
    <2>2. ASSUME NEW s \in Sessions \ Started, state' = [state EXCEPT ![s] = "starting"]
          PROVE  ShellsInv'
        BY <1>2, <2>2 DEF Connect, SessionOK, Started
    <2> QED
        BY <1>2, <2>1, <2>2 DEF Connect
<1>3. ASSUME NEW c \in Clients, Greet(c) \/ Pump(c) \/ Disconnect(c) PROVE ShellsInv'
    BY <1>3 DEF Greet, Pump, Disconnect, SessionOK
<1>4. ASSUME NEW s \in Sessions, Fork(s) PROVE ShellsInv'
    BY <1>4 DEF Fork, SessionOK
<1>5. ASSUME NEW s \in Sessions, Start(s) PROVE ShellsInv'
    BY <1>5 DEF Start, SessionOK
<1>6. ASSUME NEW s \in Sessions, StartFails(s) PROVE ShellsInv'
    BY <1>6 DEF StartFails, SessionOK
<1>7. ASSUME NEW s \in Sessions, Type(s) \/ Output(s) PROVE ShellsInv'
    BY <1>7 DEF Type, Output, Open, SessionOK
<1>8. ASSUME NEW s \in Sessions, ShellExit(s) \/ GroupExit(s) PROVE ShellsInv'
    BY <1>8 DEF ShellExit, GroupExit, SessionOK
<1>9. ASSUME NEW s \in Sessions, WatchExit(s) PROVE ShellsInv'
    BY <1>9 DEF WatchExit, SessionOK, Exited, Clear
<1>10. ASSUME NEW s \in Sessions, TerminateEnds(s) PROVE ShellsInv'
    BY <1>10 DEF TerminateEnds, SessionOK, Exited, Clear
<1>11. ASSUME NEW k \in Keys, Kill(k) PROVE ShellsInv'
    BY <1>11, TerminateKeeps DEF Kill
<1>12. ASSUME NEW k \in Keys, ShutdownSession(k) PROVE ShellsInv'
    BY <1>12, TerminateKeeps DEF ShutdownSession
<1>13. CASE BeginShutdown
    BY <1>13 DEF BeginShutdown, SessionOK
<1>14. CASE Stop \/ Crash
    BY <1>14, GoesDownKeeps DEF Stop, Crash
<1>15. CASE Restart
    BY <1>15 DEF Restart, Sweep, SessionOK
<1> QED
    BY <1>1, <1>2, <1>3, <1>4, <1>5, <1>6, <1>7, <1>8, <1>9, <1>10, <1>11, <1>12,
       <1>13, <1>14, <1>15 DEF Next

\* No backend forgets a shell that is alive: as long as it is, the pidfile by
\* which sweep_orphaned_sessions finds it stays, whatever the termination, the
\* exit of others or a crash does; only the sweep of a later life gives one up.
THEOREM ShellsReaped == Spec => []ShellsCanBeReaped
<1>1. ShellsInv => ShellsCanBeReaped
    BY DEF ShellsInv, SessionOK, ShellsCanBeReaped
<1> QED
    BY <1>1, ShellsInit, ShellsStep, PTL DEF Spec

-----------------------------------------------------------------------------
(***************************************************************************)
(* No output is lost or repeated on its way to a client.                   *)
(***************************************************************************)
\* What a queue can hold.
Items == {Chunk(n) : n \in Nat} \cup {Meta("ready"), Meta("closed"), End}

Records == [phase : {"closed", "starting", "greeting", "open"}, session : Sessions \cup {NoSession},
            snapshot : Seq(Nat), queue : Seq(Items), got : Seq(Nat), from : Nat, lost : BOOLEAN]

\* These chunks are those after chunk a, in order.
Gapless(chunks, a) == chunks = [i \in 1 .. Len(chunks) |-> a + i]

\* What has been sent, or is being sent first.
Sent(r) == IF r.phase = "greeting" THEN r.snapshot ELSE r.got

Connected(r) == r.phase \in {"greeting", "open"}

\* Of a client whose session has written n chunks: until it is greeted it has
\* only a snapshot, afterwards only what it got, and if its queue never
\* overflowed that is gapless and its queue goes on from there to chunk n.
StreamFits(r, n) ==
    /\ r.session # NoSession
    /\ r.phase = "greeting" => r.got = <<>>
    /\ r.phase = "open" => r.snapshot = <<>>
    /\ ~r.lost => /\ Gapless(Sent(r), r.from)
                  /\ Continue(r.queue, r.from + Len(Sent(r)), n)

\* A client that waits for its shell has nothing yet.
SocketFits(r) ==
    r.phase = "starting" => r.session # NoSession /\ r.queue = <<>> /\ r.got = <<>> /\ ~r.lost

RecordFits(r, n) == SocketFits(r) /\ (Connected(r) => StreamFits(r, n))

StreamTypes == /\ table \in [Keys -> Sessions \cup {NoSession}]
               /\ key \in [Sessions -> Keys]
               /\ out \in [Sessions -> Nat]
               /\ conn \in [Clients -> Records]

StreamsInv ==
    /\ StreamTypes
    /\ \A c \in Clients : RecordFits(conn[c], out[conn[c].session])

-----------------------------------------------------------------------------
(* Items and their chunks.                                                 *)

LEMMA ItemKinds ==
    /\ \A n : Chunk(n)[1] = "chunk" /\ Chunk(n)[2] = n
    /\ \A n : n \in Nat => Chunk(n) \in Items
    /\ \A n : Chunk(n) # End
    /\ Meta("ready") \in Items /\ Meta("closed") \in Items /\ End \in Items
    /\ Meta("ready")[1] # "chunk" /\ Meta("closed")[1] # "chunk" /\ End[1] # "chunk"
    /\ \A item \in Items : item[1] = "chunk" => item[2] \in Nat
<1>1. /\ \A n : <<"chunk", n>>[1] = "chunk" /\ <<"chunk", n>>[2] = n
      /\ \A n : <<"meta", n>>[1] = "meta" 
      /\ <<"end", 0>>[1] = "end"
    OBVIOUS
<1>2. \A n : Chunk(n) # End
    BY <1>1 DEF Chunk, End
<1> QED
    BY <1>1, <1>2 DEF Chunk, Meta, End, Items

\* What follows without a gap makes one stream.
LEMMA ContinueConcat ==
    ASSUME NEW q \in Seq(Items), NEW p \in Seq(Items), NEW a \in Nat, NEW b \in Nat, NEW d \in Nat,
           Continue(q, a, b), Continue(p, b, d)
    PROVE  Continue(q \o p, a, d)
<1> DEFINE w == q \o p
           Cs(s) == {i \in DOMAIN s : s[i][1] = "chunk"}
<1>1. /\ w \in Seq(Items) /\ Len(w) = Len(q) + Len(p)
      /\ \A i \in 1 .. Len(w) : w[i] = IF i <= Len(q) THEN q[i] ELSE p[i - Len(q)]
    BY ConcatProperties
<1>2. /\ Len(q) \in Nat /\ Len(p) \in Nat /\ DOMAIN q = 1 .. Len(q) /\ DOMAIN p = 1 .. Len(p)
      /\ DOMAIN w = 1 .. Len(w)
    BY <1>1
<1> HIDE DEF w
<1>3. /\ \A i \in Cs(q) : i \in Cs(w) /\ w[i] = q[i]
      /\ \A i \in Cs(p) : Len(q) + i \in Cs(w) /\ w[Len(q) + i] = p[i]
      /\ \A i \in Cs(w) : \/ i \in Cs(q) /\ w[i] = q[i]
                          \/ i - Len(q) \in Cs(p) /\ w[i] = p[i - Len(q)]
      /\ \A i \in Cs(q) : i \in Nat /\ i <= Len(q)
      /\ \A i \in Cs(p) : i \in Nat /\ i > 0
      /\ \A i \in Cs(w) : i \in Nat
    <2>1. ASSUME NEW i \in Cs(q) PROVE i \in Cs(w) /\ w[i] = q[i] /\ i \in Nat /\ i <= Len(q)
        <3>1. i \in 1 .. Len(q) /\ i \in 1 .. Len(w)
            BY <1>1, <1>2
        <3> QED BY <3>1, <1>1, <1>2
    <2>2. ASSUME NEW i \in Cs(p) PROVE Len(q) + i \in Cs(w) /\ w[Len(q) + i] = p[i] /\ i \in Nat /\ i > 0
        <3>1. i \in 1 .. Len(p) /\ Len(q) + i \in 1 .. Len(w) /\ ~(Len(q) + i <= Len(q))
            BY <1>1, <1>2
        <3>2. Len(q) + i - Len(q) = i
            BY <3>1, <1>2
        <3>3. w[Len(q) + i] = p[i]
            BY <3>1, <3>2, <1>1
        <3> QED BY <3>1, <3>3, <1>2
    <2>3. ASSUME NEW i \in Cs(w)
          PROVE  /\ \/ i \in Cs(q) /\ w[i] = q[i]
                    \/ i - Len(q) \in Cs(p) /\ w[i] = p[i - Len(q)]
                 /\ i \in Nat
        <3>1. i \in 1 .. Len(w) /\ w[i][1] = "chunk"
            BY <1>2
        <3>2. CASE i <= Len(q)
            BY <3>1, <3>2, <1>1, <1>2
        <3>3. CASE ~(i <= Len(q))
            <4>1. i - Len(q) \in 1 .. Len(p) /\ w[i] = p[i - Len(q)]
                BY <3>1, <3>3, <1>1, <1>2
            <4> QED BY <4>1, <3>1, <1>2
        <3> QED BY <3>2, <3>3
    <2> QED BY <2>1, <2>2, <2>3
<1>4. /\ a <= b /\ b <= d
      /\ \A i \in Cs(q) : q[i][2] \in (a + 1) .. b
      /\ \A i \in Cs(p) : p[i][2] \in (b + 1) .. d
      /\ \A m \in (a + 1) .. b : \E i \in Cs(q) : q[i][2] = m
      /\ \A m \in (b + 1) .. d : \E i \in Cs(p) : p[i][2] = m
      /\ \A i, j \in Cs(q) : i < j => q[i][2] < q[j][2]
      /\ \A i, j \in Cs(p) : i < j => p[i][2] < p[j][2]
    BY DEF Continue
<1>5. ASSUME NEW i \in Cs(w) PROVE w[i][2] \in (a + 1) .. d
    <2>1. CASE i \in Cs(q) /\ w[i] = q[i]
        <3>1. q[i][2] \in (a + 1) .. b
            BY <2>1, <1>4
        <3> QED BY <3>1, <2>1, <1>4
    <2>2. CASE i - Len(q) \in Cs(p) /\ w[i] = p[i - Len(q)]
        <3>1. p[i - Len(q)][2] \in (b + 1) .. d
            BY <2>2, <1>4
        <3> QED BY <3>1, <2>2, <1>4
    <2> QED BY <2>1, <2>2, <1>3
<1>6. ASSUME NEW m \in (a + 1) .. d PROVE \E i \in Cs(w) : w[i][2] = m
    <2>1. CASE m <= b
        BY <2>1, <1>3, <1>4
    <2>2. CASE m > b
        <3>1. PICK i \in Cs(p) : p[i][2] = m
            BY <2>2, <1>4
        <3> QED BY <3>1, <1>3
    <2> QED BY <2>1, <2>2
<1>7. ASSUME NEW i \in Cs(w), NEW j \in Cs(w), i < j PROVE w[i][2] < w[j][2]
    <2> DEFINE x == i - Len(q)
               y == j - Len(q)
    <2>1. CASE i \in Cs(q) /\ j \in Cs(q) /\ w[i] = q[i] /\ w[j] = q[j]
        BY <2>1, <1>4, <1>7
    <2>2. CASE i \in Cs(q) /\ y \in Cs(p) /\ w[i] = q[i] /\ w[j] = p[y]
        <3>1. q[i][2] \in (a + 1) .. b /\ p[y][2] \in (b + 1) .. d
            BY <2>2, <1>4
        <3> QED BY <3>1, <2>2
    <2>3. CASE x \in Cs(p) /\ y \in Cs(p) /\ w[i] = p[x] /\ w[j] = p[y]
        <3>1. x < y
            BY <1>2, <1>3, <1>7
        <3> QED BY <3>1, <2>3, <1>4
    <2>4. CASE x \in Cs(p) /\ j \in Cs(q)
        <3>1. x > 0 /\ j <= Len(q) /\ i \in Nat /\ j \in Nat
            BY <2>4, <1>3
        <3> QED BY <3>1, <1>2, <1>7
    <2> QED BY <2>1, <2>2, <2>3, <2>4, <1>3
<1>8. {w[i][2] : i \in Cs(w)} = (a + 1) .. d
    BY <1>5, <1>6
<1>9. a <= d
    BY <1>4
<1> QED
    BY <1>7, <1>8, <1>9 DEF Continue, w

\* The first item is the next chunk, or none.
LEMMA ContinueTail ==
    ASSUME NEW q \in Seq(Items), q # <<>>, NEW a \in Nat, NEW b \in Nat, Continue(q, a, b)
    PROVE  /\ Head(q)[1] = "chunk" => Head(q)[2] = a + 1 /\ Continue(Tail(q), a + 1, b)
           /\ Head(q)[1] # "chunk" => Continue(Tail(q), a, b)
<1> DEFINE w == Tail(q)
           Cs(s) == {i \in DOMAIN s : s[i][1] = "chunk"}
<1>1. /\ w \in Seq(Items) /\ Len(w) = Len(q) - 1
      /\ \A i \in 1 .. Len(w) : w[i] = q[i + 1]
      /\ Len(q) \in Nat /\ Len(q) > 0 /\ Head(q) = q[1]
    BY HeadTailProperties, EmptySeq
<1>2. DOMAIN q = 1 .. Len(q) /\ DOMAIN w = 1 .. Len(w)
    BY <1>1
<1> HIDE DEF w
<1>3. /\ \A i \in Cs(w) : i + 1 \in Cs(q) /\ w[i] = q[i + 1]
      /\ \A i \in Cs(q) : i = 1 \/ (i - 1 \in Cs(w) /\ q[i] = w[i - 1])
      /\ \A i \in Cs(q) : i \in Nat /\ i >= 1
      /\ \A i \in Cs(w) : i \in Nat /\ i >= 1
    <2>1. ASSUME NEW i \in Cs(w) PROVE i + 1 \in Cs(q) /\ w[i] = q[i + 1] /\ i \in Nat /\ i >= 1
        <3>1. i \in 1 .. Len(w) /\ i + 1 \in 1 .. Len(q)
            BY <1>1, <1>2
        <3> QED BY <3>1, <1>1, <1>2
    <2>2. ASSUME NEW i \in Cs(q)
          PROVE  /\ i = 1 \/ (i - 1 \in Cs(w) /\ q[i] = w[i - 1])
                 /\ i \in Nat /\ i >= 1
        <3>1. i \in 1 .. Len(q) /\ q[i][1] = "chunk"
            BY <1>1, <1>2
        <3>2. ASSUME i # 1 PROVE i - 1 \in Cs(w) /\ q[i] = w[i - 1]
            <4>1. i - 1 \in 1 .. Len(w) /\ i - 1 + 1 = i
                BY <3>1, <3>2, <1>1
            <4>2. w[i - 1] = q[i]
                BY <4>1, <1>1
            <4> QED BY <4>1, <4>2, <3>1, <1>2
        <3>3. i \in Nat /\ i >= 1
            BY <3>1, <1>1
        <3> QED BY <3>2, <3>3
    <2> QED BY <2>1, <2>2
<1>4. /\ a <= b
      /\ \A i \in Cs(q) : q[i][2] \in (a + 1) .. b
      /\ \A m \in (a + 1) .. b : \E i \in Cs(q) : q[i][2] = m
      /\ \A i, j \in Cs(q) : i < j => q[i][2] < q[j][2]
    BY DEF Continue
<1>5. ASSUME NEW i \in Cs(w), NEW j \in Cs(w), i < j PROVE w[i][2] < w[j][2]
    <2>1. i + 1 \in Cs(q) /\ j + 1 \in Cs(q) /\ i + 1 < j + 1
        BY <1>3, <1>5
    <2> QED BY <2>1, <1>3, <1>4
<1>6. ASSUME q[1][1] = "chunk" PROVE q[1][2] = a + 1 /\ Continue(w, a + 1, b)
    <2>1. 1 \in Cs(q)
        BY <1>1, <1>2, <1>6
    <2>2. q[1][2] \in (a + 1) .. b
        BY <2>1, <1>4
    <2>3. PICK i \in Cs(q) : q[i][2] = a + 1
        BY <2>2, <1>4
    <2>4. ASSUME NEW j \in Cs(q), j # 1 PROVE q[1][2] < q[j][2]
        <3>1. 1 < j
            BY <2>4, <1>3
        <3> QED BY <3>1, <2>1, <1>4
    <2>5. q[1][2] = a + 1
        BY <2>2, <2>3, <2>4, <1>3
    <2>6. \A j \in Cs(w) : w[j][2] \in (a + 2) .. b
        <3> TAKE j \in Cs(w)
        <3>1. j + 1 \in Cs(q) /\ j + 1 # 1 /\ w[j] = q[j + 1]
            BY <1>3
        <3> QED BY <3>1, <2>4, <2>5, <1>4
    <2>7. ASSUME NEW m \in (a + 2) .. b PROVE \E j \in Cs(w) : w[j][2] = m
        <3>1. PICK j \in Cs(q) : q[j][2] = m
            BY <1>4
        <3>2. j # 1
            BY <3>1, <2>5
        <3> QED BY <3>1, <3>2, <1>3
    <2>8. {w[j][2] : j \in Cs(w)} = (a + 1 + 1) .. b
        BY <2>6, <2>7
    <2>9. a + 1 <= b
        BY <2>2
    <2> QED BY <2>5, <2>8, <2>9, <1>5 DEF Continue
<1>7. ASSUME q[1][1] # "chunk" PROVE Continue(w, a, b)
    <2>1. \A i \in Cs(q) : i # 1
        BY <1>7
    <2>2. {w[j][2] : j \in Cs(w)} = (a + 1) .. b
        <3>1. \A j \in Cs(w) : w[j][2] \in (a + 1) .. b
            BY <1>3, <1>4
        <3>2. \A m \in (a + 1) .. b : \E j \in Cs(w) : w[j][2] = m
            <4> TAKE m \in (a + 1) .. b
            <4>1. PICK i \in Cs(q) : q[i][2] = m
                BY <1>4
            <4> QED BY <4>1, <2>1, <1>3
        <3> QED BY <3>1, <3>2
    <2> QED BY <2>2, <1>4, <1>5 DEF Continue
<1> QED
    BY <1>1, <1>6, <1>7 DEF w

\* Items without a chunk go nowhere.
LEMMA ContinueNothing ==
    ASSUME NEW b \in Nat, NEW p, DOMAIN p = {} \/ \A i \in DOMAIN p : p[i][1] # "chunk"
    PROVE  Continue(p, b, b)
BY DEF Continue

LEMMA ContinueOne ==
    ASSUME NEW b \in Nat
    PROVE  Continue(<<Chunk(b + 1)>>, b, b + 1)
<1> DEFINE p == <<Chunk(b + 1)>>
<1>1. DOMAIN p = {1} /\ p[1] = Chunk(b + 1)
    OBVIOUS
<1> HIDE DEF p
<1>2. {i \in DOMAIN p : p[i][1] = "chunk"} = {1}
    BY <1>1, ItemKinds
<1>3. {p[i][2] : i \in {1}} = (b + 1) .. (b + 1)
    BY <1>1, ItemKinds
<1> QED
    BY <1>2, <1>3 DEF Continue, p

\* What an event of the session adds to a queue.
LEMMA EndingItems ==
    ASSUME NEW s, NEW n \in Nat
    PROVE  Ending(s) \in Seq(Items) /\ Continue(Ending(s), n, n)
<1> DEFINE one == <<End>>
           two == <<Meta("closed"), End>>
<1>1. /\ one \in Seq(Items) /\ two \in Seq(Items)
      /\ DOMAIN one = {1} /\ DOMAIN two = {1, 2} /\ one[1] = End /\ two[1] = Meta("closed") /\ two[2] = End
    BY ItemKinds
<1> HIDE DEF one, two
<1>2. Continue(one, n, n) /\ Continue(two, n, n)
    BY <1>1, ItemKinds, ContinueNothing
<1>3. Ending(s) = one \/ Ending(s) = two
    BY DEF Ending, one, two
<1> QED
    BY <1>1, <1>2, <1>3

LEMMA OutputItems ==
    ASSUME NEW n \in Nat, NEW items,
           items = <<Chunk(n + 1)>> \/ items = <<Meta("ready"), Chunk(n + 1)>>
    PROVE  items \in Seq(Items) /\ Continue(items, n, n + 1)
<1> DEFINE one == <<Chunk(n + 1)>>
           meta == <<Meta("ready")>>
<1>1. /\ one \in Seq(Items) /\ meta \in Seq(Items)
      /\ DOMAIN meta = {1} /\ meta[1] = Meta("ready")
    BY ItemKinds
<1>2. meta \o one = <<Meta("ready"), Chunk(n + 1)>>
    <2>1. ASSUME NEW x, NEW y PROVE <<x>> \o <<y>> = <<x, y>>
        <3> DEFINE w == <<x>> \o <<y>>
                   z == <<x, y>>
        <3>1. <<x>> \in Seq({x, y}) /\ <<y>> \in Seq({x, y}) /\ z \in Seq({x, y})
            OBVIOUS
        <3>2. Len(<<x>>) = 1 /\ Len(<<y>>) = 1 /\ <<x>>[1] = x /\ <<y>>[1] = y
            OBVIOUS
        <3>3. w \in Seq({x, y}) /\ Len(w) = 2 /\ w[1] = x /\ w[2] = y
            BY <3>1, <3>2, ConcatProperties
        <3>4. Len(z) = 2 /\ z[1] = x /\ z[2] = y
            OBVIOUS
        <3> HIDE DEF w, z
        <3>5. \A i \in 1 .. Len(w) : w[i] = z[i]
            BY <3>3, <3>4
        <3>6. w = z
            BY <3>1, <3>3, <3>4, <3>5, SeqEqual
        <3> QED BY <3>6 DEF w, z
    <2> QED BY <2>1
<1>3. Continue(one, n, n + 1)
    BY ContinueOne
<1> HIDE DEF one, meta
<1>4. Continue(meta, n, n)
    BY <1>1, ItemKinds, ContinueNothing
<1>5. Continue(meta \o one, n, n + 1) /\ meta \o one \in Seq(Items)
    BY <1>1, <1>3, <1>4, ContinueConcat, ConcatProperties
<1> QED
    BY <1>1, <1>2, <1>3, <1>5 DEF one

LEMMA ExitItems ==
    ASSUME NEW s, NEW n \in Nat
    PROVE  /\ <<Chunk(n + 1)>> \o Ending(s) \in Seq(Items)
           /\ Continue(<<Chunk(n + 1)>> \o Ending(s), n, n + 1)
<1> DEFINE one == <<Chunk(n + 1)>>
<1>1. one \in Seq(Items) /\ Continue(one, n, n + 1)
    BY OutputItems
<1> HIDE DEF one
<1>2. Ending(s) \in Seq(Items) /\ Continue(Ending(s), n + 1, n + 1)
    BY EndingItems
<1>3. one \o Ending(s) \in Seq(Items) /\ Continue(one \o Ending(s), n, n + 1)
    BY <1>1, <1>2, ContinueConcat, ConcatProperties
<1> QED
    BY <1>3 DEF one

-----------------------------------------------------------------------------
(* One connection.                                                         *)

\* What a client is told continues its stream, or it loses it for good.
LEMMA ToldFits ==
    ASSUME NEW r \in Records, NEW n \in Nat, NEW m \in Nat, NEW items \in Seq(Items),
           Connected(r), StreamFits(r, n), Continue(items, n, m)
    PROVE  /\ Told(r, items) \in Records
           /\ Told(r, items).session = r.session
           /\ Connected(Told(r, items))
           /\ RecordFits(Told(r, items), m)
<1> DEFINE t == Told(r, items)
           room == QueueSize - Len(r.queue)
           taken == SubSeq(items, 1, IF Len(items) < room THEN Len(items) ELSE room)
<1>1. /\ r.queue \in Seq(Items) /\ Len(r.queue) \in Nat /\ Len(items) \in Nat /\ room \in Int
      /\ r.lost \in BOOLEAN /\ r.snapshot \in Seq(Nat) /\ r.got \in Seq(Nat) /\ r.from \in Nat
    BY SessionsAssumption DEF Records
<1>2. t = [r EXCEPT !.queue = r.queue \o taken, !.lost = r.lost \/ Len(items) > room]
    BY DEF Told
<1>3. taken \in Seq(Items)
    <2> DEFINE k == IF Len(items) < room THEN Len(items) ELSE room
    <2>1. k \in Int /\ k <= Len(items)
        BY <1>1
    <2>2. \A i \in 1 .. k : items[i] \in Items
        BY <2>1, <1>1
    <2> QED BY <2>1, <2>2, SubSeqProperties
<1> HIDE DEF t, taken
<1>4. r.queue \o taken \in Seq(Items)
    BY <1>1, <1>3, ConcatProperties
<1>5. t \in Records
    BY <1>1, <1>2, <1>4 DEF Records
<1>6. /\ t.phase = r.phase /\ t.session = r.session /\ t.snapshot = r.snapshot /\ t.got = r.got /\ t.from = r.from
      /\ t.queue = r.queue \o taken /\ (t.lost <=> r.lost \/ Len(items) > room)
    BY <1>1, <1>2, <1>4 DEF Records
<1>7. Sent(t) = Sent(r) /\ Len(Sent(r)) \in Nat
    BY <1>1, <1>6 DEF Sent
<1>8. ASSUME ~t.lost PROVE Continue(t.queue, t.from + Len(Sent(t)), m)
    <2>1. ~r.lost /\ ~(Len(items) > room)
        BY <1>6, <1>8
    <2>2. taken = items
        <3>1. taken = SubSeq(items, 1, Len(items))
            BY <2>1, <1>1 DEF taken
        <3> QED BY <3>1, SubSeqFull
    <2>3. Continue(r.queue, r.from + Len(Sent(r)), n)
        BY <2>1 DEF StreamFits
    <2>4. r.from + Len(Sent(r)) \in Nat
        BY <1>1, <1>7
    <2>5. Continue(r.queue \o items, r.from + Len(Sent(r)), m)
        BY <2>3, <2>4, <1>1, ContinueConcat
    <2> QED BY <2>2, <2>5, <1>6, <1>7
<1>9. StreamFits(t, m)
    BY <1>6, <1>7, <1>8 DEF StreamFits
<1>10. Connected(t) /\ SocketFits(t)
    BY <1>6 DEF Connected, SocketFits
<1> QED
    BY <1>5, <1>6, <1>9, <1>10 DEF t, RecordFits

\* The snapshot is the end of the output.
LEMMA BufferFits ==
    ASSUME NEW s \in Sessions, out[s] \in Nat
    PROVE  /\ Trimmed(s) \in Nat /\ Trimmed(s) + Len(Buffer(s)) = out[s]
           /\ Buffer(s) \in Seq(Nat) /\ Gapless(Buffer(s), Trimmed(s))
<1>1. Trimmed(s) \in Nat /\ Trimmed(s) <= out[s]
    BY SessionsAssumption DEF Trimmed
<1>2. out[s] - Trimmed(s) \in Nat
    BY <1>1
<1>3. Buffer(s) \in Seq(Nat) /\ Len(Buffer(s)) = out[s] - Trimmed(s)
    BY <1>1, <1>2 DEF Buffer
<1> QED
    BY <1>1, <1>3 DEF Buffer, Gapless

LEMMA AttachFits ==
    ASSUME NEW r \in Records, NEW s \in Sessions, out[s] \in Nat,
           r.queue = <<>>, r.got = <<>>, ~r.lost
    PROVE  /\ Attach(r, s) \in Records
           /\ Attach(r, s).session = s
           /\ RecordFits(Attach(r, s), out[s])
<1> DEFINE t == Attach(r, s)
<1>1. /\ Trimmed(s) \in Nat /\ Trimmed(s) + Len(Buffer(s)) = out[s]
      /\ Buffer(s) \in Seq(Nat) /\ Gapless(Buffer(s), Trimmed(s))
    BY BufferFits
<1>2. t \in Records
    BY <1>1 DEF Attach, Records
<1>3. /\ t.phase = "greeting" /\ t.session = s /\ t.snapshot = Buffer(s) /\ t.from = Trimmed(s)
      /\ t.queue = <<>> /\ t.got = <<>> /\ t.lost = r.lost
    BY DEF Attach, Records
<1> HIDE DEF t
<1>4. Continue(<<>>, out[s], out[s])
    <2>1. DOMAIN <<>> = {}
        OBVIOUS
    <2> QED BY <2>1, ContinueNothing
<1>5. Sent(t) = Buffer(s)
    BY <1>3 DEF Sent
<1>6. s # NoSession
    BY DEF Sessions, NoSession
<1>7. StreamFits(t, out[s])
    BY <1>1, <1>3, <1>4, <1>5, <1>6 DEF StreamFits
<1> QED
    BY <1>2, <1>3, <1>7 DEF RecordFits, SocketFits, t

LEMMA UnconnectedFits ==
    /\ Unconnected \in Records
    /\ \A n : RecordFits(Unconnected, n)
BY DEF Unconnected, Records, RecordFits, SocketFits, Connected, NoSession

-----------------------------------------------------------------------------
(* The steps.                                                              *)

\* One connection changes, and no output.
LEMMA OneSocket ==
    ASSUME StreamsInv, NEW c \in Clients, NEW r \in Records,
           conn' = [conn EXCEPT ![c] = r], RecordFits(r, out[r.session]),
           UNCHANGED <<table, key, out>>
    PROVE  StreamsInv'
<1>1. StreamTypes'
    BY DEF StreamsInv, StreamTypes
<1>2. ASSUME NEW d \in Clients
      PROVE  SocketFits(conn'[d]) /\ (Connected(conn'[d]) => StreamFits(conn'[d], out'[conn'[d].session]))
    <2>1. CASE d = c
        BY <2>1 DEF StreamsInv, StreamTypes, RecordFits
    <2>2. CASE d # c
        BY <2>2 DEF RecordFits, StreamsInv, StreamTypes
    <2> QED BY <2>1, <2>2
<1> QED
    BY <1>1, <1>2 DEF StreamsInv, SocketFits, Connected, StreamFits

\* Everyone attached is told the same, and nobody else is concerned.
LEMMA BroadcastKeeps ==
    ASSUME StreamsInv, NEW s \in Sessions, NEW items \in Seq(Items), NEW m \in Nat,
           Continue(items, out[s], m), conn' = Broadcast(s, items),
           out' = [out EXCEPT ![s] = m], UNCHANGED key, table' \in [Keys -> Sessions \cup {NoSession}]
    PROVE  StreamsInv'
<1>1. /\ out \in [Sessions -> Nat] /\ out' \in [Sessions -> Nat] /\ out'[s] = m
      /\ \A t \in Sessions : t # s => out'[t] = out[t]
    BY DEF StreamsInv, StreamTypes
<1>2. ASSUME NEW c \in Clients
      PROVE  conn'[c] \in Records /\ RecordFits(conn'[c], out'[conn'[c].session])
    <2>1. conn[c] \in Records /\ RecordFits(conn[c], out[conn[c].session])
        BY DEF StreamsInv, StreamTypes, RecordFits
    <2>2. CASE c \in Attached(s)
        <3>1. conn'[c] = Told(conn[c], items) /\ conn[c].session = s /\ Connected(conn[c])
            BY <2>2 DEF Broadcast, Attached, Connected
        <3>2. StreamFits(conn[c], out[s]) /\ out[s] \in Nat
            BY <2>1, <3>1, <1>1 DEF RecordFits
        <3> QED BY <2>1, <3>1, <3>2, <1>1, ToldFits
    <2>3. CASE c \notin Attached(s)
        <3>1. conn'[c] = conn[c] /\ (conn[c].session # s \/ ~Connected(conn[c]))
            BY <2>3 DEF Broadcast, Attached, Connected
        <3>2. CASE Connected(conn[c])
            <4>1. conn[c].session \in Sessions /\ conn[c].session # s
                BY <2>1, <3>1, <3>2 DEF RecordFits, StreamFits, Records
            <4> QED BY <4>1, <3>1, <2>1, <1>1
        <3>3. CASE ~Connected(conn[c])
            BY <2>1, <3>1, <3>3 DEF RecordFits
        <3> QED BY <3>2, <3>3
    <2> QED BY <2>2, <2>3
<1>3. conn' \in [Clients -> Records]
    BY <1>2 DEF Broadcast
<1>4. StreamTypes'
    BY <1>1, <1>3 DEF StreamsInv, StreamTypes
<1> QED
    BY <1>2, <1>4 DEF StreamsInv, RecordFits, SocketFits, Connected, StreamFits

\* The snapshot has been sent.
LEMMA GreetedRecord ==
    ASSUME NEW r \in Records, NEW none \in Seq(Nat)
    PROVE  LET t == [r EXCEPT !.phase = "open", !.got = r.snapshot, !.snapshot = none]
           IN  /\ t \in Records
               /\ t.phase = "open" /\ t.session = r.session /\ t.snapshot = none /\ t.got = r.snapshot
               /\ t.queue = r.queue /\ t.from = r.from /\ t.lost = r.lost
BY DEF Records

LEMMA GreetKeeps ==
    ASSUME StreamsInv, NEW c \in Clients, Greet(c)
    PROVE  StreamsInv'
<1> DEFINE r == conn[c]
           none == <<>>
           t == [r EXCEPT !.phase = "open", !.got = r.snapshot, !.snapshot = none]
<1>1. r \in Records /\ RecordFits(r, out[r.session]) /\ r.phase = "greeting"
    BY DEF StreamsInv, StreamTypes, RecordFits, Greet
<1>2. none \in Seq(Nat)
    BY EmptySeq
<1>3. conn' = [conn EXCEPT ![c] = t]
    BY DEF Greet, StreamsInv, StreamTypes
<1> HIDE DEF r, none
<1>4. /\ t \in Records
      /\ t.phase = "open" /\ t.session = r.session /\ t.snapshot = none /\ t.got = r.snapshot
      /\ t.queue = r.queue /\ t.from = r.from /\ t.lost = r.lost
    BY <1>1, <1>2, GreetedRecord
<1> HIDE DEF t
<1>5. Sent(t) = Sent(r)
    BY <1>1, <1>4 DEF Sent
<1>6. RecordFits(t, out[t.session])
    BY <1>1, <1>4, <1>5 DEF RecordFits, SocketFits, Connected, StreamFits, none
<1> QED
    BY <1>3, <1>4, <1>6, OneSocket DEF Greet

LEMMA GaplessAppend ==
    ASSUME NEW chunks \in Seq(Nat), NEW a \in Nat, Gapless(chunks, a)
    PROVE  Gapless(Append(chunks, a + Len(chunks) + 1), a)
<1> DEFINE n == Len(chunks)
           w == Append(chunks, a + n + 1)
<1>1. n \in Nat /\ w \in Seq(Nat) /\ Len(w) = n + 1
    BY AppendProperties
<1>2. (\A i \in 1 .. n : w[i] = chunks[i]) /\ w[n + 1] = a + n + 1
    BY AppendProperties
<1>3. \A i \in 1 .. n : chunks[i] = a + i
    BY DEF Gapless
<1> HIDE DEF w
<1>4. \A i \in 1 .. n + 1 : w[i] = a + i
    <2> TAKE i \in 1 .. n + 1
    <2>1. CASE i = n + 1
        BY <2>1, <1>1, <1>2
    <2>2. CASE i # n + 1
        <3>1. i \in 1 .. n
            BY <2>2, <1>1
        <3> QED BY <3>1, <1>2, <1>3
    <2> QED BY <2>1, <2>2
<1>5. w = [i \in 1 .. Len(w) |-> w[i]]
    BY <1>1
<1>6. w = [i \in 1 .. Len(w) |-> a + i]
    BY <1>1, <1>4, <1>5
<1> QED
    BY <1>6 DEF Gapless, w

LEMMA PumpKeeps ==
    ASSUME StreamsInv, NEW c \in Clients, Pump(c)
    PROVE  StreamsInv'
<1> DEFINE r == conn[c]
           item == Head(r.queue)
           t == [r EXCEPT !.queue = Tail(r.queue), !.got = IF item[1] = "chunk" THEN Append(r.got, item[2]) ELSE r.got]
<1>1. r \in Records /\ RecordFits(r, out[r.session]) /\ r.phase = "open" /\ r.queue # <<>>
    BY DEF StreamsInv, StreamTypes, RecordFits, Pump
<1>2. /\ r.queue \in Seq(Items) /\ r.got \in Seq(Nat) /\ r.from \in Nat /\ r.session \in Sessions
      /\ out[r.session] \in Nat /\ item \in Items /\ Tail(r.queue) \in Seq(Items)
    <2>1. r.queue \in Seq(Items) /\ r.got \in Seq(Nat) /\ r.from \in Nat /\ r.session \in Sessions
        BY <1>1 DEF Records, RecordFits, Connected, StreamFits
    <2>2. out[r.session] \in Nat
        BY <2>1 DEF StreamsInv, StreamTypes
    <2> QED BY <1>1, <2>1, <2>2, HeadTailProperties
<1>3. CASE item = End
    <2>1. conn' = [conn EXCEPT ![c] = Unconnected]
        BY <1>3 DEF Pump
    <2> QED BY <2>1, UnconnectedFits, OneSocket DEF Pump
<1>4. CASE item # End
    <2>1. conn' = [conn EXCEPT ![c] = t]
        BY <1>4 DEF Pump, StreamsInv, StreamTypes
    <2>2. /\ t.phase = "open" /\ t.session = r.session /\ t.snapshot = r.snapshot
          /\ t.queue = Tail(r.queue) /\ t.from = r.from /\ t.lost = r.lost
          /\ t.got = IF item[1] = "chunk" THEN Append(r.got, item[2]) ELSE r.got
        BY <1>1 DEF Records
    <2>3. IF item[1] = "chunk" THEN Append(r.got, item[2]) \in Seq(Nat) ELSE TRUE
        BY <1>2, ItemKinds, AppendProperties
    <2>4. t \in Records
        BY <1>1, <1>2, <2>3 DEF Records
    <2> HIDE DEF t
    <2>5. Sent(t) = t.got /\ Sent(r) = r.got
        BY <1>1, <2>2 DEF Sent
    <2>6. ASSUME ~t.lost
          PROVE  Gapless(t.got, t.from) /\ Continue(t.queue, t.from + Len(t.got), out[t.session])
        <3> DEFINE a == r.from + Len(r.got)
        <3>1. Gapless(r.got, r.from) /\ Continue(r.queue, a, out[r.session])
            BY <1>1, <2>2, <2>5, <2>6 DEF RecordFits, Connected, StreamFits
        <3>2. a \in Nat /\ Len(r.got) \in Nat
            BY <1>2
        <3>3. CASE item[1] = "chunk"
            <4>1. item[2] = a + 1 /\ Continue(Tail(r.queue), a + 1, out[r.session])
                BY <3>1, <3>2, <3>3, <1>1, <1>2, ContinueTail
            <4>2. t.got = Append(r.got, r.from + Len(r.got) + 1)
                BY <4>1, <2>2, <3>3
            <4>3. Gapless(t.got, r.from)
                BY <4>2, <3>1, <1>2, GaplessAppend
            <4>4. Len(t.got) = Len(r.got) + 1
                BY <4>2, <1>2, <3>2
            <4>5. t.from + Len(t.got) = a + 1
                <5> DEFINE n == Len(r.got)
                <5> HIDE DEF n
                <5>1. Len(t.got) = n + 1 /\ t.from = r.from /\ n \in Nat /\ r.from \in Nat
                    BY <4>4, <2>2, <3>2, <1>2 DEF n
                <5>2. t.from + Len(t.got) = r.from + n + 1
                    BY <5>1
                <5> QED BY <5>2 DEF n
            <4> QED BY <4>1, <4>3, <4>5, <2>2
        <3>4. CASE item[1] # "chunk"
            BY <3>1, <3>2, <3>4, <2>2, <1>1, <1>2, ContinueTail
        <3> QED BY <3>3, <3>4
    <2>7. RecordFits(t, out[t.session])
        BY <1>1, <2>2, <2>5, <2>6 DEF RecordFits, SocketFits, Connected, StreamFits
    <2> QED
        BY <2>1, <2>4, <2>7, OneSocket DEF Pump
<1> QED
    BY <1>3, <1>4

LEMMA ConnectKeeps ==
    ASSUME StreamsInv, NEW c \in Clients, NEW k \in Keys, Connect(c, k)
    PROVE  StreamsInv'
<1>1. CASE table[k] # NoSession /\ state[table[k]] # "closed"
    <2> DEFINE s == table[k]
               t == Attach(Unconnected, s)
    <2>1. conn' = [conn EXCEPT ![c] = t] /\ UNCHANGED <<table, key, out>>
        BY <1>1 DEF Connect
    <2>2. s \in Sessions /\ out[s] \in Nat
        BY <1>1 DEF StreamsInv, StreamTypes
    <2>3. Unconnected.queue = <<>> /\ Unconnected.got = <<>> /\ Unconnected.lost = FALSE
        BY DEF Unconnected
    <2>4. t \in Records /\ t.session = s /\ RecordFits(t, out[s])
        BY <2>2, <2>3, UnconnectedFits, AttachFits
    <2> QED BY <2>1, <2>4, OneSocket
<1>2. ASSUME NEW s \in Sessions,
             conn' = [conn EXCEPT ![c] = [Unconnected EXCEPT !.phase = "starting", !.session = s]],
             key' = [key EXCEPT ![s] = k], UNCHANGED <<table, out>>
      PROVE  StreamsInv'
    <2> DEFINE t == [Unconnected EXCEPT !.phase = "starting", !.session = s]
    <2>1. t \in Records
        BY UnconnectedFits DEF Records
    <2>2. t.phase = "starting" /\ t.session = s /\ t.queue = <<>> /\ t.got = <<>> /\ ~t.lost
        BY DEF Unconnected
    <2> HIDE DEF t
    <2>3. s # NoSession
        BY DEF Sessions, NoSession
    <2>4. SocketFits(t) /\ ~Connected(t)
        BY <2>2, <2>3 DEF SocketFits, Connected
    <2>5. conn' = [conn EXCEPT ![c] = t]
        BY <1>2 DEF t
    <2>6. StreamTypes'
        BY <2>1, <2>5, <1>2 DEF StreamsInv, StreamTypes
    <2>7. \A d \in Clients : /\ SocketFits(conn'[d])
                             /\ Connected(conn'[d]) => StreamFits(conn'[d], out'[conn'[d].session])
        BY <2>4, <2>5, <1>2 DEF RecordFits, StreamsInv, StreamTypes
    <2> QED
        BY <2>6, <2>7 DEF RecordFits, StreamsInv, SocketFits, Connected, StreamFits
<1> QED
    BY <1>1, <1>2 DEF Connect

LEMMA StartKeeps ==
    ASSUME StreamsInv, NEW s \in Sessions, Start(s)
    PROVE  StreamsInv'
<1>1. /\ conn' = [c \in Clients |-> IF conn[c].phase = "starting" /\ conn[c].session = s
                                    THEN Attach(conn[c], s) ELSE conn[c]]
      /\ table' = [table EXCEPT ![key[s]] = s] /\ UNCHANGED <<key, out>>
    BY DEF Start
<1>2. ASSUME NEW c \in Clients
      PROVE  conn'[c] \in Records /\ RecordFits(conn'[c], out[conn'[c].session])
    <2>1. conn[c] \in Records /\ RecordFits(conn[c], out[conn[c].session]) /\ out[s] \in Nat
        BY DEF StreamsInv, StreamTypes, RecordFits
    <2>2. CASE conn[c].phase = "starting" /\ conn[c].session = s
        <3>1. conn'[c] = Attach(conn[c], s)
            BY <2>2, <1>1
        <3>2. conn[c].queue = <<>> /\ conn[c].got = <<>> /\ ~conn[c].lost
            BY <2>1, <2>2 DEF RecordFits, SocketFits
        <3> QED BY <2>1, <3>1, <3>2, AttachFits
    <2>3. CASE ~(conn[c].phase = "starting" /\ conn[c].session = s)
        BY <2>1, <2>3, <1>1
    <2> QED BY <2>2, <2>3
<1>3. StreamTypes'
    BY <1>1, <1>2 DEF StreamsInv, StreamTypes
<1> QED
    BY <1>1, <1>2, <1>3 DEF StreamsInv, RecordFits, SocketFits, Connected, StreamFits

\* Sockets are closed, and no output.
LEMMA ClosedKeeps ==
    ASSUME StreamsInv, NEW closed \in SUBSET Clients,
           conn' = [c \in Clients |-> IF c \in closed THEN Unconnected ELSE conn[c]],
           UNCHANGED <<key, out>>, table' \in [Keys -> Sessions \cup {NoSession}]
    PROVE  StreamsInv'
<1>1. \A c \in Clients : conn'[c] = Unconnected \/ conn'[c] = conn[c]
    OBVIOUS
<1>2. \A c \in Clients : conn'[c] \in Records /\ RecordFits(conn'[c], out[conn'[c].session])
    BY <1>1, UnconnectedFits DEF StreamsInv, StreamTypes, RecordFits
<1>3. StreamTypes'
    BY <1>2 DEF StreamsInv, StreamTypes
<1> QED
    BY <1>2, <1>3 DEF StreamsInv, RecordFits, SocketFits, Connected, StreamFits

LEMMA EndingKeeps ==
    ASSUME StreamsInv, NEW s \in Sessions, conn' = Broadcast(s, Ending(s)),
           UNCHANGED <<key, out>>, table' \in [Keys -> Sessions \cup {NoSession}]
    PROVE  StreamsInv'
<1>1. out[s] \in Nat /\ out' = [out EXCEPT ![s] = out[s]]
    BY DEF StreamsInv, StreamTypes
<1> QED
    BY <1>1, EndingItems, BroadcastKeeps

LEMMA StreamsUnchanged ==
    ASSUME StreamsInv, UNCHANGED <<key, out, conn>>, table' \in [Keys -> Sessions \cup {NoSession}]
    PROVE  StreamsInv'
BY DEF StreamsInv, StreamTypes, SocketFits, Connected, StreamFits, Continue

LEMMA TerminateStreams ==
    ASSUME StreamsInv, NEW k \in Keys, table[k] # NoSession, Terminate(table[k]),
           table' = [table EXCEPT ![k] = NoSession], UNCHANGED <<key, out>>
    PROVE  StreamsInv'
<1>1. table[k] \in Sessions /\ table' \in [Keys -> Sessions \cup {NoSession}]
    BY DEF StreamsInv, StreamTypes
<1> QED
    BY <1>1, EndingKeeps, StreamsUnchanged DEF Terminate, TerminateAtOnce

LEMMA StreamsInit == Init => StreamsInv
<1> SUFFICES ASSUME Init PROVE StreamsInv
    OBVIOUS
<1>1. StreamTypes
    BY UnconnectedFits DEF Init, StreamTypes
<1> QED
    BY <1>1, UnconnectedFits DEF Init, StreamsInv, RecordFits

LEMMA StreamsStep == StreamsInv /\ [Next]_vars => StreamsInv'
<1> SUFFICES ASSUME StreamsInv, [Next]_vars PROVE StreamsInv'
    OBVIOUS
<1> DEFINE Entries == [Keys -> Sessions \cup {NoSession}]
<1>1. table \in Entries /\ out \in [Sessions -> Nat]
    BY DEF StreamsInv, StreamTypes
<1>2. CASE UNCHANGED vars
    BY <1>1, <1>2, StreamsUnchanged DEF vars
<1>3. ASSUME NEW c \in Clients, NEW k \in Keys, Connect(c, k) PROVE StreamsInv'
    BY <1>3, ConnectKeeps
<1>4. ASSUME NEW c \in Clients, Greet(c) \/ Pump(c) PROVE StreamsInv'
    BY <1>4, GreetKeeps, PumpKeeps
<1>5. ASSUME NEW c \in Clients, Disconnect(c) PROVE StreamsInv'
    BY <1>5, UnconnectedFits, OneSocket DEF Disconnect
<1>6. ASSUME NEW s \in Sessions, Fork(s) \/ Type(s) \/ ShellExit(s) \/ GroupExit(s) PROVE StreamsInv'
    BY <1>1, <1>6, StreamsUnchanged DEF Fork, Type, ShellExit, GroupExit
<1>7. ASSUME NEW s \in Sessions, Start(s) PROVE StreamsInv'
    BY <1>7, StartKeeps
<1>8. ASSUME NEW s \in Sessions, StartFails(s) PROVE StreamsInv'
    <2> DEFINE closed == {c \in Clients : conn[c].session = s}
    <2>1. conn' = [c \in Clients |-> IF c \in closed THEN Unconnected ELSE conn[c]]
        BY <1>8 DEF StartFails
    <2> QED BY <1>1, <1>8, <2>1, ClosedKeeps DEF StartFails
<1>9. ASSUME NEW s \in Sessions, Output(s) PROVE StreamsInv'
    <2> DEFINE items == IF state[s] = "launching" THEN <<Meta("ready"), Chunk(out[s] + 1)>>
                        ELSE <<Chunk(out[s] + 1)>>
    <2>1. conn' = Broadcast(s, items) /\ out' = [out EXCEPT ![s] = out[s] + 1] /\ UNCHANGED <<key, table>>
        BY <1>9 DEF Output
    <2>2. out[s] \in Nat
        BY <1>1
    <2>3. items \in Seq(Items) /\ Continue(items, out[s], out[s] + 1)
        BY <2>2, OutputItems
    <2> HIDE DEF items
    <2>4. table' \in Entries /\ out[s] + 1 \in Nat /\ UNCHANGED key
        BY <1>1, <2>1, <2>2
    <2> HIDE DEF Entries
    <2>5. table' \in [Keys -> Sessions \cup {NoSession}]
        BY <2>4 DEF Entries
    <2> QED BY <2>1, <2>3, <2>4, <2>5, BroadcastKeeps
<1>10. ASSUME NEW s \in Sessions, WatchExit(s) PROVE StreamsInv'
    <2> DEFINE items == <<Chunk(out[s] + 1)>> \o Ending(s)
    <2>1. conn' = Broadcast(s, items) /\ out' = [out EXCEPT ![s] = out[s] + 1] /\ UNCHANGED <<key, table>>
        BY <1>10 DEF WatchExit
    <2>2. out[s] \in Nat
        BY <1>1
    <2>3. items \in Seq(Items) /\ Continue(items, out[s], out[s] + 1)
        BY <2>2, ExitItems
    <2> HIDE DEF items
    <2>4. table' \in Entries /\ out[s] + 1 \in Nat /\ UNCHANGED key
        BY <1>1, <2>1, <2>2
    <2> HIDE DEF Entries
    <2>5. table' \in [Keys -> Sessions \cup {NoSession}]
        BY <2>4 DEF Entries
    <2> QED BY <2>1, <2>3, <2>4, <2>5, BroadcastKeeps
<1>11. ASSUME NEW s \in Sessions, TerminateEnds(s) PROVE StreamsInv'
    BY <1>1, <1>11, EndingKeeps DEF TerminateEnds
<1>12. ASSUME NEW k \in Keys, Kill(k) \/ ShutdownSession(k) PROVE StreamsInv'
    BY <1>12, TerminateStreams DEF Kill, ShutdownSession
<1>13. CASE BeginShutdown \/ Restart
    BY <1>1, <1>13, StreamsUnchanged DEF BeginShutdown, Restart, Sweep
<1>14. CASE Stop \/ Crash
    <2>1. conn' = [c \in Clients |-> IF c \in Clients THEN Unconnected ELSE conn[c]]
        BY <1>14 DEF Stop, Crash, GoesDown
    <2>2. table' \in Entries /\ UNCHANGED <<key, out>>
        BY <1>14 DEF Stop, Crash, GoesDown
    <2> QED BY <2>1, <2>2, ClosedKeeps
<1> QED
    BY <1>2, <1>3, <1>4, <1>5, <1>6, <1>7, <1>8, <1>9, <1>10, <1>11, <1>12, <1>13, <1>14 DEF Next

\* A client gets the output of its session from the scrollback it found, without
\* a gap or a repetition, as long as its queue never overflowed: the snapshot
\* and the registration of the queue are one step, and from then on whatever is
\* broadcast goes on where its queue ends.
THEOREM NoOutputIsLost == Spec => []OutputHasNoGap
<1>1. ASSUME StreamsInv PROVE OutputHasNoGap
    <2> SUFFICES ASSUME NEW c \in Clients, Connected(conn[c]), ~conn[c].lost
                 PROVE  /\ Gapless(conn[c].snapshot \o conn[c].got, conn[c].from)
                        /\ Continue(conn[c].queue, conn[c].from + Len(conn[c].snapshot \o conn[c].got),
                                    out[conn[c].session])
        BY DEF OutputHasNoGap, Connected, Gapless
    <2>1. conn[c] \in Records /\ StreamFits(conn[c], out[conn[c].session])
        BY <1>1 DEF RecordFits, StreamsInv, StreamTypes
    <2>2. \A q \in Seq(Nat) : q \o <<>> = q /\ <<>> \o q = q
        BY ConcatEmptySeq
    <2>3. conn[c].snapshot \o conn[c].got = Sent(conn[c])
        BY <2>1, <2>2 DEF Records, StreamFits, Connected, Sent
    <2> QED BY <2>1, <2>3 DEF StreamFits
<1> QED
    BY <1>1, StreamsInit, StreamsStep, PTL DEF Spec
=============================================================================
