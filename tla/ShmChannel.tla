----------------------------- MODULE ShmChannel -----------------------------
(***************************************************************************)
(* SPO/Linux/Lab3: a server hands a line to the client it has forked, in   *)
(* chunks of kSize - 1 characters, through one shared memory segment.  Two *)
(* semaphores pass the turn, a third one tells the client to exit.  Every  *)
(* semop of the program has SEM_UNDO set and none is checked.              *)
(***************************************************************************)
EXTENDS Integers, FiniteSets

CONSTANTS
    Clients,    \* the clients that the servers fork, one each
    AdjustMax,  \* SEMAEM of the kernel: 32767
    MaxLine,    \* bound: chunks in a line
    MaxSent     \* bound: chunks the user types

ASSUME ChannelAssumption ==
    /\ IsFiniteSet(Clients) /\ "server" \notin Clients
    /\ AdjustMax \in Nat /\ MaxLine \in Nat \ {0} /\ MaxSent \in Nat

Procs == Clients \cup {"server"}
Sems == {"server", "client", "kill"}

Blank == 0              \* the segment after memset(shMemoryAddress, '\0', 1)
Torn == MaxSent + 1     \* the segment while strcpy is under way

VARIABLES
    server,     \* where the server is
    own,        \* the client it forked
    rest,       \* buffStr, in chunks; 0: readyForInput
    sent,       \* chunks are numbered in the order they are typed
    memory,     \* the shared segment
    client,     \* where each client is
    shown,      \* the last whole chunk that a client has printed
    sem,        \* the semaphore set
    adj,        \* adj[p][s]: what the kernel adds to s when p ends
    removed     \* IPC_RMID

vars == <<server, own, rest, sent, memory, client, shown, sem, adj, removed>>
set == <<sem, adj, removed>>

TypeOK ==
    /\ server \in {"blank", "getline", "copy", "copying", "post", "wait",
                   "ask", "kill", "wake", "join", "end", "dead"}
    /\ own \in Clients
    /\ rest \in 0 .. MaxLine /\ sent \in 0 .. MaxSent
    /\ memory \in 0 .. Torn /\ shown \in 0 .. MaxSent
    /\ client \in [Clients -> {"unborn", "wait", "look", "show", "post", "gone"}]
    /\ sem \in [Sems -> 0 .. Cardinality(Clients) * (AdjustMax + 1) + 1]
    /\ adj \in [Procs -> [Sems -> -(AdjustMax + 1) .. AdjustMax]]
    /\ removed \in BOOLEAN

Zero == [s \in Sems |-> 0]
Forked(c) == [d \in Clients |-> IF d = c THEN "wait" ELSE "unborn"]

Init ==
    /\ server = "blank" /\ own \in Clients /\ client = Forked(own)
    /\ rest = 0 /\ sent = 0 /\ memory = Blank /\ shown = 0
    /\ sem = Zero /\ adj = [p \in Procs |-> Zero] /\ removed = FALSE

---------------------------------------------------------------------------
(***************************************************************************)
(* The kernel.  A semop that cannot be undone within the limit fails, as   *)
(* does one on a set that was removed: it changes nothing and returns.     *)
(***************************************************************************)
Undoable(p, s, d) == adj[p][s] - d \in -(AdjustMax + 1) .. AdjustMax

Semop(p, s, d) ==
    /\ removed \/ sem[s] + d >= 0
    /\ IF ~ removed /\ Undoable(p, s, d)
         THEN sem' = [sem EXCEPT ![s] = @ + d] /\ adj' = [adj EXCEPT ![p][s] = @ - d]
         ELSE UNCHANGED <<sem, adj>>
    /\ UNCHANGED removed

\* Fault: the semaphores are left as the process that ends has set them.
Undo_None(p) == UNCHANGED sem /\ adj' = [adj EXCEPT ![p] = Zero]

\* What p did to the semaphores is undone when it ends.
Undo(p) ==
    /\ sem' = [s \in Sems |-> IF sem[s] + adj[p][s] > 0 THEN sem[s] + adj[p][s] ELSE 0]
    /\ adj' = [adj EXCEPT ![p] = Zero]

---------------------------------------------------------------------------
(***************************************************************************)
(* The server.                                                             *)
(***************************************************************************)
BlankMemory ==
    /\ server = "blank"
    /\ server' = IF rest = 0 THEN "getline" ELSE "copy"
    /\ memory' = Blank
    /\ UNCHANGED <<own, rest, sent, client, shown, set>>

\* An empty line is a chunk as well.
GetLine ==
    /\ server = "getline"
    /\ server' = "copy"
    /\ \E n \in 1 .. MaxLine : sent + n <= MaxSent /\ rest' = n
    /\ UNCHANGED <<own, sent, memory, client, shown, set>>

BeginCopy ==
    /\ server = "copy"
    /\ server' = "copying"
    /\ memory' = Torn
    /\ UNCHANGED <<own, rest, sent, client, shown, set>>

\* Fault: buffStr keeps the chunk that was copied.
EndCopy_KeepsChunk ==
    /\ server = "copying"
    /\ server' = "post"
    /\ sent' = sent + 1 /\ memory' = sent + 1
    /\ UNCHANGED <<own, rest, client, shown, set>>

EndCopy ==
    /\ server = "copying"
    /\ server' = "post"
    /\ sent' = sent + 1 /\ memory' = sent + 1 /\ rest' = rest - 1
    /\ UNCHANGED <<own, client, shown, set>>

TellClient ==
    /\ server = "post"
    /\ server' = "wait"
    /\ Semop("server", "server", 1)
    /\ UNCHANGED <<own, rest, sent, memory, client, shown>>

\* Fault: the server does not wait for the client.
AwaitClient_Not ==
    /\ server = "wait"
    /\ server' = IF rest = 0 THEN "ask" ELSE "blank"
    /\ UNCHANGED <<own, rest, sent, memory, client, shown, set>>

\* The error semaphore read next is 0: no client raises it (see ClientEnds).
AwaitClient ==
    /\ server = "wait"
    /\ server' = IF rest = 0 THEN "ask" ELSE "blank"
    /\ Semop("server", "client", -1)
    /\ UNCHANGED <<own, rest, sent, memory, client, shown>>

\* "Press '0' to exit the programm, or press any other key to continue..."
Ask ==
    /\ server = "ask"
    /\ server' \in {"kill", "blank"}
    /\ UNCHANGED <<own, rest, sent, memory, client, shown, set>>

RaiseKill ==
    /\ server = "kill"
    /\ server' = "wake"
    /\ Semop("server", "kill", 1)
    /\ UNCHANGED <<own, rest, sent, memory, client, shown>>

WakeClient ==
    /\ server = "wake"
    /\ server' = "join"
    /\ Semop("server", "server", 1)
    /\ UNCHANGED <<own, rest, sent, memory, client, shown>>

\* waitpid, then the semaphores and the segment are removed.
JoinClient ==
    /\ server = "join" /\ client[own] = "gone"
    /\ server' = "end"
    /\ removed' = TRUE
    /\ UNCHANGED <<own, rest, sent, memory, client, shown, sem, adj>>

\* Someone kills the server; its client stays.
ServerDies ==
    /\ server \notin {"end", "dead"}
    /\ server' = "dead"
    /\ Undo("server")
    /\ UNCHANGED <<own, rest, sent, memory, client, shown, removed>>

\* The program is started again: semget finds the set of the run before, SETALL
\* resets it (and every adjustment), and a client of its own is forked.
StartAgain ==
    /\ server = "dead"
    /\ \E c \in Clients :
        /\ client[c] = "unborn"
        /\ own' = c
        /\ client' = [client EXCEPT ![c] = "wait"]
    /\ server' = "blank"
    /\ rest' = 0
    /\ sem' = Zero /\ adj' = [p \in Procs |-> Zero]
    /\ UNCHANGED <<sent, memory, shown, removed>>

---------------------------------------------------------------------------
(***************************************************************************)
(* Client c.                                                               *)
(***************************************************************************)
Goes(c, from, to) == client[c] = from /\ client' = [client EXCEPT ![c] = to]

AwaitServer(c) ==
    /\ Goes(c, "wait", "look")
    /\ Semop(c, "server", -1)
    /\ UNCHANGED <<server, own, rest, sent, memory, shown>>

\* semctl(GETVAL) of a set that was removed is -1.
SeeKill(c) ==
    /\ ~ removed /\ sem["kill"] = 1
    /\ Goes(c, "look", "gone")
    /\ Undo(c)
    /\ UNCHANGED <<server, own, rest, sent, memory, shown, removed>>

\* Fault: the server is told before the segment has been read.
Attach_TellsServer(c) ==
    /\ removed \/ sem["kill"] # 1
    /\ Goes(c, "look", "show")
    /\ Semop(c, "client", 1)
    /\ UNCHANGED <<server, own, rest, sent, memory, shown>>

\* No kill-command: the segment is attached once more.
Attach(c) ==
    /\ removed \/ sem["kill"] # 1
    /\ Goes(c, "look", "show")
    /\ UNCHANGED <<server, own, rest, sent, memory, shown, set>>

\* "Client got: ".
Show(c) ==
    /\ Goes(c, "show", "post")
    /\ shown' = IF memory \in 1 .. MaxSent THEN memory ELSE shown
    /\ UNCHANGED <<server, own, rest, sent, memory, set>>

\* Fault: the server is not told.
TellServer_Not(c) ==
    /\ Goes(c, "post", "wait")
    /\ UNCHANGED <<server, own, rest, sent, memory, shown, set>>

TellServer(c) ==
    /\ Goes(c, "post", "wait")
    /\ Semop(c, "client", 1)
    /\ UNCHANGED <<server, own, rest, sent, memory, shown>>

\* Someone kills the client, or shmat fails: it returns -1 and not NULL, so the
\* error branch is not taken and printing the string at -1 ends the process.
ClientEnds(c) ==
    /\ client[c] \notin {"unborn", "gone"}
    /\ client' = [client EXCEPT ![c] = "gone"]
    /\ IF removed THEN UNCHANGED <<sem, adj>> ELSE Undo(c)
    /\ UNCHANGED <<server, own, rest, sent, memory, shown, removed>>

---------------------------------------------------------------------------
Server ==
    \/ BlankMemory \/ BeginCopy \/ EndCopy \/ TellClient \/ AwaitClient
    \/ RaiseKill \/ WakeClient \/ JoinClient
User == GetLine \/ Ask
Client(c) == AwaitServer(c) \/ SeeKill(c) \/ Attach(c) \/ Show(c) \/ TellServer(c)
Faults == ServerDies \/ StartAgain \/ \E c \in Clients : ClientEnds(c)

Next == Server \/ User \/ (\E c \in Clients : Client(c)) \/ Faults

\* Each process runs; nobody has to type, and nobody has to be killed.
Spec ==
    /\ Init /\ [][Next]_vars
    /\ WF_vars(Server)
    /\ \A c \in Clients : WF_vars(Client(c))

---------------------------------------------------------------------------
\* The first server, before any semaphore comes to the limit of its adjustment.
\* (When the server is killed its last turn is undone, and a client that already
\* took it may print the chunk once more.)
Fresh ==
    /\ server # "dead"
    /\ Cardinality({c \in Clients : client[c] # "unborn"}) = 1
    /\ sent <= AdjustMax

\* A chunk that the server has written stays as it is until the client has
\* printed it, also when the client is killed at any point.
UnreadIsIntact == Fresh /\ shown < sent => memory = sent

\* The client prints each chunk once, in the order they were typed.
ShownOnceInOrder ==
    [][\A c \in Clients :
        Fresh /\ client[c] = "show" /\ client'[c] = "post" => memory = shown + 1]_vars

\* The server waits for ever only when a client was killed, or the server that
\* a client had been waiting for, or the limit was reached.
ServerGoesOn ==
    (server = "wait" /\ Fresh)
        ~> (server # "wait" \/ (\E c \in Clients : client[c] = "gone") \/ ~ Fresh)

\* Once '0' is pressed the program ends (unless it is killed first), even when a
\* client of an earlier server is still there and takes the turn of the new one
\* (that client's end undoes its taking it).  Past the limit nobody may be woken.
QuitEnds ==
    (server = "kill" /\ Undoable("server", "server", 1)) ~> (server \in {"end", "dead"})

\* "Wait for client to read": the server does not write before that.
WaitsForReader == shown < sent => memory = sent
============================================================================
