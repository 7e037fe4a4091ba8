-------------------------- MODULE ShmChannelProofs --------------------------
(***************************************************************************)
(* Proofs about ShmChannel: while the first server lives and the limit of  *)
(* the adjustments is not reached, one turn passes between server and      *)
(* client, for any number of clients, any lines and any limit; and however *)
(* often the program is run no semaphore is raised too far.                *)
(***************************************************************************)
EXTENDS ShmChannel, FiniteSetTheorems, TLAPS

\* The types the argument needs.  (How far a semaphore can be raised is an argument
\* of its own, see Limits.)
PlainType ==
    /\ server \in {"blank", "getline", "copy", "copying", "post", "wait",
                   "ask", "kill", "wake", "join", "end", "dead"}
    /\ own \in Clients
    /\ rest \in 0 .. MaxLine /\ sent \in 0 .. MaxSent
    /\ memory \in 0 .. Torn /\ shown \in 0 .. MaxSent
    /\ client \in [Clients -> {"unborn", "wait", "look", "show", "post", "gone"}]
    /\ sem \in [Sems -> Nat]
    /\ adj \in [Procs -> [Sems -> Int]]
    /\ removed \in BOOLEAN
    /\ sent + rest <= MaxSent
    /\ server \in {"copy", "copying"} => rest # 0

\* Fresh in another form.
Born == {c \in Clients : client[c] # "unborn"}
First == server # "dead" /\ Born = {own} /\ sent <= AdjustMax

\* How often the server has raised its semaphore and lowered that of the client.
Posts == IF server = "post" THEN sent - 1
         ELSE IF server \in {"join", "end"} THEN sent + 1 ELSE sent
Awaits == IF server \in {"post", "wait"} THEN sent - 1 ELSE sent

ServerInv ==
    /\ removed <=> server = "end"
    /\ server = "end" => client[own] = "gone"
    /\ adj["server"]["server"] = - Posts /\ adj["server"]["client"] = Awaits
    /\ adj["server"]["kill"] = IF server \in {"wake", "join", "end"} THEN -1 ELSE 0
    /\ sem["kill"] = IF server \in {"wake", "join", "end"} THEN 1 ELSE 0
    /\ adj[own]["kill"] = 0

\* What the client has printed and what is in the segment.
ChunkInv ==
    /\ server \in {"post", "wait"} => memory = sent /\ sent > 0
    /\ server = "post" => shown = sent - 1
    /\ server = "wait" => shown \in {sent - 1, sent}
    /\ server \notin {"post", "wait"} => shown = sent

\* The places of the turn while the server waits.
Offered == client[own] = "wait" /\ sem["server"] = 1 /\ sem["client"] = 0
Taken   == client[own] \in {"look", "show", "post"} /\ sem["server"] = 0 /\ sem["client"] = 0
Given   == client[own] = "wait" /\ sem["server"] = 0 /\ sem["client"] = 1

WaitInv ==
    /\ Offered \/ Taken \/ Given
    /\ adj[own]["server"] = IF Offered THEN sent - 1 ELSE sent
    /\ adj[own]["client"] = IF Given THEN - sent ELSE 1 - sent
    /\ shown = IF Offered \/ client[own] \in {"look", "show"} THEN sent - 1 ELSE sent

ClientInv ==
    IF client[own] = "gone"
    THEN server \notin {"join", "end"} => sem["client"] = 0
    ELSE CASE server = "wait" -> WaitInv
           [] server = "join" -> client[own] \in {"wait", "look"}
           [] OTHER -> /\ client[own] = "wait"
                       /\ sem["server"] = 0 /\ sem["client"] = 0
                       /\ adj[own]["server"] = Awaits /\ adj[own]["client"] = - Awaits

FirstInv == First => ServerInv /\ ChunkInv /\ ClientInv

IInv == PlainType /\ own \in Born /\ FirstInv

---------------------------------------------------------------------------
\* While one client has been born it is the one of this server.
LEMMA FreshIsFirst == ASSUME PlainType, own \in Born, Fresh PROVE First
<1>1. Born \in SUBSET Clients /\ IsFiniteSet(Born)
  BY ChannelAssumption, FS_Subset DEF Born
<1>2. Cardinality(Born) = 1
  BY DEF Fresh, Born
<1>3. PICK c : Born = {c}
  BY <1>1, <1>2, FS_Singleton
<1> QED
  BY <1>3 DEF First, Fresh

\* The first run of the program starts with every semaphore at 0.
LEMMA InitIInv == Init => IInv
<1> SUFFICES ASSUME Init PROVE IInv
  OBVIOUS
<1>1. PlainType
  <2>1. Zero \in [Sems -> Nat] /\ Zero \in [Sems -> Int]
    BY DEF Zero
  <2>2. sem \in [Sems -> Nat] /\ adj \in [Procs -> [Sems -> Int]]
    BY <2>1 DEF Init
  <2>3. client \in [Clients -> {"unborn", "wait", "look", "show", "post", "gone"}]
    BY DEF Init, Forked
  <2>4. 0 \in 0 .. MaxLine /\ 0 \in 0 .. MaxSent /\ Blank \in 0 .. Torn
    BY ChannelAssumption DEF Blank, Torn
  <2> QED
    <3>1. /\ server = "blank" /\ own \in Clients /\ removed = FALSE
          /\ rest = 0 /\ sent = 0 /\ memory = Blank /\ shown = 0
      BY DEF Init
    <3>2. sent + rest <= MaxSent
      BY <3>1, ChannelAssumption
    <3>3. removed \in BOOLEAN
      BY <3>1, Zenon
    <3> QED
      BY <2>2, <2>3, <2>4, <3>1, <3>2, <3>3 DEF PlainType
<1>2. own \in Born
  BY DEF Init, Forked, Born
<1>3. ServerInv /\ ChunkInv /\ ClientInv
  <2>1. /\ server = "blank" /\ sent = 0 /\ shown = 0 /\ ~ removed
        /\ client[own] = "wait"
    BY DEF Init, Forked
  <2>2. "server" \in Procs /\ own \in Procs
    BY <1>1 DEF PlainType, Procs
  <2>3. \A t \in Sems : sem[t] = 0 /\ adj["server"][t] = 0 /\ adj[own][t] = 0
    BY <2>2 DEF Init, Zero
  <2>4. "server" \in Sems /\ "client" \in Sems /\ "kill" \in Sems
    BY DEF Sems
  <2> QED
    BY <2>1, <2>3, <2>4 DEF ServerInv, ChunkInv, ClientInv, Posts, Awaits
<1> QED
  BY <1>1, <1>2, <1>3 DEF IInv, FirstInv

---------------------------------------------------------------------------
(***************************************************************************)
(* The kernel.                                                             *)
(***************************************************************************)
LEMMA SemopType ==
    ASSUME PlainType, NEW p \in Procs, NEW s \in Sems, NEW d \in Int, Semop(p, s, d)
    PROVE  /\ sem' \in [Sems -> Nat] /\ adj' \in [Procs -> [Sems -> Int]]
           /\ removed' = removed
<1>1. CASE UNCHANGED <<sem, adj>>
  BY <1>1 DEF Semop, PlainType
<1>2. CASE /\ ~ removed /\ sem[s] + d >= 0
           /\ sem' = [sem EXCEPT ![s] = @ + d] /\ adj' = [adj EXCEPT ![p][s] = @ - d]
  BY <1>2 DEF Semop, PlainType
<1> QED
  BY <1>1, <1>2 DEF Semop

\* A semop that is not refused.
LEMMA SemopFacts ==
    ASSUME PlainType, NEW p \in Procs, NEW s \in Sems, NEW d \in Int, Semop(p, s, d),
           ~ removed, Undoable(p, s, d)
    PROVE  /\ sem[s] + d >= 0 /\ sem'[s] = sem[s] + d
           /\ \A r \in Sems \ {s} : sem'[r] = sem[r]
           /\ adj'[p][s] = adj[p][s] - d
           /\ \A r \in Sems \ {s} : adj'[p][r] = adj[p][r]
           /\ \A q \in Procs \ {p} : adj'[q] = adj[q]
           /\ ~ removed'
  BY DEF Semop, PlainType

\* What the kernel does for a process that ends.
LEMMA UndoFacts ==
    ASSUME PlainType, NEW p \in Procs, Undo(p)
    PROVE  /\ sem' \in [Sems -> Nat] /\ adj' \in [Procs -> [Sems -> Int]]
           /\ \A s \in Sems : sem'[s] = IF sem[s] + adj[p][s] > 0 THEN sem[s] + adj[p][s] ELSE 0
           /\ \A s \in Sems : adj'[p][s] = 0
           /\ \A q \in Procs \ {p} : adj'[q] = adj[q]
<1>1. \A s \in Sems : sem[s] \in Nat /\ adj[p][s] \in Int
  BY DEF PlainType
<1>2. sem' = [s \in Sems |-> IF sem[s] + adj[p][s] > 0 THEN sem[s] + adj[p][s] ELSE 0]
  BY DEF Undo
<1>3. sem' \in [Sems -> Nat]
  BY <1>1, <1>2
<1>4. adj' = [adj EXCEPT ![p] = Zero] /\ Zero \in [Sems -> Int]
  BY DEF Undo, Zero
<1> QED
  BY <1>2, <1>3, <1>4 DEF PlainType, Zero

---------------------------------------------------------------------------
\* Every variable keeps its range; semaphores and adjustments are numbers.
LEMMA PlainTypeStep == ASSUME PlainType, [Next]_vars PROVE PlainType'
<1> DEFINE SetType == /\ sem \in [Sems -> Nat] /\ adj \in [Procs -> [Sems -> Int]]
                      /\ removed \in BOOLEAN
           LineType == /\ own \in Clients
                       /\ rest \in 0 .. MaxLine /\ sent \in 0 .. MaxSent
                       /\ memory \in 0 .. Torn /\ shown \in 0 .. MaxSent
                       /\ sent + rest <= MaxSent
           CopyType == server \in {"copy", "copying"} => rest # 0
           PlaceType ==
               /\ server \in {"blank", "getline", "copy", "copying", "post", "wait",
                              "ask", "kill", "wake", "join", "end", "dead"}
               /\ client \in [Clients -> {"unborn", "wait", "look", "show", "post", "gone"}]
<1>0. "server" \in Procs /\ Clients \subseteq Procs
      /\ "server" \in Sems /\ "client" \in Sems /\ "kill" \in Sems
  BY DEF Procs, Sems
<1>1. PlaceType'
  <2> USE DEF PlainType, Goes
  <2>1. CASE UNCHANGED vars
    BY <2>1 DEF vars
  <2>2. CASE Server
    BY <2>2 DEF Server, BlankMemory, BeginCopy, EndCopy, TellClient, AwaitClient,
                RaiseKill, WakeClient, JoinClient
  <2>3. CASE User
    BY <2>3 DEF User, GetLine, Ask
  <2>4. CASE \E c \in Clients : Client(c)
    BY <2>4 DEF Client, AwaitServer, SeeKill, Attach, Show, TellServer
  <2>5. CASE Faults
    BY <2>5 DEF Faults, ServerDies, StartAgain, ClientEnds
  <2> QED
    BY <2>1, <2>2, <2>3, <2>4, <2>5 DEF Next
<1>2. LineType'
  <2> USE ChannelAssumption DEF PlainType, Torn, Blank
  <2>1. CASE UNCHANGED <<own, rest, sent, memory, shown>>
    BY <2>1
  <2>2. CASE BlankMemory \/ BeginCopy \/ GetLine
    BY <2>2 DEF BlankMemory, BeginCopy, GetLine
  <2>3. CASE EndCopy
    <3>1. rest # 0 /\ sent + rest <= MaxSent /\ sent \in 0 .. MaxSent /\ rest \in 0 .. MaxLine
      BY <2>3 DEF EndCopy
    <3>2. rest' = rest - 1 /\ sent' = sent + 1 /\ memory' = sent + 1
      BY <2>3 DEF EndCopy
    <3>3. own' = own /\ shown' = shown
      BY <2>3 DEF EndCopy
    <3> QED
      BY <3>1, <3>2, <3>3
  <2>4. CASE \E c \in Clients : Show(c)
    BY <2>4 DEF Show
  <2>5. CASE StartAgain
    BY <2>5 DEF StartAgain
  <2> QED
    BY <2>1, <2>2, <2>3, <2>4, <2>5
       DEF Next, vars, Server, User, Client, Faults, TellClient, AwaitClient, Ask,
           RaiseKill, WakeClient, JoinClient, ServerDies, ClientEnds,
           AwaitServer, SeeKill, Attach, TellServer
<1>3. SetType'
  <2>0. SetType
    BY DEF PlainType
  <2>1. CASE UNCHANGED set
    BY <2>0, <2>1 DEF set
  <2>2. ASSUME NEW p \in Procs, NEW s \in Sems, NEW d \in Int, Semop(p, s, d)
        PROVE  SetType'
    BY <2>0, <2>2, SemopType
  <2>3. ASSUME NEW p \in Procs, Undo(p), removed' = removed PROVE SetType'
    BY <2>0, <2>3, UndoFacts
  <2>4. CASE JoinClient
    BY <2>0, <2>4 DEF JoinClient
  <2>5. CASE StartAgain
    <3>1. Zero \in [Sems -> Nat] /\ Zero \in [Sems -> Int]
      BY DEF Zero
    <3> QED
      BY <2>0, <2>5, <3>1 DEF StartAgain
  <2>6. CASE TellClient \/ AwaitClient \/ RaiseKill \/ WakeClient
    BY <1>0, <2>2, <2>6 DEF TellClient, AwaitClient, RaiseKill, WakeClient
  <2>7. CASE \E c \in Clients : AwaitServer(c) \/ TellServer(c)
    BY <1>0, <2>2, <2>7 DEF AwaitServer, TellServer
  <2>8. CASE ServerDies \/ \E c \in Clients : SeeKill(c)
    BY <1>0, <2>3, <2>8 DEF ServerDies, SeeKill
  <2>9. CASE \E c \in Clients : ClientEnds(c)
    BY <1>0, <2>1, <2>3, <2>9 DEF ClientEnds, set
  <2> QED
    BY <2>1, <2>4, <2>5, <2>6, <2>7, <2>8, <2>9
       DEF Next, vars, set, Server, User, Client, Faults, BlankMemory, GetLine, BeginCopy,
           EndCopy, Ask, Attach, Show
<1>4. CopyType'
  BY DEF PlainType, Next, vars, Server, User, Client, Faults, BlankMemory, GetLine, BeginCopy,
         EndCopy, TellClient, AwaitClient, Ask, RaiseKill, WakeClient, JoinClient,
         ServerDies, StartAgain, ClientEnds, AwaitServer, SeeKill, Attach, Show, TellServer
<1> QED
  BY <1>1, <1>2, <1>3, <1>4 DEF PlainType

\* Nobody becomes the first server again.
LEMMA FirstBefore ==
    ASSUME PlainType, own \in Born, [Next]_vars
    PROVE  /\ (own \in Born)'
           /\ First' => First /\ own' = own
<1>1. CASE StartAgain
  <2>1. PICK c \in Clients : /\ client[c] = "unborn" /\ own' = c
                             /\ client' = [client EXCEPT ![c] = "wait"]
    BY <1>1 DEF StartAgain
  <2>2. c \in Born' /\ own \in Born' /\ c # own
    BY <2>1 DEF Born, PlainType
  <2> QED
    BY <2>1, <2>2 DEF First
<1>2. CASE ~ StartAgain
  <2>1. own' = own /\ (server = "dead" => server' = "dead") /\ sent' >= sent
    BY <1>2, ChannelAssumption
       DEF Next, vars, Server, User, Client, Faults, BlankMemory, GetLine, BeginCopy,
           EndCopy, TellClient, AwaitClient, Ask, RaiseKill, WakeClient, JoinClient,
           ServerDies, ClientEnds, AwaitServer, SeeKill, Attach, Show, TellServer, PlainType
  <2>2. \A d \in Clients : client'[d] = "unborn" <=> client[d] = "unborn"
    <3>1. CASE client' = client
      BY <3>1
    <3>2. ASSUME NEW c \in Clients, NEW x, x # "unborn", client[c] # "unborn",
                 client' = [client EXCEPT ![c] = x]
          PROVE  \A d \in Clients : client'[d] = "unborn" <=> client[d] = "unborn"
      BY <3>2 DEF PlainType
    <3>3. ASSUME NEW c \in Clients, Client(c) \/ ClientEnds(c)
          PROVE  \A d \in Clients : client'[d] = "unborn" <=> client[d] = "unborn"
      BY <3>2, <3>3 DEF Client, AwaitServer, SeeKill, Attach, Show, TellServer, ClientEnds, Goes
    <3> QED
      BY <1>2, <3>1, <3>3
         DEF Next, vars, Server, User, Faults, BlankMemory, GetLine, BeginCopy,
             EndCopy, TellClient, AwaitClient, Ask, RaiseKill, WakeClient, JoinClient,
             ServerDies
  <2>3. Born' = Born
    BY <2>2 DEF Born
  <2>4. sent \in Nat /\ sent' \in Nat /\ AdjustMax \in Nat
    BY PlainTypeStep, ChannelAssumption DEF PlainType
  <2> QED
    BY <2>1, <2>3, <2>4 DEF First
<1> QED
  BY <1>1, <1>2

---------------------------------------------------------------------------
(***************************************************************************)
(* The first server: one turn.                                             *)
(***************************************************************************)
Inv == ServerInv /\ ChunkInv /\ ClientInv

\* What the steps of the first run use of the invariant.
LEMMA FirstFacts ==
    ASSUME IInv, First
    PROVE  /\ sent \in 0 .. AdjustMax /\ AdjustMax \in Nat
           /\ own \in Clients /\ own \in Procs /\ "server" \in Procs /\ own # "server"
           /\ "server" \in Sems /\ "client" \in Sems /\ "kill" \in Sems
           /\ client[own] \in {"wait", "look", "show", "post", "gone"}
           /\ \A c \in Clients : client[c] # "unborn" => c = own
           /\ Inv
  BY ChannelAssumption DEF IInv, First, FirstInv, Inv, Born, PlainType, Procs, Sems

\* Steps of the server that leave the semaphores alone.
LEMMA QuietServerStep ==
    ASSUME IInv, First,
           BlankMemory \/ GetLine \/ BeginCopy \/ EndCopy \/ Ask
    PROVE  Inv'
<1>0. /\ PlainType /\ Inv /\ own \in Clients
  BY FirstFacts DEF IInv, PlainType
<1>1. /\ UNCHANGED <<own, client, shown, set>>
      /\ server \notin {"post", "wait", "join", "end"}
      /\ server' \notin {"wait", "wake", "join", "end"}
      /\ server \notin {"wake"}
  BY DEF BlankMemory, GetLine, BeginCopy, EndCopy, Ask
<1>2. \/ server' # "post" /\ sent' = sent
      \/ server' = "post" /\ sent' = sent + 1 /\ memory' = sent'
  BY DEF BlankMemory, GetLine, BeginCopy, EndCopy, Ask
<1>3. sent \in Nat /\ sent' \in Nat
  BY <1>0, <1>2 DEF PlainType
<1>4. Posts' = Posts /\ Awaits' = Awaits
  <2>1. Posts = sent /\ Awaits = sent
    BY <1>1 DEF Posts, Awaits
  <2>2. CASE server' # "post" /\ sent' = sent
    BY <1>1, <2>1, <2>2 DEF Posts, Awaits
  <2>3. CASE server' = "post" /\ sent' = sent + 1
    BY <1>3, <2>1, <2>3 DEF Posts, Awaits
  <2> QED
    BY <1>2, <2>1, <2>2, <2>3
<1>5. ServerInv'
  BY <1>0, <1>1, <1>4 DEF Inv, ServerInv, set
<1>6. ChunkInv'
  BY <1>0, <1>1, <1>2, <1>3 DEF Inv, ChunkInv
<1>7. ClientInv'
  <2>1. CASE client[own] = "gone"
    BY <1>0, <1>1, <2>1 DEF Inv, ClientInv, set
  <2>2. CASE client[own] # "gone"
    BY <1>0, <1>1, <1>4, <2>2 DEF Inv, ClientInv, set
  <2> QED
    BY <2>1, <2>2
<1> QED
  BY <1>5, <1>6, <1>7 DEF Inv

\* The server passes the turn.
LEMMA TellClientStep == ASSUME IInv, First, TellClient PROVE Inv'
<1>0. /\ PlainType /\ Inv /\ sent \in 0 .. AdjustMax /\ AdjustMax \in Nat
      /\ "server" \in Procs /\ own \in Procs /\ own # "server"
      /\ "server" \in Sems /\ "client" \in Sems /\ "kill" \in Sems
  BY FirstFacts DEF IInv
<1>1. /\ server = "post" /\ server' = "wait" /\ Semop("server", "server", 1)
      /\ UNCHANGED <<own, rest, sent, memory, client, shown>>
  BY DEF TellClient
<1>2. /\ ~ removed /\ adj["server"]["server"] = 1 - sent
      /\ memory = sent /\ sent > 0 /\ shown = sent - 1
  BY <1>0, <1>1 DEF Inv, ServerInv, ChunkInv, Posts
<1>3. Undoable("server", "server", 1)
  BY <1>0, <1>2 DEF Undoable
<1>4. /\ sem'["server"] = sem["server"] + 1 /\ sem'["client"] = sem["client"]
      /\ sem'["kill"] = sem["kill"] /\ adj'["server"]["server"] = - sent
      /\ adj'["server"]["client"] = adj["server"]["client"]
      /\ adj'["server"]["kill"] = adj["server"]["kill"]
      /\ adj'[own] = adj[own] /\ ~ removed'
  BY <1>0, <1>1, <1>2, <1>3, SemopFacts
<1>5. ServerInv'
  BY <1>0, <1>1, <1>4 DEF Inv, ServerInv, Posts, Awaits
<1>6. ChunkInv'
  BY <1>0, <1>1, <1>2 DEF ChunkInv
<1>7. ClientInv'
  <2>1. CASE client[own] = "gone"
    BY <1>0, <1>1, <1>4, <2>1 DEF Inv, ClientInv
  <2>2. CASE client[own] # "gone"
    <3>1. /\ client[own] = "wait" /\ sem["server"] = 0 /\ sem["client"] = 0
          /\ adj[own]["server"] = sent - 1 /\ adj[own]["client"] = 1 - sent
      BY <1>0, <1>1, <2>2 DEF Inv, ClientInv, Awaits
    <3>2. WaitInv'
      BY <1>1, <1>2, <1>4, <3>1 DEF WaitInv, Offered, Taken, Given
    <3> QED
      BY <1>1, <2>2, <3>2 DEF ClientInv
  <2> QED
    BY <2>1, <2>2
<1> QED
  BY <1>5, <1>6, <1>7 DEF Inv

\* The server takes it back.
LEMMA AwaitClientStep == ASSUME IInv, First, AwaitClient PROVE Inv'
<1>0. /\ PlainType /\ Inv /\ sent \in 0 .. AdjustMax /\ AdjustMax \in Nat
      /\ "server" \in Procs /\ own \in Procs /\ own # "server"
      /\ "server" \in Sems /\ "client" \in Sems /\ "kill" \in Sems
  BY FirstFacts DEF IInv
<1>1. /\ server = "wait" /\ server' \in {"ask", "blank"} /\ Semop("server", "client", -1)
      /\ UNCHANGED <<own, rest, sent, memory, client, shown>>
  BY DEF AwaitClient
<1>2. /\ ~ removed /\ adj["server"]["client"] = sent - 1
      /\ memory = sent /\ sent > 0
  BY <1>0, <1>1 DEF Inv, ServerInv, ChunkInv, Awaits
<1>3. Undoable("server", "client", -1)
  BY <1>0, <1>2 DEF Undoable
<1>4. /\ sem'["server"] = sem["server"] /\ sem["client"] > 0
      /\ sem'["client"] = sem["client"] - 1
      /\ sem'["kill"] = sem["kill"] /\ adj'["server"]["client"] = sent
      /\ adj'["server"]["server"] = adj["server"]["server"]
      /\ adj'["server"]["kill"] = adj["server"]["kill"]
      /\ adj'[own] = adj[own] /\ ~ removed'
  <2>1. sem["client"] + (-1) >= 0 /\ sem'["client"] = sem["client"] + (-1)
    BY <1>0, <1>1, <1>2, <1>3, SemopFacts
  <2>2. sem["client"] \in Nat
    BY <1>0 DEF PlainType
  <2> QED
    BY <1>0, <1>1, <1>2, <1>3, <2>1, <2>2, SemopFacts
<1>5. client[own] # "gone"
  BY <1>0, <1>1, <1>4 DEF Inv, ClientInv
<1>6. /\ Given /\ adj[own]["server"] = sent /\ adj[own]["client"] = - sent /\ shown = sent
  BY <1>0, <1>1, <1>4, <1>5 DEF Inv, ClientInv, WaitInv, Offered, Taken, Given
<1>7. ServerInv'
  BY <1>0, <1>1, <1>4 DEF Inv, ServerInv, Posts, Awaits
<1>8. ChunkInv'
  BY <1>1, <1>6 DEF ChunkInv
<1>9. ClientInv'
  BY <1>1, <1>4, <1>5, <1>6 DEF ClientInv, Given, Awaits
<1> QED
  BY <1>7, <1>8, <1>9 DEF Inv

\* The server says that it quits ...
LEMMA RaiseKillStep == ASSUME IInv, First, RaiseKill PROVE Inv'
<1>0. /\ PlainType /\ Inv /\ sent \in 0 .. AdjustMax /\ AdjustMax \in Nat
      /\ "server" \in Procs /\ own \in Procs /\ own # "server"
      /\ "server" \in Sems /\ "client" \in Sems /\ "kill" \in Sems
  BY FirstFacts DEF IInv
<1>1. /\ server = "kill" /\ server' = "wake" /\ Semop("server", "kill", 1)
      /\ UNCHANGED <<own, rest, sent, memory, client, shown>>
  BY DEF RaiseKill
<1>2. ~ removed /\ adj["server"]["kill"] = 0 /\ sem["kill"] = 0
  BY <1>0, <1>1 DEF Inv, ServerInv
<1>3. Undoable("server", "kill", 1)
  BY <1>0, <1>2 DEF Undoable
<1>4. /\ sem'["server"] = sem["server"] /\ sem'["client"] = sem["client"]
      /\ sem'["kill"] = 1 /\ adj'["server"]["kill"] = -1
      /\ adj'["server"]["server"] = adj["server"]["server"]
      /\ adj'["server"]["client"] = adj["server"]["client"]
      /\ adj'[own] = adj[own] /\ ~ removed'
  BY <1>0, <1>1, <1>2, <1>3, SemopFacts
<1>5. ServerInv'
  BY <1>0, <1>1, <1>4 DEF Inv, ServerInv, Posts, Awaits
<1>6. ChunkInv'
  BY <1>0, <1>1 DEF Inv, ChunkInv
<1>7. ClientInv'
  BY <1>0, <1>1, <1>4 DEF Inv, ClientInv, Awaits
<1> QED
  BY <1>5, <1>6, <1>7 DEF Inv

\* ... wakes the client ...
LEMMA WakeClientStep == ASSUME IInv, First, WakeClient PROVE Inv'
<1>0. /\ PlainType /\ Inv /\ sent \in 0 .. AdjustMax /\ AdjustMax \in Nat
      /\ "server" \in Procs /\ own \in Procs /\ own # "server"
      /\ "server" \in Sems /\ "client" \in Sems /\ "kill" \in Sems
  BY FirstFacts DEF IInv
<1>1. /\ server = "wake" /\ server' = "join" /\ Semop("server", "server", 1)
      /\ UNCHANGED <<own, rest, sent, memory, client, shown>>
  BY DEF WakeClient
<1>2. ~ removed /\ adj["server"]["server"] = - sent
  BY <1>0, <1>1 DEF Inv, ServerInv, Posts
<1>3. Undoable("server", "server", 1)
  BY <1>0, <1>2 DEF Undoable
<1>4. /\ sem'["client"] = sem["client"]
      /\ sem'["kill"] = sem["kill"] /\ adj'["server"]["server"] = - sent - 1
      /\ adj'["server"]["client"] = adj["server"]["client"]
      /\ adj'["server"]["kill"] = adj["server"]["kill"]
      /\ adj'[own] = adj[own] /\ ~ removed'
  BY <1>0, <1>1, <1>2, <1>3, SemopFacts
<1>5. ServerInv'
  BY <1>0, <1>1, <1>4 DEF Inv, ServerInv, Posts, Awaits
<1>6. ChunkInv'
  BY <1>0, <1>1 DEF Inv, ChunkInv
<1>7. ClientInv'
  BY <1>0, <1>1 DEF Inv, ClientInv
<1> QED
  BY <1>5, <1>6, <1>7 DEF Inv

\* ... and waits for its end.
LEMMA JoinClientStep == ASSUME IInv, First, JoinClient PROVE Inv'
<1>0. PlainType /\ Inv
  BY FirstFacts DEF IInv
<1>1. /\ server = "join" /\ server' = "end" /\ removed' = TRUE /\ client[own] = "gone"
      /\ UNCHANGED <<own, rest, sent, memory, client, shown, sem, adj>>
  BY DEF JoinClient
<1> QED
  BY <1>0, <1>1 DEF Inv, ServerInv, ChunkInv, ClientInv, Posts, Awaits

---------------------------------------------------------------------------
(***************************************************************************)
(* The first server's client.                                              *)
(***************************************************************************)
\* Whatever the client does, the server's part is as before.
LEMMA ServerUntouched ==
    ASSUME IInv, First,
           UNCHANGED <<server, own, rest, sent, memory, removed>>,
           sem'["kill"] = sem["kill"], adj'["server"] = adj["server"],
           adj'[own]["kill"] = 0, server # "end"
    PROVE  ServerInv'
  BY FirstFacts DEF Inv, ServerInv, Posts, Awaits

\* The client can take a turn only when one is offered.
LEMMA AwaitServerStep == ASSUME IInv, First, NEW c \in Clients, AwaitServer(c) PROVE Inv'
<1>0. /\ PlainType /\ Inv /\ sent \in 0 .. AdjustMax /\ AdjustMax \in Nat
      /\ "server" \in Procs /\ own \in Procs /\ own # "server"
      /\ "server" \in Sems /\ "client" \in Sems /\ "kill" \in Sems
  BY FirstFacts DEF IInv
<1>1. /\ c = own /\ client[own] = "wait" /\ client'[own] = "look"
      /\ Semop(own, "server", -1)
      /\ UNCHANGED <<server, own, rest, sent, memory, shown>>
  BY FirstFacts DEF AwaitServer, Goes, IInv, PlainType
<1>2. server # "end" /\ ~ removed
  BY <1>0, <1>1 DEF Inv, ServerInv
<1>3. sem["server"] > 0
  <2>1. sem["server"] + (-1) >= 0 /\ sem["server"] \in Nat
    BY <1>0, <1>1, <1>2 DEF Semop, PlainType
  <2> QED
    BY <2>1
<1>4. server \in {"wait", "join"}
  BY <1>0, <1>1, <1>3 DEF Inv, ClientInv
<1>5. ServerInv'
  <2>1. sem'["kill"] = sem["kill"] /\ adj'["server"] = adj["server"]
        /\ adj'[own]["kill"] = adj[own]["kill"] /\ removed' = removed
    BY <1>0, <1>1 DEF Semop, PlainType
  <2> QED
    BY <1>0, <1>1, <1>2, <2>1, ServerUntouched DEF Inv, ServerInv
<1>6. ChunkInv'
  BY <1>0, <1>1 DEF Inv, ChunkInv
<1>7. CASE server = "join"
  <2>1. ClientInv'
    BY <1>1, <1>7 DEF ClientInv
  <2> QED
    BY <1>5, <1>6, <2>1 DEF Inv
<1>8. CASE server = "wait"
  <2>1. Offered /\ adj[own]["server"] = sent - 1 /\ adj[own]["client"] = 1 - sent
        /\ shown = sent - 1 /\ sent > 0
    BY <1>0, <1>1, <1>3, <1>8 DEF Inv, ClientInv, WaitInv, Offered, Taken, Given, ChunkInv
  <2>2. Undoable(own, "server", -1)
    BY <1>0, <2>1 DEF Undoable
  <2>3. /\ sem'["server"] = sem["server"] + (-1) /\ sem'["client"] = sem["client"]
        /\ adj'[own]["server"] = adj[own]["server"] - (-1)
        /\ adj'[own]["client"] = adj[own]["client"]
    BY <1>0, <1>1, <1>2, <2>2, SemopFacts
  <2>4. /\ sem'["server"] = 0 /\ sem'["client"] = 0
        /\ adj'[own]["server"] = sent /\ adj'[own]["client"] = 1 - sent
    BY <1>0, <2>1, <2>3 DEF Offered
  <2>5. WaitInv'
    BY <1>1, <2>1, <2>4 DEF WaitInv, Offered, Taken, Given
  <2>6. ClientInv'
    BY <1>1, <1>8, <2>5 DEF ClientInv
  <2> QED
    BY <1>5, <1>6, <2>6 DEF Inv
<1> QED
  BY <1>4, <1>7, <1>8

\* A client that has taken its turn goes on or exits.
LEMMA TurnStep ==
    ASSUME IInv, First, NEW c \in Clients, Attach(c) \/ Show(c)
    PROVE  Inv'
<1>0. /\ PlainType /\ Inv /\ sent \in 0 .. AdjustMax /\ c = own
  BY FirstFacts DEF IInv, Attach, Show, Goes
<1>1. /\ \/ client[own] = "look" /\ client'[own] = "show" /\ shown' = shown /\ Attach(c)
         \/ client[own] = "show" /\ client'[own] = "post" /\ Show(c)
      /\ UNCHANGED <<server, own, rest, sent, memory, set>>
  BY <1>0 DEF Attach, Show, Goes, PlainType
<1>2. server = "wait"
  BY <1>0, <1>1 DEF Inv, ClientInv, ServerInv, Attach
<1>3. /\ Taken /\ adj[own]["server"] = sent /\ adj[own]["client"] = 1 - sent
      /\ shown = sent - 1 /\ memory = sent /\ sent > 0 /\ sent <= MaxSent
  BY <1>0, <1>1, <1>2 DEF Inv, ClientInv, WaitInv, Offered, Taken, Given, ChunkInv, PlainType
<1>4. \/ client'[own] = "show" /\ shown' = sent - 1
      \/ client'[own] = "post" /\ shown' = sent
  <2>1. memory \in 1 .. MaxSent
    BY <1>0, <1>3 DEF PlainType
  <2>2. Show(c) => shown' = sent
    BY <1>3, <2>1 DEF Show
  <2> QED
    BY <1>1, <1>3, <2>2
<1>5. ServerInv'
  BY <1>0, <1>1, <1>2, ServerUntouched DEF Inv, ServerInv, set
<1>6. ChunkInv'
  BY <1>0, <1>1, <1>2, <1>3, <1>4 DEF ChunkInv
<1>7. WaitInv'
  BY <1>0, <1>1, <1>3, <1>4 DEF WaitInv, Offered, Taken, Given, set
<1>8. ClientInv'
  BY <1>1, <1>2, <1>4, <1>7 DEF ClientInv
<1> QED
  BY <1>5, <1>6, <1>8 DEF Inv

\* The client gives the turn back.
LEMMA TellServerStep == ASSUME IInv, First, NEW c \in Clients, TellServer(c) PROVE Inv'
<1>0. /\ PlainType /\ Inv /\ sent \in 0 .. AdjustMax /\ AdjustMax \in Nat
      /\ "server" \in Procs /\ own \in Procs /\ own # "server"
      /\ "server" \in Sems /\ "client" \in Sems /\ "kill" \in Sems
  BY FirstFacts DEF IInv
<1>1. /\ c = own /\ client[own] = "post" /\ client'[own] = "wait"
      /\ Semop(own, "client", 1)
      /\ UNCHANGED <<server, own, rest, sent, memory, shown>>
  BY FirstFacts DEF TellServer, Goes, IInv, PlainType
<1>2. server = "wait" /\ ~ removed
  BY <1>0, <1>1 DEF Inv, ClientInv, ServerInv
<1>3. /\ Taken /\ adj[own]["server"] = sent /\ adj[own]["client"] = 1 - sent
      /\ shown = sent /\ memory = sent /\ sent > 0
  BY <1>0, <1>1, <1>2 DEF Inv, ClientInv, WaitInv, Offered, Taken, Given, ChunkInv
<1>4. Undoable(own, "client", 1)
  BY <1>0, <1>3 DEF Undoable
<1>5. /\ sem'["server"] = sem["server"] /\ sem'["client"] = sem["client"] + 1
      /\ sem'["kill"] = sem["kill"]
      /\ adj'[own]["server"] = adj[own]["server"]
      /\ adj'[own]["client"] = adj[own]["client"] - 1
      /\ adj'[own]["kill"] = adj[own]["kill"]
      /\ adj'["server"] = adj["server"] /\ removed' = removed
  BY <1>0, <1>1, <1>2, <1>4, SemopFacts, SemopType
<1>6. /\ sem'["server"] = 0 /\ sem'["client"] = 1
      /\ adj'[own]["server"] = sent /\ adj'[own]["client"] = - sent
  BY <1>0, <1>3, <1>5 DEF Taken
<1>7. ServerInv'
  BY <1>0, <1>1, <1>2, <1>5, ServerUntouched DEF Inv, ServerInv
<1>8. ChunkInv'
  BY <1>0, <1>1 DEF Inv, ChunkInv
<1>9. WaitInv'
  BY <1>1, <1>3, <1>6 DEF WaitInv, Offered, Taken, Given
<1>10. ClientInv'
  BY <1>1, <1>2, <1>9 DEF ClientInv
<1> QED
  BY <1>7, <1>8, <1>10 DEF Inv

\* The client exits or is killed: what it gave the server is taken back.
LEMMA ClientGoneStep ==
    ASSUME IInv, First, NEW c \in Clients, SeeKill(c) \/ ClientEnds(c)
    PROVE  Inv'
<1>0. /\ PlainType /\ Inv /\ sent \in 0 .. AdjustMax /\ AdjustMax \in Nat
      /\ "server" \in Procs /\ own \in Procs /\ own # "server"
      /\ "server" \in Sems /\ "client" \in Sems /\ "kill" \in Sems
  BY FirstFacts DEF IInv
<1>1. /\ c = own /\ client[own] # "gone" /\ client'[own] = "gone"
      /\ UNCHANGED <<server, own, rest, sent, memory, shown, removed>>
  BY FirstFacts DEF SeeKill, ClientEnds, Goes, IInv, PlainType
<1>2. server # "end" /\ ~ removed
  BY <1>0, <1>1 DEF Inv, ServerInv
<1>3. Undo(own)
  BY <1>1, <1>2 DEF SeeKill, ClientEnds
<1>4. /\ \A s \in Sems : sem'[s] = IF sem[s] + adj[own][s] > 0 THEN sem[s] + adj[own][s] ELSE 0
      /\ \A s \in Sems : adj'[own][s] = 0
      /\ adj'["server"] = adj["server"]
  BY <1>0, <1>3, UndoFacts
<1>5. ServerInv'
  <2>1. adj[own]["kill"] = 0 /\ sem["kill"] \in {0, 1}
    BY <1>0 DEF Inv, ServerInv
  <2>2. sem'["kill"] = sem["kill"]
    BY <1>0, <1>4, <2>1
  <2> QED
    BY <1>0, <1>1, <1>2, <1>4, <2>2, ServerUntouched
<1>6. ChunkInv'
  BY <1>0, <1>1 DEF Inv, ChunkInv
<1>7. server # "join" => sem["client"] + adj[own]["client"] <= 0
  <2>1. server = "wait" => sem["client"] + adj[own]["client"] <= 0
    BY <1>0, <1>1 DEF Inv, ClientInv, WaitInv, Offered, Taken, Given, ChunkInv
  <2>2. server \notin {"wait", "join"} => sem["client"] = 0 /\ adj[own]["client"] = - Awaits
    BY <1>0, <1>1 DEF Inv, ClientInv
  <2>3. server \notin {"wait", "join"} => Awaits \in Nat
    BY <1>0 DEF Inv, ChunkInv, Awaits
  <2> QED
    BY <2>1, <2>2, <2>3
<1>8. server # "join" => sem'["client"] = 0
  <2>1. sem["client"] \in Int /\ adj[own]["client"] \in Int
    BY <1>0 DEF PlainType
  <2> QED
    BY <1>0, <1>4, <1>7, <2>1
<1>9. ClientInv'
  BY <1>1, <1>8 DEF ClientInv
<1> QED
  BY <1>5, <1>6, <1>9 DEF Inv

---------------------------------------------------------------------------
\* Nothing happens.
LEMMA StutterStep == ASSUME IInv, First, UNCHANGED vars PROVE Inv'
<1>1. Inv
  BY FirstFacts
<1> QED
  BY <1>1 DEF vars, Inv, ServerInv, ChunkInv, ClientInv, WaitInv, Offered, Taken, Given,
              Posts, Awaits

\* The invariant holds in every reachable state.
THEOREM Invariance == Spec => []IInv
<1>1. ASSUME IInv, [Next]_vars PROVE IInv'
  <2>1. PlainType' /\ (own \in Born)'
    BY <1>1, PlainTypeStep, FirstBefore DEF IInv
  <2>2. ASSUME First' PROVE Inv'
    <3>1. First
      BY <1>1, <2>2, FirstBefore DEF IInv
    <3>2. ~ ServerDies /\ ~ StartAgain
      BY <2>2, <3>1 DEF First, ServerDies, StartAgain
    <3>3. CASE UNCHANGED vars
      BY <1>1, <3>1, <3>3, StutterStep
    <3>4. CASE Server \/ User
      BY <1>1, <3>1, <3>4, QuietServerStep, TellClientStep, AwaitClientStep, RaiseKillStep,
         WakeClientStep, JoinClientStep DEF Server, User
    <3>5. ASSUME NEW c \in Clients, Client(c) \/ ClientEnds(c) PROVE Inv'
      BY <1>1, <3>1, <3>5, AwaitServerStep, TurnStep, TellServerStep, ClientGoneStep
         DEF Client
    <3> QED
      BY <1>1, <3>2, <3>3, <3>4, <3>5 DEF Next, Faults
  <2> QED
    BY <2>1, <2>2 DEF IInv, FirstInv, Inv
<1> QED
  BY InitIInv, <1>1, PTL DEF Spec

\* For any number of clients and any limit: a chunk in the segment is not
\* overwritten before the client has printed it, whenever that client is killed.
THEOREM ChunksIntact == Spec => []UnreadIsIntact
<1>1. IInv => UnreadIsIntact
  <2>1. ASSUME IInv, Fresh, shown < sent PROVE memory = sent
    <3>1. First
      BY <2>1, FreshIsFirst DEF IInv
    <3>2. ChunkInv /\ sent \in Nat
      BY <2>1, <3>1 DEF IInv, FirstInv, PlainType
    <3> QED
      BY <2>1, <3>2 DEF ChunkInv
  <2> QED
    BY <2>1 DEF UnreadIsIntact
<1> QED
  BY Invariance, <1>1, PTL

\* The client prints the chunks one after the other, none twice and none torn.
THEOREM ChunksInOrder == Spec => ShownOnceInOrder
<1>1. ASSUME IInv, [Next]_vars
      PROVE  [\A c \in Clients :
                Fresh /\ client[c] = "show" /\ client'[c] = "post" => memory = shown + 1]_vars
  <2>1. ASSUME NEW c \in Clients, Fresh, client[c] = "show" PROVE memory = shown + 1
    <3>1. First
      BY <1>1, <2>1, FreshIsFirst DEF IInv
    <3>2. c = own /\ Inv /\ sent \in Nat
      BY <1>1, <2>1, <3>1, FirstFacts
    <3>3. server = "wait"
      BY <2>1, <3>2 DEF Inv, ClientInv, ServerInv
    <3>4. shown = sent - 1 /\ memory = sent
      BY <2>1, <3>2, <3>3 DEF Inv, ClientInv, WaitInv, ChunkInv
    <3> QED
      BY <3>2, <3>4
  <2> QED
    BY <2>1
<1> QED
  BY Invariance, <1>1, PTL DEF Spec, ShownOnceInOrder

---------------------------------------------------------------------------
(***************************************************************************)
(* How far a semaphore can be raised.  SEM_UNDO keeps, for every process,  *)
(* what it owes the set, and that has a limit: a semaphore is never above  *)
(* what the processes that raise it owe or once owed.                      *)
(***************************************************************************)
\* The rises of the client semaphore, one pair for each: what a client that lives
\* owes, and all that one which ended can ever have done.
Raised ==
    {rise \in Clients \X (1 .. AdjustMax + 1) :
        client[rise[1]] = "gone" \/ rise[2] <= - adj[rise[1]]["client"]}

\* The turns that clients have taken and that are given back if they end.
Turns ==
    {turn \in Clients \X (1 .. AdjustMax + 1) : turn[2] <= adj[turn[1]]["server"]}

Signs ==
    /\ adj \in [Procs -> [Sems -> -(AdjustMax + 1) .. AdjustMax]]
    /\ \A c \in Clients : /\ adj[c]["server"] >= 0 /\ adj[c]["client"] <= 0
                          /\ adj[c]["kill"] = 0
    /\ adj["server"]["server"] <= 0 /\ adj["server"]["client"] >= 0
    /\ adj["server"]["kill"] <= 0

Killed == sem["kill"] <= IF server \in {"wake", "join", "end", "dead"} THEN 1 ELSE 0
Answers == sem["client"] + adj["server"]["client"] <= Cardinality(Raised)
Offers == sem["server"] + Cardinality(Turns)
            <= IF server = "dead" THEN AdjustMax + 1 ELSE - adj["server"]["server"]

Limits == Signs /\ Killed /\ Answers /\ Offers

---------------------------------------------------------------------------
\* Pairs of a client and a number up to the limit are finitely many.
LEMMA FewPairs ==
    ASSUME NEW R \in SUBSET (Clients \X (1 .. AdjustMax + 1))
    PROVE  /\ IsFiniteSet(R) /\ Cardinality(R) \in Nat /\ Cardinality(Clients) \in Nat
           /\ Cardinality(R) <= Cardinality(Clients) * (AdjustMax + 1)
<1> DEFINE All == Clients \X (1 .. AdjustMax + 1)
<1>1. IsFiniteSet(1 .. AdjustMax + 1) /\ Cardinality(1 .. AdjustMax + 1) = AdjustMax + 1
  <2>1. AdjustMax + 1 \in Int /\ 1 \in Int /\ ~ (1 > AdjustMax + 1)
    BY ChannelAssumption
  <2>2. AdjustMax + 1 - 1 + 1 = AdjustMax + 1
    BY ChannelAssumption
  <2> QED
    BY <2>1, <2>2, FS_Interval
<1>2. IsFiniteSet(All) /\ Cardinality(All) = Cardinality(Clients) * (AdjustMax + 1)
  BY <1>1, ChannelAssumption, FS_Product
<1>3. R \in SUBSET All
  OBVIOUS
<1> HIDE DEF All
<1>4. IsFiniteSet(R) /\ Cardinality(R) <= Cardinality(All)
  BY <1>2, <1>3, FS_Subset
<1> QED
  BY <1>2, <1>4, ChannelAssumption, FS_CardinalityType

\* Rises and turns are such pairs.
LEMMA RisesArePairs ==
    /\ Raised \in SUBSET (Clients \X (1 .. AdjustMax + 1))
    /\ Raised' \in SUBSET (Clients \X (1 .. AdjustMax + 1))
    /\ Turns \in SUBSET (Clients \X (1 .. AdjustMax + 1))
    /\ Turns' \in SUBSET (Clients \X (1 .. AdjustMax + 1))
  BY DEF Raised, Turns

\* A semop changes one semaphore and one adjustment within its limits, or nothing.
LEMMA SemopWithin ==
    ASSUME PlainType, NEW p \in Procs, NEW s \in Sems, NEW d \in Int, Semop(p, s, d)
    PROVE  \/ UNCHANGED <<sem, adj>>
           \/ /\ sem[s] + d >= 0 /\ sem'[s] = sem[s] + d
              /\ \A r \in Sems \ {s} : sem'[r] = sem[r]
              /\ adj'[p][s] = adj[p][s] - d
              /\ \A r \in Sems \ {s} : adj'[p][r] = adj[p][r]
              /\ \A q \in Procs \ {p} : adj'[q] = adj[q]
              /\ adj'[p][s] \in -(AdjustMax + 1) .. AdjustMax
<1>1. CASE ~ removed /\ Undoable(p, s, d)
  BY <1>1, SemopFacts DEF Undoable
<1> QED
  BY <1>1 DEF Semop

\* An adjustment that is within the limit stays a function of that kind.
LEMMA AdjustWithin ==
    ASSUME PlainType, PlainType', Signs, NEW p \in Procs,
           \A q \in Procs \ {p} : adj'[q] = adj[q],
           \A r \in Sems : adj'[p][r] \in -(AdjustMax + 1) .. AdjustMax
    PROVE  adj' \in [Procs -> [Sems -> -(AdjustMax + 1) .. AdjustMax]]
<1>1. \A q \in Procs : adj'[q] \in [Sems -> Int]
  BY DEF PlainType
<1>2. adj'[p] \in [Sems -> -(AdjustMax + 1) .. AdjustMax]
  BY <1>1
<1>3. \A q \in Procs \ {p} : adj'[q] \in [Sems -> -(AdjustMax + 1) .. AdjustMax]
  BY DEF Signs
<1>4. \A q \in Procs : adj'[q] \in [Sems -> -(AdjustMax + 1) .. AdjustMax]
  BY <1>2, <1>3
<1> QED
  BY <1>4 DEF PlainType

---------------------------------------------------------------------------
\* The first run, and every later one: nobody owes the set anything.
LEMMA ZeroLimits ==
    PlainType /\ sem = Zero /\ adj = [p \in Procs |-> Zero] => Limits
<1> SUFFICES ASSUME PlainType, sem = Zero, adj = [p \in Procs |-> Zero]
             PROVE  Limits
  OBVIOUS
<1>1. \A s \in Sems : sem[s] = 0 /\ \A p \in Procs : adj[p][s] = 0
  BY DEF Zero
<1>2. "server" \in Procs /\ Clients \subseteq Procs
      /\ "server" \in Sems /\ "client" \in Sems /\ "kill" \in Sems
  BY DEF Procs, Sems
<1>3. Signs
  <2>1. Zero \in [Sems -> -(AdjustMax + 1) .. AdjustMax]
    BY ChannelAssumption DEF Zero
  <2>2. adj \in [Procs -> [Sems -> -(AdjustMax + 1) .. AdjustMax]]
    BY <2>1
  <2> QED
    BY <1>1, <1>2, <2>2 DEF Signs
<1>4. Turns = {}
  BY <1>1, <1>2 DEF Turns
<1>5. Cardinality(Turns) = 0 /\ Cardinality(Raised) >= 0
  BY <1>4, FS_EmptySet, RisesArePairs, FewPairs
<1> QED
  BY <1>1, <1>2, <1>3, <1>5, ChannelAssumption DEF Limits, Killed, Answers, Offers

\* A step that leaves the set alone, and in which no client comes back to life.
LEMMA LimitsUntouched ==
    ASSUME PlainType, PlainType', Limits, UNCHANGED <<sem, adj>>,
           \A c \in Clients : client[c] = "gone" => client'[c] = "gone",
           server' = "dead" <=> server = "dead",
           server \in {"wake", "join", "end"} => server' \in {"wake", "join", "end"}
    PROVE  Limits'
<1>1. Raised \in SUBSET Raised' /\ Turns' = Turns
  BY DEF Raised, Turns
<1>3. /\ IsFiniteSet(Raised')
      /\ Cardinality(Raised) \in Nat /\ Cardinality(Raised') \in Nat
  BY RisesArePairs, FewPairs
<1>2. Cardinality(Raised) <= Cardinality(Raised')
  BY <1>1, <1>3, FS_Subset
<1>4. Signs' /\ Killed'
  <2>1. Signs'
    BY DEF Limits, Signs
  <2>2. sem["kill"] \in Nat
    BY DEF PlainType, Sems
  <2> QED
    BY <2>1, <2>2 DEF Limits, Killed
<1>5. sem["client"] \in Nat /\ adj["server"]["client"] \in Int
  BY DEF PlainType, Procs, Sems
<1>6. Answers'
  BY <1>2, <1>3, <1>5 DEF Limits, Answers
<1>7. Offers'
  BY <1>1 DEF Limits, Offers
<1> QED
  BY <1>4, <1>6, <1>7 DEF Limits

\* The server raises its semaphore or the one for the exit, or takes an answer.
LEMMA ServerSemop ==
    ASSUME PlainType, PlainType', Limits, client' = client,
           server \notin {"dead"}, server' # "dead",
           \/ Semop("server", "server", 1)
           \/ Semop("server", "client", -1)
           \/ Semop("server", "kill", 1) /\ server = "kill" /\ server' = "wake",
           server \in {"wake", "join", "end"} => server' \in {"wake", "join", "end"}
    PROVE  Limits'
<1>0. "server" \in Procs /\ Clients \subseteq Procs /\ "server" \notin Clients
      /\ "server" \in Sems /\ "client" \in Sems /\ "kill" \in Sems
      /\ Sems = {"server", "client", "kill"}
  BY ChannelAssumption DEF Procs, Sems
<1>1. CASE UNCHANGED <<sem, adj>>
  BY <1>1, LimitsUntouched
<1>2. CASE \E s \in Sems : \E d \in {-1, 1} :
             /\ <<s, d>> \in {<<"server", 1>>, <<"client", -1>>, <<"kill", 1>>}
             /\ s = "kill" => server = "kill" /\ server' = "wake"
             /\ sem'[s] = sem[s] + d
             /\ \A r \in Sems \ {s} : sem'[r] = sem[r]
             /\ adj'["server"][s] = adj["server"][s] - d
             /\ \A r \in Sems \ {s} : adj'["server"][r] = adj["server"][r]
             /\ \A q \in Procs \ {"server"} : adj'[q] = adj[q]
             /\ adj'["server"][s] \in -(AdjustMax + 1) .. AdjustMax
  <2>1. PICK s \in Sems, d \in {-1, 1} :
             /\ <<s, d>> \in {<<"server", 1>>, <<"client", -1>>, <<"kill", 1>>}
             /\ s = "kill" => server = "kill" /\ server' = "wake"
             /\ sem'[s] = sem[s] + d
             /\ \A r \in Sems \ {s} : sem'[r] = sem[r]
             /\ adj'["server"][s] = adj["server"][s] - d
             /\ \A r \in Sems \ {s} : adj'["server"][r] = adj["server"][r]
             /\ \A q \in Procs \ {"server"} : adj'[q] = adj[q]
             /\ adj'["server"][s] \in -(AdjustMax + 1) .. AdjustMax
    BY <1>2
  <2>2. \A c \in Clients : adj'[c] = adj[c]
    BY <1>0, <2>1
  <2>3. Raised' = Raised /\ Turns' = Turns
    BY <2>2 DEF Raised, Turns
  <2>4. \A r \in Sems : sem[r] \in Nat /\ sem'[r] \in Nat
                        /\ adj["server"][r] \in -(AdjustMax + 1) .. AdjustMax
    BY <1>0 DEF Limits, Signs, PlainType
  <2>5. \A r \in Sems : adj'["server"][r] \in -(AdjustMax + 1) .. AdjustMax
    BY <2>1, <2>4
  <2>6. adj' \in [Procs -> [Sems -> -(AdjustMax + 1) .. AdjustMax]]
    BY <1>0, <2>1, <2>5, AdjustWithin DEF Limits
  <2>7. Cardinality(Raised) \in Nat /\ Cardinality(Turns) \in Nat
    BY RisesArePairs, FewPairs
  <2>8. \/ s = "server" /\ d = 1
        \/ s = "client" /\ d = -1
        \/ s = "kill" /\ d = 1
    BY <2>1
  <2>9. Signs'
    BY <1>0, <2>1, <2>2, <2>4, <2>6, <2>8 DEF Limits, Signs
  <2>10. Killed'
    BY <1>0, <2>1, <2>4, <2>8 DEF Limits, Killed
  <2>11. Answers'
    BY <1>0, <2>1, <2>3, <2>4, <2>7, <2>8 DEF Limits, Answers
  <2>12. Offers'
    BY <1>0, <2>1, <2>3, <2>4, <2>7, <2>8 DEF Limits, Offers
  <2> QED
    BY <2>9, <2>10, <2>11, <2>12 DEF Limits
<1>3. CASE Semop("server", "server", 1)
  BY <1>0, <1>1, <1>2, <1>3, SemopWithin
<1>4. CASE Semop("server", "client", -1)
  BY <1>0, <1>1, <1>2, <1>4, SemopWithin
<1>5. CASE Semop("server", "kill", 1) /\ server = "kill" /\ server' = "wake"
  BY <1>0, <1>1, <1>2, <1>5, SemopWithin
<1> QED
  BY <1>3, <1>4, <1>5

\* A client takes a turn: it owes one more of what it has taken.
LEMMA TakesTurn ==
    ASSUME PlainType, PlainType', Limits, NEW c \in Clients, AwaitServer(c)
    PROVE  Limits'
<1>0. "server" \in Procs /\ Clients \subseteq Procs /\ c # "server"
      /\ "server" \in Sems /\ "client" \in Sems /\ "kill" \in Sems
      /\ Sems = {"server", "client", "kill"}
  BY ChannelAssumption DEF Procs, Sems
<1>1. /\ Semop(c, "server", -1) /\ server' = server
      /\ client[c] = "wait" /\ client' = [client EXCEPT ![c] = "look"]
  BY DEF AwaitServer, Goes
<1>2. CASE UNCHANGED <<sem, adj>>
  BY <1>1, <1>2, LimitsUntouched DEF PlainType
<1>3. CASE /\ sem'["server"] = sem["server"] - 1
           /\ \A r \in Sems \ {"server"} : sem'[r] = sem[r]
           /\ adj'[c]["server"] = adj[c]["server"] + 1
           /\ \A r \in Sems \ {"server"} : adj'[c][r] = adj[c][r]
           /\ \A q \in Procs \ {c} : adj'[q] = adj[q]
           /\ adj'[c]["server"] \in -(AdjustMax + 1) .. AdjustMax
  <2>1. /\ \A r \in Sems : sem[r] \in Nat /\ sem'[r] \in Nat
        /\ \A p \in Procs, r \in Sems : adj[p][r] \in -(AdjustMax + 1) .. AdjustMax
    BY <1>0 DEF Limits, Signs, PlainType
  <2>2. \A r \in Sems : adj'[c][r] \in -(AdjustMax + 1) .. AdjustMax
    BY <1>0, <1>3, <2>1
  <2>3. adj' \in [Procs -> [Sems -> -(AdjustMax + 1) .. AdjustMax]]
    BY <1>0, <1>3, <2>2, AdjustWithin DEF Limits
  <2>4. Signs'
    <3>1. adj'["server"] = adj["server"]
      BY <1>0, <1>3
    <3>2. adj'[c]["server"] >= 0
      BY <1>0, <1>3, <2>1, ChannelAssumption DEF Limits, Signs
    <3>3. \A d \in Clients : /\ adj'[d]["server"] >= 0 /\ adj'[d]["client"] <= 0
                             /\ adj'[d]["kill"] = 0
      BY <1>0, <1>3, <3>2 DEF Limits, Signs
    <3> QED
      BY <2>3, <3>1, <3>3 DEF Limits, Signs
  <2>5. Killed'
    BY <1>0, <1>1, <1>3 DEF Limits, Killed
  <2>6. Answers'
    <3>1. Raised' = Raised
      <4>1. \A d \in Clients : /\ client'[d] = "gone" <=> client[d] = "gone"
                               /\ adj'[d]["client"] = adj[d]["client"]
        BY <1>0, <1>1, <1>3 DEF PlainType
      <4> QED
        BY <4>1 DEF Raised
    <3> QED
      BY <1>0, <1>3, <3>1 DEF Limits, Answers
  <2>7. Offers'
    <3> DEFINE turn == <<c, adj[c]["server"] + 1>>
    <3>1. Turns' \in SUBSET (Turns \cup {turn})
      <4>1. ASSUME NEW t \in Clients \X (1 .. AdjustMax + 1), t[2] <= adj'[t[1]]["server"]
            PROVE  t[2] <= adj[t[1]]["server"] \/ t = turn
        <5>1. CASE t[1] = c
          BY <1>0, <1>3, <2>1, <4>1, <5>1, ChannelAssumption
        <5>2. CASE t[1] # c
          BY <1>0, <1>3, <4>1, <5>2
        <5> QED
          BY <5>1, <5>2
      <4> QED
        BY <4>1 DEF Turns
    <3>2. IsFiniteSet(Turns) /\ Cardinality(Turns) \in Nat /\ Cardinality(Turns') \in Nat
      BY RisesArePairs, FewPairs
    <3>3. IsFiniteSet(Turns \cup {turn})
          /\ Cardinality(Turns \cup {turn}) <= Cardinality(Turns) + 1
      <4> HIDE DEF turn
      <4>1. /\ IsFiniteSet(Turns \cup {turn})
            /\ Cardinality(Turns \cup {turn}) =
                 IF turn \in Turns THEN Cardinality(Turns) ELSE Cardinality(Turns) + 1
        BY <3>2, FS_AddElement
      <4> QED
        BY <3>2, <4>1
    <3>4. Cardinality(Turns') <= Cardinality(Turns \cup {turn})
      BY <3>1, <3>3, FS_Subset
    <3>5. Cardinality(Turns \cup {turn}) \in Nat
      BY <3>3, FS_CardinalityType
    <3>6. Cardinality(Turns') <= Cardinality(Turns) + 1
      BY <3>2, <3>3, <3>4, <3>5
    <3> QED
      BY <1>0, <1>1, <1>3, <2>1, <3>2, <3>6, ChannelAssumption DEF Limits, Offers
  <2> QED
    BY <2>4, <2>5, <2>6, <2>7 DEF Limits
<1> QED
  <2>1. -1 \in Int /\ c \in Procs /\ "server" \in Sems
    BY <1>0
  <2>2. /\ sem["server"] \in Nat /\ adj[c]["server"] \in Int
    BY <1>0 DEF PlainType
  <2> QED
    BY <1>1, <1>2, <1>3, <2>1, <2>2, SemopWithin

\* A client tells the server: that is a rise that it owes.
LEMMA GivesAnswer ==
    ASSUME PlainType, PlainType', Limits, NEW c \in Clients, TellServer(c)
    PROVE  Limits'
<1>0. "server" \in Procs /\ Clients \subseteq Procs /\ c # "server"
      /\ "server" \in Sems /\ "client" \in Sems /\ "kill" \in Sems
      /\ Sems = {"server", "client", "kill"}
  BY ChannelAssumption DEF Procs, Sems
<1>1. /\ Semop(c, "client", 1) /\ server' = server
      /\ client[c] = "post" /\ client' = [client EXCEPT ![c] = "wait"]
  BY DEF TellServer, Goes
<1>2. CASE UNCHANGED <<sem, adj>>
  BY <1>1, <1>2, LimitsUntouched DEF PlainType
<1>3. CASE /\ sem'["client"] = sem["client"] + 1
           /\ \A r \in Sems \ {"client"} : sem'[r] = sem[r]
           /\ adj'[c]["client"] = adj[c]["client"] - 1
           /\ \A r \in Sems \ {"client"} : adj'[c][r] = adj[c][r]
           /\ \A q \in Procs \ {c} : adj'[q] = adj[q]
           /\ adj'[c]["client"] \in -(AdjustMax + 1) .. AdjustMax
  <2>1. /\ \A r \in Sems : sem[r] \in Nat /\ sem'[r] \in Nat
        /\ \A p \in Procs, r \in Sems : adj[p][r] \in -(AdjustMax + 1) .. AdjustMax
    BY <1>0 DEF Limits, Signs, PlainType
  <2>2. \A r \in Sems : adj'[c][r] \in -(AdjustMax + 1) .. AdjustMax
    BY <1>0, <1>3, <2>1
  <2>3. adj' \in [Procs -> [Sems -> -(AdjustMax + 1) .. AdjustMax]]
    BY <1>0, <1>3, <2>2, AdjustWithin DEF Limits
  <2>4. Signs'
    <3>1. adj'["server"] = adj["server"]
      BY <1>0, <1>3
    <3>2. adj'[c]["client"] <= 0
      BY <1>0, <1>3, <2>1, ChannelAssumption DEF Limits, Signs
    <3>3. \A d \in Clients : /\ adj'[d]["server"] >= 0 /\ adj'[d]["client"] <= 0
                             /\ adj'[d]["kill"] = 0
      BY <1>0, <1>3, <3>2 DEF Limits, Signs
    <3> QED
      BY <2>3, <3>1, <3>3 DEF Limits, Signs
  <2>5. Killed'
    BY <1>0, <1>1, <1>3 DEF Limits, Killed
  <2>6. Offers'
    <3>1. Turns' = Turns
      <4>1. \A d \in Clients : adj'[d]["server"] = adj[d]["server"]
        BY <1>0, <1>3
      <4> QED
        BY <4>1 DEF Turns
    <3> QED
      BY <1>0, <1>1, <1>3, <3>1 DEF Limits, Offers
  <2>7. Answers'
    <3> DEFINE rise == <<c, 1 - adj[c]["client"]>>
    <3>1. rise \in Clients \X (1 .. AdjustMax + 1) /\ rise[1] = c
          /\ rise[2] = - adj'[c]["client"]
      <4>1. adj[c]["client"] \in -(AdjustMax + 1) .. AdjustMax /\ adj[c]["client"] <= 0
        BY <1>0, <2>1 DEF Limits, Signs
      <4>2. 1 - adj[c]["client"] = - adj'[c]["client"]
        BY <1>3, <4>1, ChannelAssumption
      <4>3. - adj'[c]["client"] \in 1 .. AdjustMax + 1
        BY <1>3, <4>1, ChannelAssumption
      <4> QED
        BY <4>2, <4>3
    <3>2. rise \notin Raised
      BY <1>0, <1>1, <2>1, <3>1 DEF Raised
    <3>3. Raised \cup {rise} \in SUBSET Raised'
      <4>1. rise \in Raised'
        BY <1>0, <1>3, <2>1, <3>1 DEF Raised
      <4>2. ASSUME NEW r \in Clients \X (1 .. AdjustMax + 1),
                   client[r[1]] = "gone" \/ r[2] <= - adj[r[1]]["client"]
            PROVE  client'[r[1]] = "gone" \/ r[2] <= - adj'[r[1]]["client"]
        <5>1. CASE r[1] = c
          BY <1>0, <1>1, <1>3, <2>1, <4>2, <5>1
        <5>2. CASE r[1] # c
          BY <1>0, <1>1, <1>3, <4>2, <5>2 DEF PlainType
        <5> QED
          BY <5>1, <5>2
      <4> QED
        BY <4>1, <4>2 DEF Raised
    <3>4. /\ IsFiniteSet(Raised) /\ IsFiniteSet(Raised')
          /\ Cardinality(Raised) \in Nat /\ Cardinality(Raised') \in Nat
      BY RisesArePairs, FewPairs
    <3>5. Cardinality(Raised \cup {rise}) = Cardinality(Raised) + 1
      BY <3>2, <3>4, FS_AddElement
    <3>6. Cardinality(Raised \cup {rise}) <= Cardinality(Raised')
      BY <3>3, <3>4, FS_Subset
    <3>7. adj'["server"]["client"] = adj["server"]["client"]
      BY <1>0, <1>3
    <3> QED
      BY <1>0, <1>3, <2>1, <3>4, <3>5, <3>6, <3>7 DEF Limits, Answers
  <2> QED
    BY <2>4, <2>5, <2>6, <2>7 DEF Limits
<1> QED
  <2>1. 1 \in Int /\ c \in Procs /\ "client" \in Sems
    BY <1>0
  <2> QED
    BY <1>1, <1>2, <1>3, <2>1, SemopWithin

---------------------------------------------------------------------------
\* The server is killed: its rises and takings are undone.
LEMMA ServerUndone == ASSUME PlainType, PlainType', Limits, ServerDies PROVE Limits'
<1>0. "server" \in Procs /\ Clients \subseteq Procs /\ "server" \notin Clients
      /\ "server" \in Sems /\ "client" \in Sems /\ "kill" \in Sems
      /\ Sems = {"server", "client", "kill"}
  BY ChannelAssumption DEF Procs, Sems
<1>1. Undo("server") /\ server' = "dead" /\ client' = client
  BY DEF ServerDies
<1>2. /\ \A s \in Sems : sem'[s] = IF sem[s] + adj["server"][s] > 0
                                   THEN sem[s] + adj["server"][s] ELSE 0
      /\ \A s \in Sems : adj'["server"][s] = 0
      /\ \A q \in Procs \ {"server"} : adj'[q] = adj[q]
  BY <1>0, <1>1, UndoFacts
<1>3. \A s \in Sems : sem[s] \in Nat /\ adj["server"][s] \in -(AdjustMax + 1) .. AdjustMax
  BY <1>0 DEF Limits, Signs, PlainType
<1>4. \A d \in Clients : adj'[d] = adj[d]
  BY <1>0, <1>2
<1>5. Raised' = Raised /\ Turns' = Turns
  BY <1>1, <1>4 DEF Raised, Turns
<1>6. Cardinality(Raised) \in Nat /\ Cardinality(Turns) \in Nat
  BY RisesArePairs, FewPairs
<1>7. Signs'
  <2>1. adj' \in [Procs -> [Sems -> -(AdjustMax + 1) .. AdjustMax]]
    BY <1>0, <1>2, AdjustWithin, ChannelAssumption DEF Limits
  <2> QED
    BY <1>0, <1>2, <1>4, <2>1 DEF Limits, Signs
<1>8. Killed'
  BY <1>0, <1>1, <1>2, <1>3 DEF Limits, Killed, Signs
<1>9. Answers'
  BY <1>0, <1>2, <1>3, <1>5, <1>6 DEF Limits, Answers, Signs
<1>10. Offers'
  <2>1. sem'["server"] <= sem["server"] /\ sem'["server"] \in Nat /\ sem["server"] \in Nat
    BY <1>0, <1>2, <1>3 DEF Limits, Signs
  <2>2. sem["server"] + Cardinality(Turns) <= AdjustMax + 1
    BY <1>0, <1>3, <1>6, ChannelAssumption DEF Limits, Offers, Signs, ServerDies
  <2> QED
    BY <1>1, <1>5, <1>6, <2>1, <2>2, ChannelAssumption DEF Offers
<1> QED
  BY <1>7, <1>8, <1>9, <1>10 DEF Limits

\* A client ends: the turns it has taken are given back, its answers taken away.
LEMMA ClientUndone ==
    ASSUME PlainType, PlainType', Limits, NEW c \in Clients, Undo(c), server' = server,
           client' = [client EXCEPT ![c] = "gone"]
    PROVE  Limits'
<1>0. "server" \in Procs /\ Clients \subseteq Procs /\ c # "server"
      /\ "server" \in Sems /\ "client" \in Sems /\ "kill" \in Sems
      /\ Sems = {"server", "client", "kill"}
  BY ChannelAssumption DEF Procs, Sems
<1>2. /\ \A s \in Sems : sem'[s] = IF sem[s] + adj[c][s] > 0 THEN sem[s] + adj[c][s] ELSE 0
      /\ \A s \in Sems : adj'[c][s] = 0
      /\ \A q \in Procs \ {c} : adj'[q] = adj[q]
  BY <1>0, UndoFacts
<1>3. \A s \in Sems : /\ sem[s] \in Nat /\ adj[c][s] \in -(AdjustMax + 1) .. AdjustMax
                      /\ adj["server"][s] \in -(AdjustMax + 1) .. AdjustMax
  BY <1>0 DEF Limits, Signs, PlainType
<1>4. adj'["server"] = adj["server"]
  BY <1>0, <1>2
<1>5. /\ IsFiniteSet(Raised') /\ IsFiniteSet(Turns')
      /\ Cardinality(Raised) \in Nat /\ Cardinality(Raised') \in Nat
      /\ IsFiniteSet(Turns) /\ Cardinality(Turns) \in Nat /\ Cardinality(Turns') \in Nat
  BY RisesArePairs, FewPairs
<1>6. Signs'
  <2>1. adj' \in [Procs -> [Sems -> -(AdjustMax + 1) .. AdjustMax]]
    BY <1>0, <1>2, AdjustWithin, ChannelAssumption DEF Limits
  <2>2. \A d \in Clients : /\ adj'[d]["server"] >= 0 /\ adj'[d]["client"] <= 0
                           /\ adj'[d]["kill"] = 0
    BY <1>0, <1>2 DEF Limits, Signs
  <2> QED
    BY <1>4, <2>1, <2>2 DEF Limits, Signs
<1>7. Killed'
  <2>1. sem'["kill"] <= sem["kill"] /\ sem'["kill"] \in Nat
    BY <1>0, <1>2, <1>3 DEF Limits, Signs
  <2> QED
    BY <1>0, <1>3, <2>1 DEF Limits, Killed
<1>8. Answers'
  <2>1. Raised \in SUBSET Raised'
    <3>1. ASSUME NEW r \in Clients \X (1 .. AdjustMax + 1),
                 client[r[1]] = "gone" \/ r[2] <= - adj[r[1]]["client"]
          PROVE  client'[r[1]] = "gone" \/ r[2] <= - adj'[r[1]]["client"]
      <4>1. CASE r[1] = c
        BY <4>1 DEF PlainType
      <4>2. CASE r[1] # c
        BY <1>0, <1>2, <3>1, <4>2 DEF PlainType
      <4> QED
        BY <4>1, <4>2
    <3> QED
      BY <3>1 DEF Raised
  <2>2. Cardinality(Raised) <= Cardinality(Raised')
    BY <1>5, <2>1, FS_Subset
  <2>3. sem'["client"] <= sem["client"] /\ sem'["client"] \in Nat
    BY <1>0, <1>2, <1>3 DEF Limits, Signs
  <2> QED
    BY <1>0, <1>3, <1>4, <1>5, <2>2, <2>3 DEF Limits, Answers
<1>9. Offers'
  <2> DEFINE n == adj[c]["server"]
             Own == {c} \X (1 .. n)
  <2>1. n \in Nat /\ n <= AdjustMax /\ sem'["server"] = sem["server"] + n
    BY <1>0, <1>2, <1>3 DEF Limits, Signs
  <2>2. IsFiniteSet(Own) /\ Cardinality(Own) = n
    <3> HIDE DEF n
    <3>1. IsFiniteSet(1 .. n) /\ Cardinality(1 .. n) = n
      BY <2>1, FS_Interval
    <3>2. IsFiniteSet({c}) /\ Cardinality({c}) = 1
      BY FS_Singleton
    <3> QED
      <4>1. /\ IsFiniteSet({c} \X (1 .. n))
            /\ Cardinality({c} \X (1 .. n)) = Cardinality({c}) * Cardinality(1 .. n)
        BY ONLY <3>1, <3>2, FS_Product
      <4>2. Cardinality({c}) * Cardinality(1 .. n) = n
        BY ONLY <2>1, <3>1, <3>2
      <4> QED
        BY <4>1, <4>2
  <2>3. \A d \in Clients : d # c => adj'[d]["server"] = adj[d]["server"]
    BY <1>0, <1>2
  <2>4. adj'[c]["server"] = 0
    BY <1>0, <1>2
  <2>5. Turns' \cap Own = {}
    BY <2>4 DEF Turns
  <2>6. Turns' \cup Own \in SUBSET Turns
    <3>1. ASSUME NEW t \in Turns' PROVE t \in Turns
      BY <2>3, <2>4, <3>1 DEF Turns
    <3>2. ASSUME NEW t \in Own PROVE t \in Turns
      BY <2>1, <3>2, ChannelAssumption DEF Turns
    <3> QED
      BY <3>1, <3>2
  <2>7. Cardinality(Turns' \cup Own) = Cardinality(Turns') + n
    <3> HIDE DEF Own, n
    <3>1. Cardinality(Turns' \cup Own)
            = Cardinality(Turns') + Cardinality(Own) - Cardinality(Turns' \cap Own)
      BY <1>5, <2>2, FS_Union
    <3>2. Cardinality(Turns' \cap Own) = 0
      BY <2>5, FS_EmptySet
    <3> QED
      BY <1>5, <2>1, <2>2, <3>1, <3>2
  <2>8. Cardinality(Turns' \cup Own) <= Cardinality(Turns)
    BY <1>5, <2>6, FS_Subset
  <2> HIDE DEF n, Own
  <2> QED
    BY <1>0, <1>3, <1>4, <1>5, <2>1, <2>7, <2>8, ChannelAssumption DEF Limits, Offers
<1> QED
  BY <1>6, <1>7, <1>8, <1>9 DEF Limits

---------------------------------------------------------------------------
\* Every step of the program keeps the semaphores within those limits.
LEMMA LimitsStep == ASSUME PlainType, PlainType', Limits, [Next]_vars PROVE Limits'
<1>1. CASE UNCHANGED vars
  BY <1>1, LimitsUntouched DEF vars
<1>2. CASE BlankMemory \/ BeginCopy \/ EndCopy \/ JoinClient \/ User
  BY <1>2, LimitsUntouched DEF BlankMemory, BeginCopy, EndCopy, JoinClient, User, GetLine,
     Ask, set
<1>3. CASE TellClient \/ AwaitClient \/ RaiseKill \/ WakeClient
  BY <1>3, ServerSemop DEF TellClient, AwaitClient, RaiseKill, WakeClient
<1>4. ASSUME NEW c \in Clients, Client(c) PROVE Limits'
  <2>1. CASE Attach(c) \/ Show(c)
    BY <2>1, LimitsUntouched DEF Attach, Show, Goes, set, PlainType
  <2>2. CASE SeeKill(c)
    BY <2>2, ClientUndone DEF SeeKill, Goes
  <2> QED
    BY <1>4, <2>1, <2>2, TakesTurn, GivesAnswer DEF Client
<1>5. ASSUME NEW c \in Clients, ClientEnds(c) PROVE Limits'
  <2>1. CASE removed
    BY <1>5, <2>1, LimitsUntouched DEF ClientEnds, PlainType
  <2>2. CASE ~ removed
    BY <1>5, <2>2, ClientUndone DEF ClientEnds
  <2> QED
    BY <2>1, <2>2
<1>6. CASE StartAgain
  <2>1. sem' = Zero /\ adj' = [p \in Procs |-> Zero]
    BY <1>6 DEF StartAgain
  <2>2. (PlainType /\ sem = Zero /\ adj = [p \in Procs |-> Zero] => Limits)'
    BY ZeroLimits, PTL
  <2> QED
    BY <2>1, <2>2
<1> QED
  BY <1>1, <1>2, <1>3, <1>4, <1>5, <1>6, ServerUndone DEF Next, Server, Faults

\* However many servers are started and killed, and whoever is killed with them:
\* every variable keeps its range, and no semaphore is raised further than the limit
\* of the adjustments lets the clients together, or one server, raise it.
THEOREM SemaphoresWithinLimits == Spec => []TypeOK
<1>1. Init => PlainType /\ Limits
  <2>1. ASSUME Init PROVE PlainType /\ Limits
    <3>1. PlainType
      BY <2>1, InitIInv DEF IInv
    <3> QED
      BY <2>1, <3>1, ZeroLimits DEF Init
  <2> QED
    BY <2>1
<1>2. PlainType /\ Limits /\ [Next]_vars => PlainType' /\ Limits'
  BY PlainTypeStep, LimitsStep
<1>3. PlainType /\ Limits => TypeOK
  <2> SUFFICES ASSUME PlainType, Limits PROVE TypeOK
    OBVIOUS
  <2> DEFINE top == Cardinality(Clients) * (AdjustMax + 1) + 1
  <2>1. "server" \in Procs /\ Sems = {"server", "client", "kill"} /\ own \in Clients
    BY DEF Procs, Sems, PlainType
  <2>2. /\ \A s \in Sems : sem[s] \in Nat
        /\ \A s \in Sems : adj["server"][s] \in -(AdjustMax + 1) .. AdjustMax
    BY <2>1 DEF Limits, Signs, PlainType
  <2>3. Cardinality(Raised) \in Nat /\ Cardinality(Turns) \in Nat
        /\ Cardinality(Raised) <= Cardinality(Clients) * (AdjustMax + 1)
        /\ Cardinality(Clients) \in Nat
    BY RisesArePairs, FewPairs
  <2>4. Cardinality(Clients) >= 1
    <3>1. Cardinality({own}) = 1 /\ {own} \in SUBSET Clients
      BY <2>1, FS_Singleton
    <3>2. Cardinality({own}) <= Cardinality(Clients)
      BY <3>1, ChannelAssumption, FS_Subset
    <3> QED
      BY <3>1, <3>2
  <2>5. top \in Nat /\ top >= AdjustMax + 2
    <3>1. ASSUME NEW n \in Nat, NEW a \in Nat, n >= 1
          PROVE  n * (a + 1) + 1 \in Nat /\ n * (a + 1) + 1 >= a + 2
      <4>1. PICK m \in Nat : n = m + 1
        <5>1. n - 1 \in Nat /\ n = (n - 1) + 1
          BY <3>1
        <5> QED
          BY <5>1
      <4>2. n * (a + 1) = m * (a + 1) + (a + 1) /\ m * (a + 1) \in Nat
        BY <4>1
      <4> QED
        BY <4>2
    <3> QED
      BY <2>3, <2>4, <3>1, ChannelAssumption
  <2>6. /\ sem["client"] <= Cardinality(Clients) * (AdjustMax + 1)
        /\ sem["server"] <= AdjustMax + 1 /\ sem["kill"] <= 1
    BY <2>1, <2>2, <2>3, ChannelAssumption DEF Limits, Signs, Answers, Offers, Killed
  <2>7. \A s \in Sems : sem[s] \in 0 .. top
    <3>1. Cardinality(Clients) * (AdjustMax + 1) \in Nat
      BY <2>3, ChannelAssumption
    <3> QED
      BY <2>1, <2>2, <2>5, <2>6, <3>1, ChannelAssumption
  <2>8. sem \in [Sems -> 0 .. top]
    BY <2>7 DEF PlainType
  <2> QED
    BY <2>8 DEF TypeOK, PlainType, Limits, Signs
<1> QED
  BY <1>1, <1>2, <1>3, PTL DEF Spec
=============================================================================
