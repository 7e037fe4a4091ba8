---------------------------- MODULE SignalTurns ----------------------------
(***************************************************************************)
(* SPO/Linux/Lab2: a parent that makes and kills children from a menu and  *)
(* after each command lets every child print once, one after the other.    *)
(* SIGUSR1 gives the turn to a child, SIGUSR2 gives it back.               *)
(***************************************************************************)
EXTENDS Integers, Sequences, FiniteSets

CONSTANTS
    Pids,       \* the processes that can be forked; no pid comes back, since
                \* the parent never waits for the dead
    Group,      \* the pid 0: everybody in the process group
    None        \* no pid

ASSUME PidsAssumption ==
    IsFiniteSet(Pids) /\ Group \notin Pids /\ None \notin Pids /\ Group # None

VARIABLES
    main,       \* where the parent is
    list,       \* pidList
    turn,       \* the place in the list its loop has come to
    child,      \* where each child is
    first,      \* of a child whose execv failed: the head of its own pidList
    usr1,       \* the children that have SIGUSR1 pending
    usr2        \* the parent has SIGUSR2 pending

vars == <<main, list, turn, child, first, usr1, usr2>>
parent == <<main, list, turn>>

\* "killed": by the parent's SIGKILL; "lost": by a SIGUSR1 it had not blocked.
TypeOK ==
    /\ main \in {"menu", "sleep", "signal", "await", "quit", "failed", "lost"}
    /\ list \in Seq(Pids)
    /\ turn \in 0 .. Len(list) + 1
    /\ child \in [Pids -> {"unborn", "exec", "sigwait", "print",
                           "copy", "copywait", "killed", "lost"}]
    /\ first \in [Pids -> Pids \cup {Group, None}]
    /\ usr1 \subseteq {c \in Pids : child[c] \in {"sigwait", "print"}}
    /\ usr2 \in BOOLEAN

Listed == {list[i] : i \in DOMAIN list}
Runs == main \in {"menu", "sleep", "signal", "await"}

Init ==
    /\ main = "menu" /\ list = <<>> /\ turn = 0
    /\ child = [c \in Pids |-> "unborn"]
    /\ first = [c \in Pids |-> None]
    /\ usr1 = {} /\ usr2 = FALSE

\* SIGUSR1 for the children in S: it stays pending where it is blocked, and
\* ends the process where it is not.
Signal(S) ==
    /\ usr1' = usr1 \cup {c \in S : child[c] \in {"sigwait", "print"}}
    /\ child' = [c \in Pids |->
                    IF c \in S /\ child[c] \in {"exec", "copy", "copywait"}
                    THEN "lost" ELSE child[c]]

\* SIGKILL for the children in S.
Kill(S) ==
    /\ usr1' = usr1 \ S
    /\ child' = [c \in Pids |->
                    IF c \in S /\ child[c] # "lost" THEN "killed" ELSE child[c]]

---------------------------------------------------------------------------
(***************************************************************************)
(* The parent: its menu.                                                   *)
(***************************************************************************)

\* '+': the child has not yet blocked SIGUSR1.
Fork(c) ==
    /\ main = "menu" /\ child[c] = "unborn"
    /\ main' = "sleep"
    /\ list' = Append(list, c)
    /\ child' = [child EXCEPT ![c] = "exec"]
    /\ UNCHANGED <<turn, first, usr1, usr2>>

\* '+', and execv fails: the child goes on in the case of the parent, with 0
\* at the end of its copy of the list.
ForkCopy(c) ==
    /\ main = "menu" /\ child[c] = "unborn"
    /\ main' = "sleep"
    /\ list' = Append(list, c)
    /\ child' = [child EXCEPT ![c] = "copy"]
    /\ first' = [first EXCEPT ![c] = Head(Append(list, Group))]
    /\ UNCHANGED <<turn, usr1, usr2>>

\* '+', and fork fails: exit(EXIT_FAILURE), with the children left.
ForkFails ==
    /\ main = "menu"
    /\ main' = "failed"
    /\ UNCHANGED <<list, turn, child, first, usr1, usr2>>

\* sleep(PROC_DELAY) is over.
Wake ==
    /\ main = "sleep"
    /\ main' = "signal" /\ turn' = 1
    /\ UNCHANGED <<list, child, first, usr1, usr2>>

\* Fault: the last child is killed and the first one forgotten.
KillLast_PopsFront ==
    /\ main = "menu" /\ list # <<>>
    /\ Kill({list[Len(list)]})
    /\ list' = Tail(list)
    /\ main' = "signal" /\ turn' = 1
    /\ UNCHANGED <<first, usr2>>

\* '-'; with an empty list nothing happens.
KillLast ==
    /\ main = "menu" /\ list # <<>>
    /\ Kill({list[Len(list)]})
    /\ list' = SubSeq(list, 1, Len(list) - 1)
    /\ main' = "signal" /\ turn' = 1
    /\ UNCHANGED <<first, usr2>>

\* 'q'
Quit ==
    /\ main = "menu"
    /\ Kill(Listed)
    /\ list' = <<>>
    /\ main' = "quit"
    /\ UNCHANGED <<turn, first, usr2>>

(***************************************************************************)
(* The parent: its loop over the list.                                     *)
(***************************************************************************)

\* Fault: the parent does not wait for SIGUSR2.
GiveTurn_NoWait ==
    /\ main = "signal" /\ turn <= Len(list)
    /\ Signal({list[turn]})
    /\ turn' = turn + 1
    /\ UNCHANGED <<main, list, first, usr2>>

GiveTurn ==
    /\ main = "signal" /\ turn <= Len(list)
    /\ Signal({list[turn]})
    /\ main' = "await"
    /\ UNCHANGED <<list, turn, first, usr2>>

\* Fault: the loop steps over a child.
TakeBack_StepsOver ==
    /\ main = "await" /\ usr2
    /\ usr2' = FALSE
    /\ main' = "signal" /\ turn' = turn + 2
    /\ UNCHANGED <<list, child, first, usr1>>

\* sigwait
TakeBack ==
    /\ main = "await" /\ usr2
    /\ usr2' = FALSE
    /\ main' = "signal" /\ turn' = turn + 1
    /\ UNCHANGED <<list, child, first, usr1>>

EndRound ==
    /\ main = "signal" /\ turn > Len(list)
    /\ main' = "menu" /\ turn' = 0
    /\ UNCHANGED <<list, child, first, usr1, usr2>>

---------------------------------------------------------------------------
(***************************************************************************)
(* A child.                                                                *)
(***************************************************************************)

\* sigprocmask
Block(c) ==
    /\ child[c] = "exec"
    /\ child' = [child EXCEPT ![c] = "sigwait"]
    /\ UNCHANGED <<parent, first, usr1, usr2>>

\* sigwait, and the message one character at a time.
PrintMessage(c) ==
    /\ child[c] = "sigwait" /\ c \in usr1
    /\ usr1' = usr1 \ {c}
    /\ child' = [child EXCEPT ![c] = "print"]
    /\ UNCHANGED <<parent, first, usr2>>

\* Fault: the turn is not given back.
GiveBack_Not(c) ==
    /\ child[c] = "print"
    /\ child' = [child EXCEPT ![c] = "sigwait"]
    /\ UNCHANGED <<parent, first, usr1, usr2>>

\* kill(getppid(), SIGUSR2); an orphan's goes to another process.
GiveBack(c) ==
    /\ child[c] = "print"
    /\ child' = [child EXCEPT ![c] = "sigwait"]
    /\ usr2' = (usr2 \/ Runs)
    /\ UNCHANGED <<parent, first, usr1>>

\* A copy of the parent signals the head of its list and waits for an answer
\* that goes to the parent; or it signals everybody, the parent included, where
\* nobody but the children has SIGUSR1 blocked.
CopySignals(c) ==
    /\ child[c] = "copy"
    /\ IF first[c] = Group
       THEN /\ Signal(Pids)
            /\ main' = IF Runs THEN "lost" ELSE main
       ELSE /\ usr1' = usr1 \cup ({first[c]} \cap {d \in Pids : child[d] \in {"sigwait", "print"}})
            /\ child' = [d \in Pids |->
                            IF d = c THEN "copywait"
                            ELSE IF d = first[c] /\ child[d] \in {"exec", "copy", "copywait"}
                            THEN "lost" ELSE child[d]]
            /\ UNCHANGED main
    /\ UNCHANGED <<list, turn, first, usr2>>

---------------------------------------------------------------------------
Menu == (\E c \in Pids : Fork(c) \/ ForkCopy(c)) \/ ForkFails \/ KillLast \/ Quit
Loop == Wake \/ GiveTurn \/ TakeBack \/ EndRound
Child(c) == Block(c) \/ PrintMessage(c) \/ GiveBack(c) \/ CopySignals(c)

Next == Menu \/ Loop \/ \E c \in Pids : Child(c)

\* Every process runs; nobody has to type.
Spec ==
    /\ Init /\ [][Next]_vars
    /\ WF_vars(Loop)
    /\ \A c \in Pids : WF_vars(Child(c))

---------------------------------------------------------------------------
NoCopies == \A c \in Pids : first[c] = None

\* Only the child whose turn it is prints, and it has not given the turn back,
\* unless an execv has failed.
OnlyInTurn ==
    NoCopies => \A c \in Pids : child[c] = "print" =>
                    main = "await" /\ list[turn] = c /\ ~ usr2

\* While the parent lives, and when it has quit, each living child (also a copy
\* of the parent) is in its list: '-' and 'q' leave nobody behind.  Only a
\* failing fork, or the signal of a copy, does.
NobodyForgotten ==
    Runs \/ main = "quit" =>
        \A c \in Pids : child[c] \in {"exec", "sigwait", "print", "copy", "copywait"}
                            => c \in Listed

\* A round ends, unless a child was given its turn before it had blocked the
\* signal (one second is usually enough), or an execv has failed.
RoundsEnd ==
    main = "signal" ~> (main = "menu" \/ ~ NoCopies \/ \E c \in Pids : child[c] = "lost")
=============================================================================
