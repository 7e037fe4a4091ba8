------------------------- MODULE SignalTurnsProofs -------------------------
(***************************************************************************)
(* Proofs about SignalTurns, for any finite set of processes.              *)
(***************************************************************************)
EXTENDS SignalTurns, SequenceTheorems, TLAPS

Living == {"exec", "sigwait", "print", "copy", "copywait"}

\* The place in the list belongs to the loop.
TurnInv ==
    /\ main = "menu" => turn = 0
    /\ main = "signal" => turn \in 1 .. Len(list) + 1
    /\ main = "await" => turn \in 1 .. Len(list)

\* Only a process whose execv has failed is a copy of the parent.
CopyInv == \A c \in Pids : child[c] \in {"copy", "copywait"} => first[c] # None

\* There is one turn: it is pending for the child the loop has come to, or that
\* child prints, or it is pending for the parent.
TokenInv ==
    NoCopies =>
        /\ \A c \in Pids :
              c \in usr1 \/ child[c] = "print" =>
                  /\ main = "await" /\ list[turn] = c /\ ~ usr2
                  /\ ~ (c \in usr1 /\ child[c] = "print")
        /\ usr2 => main = "await"

IInv == TypeOK /\ TurnInv /\ CopyInv /\ TokenInv /\ NobodyForgotten

---------------------------------------------------------------------------
\* What Append does to a list ...
LEMMA AppendFacts ==
    ASSUME NEW S, NEW s \in Seq(S), NEW x
    PROVE  /\ x \in S => Append(s, x) \in Seq(S)
           /\ Len(Append(s, x)) = Len(s) + 1
           /\ \A i \in 1 .. Len(s) : Append(s, x)[i] = s[i]
           /\ Append(s, x)[Len(s) + 1] = x
           /\ Head(Append(s, x)) \in S \cup {x}
  OBVIOUS

\* ... what a prefix of it is ...
LEMMA PrefixFacts ==
    ASSUME NEW S, NEW s \in Seq(S), NEW n \in Nat, n < Len(s)
    PROVE  /\ SubSeq(s, 1, n) \in Seq(S)
           /\ Len(SubSeq(s, 1, n)) = n
           /\ \A i \in 1 .. n : SubSeq(s, 1, n)[i] = s[i]
  OBVIOUS

\* ... and what is left without its last element.
LEMMA FrontFacts ==
    ASSUME NEW S, NEW s \in Seq(S), Len(s) # 0
    PROVE  /\ SubSeq(s, 1, Len(s) - 1) \in Seq(S)
           /\ Len(SubSeq(s, 1, Len(s) - 1)) = Len(s) - 1
           /\ \A i \in 1 .. Len(s) - 1 : SubSeq(s, 1, Len(s) - 1)[i] = s[i]
           /\ Len(s) \in 1 .. Len(s)
           /\ s[Len(s)] \in S
<1>1. Len(s) \in Nat /\ Len(s) - 1 \in Nat /\ Len(s) - 1 < Len(s)
  OBVIOUS
<1>2. s[Len(s)] \in S /\ Len(s) \in 1 .. Len(s)
  BY <1>1
<1> QED
  BY <1>1, <1>2, PrefixFacts

\* '-' finds somebody in the list.
LEMMA NotEmpty ==
    ASSUME TypeOK, KillLast
    PROVE  list \in Seq(Pids) /\ Len(list) # 0
<1>1. list \in Seq(Pids) /\ list # <<>>
  BY DEF TypeOK, KillLast
<1>2. Len(list) \in Nat \ {0}
  BY <1>1, EmptySeq
<1>3. Len(list) # 0
  BY <1>2
<1> QED
  BY <1>1, <1>3

\* No child and no signal at the start.
LEMMA InitIInv == Init => IInv
<1> SUFFICES ASSUME Init PROVE IInv
  OBVIOUS
<1>1. list \in Seq(Pids) /\ Len(list) = 0
  BY EmptySeq DEF Init
<1>2. TypeOK
  <2>0. main = "menu" /\ turn = 0 /\ usr1 = {} /\ usr2 \in BOOLEAN
    BY Zenon DEF Init
  <2>1. turn \in 0 .. Len(list) + 1
    BY <1>1, <2>0
  <2>2. /\ child \in [Pids -> {"unborn"}]
        /\ first \in [Pids -> {None}]
    BY DEF Init
  <2> QED
    BY <1>1, <2>0, <2>1, <2>2 DEF TypeOK
<1>3. TurnInv /\ CopyInv /\ NobodyForgotten
  BY DEF Init, TurnInv, CopyInv, NobodyForgotten
<1>4. TokenInv
  BY DEF Init, TokenInv
<1> QED
  BY <1>2, <1>3, <1>4 DEF IInv

---------------------------------------------------------------------------
\* Types are kept; a pending signal is a living child's that blocks it.
LEMMA TypeStep == ASSUME IInv, [Next]_vars PROVE TypeOK'
<1> USE PidsAssumption
<1> SUFFICES ASSUME IInv, Next PROVE TypeOK'
  BY DEF vars, IInv, TypeOK
<1>0. TypeOK /\ TurnInv
  BY DEF IInv
<1>1. ASSUME NEW c \in Pids, Fork(c) \/ ForkCopy(c) PROVE TypeOK'
  <2>0. turn' = turn /\ main' = "sleep" /\ usr1' = usr1 /\ usr2' = usr2 /\ child[c] = "unborn"
    BY <1>1 DEF Fork, ForkCopy
  <2>1. list' \in Seq(Pids) /\ Len(list') = Len(list) + 1
    BY <1>0, <1>1, AppendFacts DEF TypeOK, Fork, ForkCopy
  <2>2. Head(Append(list, Group)) \in Pids \cup {Group}
    BY <1>0, AppendFacts DEF TypeOK
  <2>3. first' \in [Pids -> Pids \cup {Group, None}]
    BY <1>0, <1>1, <2>2 DEF TypeOK, Fork, ForkCopy
  <2> QED
    BY <1>0, <1>1, <2>1, <2>3 DEF TypeOK, Fork, ForkCopy
<1>2. CASE ForkFails
  BY <1>0, <1>2 DEF TypeOK, ForkFails
<1>3. CASE KillLast
  <2>1. list' \in Seq(Pids) /\ Len(list') = Len(list) - 1
    BY <1>0, <1>3, FrontFacts, NotEmpty DEF KillLast
  <2>2. turn' \in 0 .. Len(list') + 1
    BY <1>0, <1>3, <2>1 DEF TypeOK, KillLast
  <2> QED
    BY <1>0, <1>3, <2>1, <2>2 DEF TypeOK, KillLast, Kill
<1>4. CASE Quit
  BY <1>0, <1>4 DEF TypeOK, TurnInv, Quit, Kill
<1>5. CASE Wake
  BY <1>0, <1>5 DEF TypeOK, Wake
<1>6. CASE GiveTurn
  <2>1. main' = "await" /\ UNCHANGED <<list, turn, first, usr2>>
    BY <1>6 DEF GiveTurn
  <2>2. /\ child' \in [Pids -> {"unborn", "exec", "sigwait", "print",
                                "copy", "copywait", "killed", "lost"}]
        /\ usr1' \subseteq {c \in Pids : child'[c] \in {"sigwait", "print"}}
    BY <1>0, <1>6 DEF TypeOK, TurnInv, GiveTurn, Signal
  <2> QED
    BY <1>0, <2>1, <2>2 DEF TypeOK
<1>7. CASE TakeBack
  <2>1. turn' \in 0 .. Len(list) + 1
    BY <1>0, <1>7 DEF TypeOK, TurnInv, TakeBack
  <2> QED
    BY <1>0, <1>7, <2>1 DEF TypeOK, TakeBack
<1>8. CASE EndRound
  BY <1>0, <1>8 DEF TypeOK, EndRound
<1>9. ASSUME NEW c \in Pids, Block(c) \/ PrintMessage(c) \/ GiveBack(c) PROVE TypeOK'
  BY <1>0, <1>9 DEF TypeOK, Block, PrintMessage, GiveBack, parent, Runs
<1>10. ASSUME NEW c \in Pids, CopySignals(c) PROVE TypeOK'
  BY <1>0, <1>10 DEF TypeOK, CopySignals, Signal, Runs
<1> QED
  BY <1>1, <1>2, <1>3, <1>4, <1>5, <1>6, <1>7, <1>8, <1>9, <1>10
     DEF Next, Menu, Loop, Child

\* The place in the list is one of the list while the loop runs.
LEMMA TurnStep == ASSUME IInv, [Next]_vars PROVE TurnInv'
<1> SUFFICES ASSUME IInv, Next PROVE TurnInv'
  BY DEF vars, IInv, TurnInv
<1>0. TypeOK /\ TurnInv
  BY DEF IInv
<1>1. CASE Menu
  <2>1. ASSUME list # <<>>, list' = SubSeq(list, 1, Len(list) - 1) PROVE 1 \in 1 .. Len(list') + 1
    BY <1>0, <2>1, FrontFacts DEF TypeOK
  <2> QED
    BY <1>0, <1>1, <2>1 DEF TypeOK, TurnInv, Menu, Fork, ForkCopy, ForkFails, KillLast, Quit
<1>2. CASE Loop
  BY <1>0, <1>2 DEF TypeOK, TurnInv, Loop, Wake, GiveTurn, TakeBack, EndRound
<1>3. ASSUME NEW c \in Pids, Child(c) PROVE TurnInv'
  BY <1>0, <1>3 DEF TurnInv, Child, Block, PrintMessage, GiveBack, CopySignals, Runs, parent
<1> QED
  BY <1>1, <1>2, <1>3 DEF Next

\* Copies of the parent are those whose execv failed.
LEMMA CopyStep == ASSUME IInv, [Next]_vars PROVE CopyInv'
<1> USE PidsAssumption
<1> SUFFICES ASSUME IInv, Next PROVE CopyInv'
  BY DEF vars, IInv, CopyInv
<1>0. TypeOK /\ CopyInv
  BY DEF IInv
<1>1. ASSUME NEW c \in Pids, Fork(c) PROVE CopyInv'
  BY <1>0, <1>1 DEF TypeOK, CopyInv, Fork
<1>2. ASSUME NEW c \in Pids, ForkCopy(c) PROVE CopyInv'
  <2>1. Head(Append(list, Group)) # None
    BY <1>0, AppendFacts DEF TypeOK
  <2> QED
    BY <1>0, <1>2, <2>1 DEF TypeOK, CopyInv, ForkCopy
<1>3. CASE ForkFails \/ KillLast \/ Quit
  BY <1>0, <1>3 DEF TypeOK, CopyInv, ForkFails, KillLast, Quit, Kill
<1>4. CASE Loop
  BY <1>0, <1>4 DEF TypeOK, CopyInv, Loop, Wake, GiveTurn, Signal, TakeBack, EndRound
<1>5. ASSUME NEW c \in Pids, Child(c) PROVE CopyInv'
  BY <1>0, <1>5 DEF TypeOK, CopyInv, Child, Block, PrintMessage, GiveBack, CopySignals, Signal
<1> QED
  BY <1>1, <1>2, <1>3, <1>4, <1>5 DEF Next, Menu

\* The turn is in one place: with a child, on its way, or with the parent.
LEMMA TokenStep == ASSUME IInv, [Next]_vars PROVE TokenInv'
<1> USE PidsAssumption
<1> SUFFICES ASSUME IInv, Next PROVE TokenInv'
  BY DEF vars, IInv, TokenInv, NoCopies
<1>0. TypeOK /\ TurnInv /\ CopyInv /\ TokenInv
  BY DEF IInv
<1>1. ASSUME NEW c \in Pids, Fork(c) PROVE TokenInv'
  BY <1>0, <1>1 DEF TypeOK, TokenInv, NoCopies, Fork
<1>2. ASSUME NEW c \in Pids, ForkCopy(c) PROVE TokenInv'
  <2>1. Head(Append(list, Group)) # None
    BY <1>0, AppendFacts DEF TypeOK
  <2> QED
    BY <1>0, <1>2, <2>1 DEF TypeOK, TokenInv, NoCopies, ForkCopy
<1>3. CASE ForkFails \/ KillLast \/ Quit
  BY <1>0, <1>3 DEF TypeOK, TokenInv, NoCopies, ForkFails, KillLast, Quit, Kill
<1>4. CASE Wake \/ TakeBack \/ EndRound
  BY <1>0, <1>4 DEF TypeOK, TokenInv, NoCopies, Wake, TakeBack, EndRound
<1>5. CASE GiveTurn
  BY <1>0, <1>5 DEF TypeOK, TokenInv, NoCopies, GiveTurn, Signal
<1>6. ASSUME NEW c \in Pids, Block(c) \/ PrintMessage(c) \/ GiveBack(c) PROVE TokenInv'
  BY <1>0, <1>6 DEF TypeOK, TokenInv, NoCopies, Block, PrintMessage, GiveBack, parent, Runs
<1>7. ASSUME NEW c \in Pids, CopySignals(c) PROVE TokenInv'
  BY <1>0, <1>7 DEF CopyInv, TokenInv, NoCopies, CopySignals
<1> QED
  BY <1>1, <1>2, <1>3, <1>4, <1>5, <1>6, <1>7 DEF Next, Menu, Loop, Child

\* Who is born is put into the list, who leaves it is killed.
LEMMA ForgottenStep == ASSUME IInv, [Next]_vars PROVE NobodyForgotten'
<1> SUFFICES ASSUME IInv, Next PROVE NobodyForgotten'
  BY DEF vars, IInv, NobodyForgotten, Runs, Listed
<1>0. TypeOK /\ NobodyForgotten
  BY DEF IInv
<1>1. ASSUME NEW c \in Pids, Fork(c) \/ ForkCopy(c) PROVE NobodyForgotten'
  <2>1. Listed \cup {c} \subseteq Listed'
    BY <1>0, <1>1, AppendFacts DEF TypeOK, Listed, Fork, ForkCopy
  <2> QED
    BY <1>0, <1>1, <2>1 DEF TypeOK, NobodyForgotten, Runs, Fork, ForkCopy
<1>2. CASE ForkFails
  BY <1>2 DEF ForkFails, NobodyForgotten, Runs
<1>3. CASE KillLast
  <2>1. Listed \subseteq Listed' \cup {list[Len(list)]}
    <3>1. /\ list \in Seq(Pids) /\ Len(list) # 0
          /\ list' = SubSeq(list, 1, Len(list) - 1)
      BY <1>0, <1>3, NotEmpty DEF KillLast
    <3>2. /\ list' \in Seq(Pids) /\ Len(list') = Len(list) - 1
          /\ \A i \in 1 .. Len(list) - 1 : list'[i] = list[i]
      BY <3>1, FrontFacts
    <3>3. ASSUME NEW i \in 1 .. Len(list), i # Len(list) PROVE list[i] \in Listed'
      <4>1. i \in 1 .. Len(list) - 1 /\ i \in 1 .. Len(list')
        BY <3>1, <3>2, <3>3
      <4>2. i \in DOMAIN list' /\ list'[i] = list[i]
        BY <3>2, <4>1
      <4> QED
        BY <4>2 DEF Listed
    <3> QED
      BY <3>1, <3>3 DEF Listed
  <2>2. \A c \in Pids : child'[c] \in Living => child[c] \in Living /\ c # list[Len(list)]
    BY <1>0, <1>3 DEF TypeOK, KillLast, Kill, Living
  <2> QED
    BY <1>0, <1>3, <2>1, <2>2 DEF NobodyForgotten, Runs, KillLast, Living
<1>4. CASE Quit
  BY <1>0, <1>4 DEF TypeOK, NobodyForgotten, Runs, Quit, Kill
<1>5. CASE Loop
  BY <1>0, <1>5 DEF TypeOK, NobodyForgotten, Runs, Listed, Loop, Wake, GiveTurn, Signal, TakeBack, EndRound
<1>6. ASSUME NEW c \in Pids, Child(c) PROVE NobodyForgotten'
  BY <1>0, <1>6 DEF TypeOK, NobodyForgotten, Runs, Listed, Child, Block, PrintMessage, GiveBack, CopySignals, Signal, parent
<1> QED
  BY <1>1, <1>2, <1>3, <1>4, <1>5, <1>6 DEF Next, Menu

\* The inductive invariant holds in every state of the parent and its children.
THEOREM Invariance == Spec => []IInv
<1>1. IInv /\ [Next]_vars => IInv'
  BY TypeStep, TurnStep, CopyStep, TokenStep, ForgottenStep DEF IInv
<1> QED
  BY <1>1, InitIInv, PTL DEF Spec

---------------------------------------------------------------------------
\* Every step leaves parent, children and signals in a state the program knows;
\* in particular no signal is pending for a process that is gone.
THEOREM TypeCorrect == Spec => []TypeOK
  BY Invariance, PTL DEF IInv

\* With every execv succeeding, only the child whose turn it is prints, however
\* many children there are and whichever are killed.
THEOREM TurnsKept == Spec => []OnlyInTurn
<1>1. IInv => OnlyInTurn
  BY DEF IInv, TokenInv, OnlyInTurn
<1> QED
  BY <1>1, Invariance, PTL

\* '-' and 'q' leave nobody behind: a living child is in the parent's list.
THEOREM ChildrenListed == Spec => []NobodyForgotten
  BY Invariance, PTL DEF IInv
=============================================================================
