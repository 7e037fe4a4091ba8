------------------------- MODULE AsyncConcatProofs -------------------------
(***************************************************************************)
(* Proofs about AsyncConcat, for any number of source files.               *)
(***************************************************************************)
EXTENDS AsyncConcat, FiniteSetTheorems, SequenceTheorems, TLAPS

\* The files that did not open, so far.
Missed == {i \in Files : i < main /\ kind[i] = "missing"}

NListed == Cardinality(Listed)
NSignalled == Cardinality(Signalled)
NMissed == Cardinality(Missed)

ControlInv ==
    /\ \A i \in Files : read[i] # "no" => i < main
    /\ pc # "no" => main = N + 1
    /\ pc \in {"take", "put"} => left # 0
    /\ pc \in {"scan", "wait"} => at \in Files
    /\ pc \in {"flush", "end"} => left = 0
    /\ pc = "end" => Len(writes) = 0
    /\ done => pc = "end"
    /\ aiocbs < main

\* The tokens of reads: one is in the hands of the writer while it looks.
ReadTokens == sem.r + (IF pc = "put" THEN 1 ELSE 0)

\* The writes that were submitted, whether done or not; at the end the writer
\* has taken one token per control block.
Submitted == sem.w + Len(writes) + (IF pc = "end" THEN aiocbs ELSE 0)

\* A file that was submitted and is not counted off yet.
Waiting == IF pc = "wait" THEN 1 ELSE 0

\* Every token is accounted for: those of the reads by the files counted off,
\* those of the writes by the writes that were submitted.
TokenInv ==
    /\ NSignalled = ReadTokens + (NListed - left)
    /\ Submitted = (NListed - left) + Waiting
    /\ aiocbs = NListed + NMissed
    /\ left <= NListed

IInv == TypeOK /\ ControlInv /\ TokenInv

---------------------------------------------------------------------------
\* A set of files is finite and has at most N members.
LEMMA SubsetFacts ==
    ASSUME NEW S \in SUBSET Files
    PROVE  IsFiniteSet(S) /\ Cardinality(S) \in 0 .. N
<1>1. N \in Nat
  BY ConcatAssumption
<1>2. IsFiniteSet(Files) /\ Cardinality(Files) = N
  BY <1>1, FS_Interval DEF Files
<1>3. IsFiniteSet(S) /\ Cardinality(S) \in Nat /\ Cardinality(S) <= N
  BY <1>1, <1>2, FS_Subset, FS_CardinalityType
<1> QED
  BY <1>1, <1>3

\* A new file adds one to the count.
LEMMA AddFacts ==
    ASSUME NEW S \in SUBSET Files, NEW x \in Files, x \notin S
    PROVE  Cardinality(S \cup {x}) = Cardinality(S) + 1
  BY SubsetFacts, FS_AddElement

\* The counts are bounded, and a read that has ended is one that was begun.
LEMMA CountFacts ==
    /\ NListed \in 0 .. N /\ NSignalled \in 0 .. N /\ NMissed \in 0 .. N
    /\ NSignalled <= NListed
<1>1. Listed \in SUBSET Files /\ Missed \in SUBSET Files /\ Signalled \subseteq Listed
  BY DEF Listed, Signalled, Missed
<1>2. NSignalled <= NListed
  BY <1>1, SubsetFacts, FS_Subset DEF NSignalled, NListed
<1> QED
  BY <1>1, <1>2, SubsetFacts DEF NListed, NSignalled, NMissed

\* The program starts with nothing counted.
LEMMA InitIInv == Init => IInv
<1> SUFFICES ASSUME Init PROVE IInv
  OBVIOUS
<1>1. /\ main = 1 /\ done = FALSE /\ done \in BOOLEAN /\ aiocbs = 0 /\ left = 0 /\ pc = "no"
      /\ at = 0 /\ turns = 0 /\ sem = [r |-> 0, w |-> 0]
      /\ writes \in Seq(Files) /\ Len(writes) = 0
  BY EmptySeq, Zenon DEF Init
<1>2. /\ kind \in [Files -> Kinds]
      /\ read = [i \in Files |-> "no"] /\ output = [i \in Files |-> "hole"]
  BY Zenon DEF Init
<1>3. TypeOK
  <2>1. /\ read \in [Files -> {"no", "begun", "torn", "full", "signalled"}]
        /\ output \in [Files -> {"hole", "torn", "full"}]
    BY <1>2
  <2>2. N \in Nat
    BY ConcatAssumption
  <2>3. main \in 1 .. (N + 1) /\ sem \in [r : 0 .. N, w : 0 .. (N + 1)]
    BY <1>1, <2>2
  <2> QED
    BY <1>1, <1>2, <2>1, <2>2, <2>3 DEF TypeOK
<1>4. ControlInv
  BY <1>1, <1>2 DEF ControlInv
<1>5. Listed = {} /\ Signalled = {} /\ Missed = {}
  BY <1>1, <1>2 DEF Listed, Signalled, Missed, Files
<1>6. NListed = 0 /\ NSignalled = 0 /\ NMissed = 0
  BY <1>5, FS_EmptySet DEF NListed, NSignalled, NMissed
<1>7. TokenInv
  BY <1>1, <1>6 DEF TokenInv, ReadTokens, Submitted, Waiting
<1> QED
  BY <1>3, <1>4, <1>7 DEF IInv

---------------------------------------------------------------------------
(***************************************************************************)
(* How the counts change.                                                  *)
(***************************************************************************)
LEMMA CountsKept ==
    ASSUME UNCHANGED <<kind, main, read>>
    PROVE  NListed' = NListed /\ NSignalled' = NSignalled /\ NMissed' = NMissed
  BY DEF NListed, NSignalled, NMissed, Listed, Signalled, Missed

\* Opening a file adds one element to the list ...
LEMMA CountsOpenFile ==
    ASSUME TypeOK, ControlInv, OpenFile
    PROVE  NListed' = NListed + 1 /\ NSignalled' = NSignalled /\ NMissed' = NMissed
<1>0. main \in Files /\ main' = main + 1 /\ read' = [read EXCEPT ![main] = "begun"]
  BY DEF OpenFile, Advance
<1>1. Listed' = Listed \cup {main} /\ main \notin Listed
  BY <1>0 DEF TypeOK, ControlInv, Listed, Files
<1>2. Signalled' = Signalled
  BY <1>0 DEF TypeOK, ControlInv, Signalled, Files
<1>3. Missed' = Missed
  BY <1>0 DEF TypeOK, OpenFile, Advance, Missed, Files
<1> QED
  BY <1>0, <1>1, <1>2, <1>3, AddFacts DEF NListed, NSignalled, NMissed, Listed

\* ... a file that does not open adds one control block without a read ...
LEMMA CountsOpenMissing ==
    ASSUME TypeOK, OpenMissing
    PROVE  NListed' = NListed /\ NSignalled' = NSignalled /\ NMissed' = NMissed + 1
<1>1. main \in Files /\ main' = main + 1 /\ UNCHANGED <<kind, read>> /\ kind[main] = "missing"
  BY DEF OpenMissing, Advance
<1>2. Missed' = Missed \cup {main} /\ main \notin Missed
  BY <1>1 DEF TypeOK, Missed, Files
<1>3. Listed' = Listed /\ Signalled' = Signalled
  BY <1>1 DEF Listed, Signalled
<1> QED
  BY <1>1, <1>2, <1>3, AddFacts DEF NListed, NSignalled, NMissed, Missed

\* ... an empty file adds nothing ...
LEMMA CountsOpenEmpty ==
    ASSUME TypeOK, OpenEmpty
    PROVE  NListed' = NListed /\ NSignalled' = NSignalled /\ NMissed' = NMissed
<1>1. main \in Files /\ main' = main + 1 /\ UNCHANGED <<kind, read>> /\ kind[main] = "empty"
  BY DEF OpenEmpty, Advance
<1>2. Missed' = Missed
  BY <1>1 DEF TypeOK, Missed, Files
<1>3. Listed' = Listed /\ Signalled' = Signalled
  BY <1>1 DEF Listed, Signalled
<1> QED
  BY <1>2, <1>3 DEF NListed, NSignalled, NMissed

\* ... nor does a buffer that is being filled ...
LEMMA CountsFill ==
    ASSUME TypeOK, NEW i \in Files, FillBuffer(i)
    PROVE  NListed' = NListed /\ NSignalled' = NSignalled /\ NMissed' = NMissed
<1>1. Listed' = Listed /\ Signalled' = Signalled /\ Missed' = Missed
  BY DEF TypeOK, FillBuffer, call, Listed, Signalled, Missed
<1> QED
  BY <1>1 DEF NListed, NSignalled, NMissed

\* ... and the end of a read signals one element more.
LEMMA CountsRead ==
    ASSUME TypeOK, NEW i \in Files, ReadEndRoutine(i)
    PROVE  NListed' = NListed /\ NSignalled' = NSignalled + 1 /\ NMissed' = NMissed
<1>1. Signalled' = Signalled \cup {i} /\ i \notin Signalled
  BY DEF TypeOK, ReadEndRoutine, Signalled
<1>2. Listed' = Listed /\ Missed' = Missed
  BY DEF TypeOK, ReadEndRoutine, call, Listed, Missed
<1> QED
  BY <1>1, <1>2, AddFacts DEF NListed, NSignalled, NMissed, Signalled

---------------------------------------------------------------------------
(***************************************************************************)
(* The tokens.                                                             *)
(***************************************************************************)
LEMMA QueueFacts ==
    ASSUME NEW S, NEW s \in Seq(S)
    PROVE  /\ \A x \in S : Append(s, x) \in Seq(S) /\ Len(Append(s, x)) = Len(s) + 1
           /\ s # <<>> => /\ Head(s) \in S /\ Tail(s) \in Seq(S)
                          /\ Len(s) # 0 /\ Len(Tail(s)) = Len(s) - 1
           /\ Len(s) \in Nat
<1>1. s # <<>> => Head(s) \in S /\ Tail(s) \in Seq(S) /\ Len(Tail(s)) = Len(s) - 1
  BY HeadTailProperties
<1>2. s # <<>> => Len(s) \in Nat \ {0}
  BY EmptySeq
<1>3. \A x \in S : Append(s, x) \in Seq(S) /\ Len(Append(s, x)) = Len(s) + 1
  OBVIOUS
<1> QED
  BY <1>1, <1>2, <1>3

\* No step loses or makes a token: one case per action.
LEMMA TokenStep == ASSUME IInv, [Next]_vars PROVE TokenInv'
<1>0. TypeOK /\ ControlInv /\ TokenInv /\ N \in Nat
  BY ConcatAssumption DEF IInv
<1>1. /\ NListed \in Nat /\ NSignalled \in Nat /\ NMissed \in Nat
      /\ left \in Int /\ aiocbs \in Int /\ Len(writes) \in Nat /\ writes \in Seq(Files)
      /\ sem.r \in Int /\ sem.w \in Int
      /\ ReadTokens \in Int /\ Submitted \in Int /\ Waiting \in Int
  BY <1>0, CountFacts, QueueFacts DEF TypeOK, ReadTokens, Submitted, Waiting
<1>2. CASE OpenFile
  <2>1. /\ ReadTokens' = ReadTokens /\ Submitted' = Submitted /\ Waiting' = Waiting
        /\ aiocbs' = aiocbs + 1 /\ left' = left + 1
    BY <1>0, <1>1, <1>2 DEF TypeOK, ControlInv, ReadTokens, Submitted, Waiting, OpenFile, writer, Files
  <2>2. NListed' = NListed + 1 /\ NSignalled' = NSignalled /\ NMissed' = NMissed
    BY <1>0, <1>2, CountsOpenFile
  <2> QED
    BY <1>0, <1>1, <2>1, <2>2 DEF TokenInv
<1>3. CASE OpenMissing
  <2>1. /\ ReadTokens' = ReadTokens /\ Submitted' = Submitted /\ Waiting' = Waiting
        /\ aiocbs' = aiocbs + 1 /\ left' = left
    BY <1>0, <1>1, <1>3 DEF TypeOK, ControlInv, ReadTokens, Submitted, Waiting, OpenMissing, writer, Files
  <2>2. NListed' = NListed /\ NSignalled' = NSignalled /\ NMissed' = NMissed + 1
    BY <1>0, <1>3, CountsOpenMissing
  <2> QED
    BY <1>0, <1>1, <2>1, <2>2 DEF TokenInv
<1>4. CASE OpenEmpty
  <2>1. /\ ReadTokens' = ReadTokens /\ Submitted' = Submitted /\ Waiting' = Waiting
        /\ UNCHANGED <<left, aiocbs>>
    BY <1>0, <1>1, <1>4 DEF TypeOK, ControlInv, ReadTokens, Submitted, Waiting, OpenEmpty, writer
  <2>2. NListed' = NListed /\ NSignalled' = NSignalled /\ NMissed' = NMissed
    BY <1>0, <1>4, CountsOpenEmpty
  <2> QED
    BY <1>0, <1>1, <2>1, <2>2 DEF TokenInv
<1>5. ASSUME NEW i \in Files, FillBuffer(i) PROVE TokenInv'
  <2>1. /\ ReadTokens' = ReadTokens /\ Submitted' = Submitted /\ Waiting' = Waiting
        /\ UNCHANGED <<left, aiocbs>>
    BY <1>0, <1>1, <1>5 DEF TypeOK, ControlInv, ReadTokens, Submitted, Waiting, FillBuffer, writer, call
  <2>2. NListed' = NListed /\ NSignalled' = NSignalled /\ NMissed' = NMissed
    BY <1>0, <1>5, CountsFill
  <2> QED
    BY <1>0, <1>1, <2>1, <2>2 DEF TokenInv
<1>6. ASSUME NEW i \in Files, ReadEndRoutine(i) PROVE TokenInv'
  <2>1. /\ ReadTokens' = ReadTokens + 1 /\ Submitted' = Submitted /\ Waiting' = Waiting
        /\ UNCHANGED <<left, aiocbs>>
    BY <1>0, <1>1, <1>6 DEF TypeOK, ControlInv, ReadTokens, Submitted, Waiting, ReadEndRoutine, writer, call
  <2>2. NListed' = NListed /\ NSignalled' = NSignalled + 1 /\ NMissed' = NMissed
    BY <1>0, <1>6, CountsRead
  <2> QED
    BY <1>0, <1>1, <2>1, <2>2 DEF TokenInv
<1>7. CASE WriteEndRoutine
  <2>1. /\ ReadTokens' = ReadTokens /\ Submitted' = Submitted /\ Waiting' = Waiting
        /\ UNCHANGED <<left, aiocbs>>
    BY <1>0, <1>1, <1>7, QueueFacts DEF TypeOK, ControlInv, ReadTokens, Submitted, Waiting, WriteEndRoutine, writer, call
  <2>2. NListed' = NListed /\ NSignalled' = NSignalled /\ NMissed' = NMissed
    BY <1>0, <1>7, CountsKept DEF WriteEndRoutine, call
  <2> QED
    BY <1>0, <1>1, <2>1, <2>2 DEF TokenInv
<1>8. CASE SubmitWrite
  <2>1. /\ ReadTokens' = ReadTokens /\ Submitted' = Submitted + 1 /\ Waiting' = Waiting + 1
        /\ UNCHANGED <<left, aiocbs>>
    BY <1>0, <1>1, <1>8, QueueFacts DEF TypeOK, ControlInv, ReadTokens, Submitted, Waiting, SubmitWrite, call
  <2>2. NListed' = NListed /\ NSignalled' = NSignalled /\ NMissed' = NMissed
    BY <1>0, <1>8, CountsKept DEF SubmitWrite, call
  <2> QED
    BY <1>0, <1>1, <2>1, <2>2 DEF TokenInv
<1>9. CASE CountWrite
  <2>1. /\ ReadTokens' = ReadTokens - 1 /\ Submitted' = Submitted /\ Waiting' = Waiting - 1
        /\ left' = left - 1 /\ aiocbs' = aiocbs
    BY <1>0, <1>1, <1>9 DEF TypeOK, ControlInv, ReadTokens, Submitted, Waiting, CountWrite, NextElement, call
  <2>2. NListed' = NListed /\ NSignalled' = NSignalled /\ NMissed' = NMissed
    BY <1>0, <1>9, CountsKept DEF CountWrite, call
  <2> QED
    BY <1>0, <1>1, <2>1, <2>2 DEF TokenInv
<1>10. CASE Flush
  <2>1. /\ ReadTokens' = ReadTokens /\ Submitted' = Submitted /\ Waiting' = Waiting
        /\ UNCHANGED <<left, aiocbs>>
    BY <1>0, <1>1, <1>10 DEF TypeOK, ControlInv, ReadTokens, Submitted, Waiting, Flush, call
  <2>2. NListed' = NListed /\ NSignalled' = NSignalled /\ NMissed' = NMissed
    BY <1>0, <1>10, CountsKept DEF Flush, call
  <2> QED
    BY <1>0, <1>1, <2>1, <2>2 DEF TokenInv
<1>11. CASE TestLeft \/ TakeRead \/ PutRead \/ SkipElement
  <2>1. /\ ReadTokens' = ReadTokens /\ Submitted' = Submitted /\ Waiting' = Waiting
        /\ UNCHANGED <<left, aiocbs>>
    <3>1. CASE TestLeft \/ SkipElement
      BY <1>0, <1>1, <3>1 DEF ReadTokens, Submitted, Waiting, TestLeft, SkipElement, NextElement, call
    <3>2. CASE TakeRead
      BY <1>0, <1>1, <3>2 DEF TypeOK, ReadTokens, Submitted, Waiting, TakeRead, call
    <3>3. CASE PutRead
      BY <1>0, <1>1, <3>3 DEF TypeOK, ReadTokens, Submitted, Waiting, PutRead, call
    <3> QED
      BY <1>11, <3>1, <3>2, <3>3
  <2>2. NListed' = NListed /\ NSignalled' = NSignalled /\ NMissed' = NMissed
    BY <1>0, <1>11, CountsKept DEF TestLeft, TakeRead, PutRead, SkipElement, call
  <2> QED
    BY <1>0, <1>1, <2>1, <2>2 DEF TokenInv
<1>12. CASE StartWriter \/ Join \/ UNCHANGED vars
  <2>1. /\ ReadTokens' = ReadTokens /\ Submitted' = Submitted /\ Waiting' = Waiting
        /\ UNCHANGED <<left, aiocbs>>
    BY <1>0, <1>1, <1>12 DEF TypeOK, ControlInv, ReadTokens, Submitted, Waiting, StartWriter, Join, vars, writer, call
  <2>2. NListed' = NListed /\ NSignalled' = NSignalled /\ NMissed' = NMissed
    BY <1>0, <1>12, CountsKept DEF StartWriter, Join, vars, writer, call
  <2> QED
    BY <1>0, <1>1, <2>1, <2>2 DEF TokenInv
<1> QED
  BY <1>2, <1>3, <1>4, <1>5, <1>6, <1>7, <1>8, <1>9, <1>10, <1>11, <1>12
     DEF Next, Main, Reader, Writer

---------------------------------------------------------------------------
\* Every step keeps what is known at its place of the program.
LEMMA ControlStep == ASSUME IInv, [Next]_vars PROVE ControlInv'
<1>0. TypeOK /\ ControlInv /\ TokenInv /\ N \in Nat
  BY ConcatAssumption DEF IInv
<1>1. /\ NListed \in 0 .. N /\ NSignalled \in Nat /\ NMissed \in Nat
      /\ left \in Nat /\ aiocbs \in Nat /\ Len(writes) \in Nat /\ writes \in Seq(Files)
      /\ sem.r \in Nat /\ sem.w \in Nat /\ main \in 1 .. (N + 1)
  BY <1>0, CountFacts, QueueFacts DEF TypeOK
<1>2. CASE OpenFile
  BY <1>0, <1>1, <1>2 DEF TypeOK, ControlInv, OpenFile, Advance, writer, Files
<1>3. CASE OpenMissing \/ OpenEmpty
  BY <1>0, <1>1, <1>3 DEF TypeOK, ControlInv, OpenMissing, OpenEmpty, Advance, writer, Files
<1>4. ASSUME NEW i \in Files, FillBuffer(i) \/ ReadEndRoutine(i) PROVE ControlInv'
  <2>1. \A j \in Files : read'[j] # "no" => read[j] # "no"
    BY <1>0, <1>4 DEF TypeOK, FillBuffer, ReadEndRoutine
  <2>2. NMissed' = NMissed
    BY <1>0, <1>4, CountsFill, CountsRead
  <2> QED
    BY <1>0, <1>4, <2>1, <2>2 DEF ControlInv, FillBuffer, ReadEndRoutine, writer, call
<1>5. CASE WriteEndRoutine
  <2>1. Len(writes') = Len(writes) - 1 /\ Len(writes) # 0
    BY <1>1, <1>5, QueueFacts DEF WriteEndRoutine
  <2> QED
    BY <1>0, <1>1, <1>5, <2>1, CountsKept DEF ControlInv, WriteEndRoutine, writer, call
<1>6. CASE Flush
  <2>1. Len(writes) = 0
    BY <1>0, <1>1, <1>6 DEF ControlInv, TokenInv, Submitted, Waiting, Flush
  <2> QED
    BY <1>0, <1>1, <1>6, <2>1, CountsKept DEF ControlInv, Flush, call
<1>7. CASE SkipElement \/ SubmitWrite \/ CountWrite
  <2>1. pc \in {"scan", "wait"} /\ UNCHANGED <<call, read>>
    BY <1>7 DEF SkipElement, SubmitWrite, CountWrite
  <2>2. \/ pc' = "test"
        \/ pc' = "scan" /\ at # N /\ at' = at + 1
        \/ pc' = "wait" /\ at' = at
    BY <1>7 DEF SkipElement, SubmitWrite, CountWrite, NextElement
  <2>3. pc' \in {"scan", "wait"} => at' \in Files
    BY <1>0, <2>1, <2>2 DEF ControlInv, Files
  <2> QED
    BY <1>0, <2>1, <2>2, <2>3 DEF ControlInv, call
<1>8. CASE PutRead
  <2>1. 1 \in Files
    BY <1>0, <1>1, <1>8 DEF ControlInv, TokenInv, PutRead, Files
  <2> QED
    BY <1>0, <1>8, <2>1 DEF ControlInv, PutRead, call
<1>9. CASE TestLeft \/ TakeRead
  BY <1>0, <1>9 DEF ControlInv, TestLeft, TakeRead, call
<1>10. CASE StartWriter \/ Join \/ UNCHANGED vars
  BY <1>0, <1>10, CountsKept DEF ControlInv, StartWriter, Join, vars, writer, call
<1> QED
  BY <1>2, <1>3, <1>4, <1>5, <1>6, <1>7, <1>8, <1>9, <1>10
     DEF Next, Main, Reader, Writer

\* Types are kept; that no count goes below 0 is what the tokens are for.
LEMMA TypeStep == ASSUME IInv, [Next]_vars PROVE TypeOK'
<1>0. TypeOK /\ ControlInv /\ TokenInv /\ N \in Nat
  BY ConcatAssumption DEF IInv
<1>1. TokenInv' /\ ControlInv'
  BY TokenStep, ControlStep
<1>2. /\ NListed \in 0 .. N /\ NSignalled \in 0 .. N /\ NSignalled <= NListed
      /\ Len(writes) \in Nat /\ writes \in Seq(Files)
  BY <1>0, CountFacts, QueueFacts DEF TypeOK
<1>3. NListed' \in 0 .. N /\ NSignalled' \in 0 .. N /\ NMissed' \in 0 .. N
  <2>1. Listed' \in SUBSET Files /\ Signalled' \in SUBSET Files /\ Missed' \in SUBSET Files
    BY DEF Listed, Signalled, Missed, Files
  <2> QED
    BY <2>1, SubsetFacts DEF NListed, NSignalled, NMissed
<1>4. writes' \in Seq(Files) /\ output' \in [Files -> {"hole", "torn", "full"}]
  <2>1. CASE WriteEndRoutine
    BY <1>0, <1>2, <2>1, QueueFacts DEF TypeOK, WriteEndRoutine
  <2>2. CASE SubmitWrite
    BY <1>0, <1>2, <2>2, QueueFacts DEF TypeOK, ControlInv, SubmitWrite
  <2>3. ASSUME UNCHANGED <<writes, output>> PROVE writes' \in Seq(Files) /\ output' \in [Files -> {"hole", "torn", "full"}]
    BY <1>0, <2>3 DEF TypeOK
  <2> QED
    BY <2>1, <2>2, <2>3 DEF Next, Main, OpenMissing, OpenEmpty, OpenFile, StartWriter, Join,
        Reader, FillBuffer, ReadEndRoutine, Writer, TestLeft, TakeRead, PutRead, SkipElement,
        CountWrite, Flush, vars
<1>5. read' \in [Files -> {"no", "begun", "torn", "full", "signalled"}]
  BY <1>0 DEF TypeOK, Next, Main, OpenMissing, OpenEmpty, OpenFile, StartWriter, Join,
      Reader, FillBuffer, ReadEndRoutine, WriteEndRoutine, Writer, TestLeft, TakeRead, PutRead,
      SkipElement, SubmitWrite, CountWrite, Flush, vars
<1>6. /\ kind' \in [Files -> Kinds] /\ done' \in BOOLEAN
      /\ main' \in 1 .. (N + 1)
  <2>1. CASE OpenMissing \/ OpenEmpty \/ OpenFile
    <3>1. main \in Files /\ main' = main + 1 /\ UNCHANGED kind /\ UNCHANGED done
      BY <2>1 DEF OpenMissing, OpenEmpty, OpenFile, Advance
    <3>2. main' \in 1 .. (N + 1)
      BY <1>0, <3>1 DEF Files
    <3> QED
      BY <1>0, <3>1, <3>2, Zenon DEF TypeOK
  <2>2. CASE Join
    BY <1>0, <2>2 DEF TypeOK, Join
  <2>3. ASSUME UNCHANGED <<kind, main, done>>
        PROVE  kind' \in [Files -> Kinds] /\ done' \in BOOLEAN /\ main' \in 1 .. (N + 1)
    BY <1>0, <2>3, Zenon DEF TypeOK
  <2>4. \/ OpenMissing \/ OpenEmpty \/ OpenFile \/ Join
        \/ UNCHANGED <<kind, main, done>>
    BY DEF Next, Main, StartWriter,
          Reader, FillBuffer, ReadEndRoutine, WriteEndRoutine, Writer, TestLeft, TakeRead, PutRead,
          SkipElement, SubmitWrite, CountWrite, Flush, vars, call
  <2> QED
    BY <2>1, <2>2, <2>3, <2>4
<1>7. /\ pc' \in {"no", "test", "take", "put", "scan", "wait", "flush", "end"}
      /\ at' \in 0 .. N /\ turns' \in 0 .. 2
  <2>1. /\ pc' \in {"no", "test", "take", "put", "scan", "wait", "flush", "end"}
        /\ turns' \in 0 .. 2
    BY <1>0 DEF TypeOK, Next, Main, OpenMissing, OpenEmpty, OpenFile, StartWriter, Join,
        Reader, FillBuffer, ReadEndRoutine, WriteEndRoutine, Writer, TestLeft, TakeRead, PutRead,
        SkipElement, SubmitWrite, CountWrite, NextElement, Flush, vars, writer
  <2>2. ASSUME pc \in {"put", "scan", "wait"}, Writer PROVE at' \in 0 .. N
    <3>1. CASE PutRead
      <4>1. pc = "put" /\ at' = 1
        BY <3>1 DEF PutRead
      <4>2. left # 0 /\ left \in Nat /\ left <= NListed
        BY <1>0, <4>1 DEF ControlInv, TokenInv, TypeOK
      <4> QED
        BY <1>0, <1>2, <4>1, <4>2
    <3>2. CASE SkipElement \/ CountWrite
      <4>1. pc \in {"scan", "wait"} /\ NextElement
        BY <3>2 DEF SkipElement, CountWrite
      <4>2. at \in 1 .. N
        BY <1>0, <4>1 DEF ControlInv, Files
      <4> QED
        BY <1>0, <4>1, <4>2 DEF NextElement
    <3>3. CASE UNCHANGED at
      BY <1>0, <3>3 DEF TypeOK
    <3>4. PutRead \/ SkipElement \/ CountWrite \/ UNCHANGED at
      BY <2>2 DEF Writer, TestLeft, TakeRead, SubmitWrite, Flush
    <3> QED
      BY <3>1, <3>2, <3>3, <3>4
  <2>3. ASSUME UNCHANGED at PROVE at' \in 0 .. N
    BY <1>0, <2>3 DEF TypeOK
  <2> QED
    BY <2>1, <2>2, <2>3 DEF Next, Main, OpenMissing, OpenEmpty, OpenFile, StartWriter, Join,
        Reader, FillBuffer, ReadEndRoutine, WriteEndRoutine, Writer, TestLeft, TakeRead, PutRead,
        SkipElement, SubmitWrite, CountWrite, Flush, vars, writer
<1>8. left' \in 0 .. N /\ aiocbs' \in 0 .. N
  <2>1. left' \in Int /\ left' >= 0 /\ aiocbs' \in Nat
    <3>1. left' \in {left, left + 1} \/ CountWrite
      BY DEF Next, Main, OpenMissing, OpenEmpty, OpenFile, StartWriter, Join,
          Reader, FillBuffer, ReadEndRoutine, WriteEndRoutine, Writer, TestLeft, TakeRead, PutRead,
          SkipElement, SubmitWrite, CountWrite, Flush, vars, call
    <3>2. ASSUME CountWrite PROVE left' = left - 1 /\ left # 0
      <4>1. pc = "wait" /\ sem.r > 0 /\ left' = left - 1 /\ sem.r \in Nat /\ left \in Nat
        BY <1>0, <3>2 DEF TypeOK, CountWrite
      <4>2. ReadTokens = sem.r
        BY <4>1 DEF ReadTokens
      <4> QED
        BY <1>0, <1>2, <4>1, <4>2 DEF TokenInv
    <3>3. aiocbs' \in {aiocbs, aiocbs + 1}
      BY DEF Next, Main, OpenMissing, OpenEmpty, OpenFile, StartWriter, Join,
          Reader, FillBuffer, ReadEndRoutine, WriteEndRoutine, Writer, TestLeft, TakeRead, PutRead,
          SkipElement, SubmitWrite, CountWrite, Flush, vars, call
    <3> QED
      BY <1>0, <3>1, <3>2, <3>3 DEF TypeOK
  <2>2. left' <= N
    BY <1>0, <1>1, <1>3, <2>1 DEF TokenInv
  <2>3. aiocbs' <= N
    BY <1>0, <1>1, <1>6, <2>1 DEF ControlInv
  <2> QED
    BY <1>0, <2>1, <2>2, <2>3
<1>9. sem' \in [r : 0 .. N, w : 0 .. (N + 1)]
  <2>1. sem' \in [r : Nat, w : Nat]
    <3>1. CASE TakeRead \/ PutRead \/ CountWrite
      BY <1>0, <3>1 DEF TypeOK, TakeRead, PutRead, CountWrite
    <3>2. CASE Flush
      BY <1>0, <3>2 DEF TypeOK, Flush
    <3>3. ASSUME NEW i \in Files, ReadEndRoutine(i) PROVE sem' \in [r : Nat, w : Nat]
      BY <1>0, <3>3 DEF TypeOK, ReadEndRoutine
    <3>4. CASE WriteEndRoutine
      <4>1. sem \in [r : Nat, w : Nat] /\ sem' = [sem EXCEPT !.w = @ + 1]
        BY <1>0, <3>4 DEF TypeOK, WriteEndRoutine
      <4> QED
        BY <4>1
    <3>5. ASSUME UNCHANGED sem PROVE sem' \in [r : Nat, w : Nat]
      BY <1>0, <3>5 DEF TypeOK
    <3> QED
      BY <3>1, <3>2, <3>3, <3>4, <3>5 DEF Next, Main, OpenMissing, OpenEmpty, OpenFile,
          StartWriter, Join, Reader, FillBuffer, Writer, TestLeft, SkipElement, SubmitWrite, vars
  <2>2. Len(writes') \in Nat
    BY <1>4, QueueFacts
  <2>3. sem'.r <= ReadTokens' /\ sem'.w <= Submitted' /\ ReadTokens' \in Nat /\ Submitted' \in Nat
        /\ Waiting' \in 0 .. 1
    BY <1>8, <2>1, <2>2 DEF ReadTokens, Submitted, Waiting
  <2>4. ReadTokens' <= N /\ Submitted' <= N + 1
    <3>1. /\ NSignalled' = ReadTokens' + (NListed' - left')
          /\ Submitted' = (NListed' - left') + Waiting'
          /\ left' <= NListed'
      BY <1>1 DEF TokenInv
    <3>2. NListed' - left' \in 0 .. N
      <4>1. \A x, y \in 0 .. N : y <= x => x - y \in 0 .. N
        BY <1>0
      <4> QED
        BY <1>3, <1>8, <3>1, <4>1, Zenon
    <3>3. \A n, w, r, d \in Nat :
            /\ n = r + d /\ n <= N => r <= N
            /\ w \in 0 .. 1 /\ d <= N => d + w <= N + 1
      BY <1>0
    <3>4. ReadTokens' <= N
      BY <1>0, <1>3, <2>3, <3>1, <3>2, <3>3
    <3>5. Submitted' <= N + 1
      BY <1>0, <2>3, <3>1, <3>2, <3>3
    <3> QED
      BY <3>4, <3>5
  <2>5. sem'.r \in 0 .. N /\ sem'.w \in 0 .. (N + 1)
    BY <1>0, <2>1, <2>3, <2>4
  <2> QED
    BY <2>1, <2>5
<1> QED
  BY <1>0, <1>3, <1>4, <1>5, <1>6, <1>7, <1>8, <1>9 DEF TypeOK

\* The invariant holds in every reachable state.
THEOREM Invariance == Spec => []IInv
<1>1. IInv /\ [Next]_vars => IInv'
  BY TypeStep, ControlStep, TokenStep DEF IInv
<1> QED
  BY <1>1, InitIInv, PTL DEF Spec

---------------------------------------------------------------------------
\* In particular files_to_write_ never goes below 0, although the writer counts
\* down for files it writes twice.
THEOREM TypeCorrect == Spec => []TypeOK
  BY Invariance, PTL DEF IInv

\* Every finished read is a token or has been used to count off one file.
THEOREM TokensKept == Spec => []TokensConserved
<1>1. IInv => TokensConserved
  BY DEF IInv, TokenInv, ReadTokens, TokensConserved, NSignalled, NListed
<1> QED
  BY <1>1, Invariance, PTL

\* What the invariant says of a call that has returned.
LEMMA DoneFacts ==
    ASSUME IInv, done
    PROVE  pc = "end" /\ left = 0 /\ writes = <<>>
<1>1. TypeOK /\ ControlInv
  BY DEF IInv
<1>2. Len(writes) = 0 /\ pc = "end" /\ left = 0
  BY <1>1 DEF ControlInv
<1>3. writes \in Seq(Files)
  BY <1>1 DEF TypeOK
<1> QED
  BY <1>2, <1>3, EmptySeq

\* When the buffers are freed every write that was submitted is done.
THEOREM SafeReturn == Spec => []NoWriteAfterReturn
<1>1. IInv => NoWriteAfterReturn
  BY DoneFacts DEF NoWriteAfterReturn
<1> QED
  BY <1>1, Invariance, PTL

---------------------------------------------------------------------------
(***************************************************************************)
(* Most files are written.  The files that were submitted to be written,   *)
(* once or more often, are the ones in the queue and in the output.        *)
(***************************************************************************)
Queued == {writes[k] : k \in 1 .. Len(writes)}
Seen == {i \in Listed : output[i] # "hole" \/ i \in Queued}
NSeen == Cardinality(Seen)
Counted == NListed - left

NoNul == \A i \in Files : kind[i] # "nul"
Scanning == pc \in {"scan", "wait"}

\* The files the turn has gone past and that were submitted, in this turn or before.
Behind == {i \in Seen : i < at}

\* The files whose reads have ended, without those the turn has missed.
Due == {i \in Signalled : i < at => i \in Seen}

\* A turn begins with a token in hand, so fewer files are counted off than reads
\* have ended; what it counts off it leaves behind.
InTurn == Counted + 1 <= Cardinality(Due) + Cardinality(Behind)

\* A turn ends with the files due and those behind among the files seen.
BetweenTurns == Counted = 0 \/ Counted + 1 <= NSeen + NSeen

TurnInv == pc # "no" => (IF Scanning THEN InTurn ELSE BetweenTurns)

MostInv ==
    /\ \A i \in Files : read[i] # "no" => kind[i] \in {"text", "nul"}
    /\ pc = "no" => Counted = 0
    /\ pc = "wait" => at \in Seen
    /\ NoNul => TurnInv

\* What Append and Tail do to the members of a queue.
LEMMA QueueMembers ==
    ASSUME NEW S, NEW s \in Seq(S), NEW x \in S
    PROVE  /\ {Append(s, x)[k] : k \in 1 .. Len(Append(s, x))}
                = {s[k] : k \in 1 .. Len(s)} \cup {x}
           /\ s # <<>> => {s[k] : k \in 1 .. Len(s)}
                            = {Head(s)} \cup {Tail(s)[k] : k \in 1 .. Len(Tail(s))}
<1>1. {Append(s, x)[k] : k \in 1 .. Len(Append(s, x))} = {s[k] : k \in 1 .. Len(s)} \cup {x}
  <2>1. /\ Len(Append(s, x)) = Len(s) + 1 /\ Len(s) \in Nat
        /\ \A k \in 1 .. Len(s) : Append(s, x)[k] = s[k]
        /\ Append(s, x)[Len(s) + 1] = x
    OBVIOUS
  <2>2. 1 .. (Len(s) + 1) = (1 .. Len(s)) \cup {Len(s) + 1}
    BY <2>1
  <2> QED
    BY <2>1, <2>2
<1>2. ASSUME s # <<>>
      PROVE  {s[k] : k \in 1 .. Len(s)}
                = {Head(s)} \cup {Tail(s)[k] : k \in 1 .. Len(Tail(s))}
  <2>1. /\ Len(s) \in Nat \ {0} /\ Len(Tail(s)) = Len(s) - 1 /\ Head(s) = s[1]
        /\ \A k \in 1 .. Len(Tail(s)) : Tail(s)[k] = s[k + 1]
    BY <1>2, HeadTailProperties, EmptySeq
  <2>2. ASSUME NEW k \in 1 .. Len(s), k # 1
        PROVE  \E j \in 1 .. Len(Tail(s)) : Tail(s)[j] = s[k]
    <3>1. k - 1 \in 1 .. Len(Tail(s)) /\ (k - 1) + 1 = k
      BY <2>1, <2>2
    <3>2. Tail(s)[k - 1] = s[k]
      BY <2>1, <3>1
    <3> QED
      BY <3>1, <3>2
  <2>3. \A k \in 1 .. Len(Tail(s)) : k + 1 \in 1 .. Len(s)
    BY <2>1
  <2> QED
    BY <2>1, <2>2, <2>3
<1> QED
  BY <1>1, <1>2

\* Of two sets of files the part is not larger than the whole.
LEMMA PartFacts ==
    ASSUME NEW S \in SUBSET Files, NEW T \in SUBSET S
    PROVE  Cardinality(T) <= Cardinality(S) /\ Cardinality(T) \in Nat /\ Cardinality(S) \in Nat
<1>1. N \in Nat /\ IsFiniteSet(S) /\ T \in SUBSET Files
  BY SubsetFacts, ConcatAssumption
<1> QED
  BY <1>1, SubsetFacts, FS_Subset

\* The counter never exceeds the list.
LEMMA CountedFacts == ASSUME IInv PROVE Counted \in Nat
  BY CountFacts, ConcatAssumption DEF IInv, TypeOK, TokenInv, Counted

\* What was submitted is of the list.
LEMMA SeenFacts ==
    /\ Seen \in SUBSET Files /\ Listed \in SUBSET Files /\ Signalled \in SUBSET Files
    /\ Due \in SUBSET Files /\ Behind \in SUBSET Seen /\ Seen \in SUBSET Listed
    /\ NListed \in Nat /\ NSeen \in Nat
    /\ Cardinality(Due) \in Nat /\ Cardinality(Behind) \in Nat
<1>1. /\ Seen \in SUBSET Files /\ Listed \in SUBSET Files /\ Signalled \in SUBSET Files
      /\ Due \in SUBSET Files /\ Behind \in SUBSET Seen /\ Seen \in SUBSET Listed
  BY DEF Seen, Listed, Signalled, Due, Behind
<1> QED
  BY <1>1, PartFacts DEF NListed, NSeen

\* What was submitted stays so when its write is done.
LEMMA SeenKept ==
    ASSUME TypeOK, Listed' = Listed, UNCHANGED <<output, writes>> \/ WriteEndRoutine
    PROVE  Seen' = Seen
<1>1. CASE UNCHANGED <<output, writes>>
  BY <1>1 DEF Seen, Queued
<1>2. CASE WriteEndRoutine
  <2>1. /\ writes \in Seq(Files) /\ writes # <<>> /\ Head(writes) \in Files
        /\ writes' = Tail(writes)
        /\ output' = [output EXCEPT
             ![Head(writes)] = IF read[Head(writes)] = "torn" THEN "torn" ELSE "full"]
    BY <1>2, QueueFacts DEF TypeOK, WriteEndRoutine
  <2>2. Queued = {Head(writes)} \cup Queued'
    BY <2>1, QueueMembers DEF Queued
  <2>3. /\ output'[Head(writes)] # "hole"
        /\ \A i \in Files \ {Head(writes)} : output'[i] = output[i]
    BY <2>1 DEF TypeOK
  <2>4. Listed \subseteq Files
    BY SeenFacts
  <2> QED
    BY <2>2, <2>3, <2>4 DEF Seen
<1> QED
  BY <1>1, <1>2

\* A step that keeps what was submitted and only lets reads end.
LEMMA TurnKept ==
    ASSUME IInv, MostInv, NoNul, pc # "no",
           Scanning' <=> Scanning, Scanning => at' = at,
           Listed' = Listed, Seen' = Seen, left' = left,
           Signalled \in SUBSET Signalled', Signalled' \in SUBSET Files
    PROVE  TurnInv'
<1>1. Counted' = Counted /\ NSeen' = NSeen /\ TurnInv
  BY DEF Counted, NListed, NSeen, MostInv
<1>2. ASSUME Scanning PROVE InTurn'
  <2>1. Behind' = Behind /\ Due \in SUBSET Due' /\ Due' \in SUBSET Files
    BY <1>2 DEF Behind, Due
  <2>2. Cardinality(Due) <= Cardinality(Due') /\ Cardinality(Due') \in Nat
    BY <2>1, PartFacts
  <2>3. InTurn /\ Counted \in Nat
    BY <1>1, <1>2, CountedFacts DEF TurnInv
  <2>4. Counted + 1 <= Cardinality(Due') + Cardinality(Behind)
    BY <2>2, <2>3, SeenFacts DEF InTurn
  <2> QED
    BY <1>1, <2>1, <2>4 DEF InTurn
<1>3. ASSUME ~ Scanning PROVE BetweenTurns'
  BY <1>1, <1>3 DEF TurnInv, BetweenTurns
<1> QED
  BY <1>2, <1>3 DEF TurnInv

\* A turn begins: no file is behind, all the reads that have ended are due, and
\* one of their tokens is in the hands of the writer.
LEMMA TurnPut == ASSUME IInv, MostInv, PutRead PROVE InTurn'
<1>1. /\ TypeOK /\ TokenInv /\ pc = "put" /\ at' = 1
      /\ UNCHANGED <<kind, left, read, output, writes>>
  BY DEF IInv, PutRead, call
<1>2. Listed' = Listed /\ Signalled' = Signalled /\ Counted' = Counted
  BY <1>1 DEF Listed, Signalled, Counted, NListed
<1>3. Due' = Signalled /\ Behind' = {}
  <2>1. \A i \in Files : ~ (i < 1)
    BY ConcatAssumption DEF Files
  <2>2. Signalled' \in SUBSET Files /\ Seen' \in SUBSET Files
    BY DEF Signalled, Seen, Listed, Files
  <2> QED
    BY <1>1, <1>2, <2>1, <2>2 DEF Due, Behind
<1>4. sem.r \in Nat /\ Counted \in Nat /\ NSignalled = sem.r + 1 + Counted
  BY <1>1, CountedFacts DEF TypeOK, TokenInv, ReadTokens, Counted
<1>5. Cardinality({}) = 0
  BY FS_EmptySet
<1> QED
  BY <1>2, <1>3, <1>4, <1>5 DEF InTurn, NSignalled

\* A write is submitted: its file is seen from now on.
LEMMA TurnSubmit ==
    ASSUME IInv, MostInv, SubmitWrite
    PROVE  at' \in Seen' /\ (NoNul => InTurn')
<1>1. /\ TypeOK /\ pc = "scan" /\ at \in Files /\ Visible(at) /\ (NoNul => InTurn)
      /\ UNCHANGED <<kind, left, read, output, at>> /\ writes' = Append(writes, at)
  BY DEF IInv, SubmitWrite, ControlInv, call, MostInv, TurnInv, Scanning
<1>2. Listed' = Listed /\ Signalled' = Signalled /\ Counted' = Counted /\ at \in Listed
  BY <1>1 DEF Listed, Signalled, Counted, NListed, Visible
<1>3. Seen' = Seen \cup {at}
  <2>1. Queued' = Queued \cup {at}
    BY <1>1, QueueMembers DEF Queued, TypeOK
  <2> QED
    BY <1>1, <1>2, <2>1 DEF Seen
<1>4. Behind' = Behind /\ Due \in SUBSET Due' /\ Due' \in SUBSET Files
  BY <1>1, <1>2, <1>3, SeenFacts DEF Behind, Due, Files
<1>5. Cardinality(Due) <= Cardinality(Due') /\ Cardinality(Due') \in Nat
  BY <1>4, PartFacts
<1>6. NoNul => Counted + 1 <= Cardinality(Due') + Cardinality(Behind)
  BY <1>1, <1>5, SeenFacts, CountedFacts DEF InTurn
<1> QED
  BY <1>1, <1>2, <1>3, <1>4, <1>6 DEF InTurn

\* The loop goes on from an element that is behind from now on, if it was seen.  It
\* misses no file that is due; after the last element those due are seen.
LEMMA TurnNext ==
    ASSUME IInv, MostInv, Scanning, NextElement, at \in Signalled => at \in Seen,
           UNCHANGED <<kind, read, output, writes>>,
           Counted' \in Nat,
           Counted' + 1 <= Cardinality(Due) + Cardinality(Behind \cup (Seen \cap {at}))
    PROVE  TurnInv'
<1>1. TypeOK /\ at \in Files /\ N \in Nat
  BY ConcatAssumption DEF IInv, ControlInv, Scanning
<1>2. Listed' = Listed /\ Signalled' = Signalled /\ Seen' = Seen /\ NSeen' = NSeen
  <2>1. Listed' = Listed /\ Signalled' = Signalled
    BY DEF Listed, Signalled
  <2> QED
    BY <1>1, <2>1, SeenKept DEF NSeen
<1>3. CASE at = N
  <2>1. Due \in SUBSET Seen /\ Behind \cup (Seen \cap {at}) \in SUBSET Seen
    BY <1>1, <1>3, SeenFacts DEF Due, Behind, Files
  <2>2. /\ Cardinality(Due) <= NSeen /\ Cardinality(Behind \cup (Seen \cap {at})) <= NSeen
        /\ Cardinality(Due) \in Nat /\ Cardinality(Behind \cup (Seen \cap {at})) \in Nat
        /\ NSeen \in Nat
    BY <2>1, SeenFacts, PartFacts DEF NSeen
  <2>3. Counted' + 1 <= NSeen + NSeen
    <3>1. \A c, d, b, s \in Nat : c + 1 <= d + b /\ d <= s /\ b <= s => c + 1 <= s + s
      OBVIOUS
    <3> QED
      BY <2>2, <3>1
  <2>4. ~ Scanning'
    BY <1>3 DEF NextElement, Scanning
  <2> QED
    BY <1>2, <2>3, <2>4 DEF TurnInv, BetweenTurns
<1>4. CASE at # N
  <2>1. pc' = "scan" /\ at' = at + 1
    BY <1>4 DEF NextElement
  <2>2. Behind' = Behind \cup (Seen \cap {at}) /\ Due' = Due
    <3>1. \A i \in Files : i < at + 1 <=> i < at \/ i = at
      BY <1>1 DEF Files
    <3>2. Seen \in SUBSET Files /\ Signalled \in SUBSET Files
      BY SeenFacts
    <3>3. Behind' = Behind \cup (Seen \cap {at})
      BY <1>2, <2>1, <3>1, <3>2 DEF Behind
    <3>4. \A i \in Signalled : (i < at + 1 => i \in Seen) <=> (i < at => i \in Seen)
      BY <3>1, <3>2
    <3>5. Due' = Due
      BY <1>2, <2>1, <3>4 DEF Due
    <3> QED
      BY <3>3, <3>5
  <2>3. InTurn'
    BY <2>2 DEF InTurn
  <2> QED
    BY <2>1, <2>3 DEF TurnInv, Scanning
<1> QED
  BY <1>3, <1>4

\* The loop passes over an element whose read has not ended.
LEMMA TurnSkip == ASSUME IInv, MostInv, NoNul, SkipElement PROVE TurnInv'
<1>1. /\ TypeOK /\ ControlInv /\ Scanning /\ NextElement /\ ~ Visible(at) /\ InTurn
      /\ UNCHANGED <<kind, left, read, output, writes>> /\ at \in Files
  BY DEF IInv, ControlInv, SkipElement, Scanning, call, MostInv, TurnInv
<1>2. at \notin Signalled
  BY <1>1 DEF MostInv, NoNul, Visible, Signalled
<1>3. Counted' = Counted /\ Counted \in Nat
  BY <1>1, CountedFacts DEF Counted, NListed, Listed
<1>4. Cardinality(Behind) <= Cardinality(Behind \cup (Seen \cap {at}))
      /\ Cardinality(Behind \cup (Seen \cap {at})) \in Nat
  <2>1. /\ Behind \cup (Seen \cap {at}) \in SUBSET Files
        /\ Behind \in SUBSET (Behind \cup (Seen \cap {at}))
    BY SeenFacts
  <2> QED
    BY <2>1, PartFacts
<1>5. Counted' + 1 <= Cardinality(Due) + Cardinality(Behind \cup (Seen \cap {at}))
  BY <1>1, <1>3, <1>4, SeenFacts DEF InTurn
<1> QED
  BY <1>1, <1>2, <1>3, <1>5, TurnNext

\* A write is counted off, and its file is left behind.
LEMMA TurnCount == ASSUME IInv, MostInv, NoNul, CountWrite PROVE TurnInv'
<1>1. /\ TypeOK /\ Scanning /\ NextElement /\ pc = "wait" /\ left' = left - 1 /\ InTurn
      /\ UNCHANGED <<kind, read, output, writes>> /\ at \in Seen
  BY DEF IInv, CountWrite, Scanning, call, MostInv, TurnInv
<1>2. Counted' = Counted + 1 /\ Counted \in Nat
  BY <1>1, CountedFacts, SeenFacts DEF Counted, NListed, Listed, TypeOK
<1>3. Behind \cup (Seen \cap {at}) = Behind \cup {at} /\ at \notin Behind
      /\ at \in Files /\ Behind \in SUBSET Files
  <2>1. ~ (at < at)
    BY <1>1, SeenFacts, ConcatAssumption DEF Files
  <2> QED
    BY <1>1, <2>1, SeenFacts DEF Behind
<1>4. Cardinality(Behind \cup (Seen \cap {at})) = Cardinality(Behind) + 1
  BY <1>3, AddFacts
<1>5. Counted' + 1 <= Cardinality(Due) + Cardinality(Behind \cup (Seen \cap {at}))
  BY <1>1, <1>2, <1>4, SeenFacts DEF InTurn
<1> QED
  BY <1>1, <1>2, <1>5, TurnNext

\* Every step keeps it; those outside of the loop leave its counts alone.
LEMMA MostStep == ASSUME IInv, MostInv, [Next]_vars PROVE MostInv'
<1>0. TypeOK /\ ControlInv /\ TokenInv /\ kind' = kind
  BY DEF IInv, Next, vars, call, Main, Reader, Writer, OpenMissing, OpenEmpty, OpenFile,
         StartWriter, Join, Advance, FillBuffer, ReadEndRoutine, WriteEndRoutine, TestLeft,
         TakeRead, PutRead, SkipElement, SubmitWrite, CountWrite, Flush
<1>1. ASSUME pc # "no", Listed' = Listed, UNCHANGED <<left, pc, at>>,
             UNCHANGED <<output, writes>> \/ WriteEndRoutine,
             Signalled \in SUBSET Signalled'
      PROVE  MostInv'
  <2>1. Seen' = Seen
    BY <1>0, <1>1, SeenKept
  <2>2. Signalled' \in SUBSET Files
    BY DEF Signalled, Files
  <2>3. NoNul' => TurnInv'
    BY <1>0, <1>1, <2>1, <2>2, TurnKept DEF NoNul, Scanning, Files
  <2>4. (\A i \in Files : read[i] # "no" => kind[i] \in {"text", "nul"})'
    BY <1>0, <1>1 DEF MostInv, Listed, Files
  <2> QED
    BY <1>1, <2>1, <2>3, <2>4 DEF MostInv
<1>2. CASE OpenFile \/ OpenMissing \/ OpenEmpty
  <2>1. pc = "no" /\ pc' = "no"
    BY <1>0, <1>2, ConcatAssumption
       DEF ControlInv, OpenFile, OpenMissing, OpenEmpty, writer, Files
  <2>2. Counted' = Counted
    <3>1. NListed \in Int /\ left \in Int
      BY <1>0, SeenFacts DEF TypeOK
    <3>2. \/ NListed' = NListed + 1 /\ left' = left + 1
          \/ NListed' = NListed /\ left' = left
      BY <1>0, <1>2, CountsOpenFile, CountsOpenMissing, CountsOpenEmpty
         DEF OpenFile, OpenMissing, OpenEmpty
    <3> QED
      BY <3>1, <3>2 DEF Counted
  <2>3. (\A i \in Files : read[i] # "no" => kind[i] \in {"text", "nul"})'
    BY <1>0, <1>2 DEF MostInv, OpenFile, OpenMissing, OpenEmpty, TypeOK, Files
  <2> QED
    BY <2>1, <2>2, <2>3 DEF MostInv, TurnInv
<1>3. CASE StartWriter
  <2>1. pc = "no" /\ pc' = "test" /\ UNCHANGED <<left, read>>
    BY <1>3 DEF StartWriter
  <2>2. Counted' = 0
    BY <2>1 DEF MostInv, Counted, NListed, Listed, Files
  <2> QED
    BY <1>0, <2>1, <2>2 DEF MostInv, TurnInv, BetweenTurns, Scanning, Files
<1>4. CASE WriteEndRoutine
  <2>1. UNCHANGED <<left, read, pc, at>> /\ (pc = "no" => MostInv')
    <3>1. UNCHANGED <<left, read, pc, at>>
      BY <1>4 DEF WriteEndRoutine, call, writer
    <3> QED
      BY <1>0, <3>1 DEF MostInv, TurnInv, Counted, NListed, Listed, Files
  <2> QED
    BY <1>1, <1>4, <2>1 DEF Listed, Signalled, Files
<1>5. CASE Join \/ UNCHANGED vars
  <2>1. UNCHANGED <<left, read, pc, at, output, writes>>
    BY <1>5 DEF Join, vars, writer
  <2>2. pc = "no" => MostInv'
    BY <1>0, <2>1 DEF MostInv, TurnInv, Counted, NListed, Listed, Files
  <2> QED
    BY <1>1, <2>1, <2>2 DEF Listed, Signalled, Files
<1>6. ASSUME NEW i \in Files, Reader(i) PROVE MostInv'
  <2>1. Listed' = Listed /\ Signalled \in SUBSET Signalled'
    BY <1>0, <1>6 DEF Reader, FillBuffer, ReadEndRoutine, TypeOK, Listed, Signalled, Files
  <2>2. UNCHANGED <<left, pc, at, output, writes>>
    BY <1>6 DEF Reader, FillBuffer, ReadEndRoutine, call, writer
  <2>3. ASSUME pc = "no" PROVE MostInv'
    <3>1. (\A j \in Files : read[j] # "no" => kind[j] \in {"text", "nul"})'
      BY <1>0, <2>1 DEF MostInv, Listed, Files
    <3> QED
      BY <2>1, <2>2, <2>3, <3>1 DEF MostInv, TurnInv, Counted, NListed
  <2> QED
    BY <1>1, <2>1, <2>2, <2>3
<1>7. ASSUME Writer, NoNul => TurnInv', pc' = "wait" => at' \in Seen', UNCHANGED read
      PROVE  MostInv'
  <2>1. pc' # "no"
    BY <1>7 DEF Writer, TestLeft, TakeRead, PutRead, SkipElement, NextElement, SubmitWrite,
                CountWrite, Flush
  <2> QED
    BY <1>0, <1>7, <2>1 DEF MostInv, NoNul, Files
<1>8. CASE TestLeft \/ TakeRead \/ Flush
  <2>1. /\ UNCHANGED <<left, read, output, writes>> /\ pc # "no"
        /\ ~ Scanning /\ ~ Scanning' /\ pc' # "wait"
    BY <1>8 DEF TestLeft, TakeRead, Flush, call, Scanning
  <2>2. Listed' = Listed /\ Signalled' = Signalled
    BY <2>1 DEF Listed, Signalled, Files
  <2>3. NoNul => TurnInv'
    BY <1>0, <2>1, <2>2, SeenKept, SeenFacts, TurnKept
  <2> QED
    BY <1>7, <1>8, <2>1, <2>3 DEF Writer
<1>9. CASE PutRead
  BY <1>7, <1>9, TurnPut DEF Writer, PutRead, TurnInv, Scanning
<1>10. CASE SubmitWrite
  BY <1>7, <1>10, TurnSubmit DEF Writer, SubmitWrite, TurnInv, Scanning
<1>11. CASE SkipElement \/ CountWrite
  <2>1. pc' # "wait" /\ UNCHANGED read
    BY <1>11 DEF SkipElement, CountWrite, NextElement
  <2> QED
    BY <1>7, <1>11, <2>1, TurnSkip, TurnCount DEF Writer
<1> QED
  BY <1>2, <1>3, <1>4, <1>5, <1>6, <1>8, <1>9, <1>10, <1>11 DEF Next, Main, Writer

\* With no file that begins with a 0, a call that returns has written more than half
\* of the files it had opened, however often it counted one of them.
THEOREM MostFilesWritten == Spec => []MostWritten
<1>1. Init => MostInv
  <2>1. ASSUME Init PROVE MostInv
    <3>1. (\A i \in Files : read[i] = "no") /\ pc = "no" /\ left = 0
      BY <2>1 DEF Init
    <3>2. Listed = {}
      BY <3>1 DEF Listed
    <3> QED
      BY <3>1, <3>2, FS_EmptySet DEF MostInv, TurnInv, Counted, NListed
  <2> QED
    BY <2>1
<1>2. IInv /\ MostInv => MostWritten
  <2>1. ASSUME IInv, MostInv, done, Listed # {}, NoNul
        PROVE  2 * Cardinality({i \in Listed : output[i] # "hole"}) > Cardinality(Listed)
    <3>1. pc = "end" /\ left = 0 /\ writes = <<>>
      BY <2>1, DoneFacts
    <3>2. BetweenTurns /\ Counted = NListed /\ NListed # 0
      <4>1. BetweenTurns
        BY <2>1, <3>1 DEF MostInv, TurnInv, Scanning
      <4>2. NListed # 0
        BY <2>1, SeenFacts, SubsetFacts, FS_EmptySet DEF NListed
      <4> QED
        BY <3>1, <4>1, <4>2, SeenFacts DEF Counted
    <3>3. Queued = {}
      BY <3>1, EmptySeq DEF Queued
    <3>4. Seen = {i \in Listed : output[i] # "hole"}
      BY <3>3 DEF Seen
    <3>5. \A n, s \in Nat : n + 1 <= s + s => 2 * s > n
      OBVIOUS
    <3> QED
      BY <3>2, <3>4, <3>5, SeenFacts DEF BetweenTurns, NSeen, NListed
  <2> QED
    BY <2>1 DEF MostWritten, NoNul
<1>3. IInv /\ MostInv /\ [Next]_vars => MostInv'
  BY MostStep
<1> QED
  BY <1>1, <1>2, <1>3, Invariance, PTL DEF Spec
=============================================================================
