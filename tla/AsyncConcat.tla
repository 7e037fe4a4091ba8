---------------------------- MODULE AsyncConcat ----------------------------
(***************************************************************************)
(* The library of SPO/Linux/Lab5: ConcatFiles starts an asynchronous read  *)
(* per source file and one writing thread.  A finished read raises the     *)
(* read semaphore, a finished write the write semaphore; the writer looks  *)
(* at the buffers to see which files have come.                            *)
(***************************************************************************)
EXTENDS Integers, Sequences, FiniteSets

CONSTANTS
    N,          \* the number of source files
    Kinds       \* what a source file may be

ASSUME ConcatAssumption ==
    N \in Nat /\ Kinds \subseteq {"text", "nul", "empty", "missing"}

VARIABLES
    kind,       \* kind[i]: "nul" is a file whose first byte is 0
    main,       \* the file ConcatFiles has come to; N + 1: it joins the writer
    done,       \* ConcatFiles has returned
    aiocbs,     \* thread_data_vector_.size()
    left,       \* files_to_write_
    read,       \* read[i]: how far the read of file i has come
    pc,         \* the writer
    at,         \* the element its loop over read_files_data_ has come to
    turns,      \* how often it has begun that loop; 2: twice or more
    writes,     \* the writes submitted and not done: one at a time, in order
    output,     \* output[i]: what lies in the output at the place of file i
    sem         \* the two semaphores

vars == <<kind, main, done, aiocbs, left, read, pc, at, turns, writes, output, sem>>
writer == <<pc, at, turns>>
call == <<kind, main, done, aiocbs>>

Files == 1 .. N

TypeOK ==
    /\ kind \in [Files -> Kinds]
    /\ main \in 1 .. (N + 1)
    /\ done \in BOOLEAN
    /\ aiocbs \in 0 .. N
    /\ left \in 0 .. N
    /\ read \in [Files -> {"no", "begun", "torn", "full", "signalled"}]
    /\ pc \in {"no", "test", "take", "put", "scan", "wait", "flush", "end"}
    /\ at \in 0 .. N
    /\ turns \in 0 .. 2
    /\ writes \in Seq(Files)
    /\ output \in [Files -> {"hole", "torn", "full"}]
    /\ sem \in [r : 0 .. N, w : 0 .. (N + 1)]

\* The files in read_files_data_.
Listed == {i \in Files : read[i] # "no"}

\* data[0] != '\0': true once the first byte has come, never for a "nul" file.
Visible(i) == kind[i] = "text" /\ read[i] \in {"torn", "full", "signalled"}

Init ==
    /\ kind \in [Files -> Kinds]
    /\ main = 1 /\ done = FALSE /\ aiocbs = 0 /\ left = 0
    /\ read = [i \in Files |-> "no"]
    /\ pc = "no" /\ at = 0 /\ turns = 0
    /\ writes = <<>> /\ output = [i \in Files |-> "hole"]
    /\ sem = [r |-> 0, w |-> 0]

---------------------------------------------------------------------------
(***************************************************************************)
(* ConcatFiles.                                                            *)
(***************************************************************************)
Advance == main' = main + 1 /\ UNCHANGED <<kind, done>>

\* fopen fails: the control block pushed for the file stays in the vector.
OpenMissing ==
    /\ main \in Files /\ kind[main] = "missing"
    /\ Advance
    /\ aiocbs' = aiocbs + 1
    /\ UNCHANGED <<left, read, writer, writes, output, sem>>

\* An empty file: its control block is taken back.
OpenEmpty ==
    /\ main \in Files /\ kind[main] = "empty"
    /\ Advance
    /\ UNCHANGED <<aiocbs, left, read, writer, writes, output, sem>>

OpenFile ==
    /\ main \in Files /\ kind[main] \in {"text", "nul"}
    /\ Advance
    /\ aiocbs' = aiocbs + 1
    /\ left' = left + 1
    /\ read' = [read EXCEPT ![main] = "begun"]
    /\ UNCHANGED <<writer, writes, output, sem>>

StartWriter ==
    /\ main = N + 1 /\ pc = "no"
    /\ pc' = "test"
    /\ UNCHANGED <<call, left, read, at, turns, writes, output, sem>>

\* pthread_join returns, ReleaseData frees the buffers.
Join ==
    /\ main = N + 1 /\ pc = "end" /\ ~ done
    /\ done' = TRUE
    /\ UNCHANGED <<kind, main, aiocbs, left, read, writer, writes, output, sem>>

(***************************************************************************)
(* The read of file i: bytes come into the buffer, the first ones before   *)
(* the rest, and then ReadEndRoutine is called.                            *)
(***************************************************************************)
FillBuffer(i) ==
    /\ \/ read[i] = "begun" /\ read' = [read EXCEPT ![i] = "torn"]
       \/ read[i] \in {"begun", "torn"} /\ read' = [read EXCEPT ![i] = "full"]
    /\ UNCHANGED <<call, left, writer, writes, output, sem>>

\* Fault: the routine raises the semaphore of the writes.
ReadEndRoutine_WrongSemaphore(i) ==
    /\ read[i] = "full"
    /\ read' = [read EXCEPT ![i] = "signalled"]
    /\ sem' = [sem EXCEPT !.w = @ + 1]
    /\ UNCHANGED <<call, left, writer, writes, output>>

ReadEndRoutine(i) ==
    /\ read[i] = "full"
    /\ read' = [read EXCEPT ![i] = "signalled"]
    /\ sem' = [sem EXCEPT !.r = @ + 1]
    /\ UNCHANGED <<call, left, writer, writes, output>>

\* The oldest write is done with what the buffer holds by now, and
\* WriteEndRoutine is called.
WriteEndRoutine ==
    /\ writes # <<>>
    /\ output' = [output EXCEPT
                    ![Head(writes)] = IF read[Head(writes)] = "torn" THEN "torn" ELSE "full"]
    /\ writes' = Tail(writes)
    /\ sem' = [sem EXCEPT !.w = @ + 1]
    /\ UNCHANGED <<call, left, read, writer>>

---------------------------------------------------------------------------
(***************************************************************************)
(* Write, the writing thread.                                              *)
(***************************************************************************)

\* while (files_to_write_)
TestLeft ==
    /\ pc = "test"
    /\ pc' = IF left = 0 THEN "flush" ELSE "take"
    /\ UNCHANGED <<call, left, read, at, turns, writes, output, sem>>

\* Some read must have ended: the semaphore is taken and given back.
TakeRead ==
    /\ pc = "take" /\ sem.r > 0
    /\ sem' = [sem EXCEPT !.r = @ - 1]
    /\ pc' = "put"
    /\ UNCHANGED <<call, left, read, at, turns, writes, output>>

\* Fault: the semaphore is not given back.
PutRead_Keeps ==
    /\ pc = "put"
    /\ pc' = "scan" /\ at' = 1
    /\ turns' = IF turns = 2 THEN 2 ELSE turns + 1
    /\ UNCHANGED <<call, left, read, writes, output, sem>>

PutRead ==
    /\ pc = "put"
    /\ sem' = [sem EXCEPT !.r = @ + 1]
    /\ pc' = "scan" /\ at' = 1
    /\ turns' = IF turns = 2 THEN 2 ELSE turns + 1
    /\ UNCHANGED <<call, left, read, writes, output>>

\* The loop goes on to the next element, or ends.
NextElement ==
    IF at = N THEN pc' = "test" /\ at' = 0
              ELSE pc' = "scan" /\ at' = at + 1

\* Nothing has come for this element (or it is not in the list at all).
SkipElement ==
    /\ pc = "scan" /\ ~ Visible(at)
    /\ NextElement
    /\ UNCHANGED <<call, left, read, turns, writes, output, sem>>

\* aio_write: also for an element that an earlier turn has written.
SubmitWrite ==
    /\ pc = "scan" /\ Visible(at)
    /\ writes' = Append(writes, at)
    /\ pc' = "wait"
    /\ UNCHANGED <<call, left, read, at, turns, output, sem>>

\* Fault: the counter is decremented without waiting for a read to end.
CountWrite_NoWait ==
    /\ pc = "wait"
    /\ left' = left - 1
    /\ NextElement
    /\ UNCHANGED <<call, read, turns, writes, output, sem>>

CountWrite ==
    /\ pc = "wait" /\ sem.r > 0
    /\ sem' = [sem EXCEPT !.r = @ - 1]
    /\ left' = left - 1
    /\ NextElement
    /\ UNCHANGED <<call, read, turns, writes, output>>

\* Fault: the writer does not wait for its writes.
Flush_NoWait ==
    /\ pc = "flush"
    /\ pc' = "end"
    /\ UNCHANGED <<call, left, read, at, turns, writes, output, sem>>

\* One token of the write semaphore per control block of a read.
Flush ==
    /\ pc = "flush" /\ sem.w >= aiocbs
    /\ sem' = [sem EXCEPT !.w = @ - aiocbs]
    /\ pc' = "end"
    /\ UNCHANGED <<call, left, read, at, turns, writes, output>>

---------------------------------------------------------------------------
Main == OpenMissing \/ OpenEmpty \/ OpenFile \/ StartWriter \/ Join
Reader(i) == FillBuffer(i) \/ ReadEndRoutine(i)
Writer ==
    \/ TestLeft \/ TakeRead \/ PutRead
    \/ SkipElement \/ SubmitWrite \/ CountWrite
    \/ Flush

Next == Main \/ (\E i \in Files : Reader(i)) \/ WriteEndRoutine \/ Writer

\* The system runs every thread and ends every read and write it was given.
Spec ==
    /\ Init /\ [][Next]_vars
    /\ WF_vars(Main) /\ WF_vars(Writer) /\ WF_vars(WriteEndRoutine)
    /\ \A i \in Files : WF_vars(Reader(i))

---------------------------------------------------------------------------
Signalled == {i \in Files : read[i] = "signalled"}

\* The read semaphore, the counter and the routines agree: every finished read
\* is a token, and every file counted off has taken one, be it its own or not.
\* So the writer never counts below zero, whichever files it writes twice.
TokensConserved ==
    main = N + 1 =>
        Cardinality(Signalled)
          = sem.r + (IF pc = "put" THEN 1 ELSE 0) + (Cardinality(Listed) - left)

\* The buffers are freed only when no write is under way that reads them.
NoWriteAfterReturn == done => writes = <<>>

\* The writer may count one file off more than once, and then leave another out.
\* It never leaves out half of them: the semaphore lets it count off no file before
\* its read has ended, so the files that a later turn can count again are few.
MostWritten ==
    done /\ Listed # {} /\ (\A i \in Files : kind[i] # "nul") =>
        2 * Cardinality({i \in Listed : output[i] # "hole"}) > Cardinality(Listed)

\* When every file opens, none begins with a 0 and the first look at the
\* buffers finds all of them, ConcatFiles returns with all of them written.
OneTurnSuffices ==
    /\ \A i \in Files : kind[i] \in {"text", "empty"}
    /\ [](turns <= 1 /\ (turns = 1 /\ pc = "test" => left = 0))
    => <>(done /\ \A i \in Listed : output[i] # "hole")

\* When ConcatFiles returns, "The task was executed...": the text of every file
\* is in the output.
NothingLost == done => \A i \in Files : kind[i] = "text" => output[i] # "hole"
============================================================================
