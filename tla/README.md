# Verification of the programs in Forth-semester

The repository is a collection of small systems programs of one semester: a disk
emulator, a LAN messenger, an asynchronous file concatenator, processes and
threads that take turns, a web service, assembler programs. Each is a system of its own; nothing
connects them. This directory holds TLA+ models of those with state that several
steps or several actors can get wrong, the TLC runs that check them, and proofs
that TLAPS checks.

## 1. Inventory

| Component | State | Operations | What is hard | What makes it correct |
|---|---|---|---|---|
| **Disk emulator** (`SPO/Windows/Lab 7`) | file table in memory and on disk, 1000 blocks in linked chains, the editor's text | add, remove, open + edit + save, reset, restart | each operation is several separate writes to the file; a process killed between two; full disk; `while (true)` loops over links read from the disk | a block belongs to one file once, busy flags tell the truth, loops end, texts are kept |
| **LAN messenger** (`Lan-Messenger`) | peers with their address and the time they were last seen, joined rooms, peers per room, windows, the own addresses | datagrams DISCOVERY, ROOMLIST, ROOM, PM; 5 s timer; join, close, double click, send | UDP: lost, repeated, late, reordered; timer against arrivals; midnight; a change of address | windows match rooms, nobody listed twice, the silent disappear, messages go to the peer they are for |
| **Asynchronous concatenation** (`SPO/Linux/Lab5`) | read buffers, two semaphores, counter of files to write | aio reads and writes, two completion routines, writer thread, join | completions in any order, a buffer looked at while it is filled, missing files | most of the files are written, tokens and counter agree, the call returns, buffers outlive the writes |
| **Shared memory channel** (`SPO/Linux/Lab3`) | one segment, four semaphores, undo adjustments in the kernel | server: read line, write chunk, pass turn, kill; client: wait, print, pass turn | two processes, either may die; SEM_UNDO; restart over old IPC objects | chunks arrive once and in order, no overwrite before reading, quitting ends |
| **Signal turns** (`SPO/Linux/Lab2`) | list of children, pending signals | add, kill, pass the turn | a signal before it is blocked, failing `execv` and `fork` | each child prints in its turn, the parent never waits for the dead |
| Printing threads (`SPO/Linux/Lab4`, `SPO/Windows/4 Lab`) | mutex, list of threads, counter | create, cancel or terminate, print | mutex copied by value; termination while it is held | one prints at a time, quitting ends |
| Event turns (`SPO/Windows/2 Lab`) | auto-reset event, list of processes | create, terminate, print | termination of the event's holder | one prints at a time |
| Shared memory channel (`SPO/Windows/3 Lab`) | mapping, two semaphores | as on Linux | one semaphore for both directions | as on Linux |
| **Web service** (`CPP/Lab8CPP`; `Lab1CPP` .. `Lab7CPP` lead up to it) | counter, cache of results, statistics, database | calculate, count a letter | request threads share unsynchronised fields; cache keyed by a hash; exceptions in the middle | an answer is one of a request with the same hash code and stays, the counter counts, statistics recover |
| Breakout, alarm clock, text programs (`CP&PL`) | ball, platform, bricks; time; numbers | game turn; timer interrupt; conversions | corners; interrupts; overflow | ball stays on the screen; conversions agree with arithmetic |
| Benchmarks (`APK`), process, DLL and memory samples | none to speak of | | | |

Bold: modelled. The hazards of each, at their lines, are listed in `PROJECT.json`.

## 2. Modules

`FileStore` is the abstract specification of the disk emulator; `FileSystem` models
the code, `FileSystemRefinement` shows that it implements the store, and
`FileSystemProofs` and `FileSystemRefinementProofs` prove its invariants and the
refinement for disks of every size. `Messenger`, `AsyncConcat`,
`ShmChannel`, `SignalTurns` and `WebService` model one program each, and each has a module
of theorems, `<Module>Proofs`. `Induction` holds three lemmas about natural numbers that the proofs about
loops rest on. Definitions named `X_Something` with a comment "Fault:"
are the code's definition `X` with a plausible mistake in it; no specification uses them.
They document what each property notices.

### FileSystem

`fmdt` is the table in memory, `disk_fmdt` and `blocks` are the disk file; `pc`, `slot`,
`offset`, `processed` and `rest` are the locals of the running operation and the
place it has come to. One step makes at most one `SaveBlock` or
`SaveFMDT`, which flush by themselves, so the states between steps are those a killed
process leaves behind. An entry is changed in memory (`FillEntry`, `DropEntry`) and saved by a step of its own
(`SaveEntry`, `SaveDrop`); so is the table by a reset (`ResetDisk`, `WriteEmptyDisk`). The loop of `FindFreeBlock` is a loop:
`probe` is the block it looks at, `NextProbe` goes on from a block in use, and the action that needs a block is taken when the
loop has ended, with the block it returned or with 0 (`NoBlockLeft`, `DiskFull`). `Command` is a choice at the menu of `main`, `Edit` one turn of
the editor, `Proceed` what the program then does by itself. `Restart` is "exit" and a new
process, `Crash` a kill inside an operation and a new process; `Spec` has no crash,
`CrashSpec` does. A position 1..N stands for a block's byte offset, 0 for no block.
The input that throws `out_of_range` out of `main` is `EditThrows`.

Names of 20 characters or more (`LongNames`) are stored without a terminator, so that
`strcmp` never finds them. (It finds one if its last characters happen to be the bytes of
its block's offset; such names are left out.) They occur in `fs_crash` and `fs_names`.

### FileStore and the refinement

The store maps names to texts; a change makes its file `Pending` and then sets it, all
others keep their text at every step. `storeBar` reads a text off its chain (`Content`), `opBar`
tells from `pc` which change is under way. `ImplementsStore` is the abstract
specification under that mapping: every write of the code that is not the last of its operation is a
stutter, so no write of an operation touches another file.

### Messenger

One messenger; `Receive` lets any datagram that some messenger may send arrive at any time, which covers
loss, duplication, delay and reordering. A slot of Qt runs to its end in the event loop,
so it is one action with all the slots its signals call: `OnTimerdiscovery` prunes peers and rooms
and refreshes (or opens) the windows, `RoomList` adds a peer and refreshes the window. `Prune` keeps the
loop's habit of stepping over the element after a removed one. Time is counted in
timer periods from midnight and wraps at `Day`, as `QTime` does.

Each messenger starts on a host that is named like its ID; `Move` gives one of them, perhaps this one, the address
`NewHost`. `Hosts` are the addresses a messenger has had, late datagrams from the old one included; `Senders` are those
among them that `onReadyRead` does not take for its own. It compares the text of a sender's address with those of `_myips`, which
is read once (`IsMine`). The socket is bound to any address; where that makes it a dual-stack one, senders have the form `::ffff:a.b.c.d`,
no text is equal, and the messenger hears and lists itself. Which of the two a platform does is the constant
`DualStack`; with it `TRUE` there are all the behaviours that there are with `FALSE`, which is why the run has it.
`AddressOf` is where `sendPM` sends to. Sending changes
nothing in the sender, so it is no action: `MessagesArrive` says of every open chat window that a message would go to an address its peer
has had. The texts of messages are left out.

### AsyncConcat

`read[i]` follows the read of file i through its buffer (begun, torn, full) to its completion
routine; the writer is modelled statement by statement, with each `semop` a step. `sem.r` and
`sem.w` are the semaphores, `left` is `files_to_write_`, `aiocbs` the number of control blocks the
writer waits for at its end. A file is text, begins with a 0 byte, is empty, or cannot be opened.
The C library runs the writes to one descriptor one after the other.
ConcatFiles starts the writer only when it has been through its list, so all reads are begun by then.

### ShmChannel

The server's statements from one `semop` to the next are one or more steps; copying a
chunk takes two, the segment being `Torn` in between. `Semop`, `Undoable` and `Undo`
are the kernel's: a `semop` with `SEM_UNDO` whose adjustment would leave -(SEMAEM+1)..SEMAEM fails and
changes nothing (the program checks none), and a process that ends has its adjustments applied, not below 0.
`ServerDies` and `ClientEnds` are kills; the latter is also a `shmat` that fails, since it returns -1, the code compares with
NULL, and so the error branch and the error semaphore are never used. `StartAgain`
is a new run of the program, which resets the set it finds and forks a client of its own, while
the client of the killed server is still there.

### SignalTurns

The parent's menu (`Fork`, `KillLast`, `Quit`), its loop over the list (`GiveTurn`, `TakeBack`) and each child's
two statements. `Signal` and `Kill` are the kernel's: a signal is pending where it is blocked and kills where it is not, so
a child that is still in `exec` when its turn comes is `lost`. The second that the parent sleeps after a fork is
no guarantee and therefore no guard. When `execv` fails the child goes on in the parent's branch with its own copy of the list
(`first` is its head): it signals that child, or, with 0 at its head, the whole group. When `fork` fails the parent
exits. No pid is used again, since the parent waits for no child.

### WebService

The handlers `calculate` and `countCharacter` of `Lab8CPP` as threads. What they share is a `HashMap`, an `ArrayList`, three
fields and a table; only the counter is synchronized.

*Numbers, texts, results.* The doubles, the texts of `param3` and their hash codes are constants: `DoubleHash` and `ActHash` may be any
functions into the ints of Java, so that no property rests on which doubles or texts collide. `HashCode` is `Objects.hash`, on 32 bits in
two halves of 16 (`Times31Plus`). A result is the calculation it is the result of; when two of them are the same number is left open.
`MCWebService` gives the run real hash codes: those of 0 and 2, for which 2 + 2 and 0 + 0 share one (31 words of 2 and one more are a multiple of
2^32), and those of "+", "/" and "\u0000+"; the last is no operation and has the hash code of "+", which matters because
`containsKey` is asked before the operation is looked at.

*The cache.* `java.util.HashMap` is not in the repository and is modelled by what it may do to threads that do not synchronize. `cache` is a
set of entries. `raced[t]` says that another thread has put something while `t` was between two of its own steps. A lookup that raced may miss any entry; a
put that raced may leave any subset of the entries and its own, also both the value it replaces and the new one, of which a `get`
then returns either. This is more than a `HashMap` does. `calculate` increments the synchronized counter before its lookup and
decrements it after its put, which orders those that do not overlap.

*The list.* `add` is taken apart into its reads and writes: it compares `size` with the length of `elementData`, copies the array if it is full and replaces
it (`EnsureCapacity`, `Grow`), reads the array and the size, raises the size, stores. Two threads may store into one place, store into an array that has just been replaced, which
leaves a null in the list for good, or run past the end of an array that another one took for large enough.

*The statistics.* `update` is taken apart at each comparison, each pair of counts and each assignment; the two reads of a field in one comparison may
see different values, and where a null is read the exception is thrown, but not where `min == null` is seen first. The iterators throw
`ConcurrentModificationException` or do not notice. When `Collections.frequency` runs while another thread changes something, its answer is any.

The interleaving is one of single reads and writes of the shared fields, and what a request wrote is seen by requests that begin after it has ended; delays that
the memory model of Java would allow beyond that are left out. Rows of the table are counted per text. Exceptions end a handler where they are
thrown: in `calculate` without the decrement.

## 3. Runs

| Run | Bounds | What it shows |
|---|---|---|
| `fs` | 2 names, 2 entries, 3 blocks of 2 characters, 2 letters, texts up to 3 | `NoSharing`, `BusyIffOwned`, `RefusalsJustified`, `ImplementsStore`, `OperationsEnd` without crashes |
| `fs_crash` | 3 names (one long), 2 entries, 3 blocks of 1, texts up to 3 | with crashes: `ChainsAcyclic`, `FreeBlocksBlank`, `WriteThrough`, `ShortNamesUnique`, `OperationsEnd` |
| `fs_names` | as above, 2 blocks | violated: `UniqueNames` |
| `fs_crash_busy` | 2 names, 3 blocks of 1 | violated: `BusyIffOwned` under crashes |
| `messenger` | itself, one peer and one with "@" in its name; 1 room, joined at most twice, itself and the peer in it; the peer has a chat window and may move; dual-stack; a day of 5 periods, expiry 1 | windows, lists, expiry, addresses |
| `messenger_midnight` | 1 peer, no room | violated: `OldPeersLeave` |
| `concat` | 3 files, every kind | semaphores, the buffers at the return, how many files are written |
| `concat_lost` | 3 text files | violated: `NothingLost` |
| `shm` | 2 clients (one restart), lines of 1 or 2 chunks, 4 chunks, adjustment limit 2 | turns, order, quitting |
| `shm_limit` | 1 client, limit 2 | violated: `WaitsForReader` |
| `signals` | 4 children, each of which may fail to start | turns, nobody forgotten, rounds end |
| `web` | 2 threads, 3 requests, operands 0, 2 and a bad one, "+", "/" and a text with the hash code of "+", 2 texts, arrays that begin with 1 element | answers, cache, counter, statistics, rows |

*Why the bounds are enough.* Three blocks for two files let one file grow over the block another
has freed, fill the disk in the middle of a save, and shrink by one or more blocks; two letters keep texts apart; a
text of 3 in blocks of 2 has a full and a partly filled block. Two entries let the search loops
pass one over. For the messenger, itself and one peer are what it takes for `Prune` to step over one, in the list of peers and in that of the room,
and five periods leave room for a peer to get old on its day and for one that does not. With three files the concatenation has its first
loss; `MostWritten` says that of one or two files none is lost, and of three at most one. For the channel, the limit of 2 stands for 32767: three chunks pass it. Two clients are the
least with which a turn can be taken by the wrong one. Four children make a list with a middle, and three failures (too early, `execv`, and one more) may come together. Two threads and three
requests let a race leave a wrong cache or wrong statistics behind and a third request find it; the numbers and texts have both kinds of collision, of operands and of
operations, and a division by 0. Arrays that begin with one element, where Java's begin with ten, are full when the second request comes, so the growth races that Java has on the first and the
eleventh element are there with three requests. The bounds `MaxText`, `MaxJoins`, `MaxLine`, `MaxSent`
and `MaxRequests` limit only what users type or send.

*Deadlock.* It is checked except in `concat*`, `shm*`, `signals` and `web`. The first three end, and really do hang
(a missing file or one that was counted for another; a dead client; a child that was lost), which their liveness properties delimit; `web` stops when
its `MaxRequests` requests are answered.

*Fairness.* `FairSpec` and `FairCrashSpec`: `WF(Proceed)`, the program runs its own statements; no user
action is fair. `Messenger`: time passes and the event loop runs the timer's slot; no datagram and no user is
fair. `AsyncConcat`: the scheduler runs each thread and the system completes what was submitted.
`ShmChannel` and `SignalTurns`: each process runs; typing, kills and failures are not fair. `WebService` states no liveness and no fairness.
All of it is weak fairness.

*What the violated runs say.* Each finding in `PROJECT.json` names the line. A long name can be added twice and
never opened. A kill between the two writes of `CreateNewFile` leaves a file on a block that counts as free, so
that a second file gets it. Near midnight a silent peer stays for good. The concatenation may leave a file out of the output. After
32767 chunks the shared memory channel stops taking turns.

Some things the models show and no run of its own records, because no text of the repository says otherwise. A file that does not open keeps `ConcatFiles` from
returning, and with two files the output may hold a half-read buffer. A client that was printing when its server
was killed may later raise the semaphore of the next server, which then does not wait. The web service answers 2 + 2 with 0 after it has answered 0 + 0, and
"\u0000+" with a sum; `AnswersShareHash` says how far an answer can be wrong. A null that a lost store has left in the statistics' list makes every later update throw;
`UpdateRepairs` says what an update that gets to its end has repaired. A room that is left and joined again shows peers that have gone in the meantime,
until the timer's next slot; half of them may stay for a period more (`HalfOfTheOldLeave`).

## 4. Proofs

All theorems hold for every value of the constants that the named `ASSUME` of the component's module allows, and rest on
nothing else.

| Module | Theorem | Statement |
|---|---|---|
| `FileSystemProofs` | `CrashTypeCorrect` | `CrashSpec => []TypeOK` |
| | `CrashAcyclic` | `CrashSpec => []ChainsAcyclic` |
| | `CrashFreeBlank` | `CrashSpec => []FreeBlocksBlank` |
| | `CrashWriteThrough` | `CrashSpec => []WriteThrough` |
| | `CrashNamesUnique` | `CrashSpec => []ShortNamesUnique` |
| | `BlocksNotShared` | `Spec => []NoSharing` |
| | `FlagsAreRight` | `Spec => []BusyIffOwned` |
| | `RefusalsAreJustified` | `Spec => []RefusalsJustified` |
| `FileSystemRefinementProofs` | `FilesAreKept` | `LongNames = {}` and `NoFile \notin Seq(Chars)` imply `Spec => ImplementsStore` |
| `MessengerProofs` | `TypeCorrect` | `Spec => []TypeOK` |
| | `RoomWindows` | `Spec => []WindowIffJoined` |
| | `WindowsFollowLists` | `Spec => []WindowFollowsList` |
| | `PeersNamedOnce` | `Spec => []NamedOnce` |
| | `OldPeersHalved` | `Spec => HalfOfTheOldLeave` |
| | `OldPeersCaught` | `Spec => []CaughtInTheEnd` |
| | `MessagesReachTheirPeer` | `Spec => []MessagesArrive` |
| `AsyncConcatProofs` | `TypeCorrect` | `Spec => []TypeOK` |
| | `TokensKept` | `Spec => []TokensConserved` |
| | `SafeReturn` | `Spec => []NoWriteAfterReturn` |
| | `MostFilesWritten` | `Spec => []MostWritten` |
| `ShmChannelProofs` | `ChunksIntact` | `Spec => []UnreadIsIntact` |
| | `ChunksInOrder` | `Spec => ShownOnceInOrder` |
| | `SemaphoresWithinLimits` | `Spec => []TypeOK` |
| `SignalTurnsProofs` | `TypeCorrect` | `Spec => []TypeOK` |
| | `TurnsKept` | `Spec => []OnlyInTurn` |
| | `ChildrenListed` | `Spec => []NobodyForgotten` |
| `WebServiceProofs` | `TypeCorrect` | `Spec => []TypeOK` |
| | `CounterKept` | `Spec => []CounterCounts` |
| | `AnswersKept` | `Spec => []AnswersShareHash` |
| | `CacheKept` | `Spec => EntriesLast` |
| | `StatisticsRepaired` | `Spec => []UpdateRepairs` |
| | `RowsKept` | `Spec => []RowsBounded` |

### FileSystem

*The argument under crashes.* `TypeOK` is not inductive alone: a loop at a block must not follow a link to block 0, and an
entry that is worked on must have a block. `LocalInv` adds that an entry has a name exactly when it has a first block, that
free blocks are blank, that the table on the disk differs only in the entry about to be saved (`WriteThrough`), what each step knows about its own block (`StepInv`), and that a
search has found every block it has passed in use (`SearchInv`). It speaks
of one block or entry at a time, which is why a crash does not disturb it. `ChainsAcyclic` says that every nonempty set of
blocks has a member that leads out of it. Cutting a link keeps that (`DroppingLinks`), and so does linking to a block that
itself leads nowhere (`AddingLink`); the block `FindFreeBlock` returns is free, so it is blank, so it leads nowhere.

*The argument without crashes.* `StructInv` adds `NoSharing` and `AllocInv`: which blocks are busy and owned at each step,
among them the first block of a file being created (`Root`) and the tail that `SaveFile` has cut off and not yet cleared
(`Detached`). A new link goes to a free block; free blocks are owned by nobody, so nothing is shared; a loop that
clears a chain frees one block and drops the one link to the next. Each action is one lemma case.

`RefusalsJustified` puts the two together. A search that returns 0 has passed every block (`SearchEnds`), so all are busy; and at that point of
`CreateNewFile` and `SaveFile` no block is on its way in or out of a file, so busy means owned (`NoneLeft`): it is the files that fill the disk, and no
earlier operation has leaked a block. Under crashes this is false, since a kill leaks blocks.

Only model-checked: liveness. Induction over the length of a chain is avoided by the form of `ChainsAcyclic`.

### FileSystemRefinement

`FilesAreKept` is the refinement, write by write. Its two premises are the scope of the module: a name that fills its
field is found by no command, so that files with the same name may exist, and the mark for "no such file" must not be a text.

*Texts.* `Content` is defined along the links, which makes it a function only because no chain has a cycle. `ReadsOnce` and
`ReadsExist` show that on any disk without cycles each place has exactly one text: a set of places whose texts are not yet
determined, or differ, would have a member that leads out of it. `SameTexts` is what all frame arguments need: two disks
that agree on a set of blocks no link leaves agree on the texts of these.

*Walks.* `Walk(blks, h, o, P, t)` says that the links lead from the head `h` through the blocks of `P` to `o`, and that `P` holds the
text `t`. A walk is not disturbed by a write outside `P` (`WalkKept`), goes on to the next block with its text appended
(`WalkGoesOn`), never comes back (`WalkNew`, which needs `NoSharing` and no cycle), and at the end has read the text of the
chain (`WalkEnds`).

*The invariant.* `RefInv` adds to `StructInv`, acyclic chains and unique names what the refinement needs. `WalkInv` says of each step
of reading and saving that the text in the editor is what the walk has passed, then the block it is at, then `rest`; while a
tail is trimmed, that it is the text of the chain, which the tail no longer belongs to. `OwnerInv` gives every block an entry as
its owner, so that the links stay with one owner and the loop is at a block of its own file. An owner is a witness and no
state: a free block gets one when an entry or a link first leads to it (`OwnerGiven`), and no other step changes any (`OwnersKept`).
Hence `OthersKeep`: a write of one operation changes no other file's text.

*The steps.* By what it does to the disk a step is nothing to the store (`StoreKept`, `StoreStutters`), the first of a change
(`StoreBegins`) or its last (`StoreEnds`); `CommandImplements`, `EditImplements` and `ProceedImplements` put every action of `Next` in
one of these. The last write of a save is the one that fills the last block or clears the last of the tail, and at
"no free block" what is on the disk is a proper prefix of the text (`Prefix`).

### AsyncConcat

`TypeOK` is not inductive: that `left` and the semaphores never go below 0 follows from counting. `TokenInv` says that every token
of a read is still there, in the writer's hands, or spent on one decrement of `files_to_write_`; that every write
submitted is in the queue, in the semaphore, or taken at the end; and that there are as many control blocks as listed and missing files.
`ControlInv` says what is known at each place. At the end the writer has taken one token per control block,
so the queue is empty when it returns.

`MostWritten` needs more: why can files written twice not replace most of the others? A turn of the loop begins with a token in the writer's
hands, so fewer files have been counted off than reads have ended. In the turn each file whose read had ended is still to come, or was submitted when the loop came to it, or was
missed because it was not there yet; `Due` are those of them that were not missed, `Behind` are the submitted ones the loop has gone past. Each count
adds one to `Behind` and takes none from `Due`, so the count stays below the sum of both (`InTurn`), and when the turn is over both are among the files
submitted: fewer were counted than twice as many as were submitted (`BetweenTurns`). At the end all are counted, so more than half were submitted, and written. For three files and
more this leaves room for a loss, and there is one.

### ShmChannel

The two properties are about the first run below the limit (`Fresh`), and `First` says it in a form that a step
can be compared with. There the server's adjustments are counts of its own passes (`Posts`, `Awaits`), and while it waits the turn is in
one of three places: `Offered`, `Taken` or `Given`, each with the values of both semaphores, of the client's adjustments and of
what has been printed. A client that is killed takes its adjustments back, which is why they are in the invariant: undoing
them must not raise the client's semaphore for a server that would then go on writing (`ClientInv`, the case "gone").

`TypeOK` bounds the semaphores in every run, restarts and kills included. What the clients together have raised a semaphore by is
no variable of the program; `SEM_UNDO` keeps it, process by process, in the adjustments. `Raised` and `Turns` turn these
numbers into sets of pairs, whose cardinality grows by one with each `semop`: `Answers` says that the client semaphore
with what the server has taken of it is at most what living clients owe and dead ones can have owed, `Offers` that the
server semaphore with the turns clients hold is at most what the server owes. A client that ends takes its pairs along.

Only model-checked: liveness.

### SignalTurns

There is one turn (`TokenInv`): the signal is pending for the child at `turn`, or that child prints, or the answer is
pending for the parent. It holds while no `execv` has failed, which is the premise of `OnlyInTurn`; `TurnInv` and `CopyInv`
say where `turn` points and who is a copy. `NobodyForgotten` is inductive with the types.

### WebService

`CacheInv` says that each entry is the calculation of some request with its key, whatever puts have lost, and
`ResultInv` carries that to the page. The theorem says no more than that, for any doubles, texts and hash functions: answers are shared by hash code.
`MapInv` says that a thread which has not raced and is about to put has found no entry with its key, and that no other one is putting, from which `EntriesLast`
follows: a put without a race replaces nothing. `CounterCounts` is inductive with the types and the kinds of requests; its step is one
of cardinality: who joins and who leaves the set of calculating threads. `RowsBounded` is strengthened by those that are going to insert
(`Savers`): each of them was a thread that had seen no row.

`RepairInv` is a loop invariant with interference: a thread that nobody has disturbed has visited only texts that the fields cover, and `raced` is
what tells when that is lost (`OthersTell`: another thread that changes the list or a field says so). It is a statement about updates that get to their end; a null in the list, which a store into a replaced
array leaves, ends every update with an exception, and nothing is said of those.

### Messenger

The lists are rebuilt by loops that remove elements by their place (`Prune`, and `Visited` for the rooms), and the properties
are about what is left. TLAPS cannot use the library's induction theorems, which take a predicate, but it can use that a
set of natural numbers has a least one (`LeastNat`, from the well-foundedness of `<`). With it `Iteration` proves that a function defined step
by step exists and is the recursive one, and for each loop a lemma says what it returns: `WithoutPositions` and `PrunePositions` that every
element left comes from a place of its own, in order, further forward once one before it is gone; `VisitedKeeps` and `HeardKeeps` what
the rooms' loop and an arriving name preserve.

`MessagesArrive` needs to know where the messengers are and have been (`AtHome`): the list takes the host of a new peer from the datagram that announces it. `HalfOfTheOldLeave` is a property of one loop, but not of one
of its steps: `PruneHalves` maps each old peer that is left to the removed one before it, which is a different one for each, so no more are left than go. `CaughtInTheEnd` is not inductive: that a peer which is
stepped over is dropped in the end follows from its place. `Young` says that the peer at place k is at most `Population` - k timer periods past its
expiry, one more while the slot is due: in each period it either goes, or moves forward because the one before it went. A new peer comes to the end, and the list
names nobody twice, so it is no longer than the number of peers (`FewPeers`, which maps places to peers one to one).

All the safety properties that the run `messenger` checks are proved; the violation near midnight is a matter of the other run.

### What is not proved

Every safety property of a passing run, and the refinement, is a theorem. The liveness properties are not, since their
proofs would need fairness and ENABLED: `OperationsEnd`, `SilentPeersLeave`, `OneTurnSuffices`, `ServerGoesOn`, `QuitEnds` and
`RoundsEnd` are model-checked.

## 5. Not modelled

- Disk emulator: the byte layout of the disk file and a reset that is killed in the middle, when what later reads return depends on
  the error state of the C++ stream.
- Messenger: widgets and their wording; the sockets' failures, which the code does not look at.
- Printing threads: on Linux each thread locks its own copy of the mutex, so there is nothing shared; on Windows what
  `TerminateThread` leaves behind is inside the C run-time library.
- Event turns and the shared memory channel on Windows: the event's names are misread wide strings, so parent and children do not
  meet in a way the source determines; the channel's client is commented out.
- Web service: pages, entity classes and the streams behind `completeTask`, which always throws before; the earlier versions.
- Failing system calls at start-up, everywhere, where the code only exits; and the components that `PROJECT.json` lists as `not_modelled`, with the reason.

## 6. Plan

Done, in this order: the disk emulator with its abstract store and proofs (its state outlives the process and is the
richest), the messenger, the concatenation, the shared memory channel, the turns by signals, the web service, the proofs about the
last five, and the proof that the disk emulator implements its store.

Left:

1. `Breakout` (ball, platform and bricks as a state machine) and the number conversions of the assembler programs against reference
   definitions. They are sequential and small; tests reach most of them, which is why they come last.
2. Two messengers over one network, composed of two instances of `Messenger`. Today the other side is every datagram that
   it could send, which is more behaviour, not less; the composition would add liveness between the two.
3. An abstract specification of the channel (a queue of one chunk) that the first run of `ShmChannel` implements.
