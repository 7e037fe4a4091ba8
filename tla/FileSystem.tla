---------------------------- MODULE FileSystem ----------------------------
(***************************************************************************)
(* The disk emulator of SPO/Windows/Lab 7: one process, one disk file      *)
(* "disk.bin" that holds the file table (FMDT) and a linked list of blocks *)
(* per file.  Every SaveBlock and every SaveFMDT is flushed by itself, so  *)
(* each step below makes at most one such write, and the table is changed  *)
(* in memory a step before it is written: the states between two steps are *)
(* the ones a killed process leaves on the disk.                           *)
(*                                                                         *)
(* A block is named by its position 1..AMOUNT_OF_BLOCKS_ in the disk file, *)
(* and 0 stands for "no block", as the byte offset 0 does in the code.     *)
(***************************************************************************)
EXTENDS Integers, Sequences

CONSTANTS
    Names,                  \* the file names users type
    LongNames,              \* those of MAX_FILE_NAME_LENGTH_ or more characters
                            \* that do not end in the bytes of an offset
    Chars,                  \* the characters users type
    MAX_AMOUNT_OF_FILES_,
    AMOUNT_OF_BLOCKS_,
    BLOCK_DATA_SIZE,
    MaxText                 \* bound: longest text the editor builds

ASSUME NamesAssumption == LongNames \subseteq Names /\ "" \notin Names
ASSUME SizesAssumption ==
    /\ MAX_AMOUNT_OF_FILES_ \in Nat \ {0}
    /\ AMOUNT_OF_BLOCKS_ \in Nat \ {0}
    /\ BLOCK_DATA_SIZE \in Nat \ {0}
    /\ MaxText \in Nat

VARIABLES
    fmdt,       \* the file table in memory
    disk_fmdt,  \* the file table on the disk
    blocks,     \* the blocks on the disk
    pc,         \* where the running operation is, "menu" between operations
    slot,       \* the table entry the operation works on (0: none)
    offset,     \* the block its loop has reached (0: none)
    probe,      \* the block FindFreeBlock's loop has reached (0: none)
    new_file_name,  \* CreateNewFile's local
    processed,  \* the text in the editor (OpenFile's local)
    rest,       \* what SaveFile has still to write (its own copy)
    reply       \* the last message printed, "ok" when there is none

disk == <<disk_fmdt, blocks>>
search == <<probe, new_file_name>>
vars == <<fmdt, disk_fmdt, blocks, pc, slot, offset, search, processed, rest, reply>>

Slots  == 1 .. MAX_AMOUNT_OF_FILES_
Blocks == 1 .. AMOUNT_OF_BLOCKS_

NoName     == ""
EmptyEntry == [name |-> NoName, begining_offset |-> 0]
EmptyBlock == [busy_flag |-> 0, data |-> <<>>, next_offset |-> 0]

\* Fault: the first block of a file is saved without "busy_flag = 1".
FirstBlock_NotBusy == EmptyBlock

FirstBlock == [busy_flag |-> 1, data |-> <<>>, next_offset |-> 0]

\* The loops of one operation each, and the single steps around them.
ClearLoops == {"remove", "wipe", "trim"}
Searches   == {"find", "extend"}
Internal   == ClearLoops \cup Searches \cup
              {"reset", "save_entry", "create", "drop_entry", "save_drop",
               "load", "restore", "save", "unlink"}

FileMetaDataTableField ==
    [name : Names \cup {NoName}, begining_offset : 0 .. AMOUNT_OF_BLOCKS_]

Block ==
    [busy_flag : {0, 1}, data : Seq(Chars), next_offset : 0 .. AMOUNT_OF_BLOCKS_]

\* Entries and links lead to blocks of the disk, a loop is always at a block,
\* and an operation always works on an entry.
TypeOK ==
    /\ fmdt \in [Slots -> FileMetaDataTableField]
    /\ disk_fmdt \in [Slots -> FileMetaDataTableField]
    /\ blocks \in [Blocks -> Block]
    /\ pc \in {"menu", "edit"} \cup Internal
    /\ slot \in IF pc \in {"menu", "reset"} THEN {0} ELSE Slots
    /\ offset \in IF pc \in {"load", "save", "unlink", "extend"} \cup ClearLoops
                  THEN Blocks ELSE {0}
    /\ probe \in IF pc \in Searches THEN Blocks ELSE {0}
    /\ new_file_name \in IF pc = "find" THEN Names ELSE {NoName}
    /\ processed \in Seq(Chars)
    /\ rest \in Seq(Chars)
    /\ reply \in {"ok", "in_use", "max_files", "incorrect_name", "lost"}

---------------------------------------------------------------------------
(***************************************************************************)
(* Helpers.                                                                *)
(***************************************************************************)

\* Fault: only the flag is reset, the data and the link stay.
ClearBlock_FlagOnly(block) == [block EXCEPT !.busy_flag = 0]

ClearBlock(block) ==
    [block EXCEPT !.next_offset = 0, !.busy_flag = 0, !.data = <<>>]

\* SaveBlock(block, offset)
SaveBlock(block, at) == blocks' = [blocks EXCEPT ![at] = block]

\* SaveFMDT writes the table as it is in memory.
SaveFMDT == disk_fmdt' = fmdt /\ UNCHANGED fmdt

\* Fault: the search ends one block early.
FindFreeBlock_StopsEarly(f) ==
    \/ blocks[probe].busy_flag = 0 /\ f = probe
    \/ blocks[probe].busy_flag # 0 /\ probe >= AMOUNT_OF_BLOCKS_ - 1 /\ f = 0

\* FindFreeBlock(false): the loop is left with the block it is at, when this is
\* free, or with 0 after the last turn.  Nobody calls it with next = true.
FindFreeBlock(f) ==
    \/ blocks[probe].busy_flag = 0 /\ f = probe
    \/ blocks[probe].busy_flag # 0 /\ probe = AMOUNT_OF_BLOCKS_ /\ f = 0

\* A turn of its loop that is not the last.
NextProbe ==
    /\ pc \in Searches
    /\ blocks[probe].busy_flag # 0
    /\ probe < AMOUNT_OF_BLOCKS_
    /\ probe' = probe + 1
    /\ UNCHANGED <<fmdt, disk, pc, slot, offset, new_file_name, processed, rest, reply>>

\* Fault: an entry is taken for the file by its name only when it has been read
\* back from the disk with a busy block.
Matches_BusyOnly(i, name) ==
    /\ fmdt[i].name = name /\ name \notin LongNames
    /\ fmdt[i].begining_offset # 0 /\ blocks[fmdt[i].begining_offset].busy_flag = 1

\* strcmp(fmdt_[i].name, name) == 0.  A stored name of MAX_FILE_NAME_LENGTH_
\* characters has no terminator: the comparison runs on into the bytes of
\* begining_offset, and no name in LongNames ends in those.
Matches(i, name) == fmdt[i].name = name /\ name \notin LongNames

\* The entry the search loops of CreateNewFile, RemoveFile and OpenFile stop at.
FirstMatch(i, name) ==
    Matches(i, name) /\ \A j \in 1 .. (i - 1) : ~ Matches(j, name)

FirstUnused(i) ==
    /\ fmdt[i].begining_offset = 0
    /\ \A j \in 1 .. (i - 1) : fmdt[j].begining_offset # 0

Least(m, n) == IF m < n THEN m ELSE n

\* An operation returns to the menu after printing r; its locals die.
Return(r) ==
    /\ pc' = "menu" /\ reply' = r
    /\ slot' = 0 /\ offset' = 0 /\ processed' = <<>> /\ rest' = <<>>
    /\ probe' = 0 /\ new_file_name' = NoName

\* A search that found no entry, or nothing to allocate: nothing is written.
Refuse(r) == Return(r) /\ UNCHANGED <<fmdt, disk>>

\* One turn of a loop that clears a chain: the next offset is read before the
\* block is overwritten, then the loop goes on there or ends.
ClearTurn(loop) ==
    /\ pc = loop
    /\ SaveBlock(ClearBlock(blocks[offset]), offset)
    /\ UNCHANGED <<fmdt, disk_fmdt>>

\* Fault: the loop is not left at the last block.
GoOn_NoBreak ==
    /\ offset' = blocks[offset].next_offset
    /\ UNCHANGED <<pc, slot, search, processed, rest, reply>>

GoOn ==
    /\ blocks[offset].next_offset # 0
    /\ offset' = blocks[offset].next_offset
    /\ UNCHANGED <<pc, slot, search, processed, rest, reply>>

Goto(step) ==
    /\ blocks[offset].next_offset = 0
    /\ pc' = step
    /\ offset' = 0
    /\ UNCHANGED <<slot, search, processed, rest, reply>>

---------------------------------------------------------------------------
(***************************************************************************)
(* The constructor, on a disk file it has just created, full of zeros; and *)
(* the end of the process, after which a new one reads the table back.     *)
(***************************************************************************)
Init ==
    /\ fmdt = [i \in Slots |-> EmptyEntry]
    /\ disk_fmdt = fmdt
    /\ blocks = [b \in Blocks |-> EmptyBlock]
    /\ pc = "menu" /\ slot = 0 /\ offset = 0 /\ probe = 0 /\ new_file_name = NoName
    /\ processed = <<>> /\ rest = <<>> /\ reply = "ok"

Reload == fmdt' = disk_fmdt /\ UNCHANGED disk /\ Return("ok")

\* "exit" at the menu, then a new process.
Restart == pc = "menu" /\ Reload

\* The process is killed inside an operation, then a new one is started.
Crash == pc # "menu" /\ Reload

(***************************************************************************)
(* ResetDisk: the table is cleared in memory, then the disk file is made   *)
(* anew, full of zeros.                                                    *)
(***************************************************************************)
ResetDisk ==
    /\ pc = "menu"
    /\ fmdt' = [i \in Slots |-> EmptyEntry]
    /\ pc' = "reset" /\ reply' = "ok"
    /\ UNCHANGED <<disk, slot, offset, search, processed, rest>>

WriteEmptyDisk ==
    /\ pc = "reset"
    /\ disk_fmdt' = [i \in Slots |-> EmptyEntry]
    /\ blocks' = [b \in Blocks |-> EmptyBlock]
    /\ Return("ok")
    /\ UNCHANGED fmdt

(***************************************************************************)
(* CreateNewFile: an unused entry, a free block, the entry in memory, the  *)
(* entry on the disk, and last the block, marked busy.                     *)
(***************************************************************************)
NameInUse(name) ==
    /\ pc = "menu"
    /\ \E i \in Slots : Matches(i, name)
    /\ Refuse("in_use")

NoEntryLeft(name) ==
    /\ pc = "menu"
    /\ \A i \in Slots : ~ Matches(i, name)
    /\ \A i \in Slots : fmdt[i].begining_offset # 0
    /\ Refuse("max_files")

CreateNewFile(name) ==
    /\ pc = "menu"
    /\ \A i \in Slots : ~ Matches(i, name)
    /\ \E i \in Slots : FirstUnused(i) /\ slot' = i
    /\ pc' = "find" /\ probe' = 1 /\ new_file_name' = name
    /\ UNCHANGED <<fmdt, disk, offset, processed, rest, reply>>

\* Fault: the name is copied before the result of the search is looked at.
NoBlockLeft_Named ==
    /\ pc = "find"
    /\ FindFreeBlock(0)
    /\ fmdt' = [fmdt EXCEPT ![slot] = [name |-> new_file_name, begining_offset |-> 0]]
    /\ Return("max_files")
    /\ UNCHANGED disk

\* The entry gets the 0 of the search, in memory; the message is the same.
NoBlockLeft ==
    /\ pc = "find"
    /\ FindFreeBlock(0)
    /\ fmdt' = [fmdt EXCEPT ![slot].begining_offset = 0]
    /\ Return("max_files")
    /\ UNCHANGED disk

FillEntry ==
    /\ pc = "find"
    /\ \E f \in Blocks :
          /\ FindFreeBlock(f)
          /\ fmdt' = [fmdt EXCEPT ![slot] =
                          [name |-> new_file_name, begining_offset |-> f]]
    /\ pc' = "save_entry" /\ probe' = 0 /\ new_file_name' = NoName
    /\ UNCHANGED <<disk, slot, offset, processed, rest, reply>>

SaveEntry ==
    /\ pc = "save_entry"
    /\ SaveFMDT
    /\ pc' = "create"
    /\ UNCHANGED <<blocks, slot, offset, search, processed, rest, reply>>

CreateBlock ==
    /\ pc = "create"
    /\ SaveBlock(FirstBlock, fmdt[slot].begining_offset)
    /\ Return("ok")
    /\ UNCHANGED <<fmdt, disk_fmdt>>

(***************************************************************************)
(* RemoveFile: the chain is cleared from its head, then the entry, in      *)
(* memory and on the disk.                                                 *)
(***************************************************************************)
NoSuchFile(name) ==
    /\ pc = "menu"
    /\ \A i \in Slots : ~ Matches(i, name)
    /\ Refuse("incorrect_name")

RemoveFile(name) ==
    /\ pc = "menu"
    /\ \E i \in Slots : /\ FirstMatch(i, name)
                        /\ slot' = i
                        /\ offset' = fmdt[i].begining_offset
    /\ pc' = "remove"
    /\ UNCHANGED <<fmdt, disk, search, processed, rest, reply>>

RemoveBlock == ClearTurn("remove") /\ (GoOn \/ Goto("drop_entry"))

DropEntry ==
    /\ pc = "drop_entry"
    /\ fmdt' = [fmdt EXCEPT ![slot] = EmptyEntry]
    /\ pc' = "save_drop" /\ reply' = "ok"
    /\ UNCHANGED <<disk, slot, offset, search, processed, rest>>

SaveDrop ==
    /\ pc = "save_drop"
    /\ SaveFMDT
    /\ Return("ok")
    /\ UNCHANGED blocks

(***************************************************************************)
(* OpenFile: FileToBuffer walks the chain, ProcessFileBuffer edits the     *)
(* text, and the result is written back.                                   *)
(***************************************************************************)
OpenFile(name) ==
    /\ pc = "menu"
    /\ \E i \in Slots : /\ FirstMatch(i, name)
                        /\ slot' = i
                        /\ offset' = fmdt[i].begining_offset
    /\ pc' = "load"
    /\ UNCHANGED <<fmdt, disk, search, processed, rest, reply>>

\* Fault: a block is put before the ones already read.
FileToBuffer_Prepends ==
    /\ pc = "load"
    /\ processed' = blocks[offset].data \o processed
    /\ offset' = blocks[offset].next_offset
    /\ pc' = IF blocks[offset].next_offset = 0 THEN "edit" ELSE "load"
    /\ UNCHANGED <<fmdt, disk, slot, search, rest, reply>>

FileToBuffer ==
    /\ pc = "load"
    /\ processed' = processed \o blocks[offset].data
    /\ offset' = blocks[offset].next_offset
    /\ pc' = IF blocks[offset].next_offset = 0 THEN "edit" ELSE "load"
    /\ UNCHANGED <<fmdt, disk, slot, search, rest, reply>>

---------------------------------------------------------------------------
(***************************************************************************)
(* ProcessFileBuffer.  Positions count from 0.                             *)
(***************************************************************************)
Positions == 0 .. (MaxText + 1)

Edited(text) ==
    /\ pc = "edit"
    /\ Len(text) <= MaxText
    /\ processed' = text
    /\ UNCHANGED <<fmdt, disk, pc, slot, offset, search, rest, reply>>

\* The checks of the input loops, the unsigned length() - 1 of an empty text
\* being the largest size_t.
EraseAccepted(p, size) == p + size <= Len(processed) + 1
InsertAccepted(p)      == Len(processed) = 0 \/ p <= Len(processed) - 1

ClearText == Edited(<<>>)

\* string::erase cuts "size" at the end of the text.
EraseText(p, size) ==
    /\ EraseAccepted(p, size)
    /\ p <= Len(processed)
    /\ Edited(SubSeq(processed, 1, p)
                \o SubSeq(processed, p + size + 1, Len(processed)))

AppendText(c) == Edited(Append(processed, c))

InsertText(p, c) ==
    /\ InsertAccepted(p)
    /\ p <= Len(processed)
    /\ Edited(SubSeq(processed, 1, p) \o <<c>>
                \o SubSeq(processed, p + 1, Len(processed)))

\* A position beyond the end that the input loop let through: erase and insert
\* throw out_of_range, nobody catches it, and the process is started again.
EditThrows ==
    /\ pc = "edit"
    /\ \E p \in Positions : /\ p > Len(processed)
                            /\ EraseAccepted(p, 0) \/ InsertAccepted(p)
    /\ Reload

CloseText ==
    /\ pc = "edit"
    /\ offset' = fmdt[slot].begining_offset
    /\ pc' = IF processed = <<>> THEN "wipe" ELSE "save"
    /\ rest' = processed
    /\ UNCHANGED <<fmdt, disk, slot, search, processed, reply>>

(***************************************************************************)
(* The rest of OpenFile: an empty text clears the chain and then marks its *)
(* first block busy again.                                                 *)
(***************************************************************************)
WipeBlock == ClearTurn("wipe") /\ (GoOn \/ Goto("restore"))

RestoreFirst ==
    /\ pc = "restore"
    /\ SaveBlock(FirstBlock, fmdt[slot].begining_offset)
    /\ Return("ok")
    /\ UNCHANGED <<fmdt, disk_fmdt>>

---------------------------------------------------------------------------
(***************************************************************************)
(* SaveFile.                                                               *)
(***************************************************************************)

\* Fault: the block is saved without "busy_flag = 1".
Filled_NotBusy(block) ==
    [block EXCEPT !.data = SubSeq(rest, 1, Least(Len(rest), BLOCK_DATA_SIZE))]

\* A block that takes its share of the text, and the text left then.
Filled(block) ==
    [block EXCEPT !.data = SubSeq(rest, 1, Least(Len(rest), BLOCK_DATA_SIZE)),
                  !.busy_flag = 1]

Remainder == SubSeq(rest, 1 + Least(Len(rest), BLOCK_DATA_SIZE), Len(rest))

SaveData ==
    LET next == blocks[offset].next_offset
        left == Remainder
    IN
    /\ pc = "save"
    /\ SaveBlock(Filled(blocks[offset]), offset)
    /\ \/ /\ left = <<>> /\ next = 0
          /\ Return("ok")
       \/ /\ left = <<>> /\ next # 0
          /\ pc' = "unlink" /\ rest' = left
          /\ UNCHANGED <<slot, offset, search, processed, reply>>
       \/ /\ left # <<>> /\ next = 0
          /\ pc' = "extend" /\ probe' = 1 /\ rest' = left
          /\ UNCHANGED <<slot, offset, new_file_name, processed, reply>>
       \/ /\ left # <<>> /\ next # 0
          /\ offset' = next /\ rest' = left
          /\ UNCHANGED <<pc, slot, search, processed, reply>>
    /\ UNCHANGED <<fmdt, disk_fmdt>>

\* Fault: the tail is cut off and left busy.
UnlinkTail_NoTrim ==
    /\ pc = "unlink"
    /\ SaveBlock([blocks[offset] EXCEPT !.next_offset = 0], offset)
    /\ Return("ok")
    /\ UNCHANGED <<fmdt, disk_fmdt>>

\* The file became shorter: its last block is cut from the tail, then the tail
\* is cleared.
UnlinkTail ==
    /\ pc = "unlink"
    /\ SaveBlock([blocks[offset] EXCEPT !.next_offset = 0], offset)
    /\ offset' = blocks[offset].next_offset
    /\ pc' = "trim"
    /\ UNCHANGED <<fmdt, disk_fmdt, slot, search, processed, rest, reply>>

TrimBlock ==
    /\ ClearTurn("trim")
    /\ GoOn \/ (blocks[offset].next_offset = 0 /\ Return("ok"))

\* The file became longer: the link is saved, and the new block is marked busy
\* only when its data is.
LinkBlock ==
    /\ pc = "extend"
    /\ \E f \in Blocks :
          /\ FindFreeBlock(f)
          /\ SaveBlock([blocks[offset] EXCEPT !.next_offset = f], offset)
          /\ offset' = f
    /\ pc' = "save" /\ probe' = 0
    /\ UNCHANGED <<fmdt, disk_fmdt, slot, new_file_name, processed, rest, reply>>

\* Fault: the loop tries again until a block is free.
DiskFull_Retries == pc = "extend" /\ FindFreeBlock(0) /\ UNCHANGED vars

DiskFull ==
    /\ pc = "extend"
    /\ FindFreeBlock(0)
    /\ Refuse("lost")

---------------------------------------------------------------------------
Command ==
    \/ ResetDisk
    \/ Restart
    \/ \E name \in Names :
          \/ NameInUse(name)
          \/ NoEntryLeft(name)
          \/ CreateNewFile(name)
          \/ NoSuchFile(name)
          \/ RemoveFile(name)
          \/ OpenFile(name)

Edit ==
    \/ ClearText
    \/ \E p \in Positions, size \in Positions : EraseText(p, size)
    \/ \E c \in Chars : AppendText(c)
    \/ \E p \in Positions, c \in Chars : InsertText(p, c)
    \/ EditThrows
    \/ CloseText

\* What the program does by itself once a command has been given.
Proceed ==
    \/ WriteEmptyDisk
    \/ NextProbe
    \/ NoBlockLeft
    \/ FillEntry
    \/ SaveEntry
    \/ CreateBlock
    \/ RemoveBlock
    \/ DropEntry
    \/ SaveDrop
    \/ FileToBuffer
    \/ WipeBlock
    \/ RestoreFirst
    \/ SaveData
    \/ UnlinkTail
    \/ TrimBlock
    \/ LinkBlock
    \/ DiskFull

Next == Command \/ Edit \/ Proceed

Spec == Init /\ [][Next]_vars

\* The program keeps running its own steps; the user may stop at any prompt.
FairSpec == Spec /\ WF_vars(Proceed)

\* The same program, which may be killed between any two writes.
CrashSpec     == Init /\ [][Next \/ Crash]_vars
FairCrashSpec == CrashSpec /\ WF_vars(Proceed)

---------------------------------------------------------------------------
(***************************************************************************)
(* What holds at every step.                                               *)
(***************************************************************************)
Heads == {fmdt[i].begining_offset : i \in Slots} \ {0}
Links == {blocks[b].next_offset : b \in Blocks} \ {0}

\* The blocks some entry or some other block leads to.
Owned == Heads \cup Links
Busy  == {b \in Blocks : blocks[b].busy_flag = 1}

\* No chain of next_offset has a cycle: every set of blocks has one that leads
\* out of it.  The loops of RemoveFile, FileToBuffer, OpenFile and SaveFile,
\* "while (true)" each, end because of it.
ChainsAcyclic ==
    \A S \in (SUBSET Blocks) \ {{}} : \E b \in S : blocks[b].next_offset \notin S

\* A block marked free is blank: whoever FindFreeBlock hands it to extends no
\* chain by the blocks of a former owner.
FreeBlocksBlank == \A b \in Blocks \ Busy : blocks[b] = EmptyBlock

\* The entries an operation has changed in memory and not yet on the disk.
Unsaved ==
    CASE pc = "reset"                       -> Slots
      [] pc \in {"save_entry", "save_drop"} -> {slot}
      [] OTHER                              -> {}

\* At every prompt the table on the disk is the one in memory, on whatever path
\* the operation came back: CreateNewFile assigns the entry also when it fails.
\* In between they differ in the one entry that is about to be saved (or in all,
\* when the disk is reset): that change is all a kill can take from the table.
WriteThrough == \A i \in Slots \ Unsaved : fmdt[i] = disk_fmdt[i]

\* A block is led to once: by one entry or by one block.
NoSharing ==
    /\ \A i, j \in Slots :
          fmdt[i].begining_offset = fmdt[j].begining_offset
          => i = j \/ fmdt[i].begining_offset = 0
    /\ \A b, c \in Blocks :
          blocks[b].next_offset = blocks[c].next_offset
          => b = c \/ blocks[b].next_offset = 0
    /\ Heads \cap Links = {}

\* Two files never have the same name.
UniqueNames ==
    \A i, j \in Slots :
        fmdt[i].name = fmdt[j].name => i = j \/ fmdt[i].name = NoName

\* Two files never have the same name when it fits its field, whatever an
\* interrupted operation has left in the table.
ShortNamesUnique ==
    \A i, j \in Slots :
        fmdt[i].name = fmdt[j].name => i = j \/ fmdt[i].name \in LongNames \cup {NoName}

\* Between operations the busy blocks are those that belong to a file: none
\* has leaked and none in use can be allocated again.
BusyIffOwned == pc \in {"menu", "load", "edit"} => Busy = Owned

\* A file is refused, or a text cut, only when no entry is left or the files
\* themselves fill the disk: no leaked block, and none the search has passed
\* over, costs the user a file.
RefusalsJustified ==
    /\ reply = "max_files" /\ pc = "menu" =>
          (\A i \in Slots : fmdt[i].begining_offset # 0) \/ Owned = Blocks
    /\ reply = "lost" /\ pc = "menu" => Owned = Blocks

\* Every operation comes back to the user, whatever chains it walks.
OperationsEnd == (pc \in Internal) ~> (pc \in {"menu", "edit"})
============================================================================
