-------------------------- MODULE FileSystemProofs --------------------------
(***************************************************************************)
(* Theorems about the disk emulator, for every number of entries, blocks   *)
(* and characters per block.                                               *)
(***************************************************************************)
EXTENDS FileSystem, SequenceTheorems, TLAPS

(***************************************************************************)
(* LocalInv is the part of the invariant that survives a crash: what one   *)
(* block, one entry and the step being made tell about each other.         *)
(***************************************************************************)
EntriesNamed ==
    \A i \in Slots :
        /\ fmdt[i].name = NoName <=> fmdt[i].begining_offset = 0
        /\ disk_fmdt[i].name = NoName <=> disk_fmdt[i].begining_offset = 0

\* The steps whose operation has no entry, has not filled it yet, or has cleared it.
Headless == {"menu", "reset", "find", "save_drop"}

\* The steps between a change of the table in memory and its write.
Unwritten == {"reset", "save_entry", "save_drop"}

\* A search has found every block it has passed in use.
SearchInv ==
    pc \in Searches => \A b \in Blocks : b < probe => blocks[b].busy_flag # 0

StepInv ==
    /\ pc \notin Headless => fmdt[slot].begining_offset # 0
    /\ pc = "reset" => \A i \in Slots : fmdt[i] = EmptyEntry
    /\ pc = "find" => /\ fmdt[slot].begining_offset = 0
                      /\ \A i \in Slots : ~ Matches(i, new_file_name)
    /\ pc = "unlink" => blocks[offset].next_offset # 0
    /\ pc = "extend" => /\ blocks[offset].busy_flag = 1
                        /\ blocks[offset].next_offset = 0
    /\ SearchInv

LocalInv ==
    /\ TypeOK
    /\ EntriesNamed
    /\ WriteThrough
    /\ FreeBlocksBlank
    /\ StepInv

---------------------------------------------------------------------------
\* What the helpers build has the shape of a block, and ClearBlock returns
\* the blank block whatever was there.
LEMMA BlockShapes ==
    /\ EmptyBlock \in Block
    /\ FirstBlock \in Block
    /\ \A x \in Block : ClearBlock(x) = EmptyBlock
    /\ \A x \in Block, n \in 0 .. AMOUNT_OF_BLOCKS_ :
          [x EXCEPT !.next_offset = n] \in Block
<1>1. EmptyBlock \in Block /\ FirstBlock \in Block
    BY SizesAssumption, EmptySeq DEF EmptyBlock, FirstBlock, Block
<1>2. ASSUME NEW x \in Block PROVE ClearBlock(x) = EmptyBlock
    <2>1. ClearBlock(x) \in [busy_flag : {0}, data : {<<>>}, next_offset : {0}]
        BY DEF Block, ClearBlock
    <2>2. ASSUME NEW y \in [busy_flag : {0}, data : {<<>>}, next_offset : {0}]
          PROVE  y = EmptyBlock
        BY DEF EmptyBlock
    <2> QED
        BY <2>1, <2>2
<1>3. ASSUME NEW x \in Block, NEW n \in 0 .. AMOUNT_OF_BLOCKS_
      PROVE  [x EXCEPT !.next_offset = n] \in Block
    BY DEF Block
<1> QED
    BY <1>1, <1>2, <1>3

\* A name a user types is not the name of an unused entry.
LEMMA NameNotEmpty == \A name \in Names : name # NoName
    BY NamesAssumption DEF NoName

\* The share of a text that a block takes, and the rest of it, are texts.
LEMMA SplitType ==
    ASSUME rest \in Seq(Chars)
    PROVE  /\ SubSeq(rest, 1, Least(Len(rest), BLOCK_DATA_SIZE)) \in Seq(Chars)
           /\ Remainder \in Seq(Chars)
<1>1. Len(rest) \in Nat /\ \A i \in 1 .. Len(rest) : rest[i] \in Chars
    BY LenProperties, ElementOfSeq
<1>2. Least(Len(rest), BLOCK_DATA_SIZE) \in 0 .. Len(rest)
    BY <1>1, SizesAssumption DEF Least
<1>3. SubSeq(rest, 1, Least(Len(rest), BLOCK_DATA_SIZE)) \in Seq(Chars)
    BY <1>1, <1>2, SubSeqProperties
<1>4. Remainder \in Seq(Chars)
    BY <1>1, <1>2, SubSeqProperties DEF Remainder
<1> QED
    BY <1>3, <1>4

\* A block filled by SaveFile is busy and keeps its link.
LEMMA FilledShape ==
    ASSUME rest \in Seq(Chars), NEW x \in Block
    PROVE  /\ Filled(x) \in Block
           /\ Filled(x).busy_flag = 1
           /\ Filled(x).next_offset = x.next_offset
<1>1. SubSeq(rest, 1, Least(Len(rest), BLOCK_DATA_SIZE)) \in Seq(Chars)
    BY SplitType
<1> QED
    BY <1>1 DEF Filled, Block

\* What the editor makes of a text is a text.
LEMMA EditType ==
    ASSUME NEW text \in Seq(Chars), NEW m \in Nat, NEW n \in Nat,
           m <= Len(text), n >= 1
    PROVE  /\ SubSeq(text, 1, m) \in Seq(Chars)
           /\ SubSeq(text, n, Len(text)) \in Seq(Chars)
<1>1. Len(text) \in Nat /\ \A i \in 1 .. Len(text) : text[i] \in Chars
    BY LenProperties, ElementOfSeq
<1> QED
    BY <1>1, SubSeqProperties

---------------------------------------------------------------------------
\* A fresh disk has blank blocks and an empty table.
LEMMA LocalInit == Init => LocalInv
<1> SUFFICES ASSUME Init PROVE LocalInv
    OBVIOUS
<1>1. TypeOK
    <2>1. EmptyEntry \in FileMetaDataTableField
        BY SizesAssumption DEF EmptyEntry, FileMetaDataTableField
    <2>2. fmdt \in [Slots -> FileMetaDataTableField] /\ disk_fmdt = fmdt
        BY <2>1 DEF Init
    <2>3. blocks \in [Blocks -> Block]
        BY BlockShapes DEF Init
    <2> QED
        <3>1. processed \in Seq(Chars) /\ rest \in Seq(Chars)
            BY EmptySeq DEF Init
        <3> QED
            BY <2>2, <2>3, <3>1 DEF Init, TypeOK, Internal, ClearLoops, Searches
<1>2. EntriesNamed
    BY DEF Init, EntriesNamed, EmptyEntry
<1>3. WriteThrough /\ FreeBlocksBlank /\ StepInv
    BY DEF Init, WriteThrough, FreeBlocksBlank, StepInv, Headless, Searches, SearchInv
<1> QED
    BY <1>1, <1>2, <1>3 DEF LocalInv

\* Unless a change of it is about to be written, the table in memory is the one
\* on the disk, and it is so after a step that leaves both.
LEMMA TablesAgree ==
    ASSUME LocalInv, pc \notin Unwritten
    PROVE  /\ fmdt = disk_fmdt
           /\ UNCHANGED <<fmdt, disk_fmdt>> => WriteThrough' /\ EntriesNamed'
<1>1. \A i \in Slots : fmdt[i] = disk_fmdt[i]
    BY DEF LocalInv, WriteThrough, Unsaved, Unwritten
<1>2. fmdt = disk_fmdt
    BY <1>1 DEF LocalInv, TypeOK
<1>3. UNCHANGED <<fmdt, disk_fmdt>> => WriteThrough' /\ EntriesNamed'
    BY <1>2 DEF LocalInv, WriteThrough, EntriesNamed
<1> QED
    BY <1>2, <1>3

\* Returning to the menu with tables that are each other's copy and blank free
\* blocks restores the invariant, whatever operation ends.
LEMMA LocalReturn ==
    ASSUME NEW r \in {"ok", "in_use", "max_files", "incorrect_name", "lost"},
           Return(r),
           fmdt' \in [Slots -> FileMetaDataTableField], disk_fmdt' = fmdt',
           blocks' \in [Blocks -> Block], EntriesNamed', FreeBlocksBlank'
    PROVE  LocalInv'
<1>1. processed' \in Seq(Chars) /\ rest' \in Seq(Chars)
    BY EmptySeq DEF Return
<1>2. TypeOK'
    BY <1>1 DEF Return, TypeOK, Internal, ClearLoops, Searches
<1>3. WriteThrough' /\ StepInv'
    BY DEF Return, WriteThrough, StepInv, Headless, Searches, SearchInv
<1> QED
    BY <1>2, <1>3 DEF LocalInv

\* Saving a block that is busy or blank keeps the free blocks blank.
LEMMA SaveBlockBlank ==
    ASSUME LocalInv, NEW at \in Blocks, NEW x \in Block, SaveBlock(x, at),
           x.busy_flag = 1 \/ x = EmptyBlock
    PROVE  blocks' \in [Blocks -> Block] /\ FreeBlocksBlank'
<1>1. blocks' \in [Blocks -> Block]
    BY DEF LocalInv, TypeOK, SaveBlock
<1>2. FreeBlocksBlank'
    BY <1>1 DEF LocalInv, TypeOK, SaveBlock, FreeBlocksBlank, Busy, Block
<1> QED
    BY <1>1, <1>2

\* The entry worked on leads to a block, at every step that has one.
LEMMA HeadIsBlock ==
    ASSUME LocalInv, pc \notin Headless
    PROVE  /\ slot \in Slots
           /\ fmdt[slot].begining_offset \in Blocks
    BY SizesAssumption
    DEF LocalInv, TypeOK, StepInv, FileMetaDataTableField, Blocks, Slots, Headless

\* A search that ends with a block ends at a free one; without, all are in use.
LEMMA SearchEnds ==
    ASSUME LocalInv, pc \in Searches, NEW f, FindFreeBlock(f)
    PROVE  /\ f = 0 => Busy = Blocks
           /\ f # 0 => f \in Blocks /\ blocks[f].busy_flag = 0
<1>1. probe \in Blocks /\ blocks \in [Blocks -> Block]
    BY DEF LocalInv, TypeOK
<1>2. \A b \in Blocks : blocks[b].busy_flag \in {0, 1}
    BY <1>1 DEF Block
<1>3. \A b \in Blocks : b < probe => blocks[b].busy_flag # 0
    BY DEF LocalInv, StepInv, SearchInv
<1>4. ASSUME blocks[probe].busy_flag # 0, probe = AMOUNT_OF_BLOCKS_
      PROVE  Busy = Blocks
    <2>1. \A b \in Blocks : b < probe \/ b = probe
        BY <1>4, SizesAssumption DEF Blocks
    <2> QED
        BY <1>2, <1>3, <1>4, <2>1 DEF Busy
<1>5. probe # 0
    BY <1>1, SizesAssumption DEF Blocks
<1> QED
    BY <1>1, <1>4, <1>5 DEF FindFreeBlock

\* A turn of a loop that clears a chain, not the last one or the last one.
LEMMA LocalClear ==
    ASSUME LocalInv, NEW loop \in ClearLoops, ClearTurn(loop)
    PROVE  /\ GoOn => LocalInv'
           /\ \A step \in {"drop_entry", "restore"} : Goto(step) => LocalInv'
           /\ Return("ok") => LocalInv'
<1>1. offset \in Blocks /\ blocks[offset] \in Block
    BY DEF LocalInv, TypeOK, ClearTurn, ClearLoops
<1>2. ClearBlock(blocks[offset]) = EmptyBlock
    BY <1>1, BlockShapes
<1>3. blocks' \in [Blocks -> Block] /\ FreeBlocksBlank'
    BY <1>1, <1>2, BlockShapes, SaveBlockBlank DEF ClearTurn
<1>4. fmdt' = fmdt /\ disk_fmdt' = disk_fmdt /\ WriteThrough' /\ EntriesNamed'
    BY TablesAgree DEF ClearTurn, ClearLoops, Unwritten
<1>t. fmdt = disk_fmdt
    BY TablesAgree DEF ClearTurn, ClearLoops, Unwritten
<1>5. ASSUME GoOn PROVE LocalInv'
    <2>1. offset' \in Blocks
        BY <1>1, <1>5, SizesAssumption DEF GoOn, Block, Blocks
    <2>2. TypeOK'
        BY <1>3, <1>4, <1>5, <2>1
        DEF LocalInv, TypeOK, GoOn, ClearTurn, ClearLoops, Searches, search
    <2>3. StepInv'
        BY <1>4, <1>5
        DEF LocalInv, StepInv, GoOn, ClearTurn, ClearLoops, Headless, Searches, SearchInv
    <2> QED
        BY <1>3, <1>4, <2>2, <2>3 DEF LocalInv
<1>6. ASSUME NEW step \in {"drop_entry", "restore"}, Goto(step) PROVE LocalInv'
    <2>1. TypeOK'
        BY <1>3, <1>4, <1>6
        DEF LocalInv, TypeOK, Goto, ClearTurn, ClearLoops, Internal, Searches, search
    <2>2. StepInv'
        BY <1>4, <1>6
        DEF LocalInv, StepInv, Goto, ClearTurn, ClearLoops, Headless, Searches, SearchInv
    <2> QED
        BY <1>3, <1>4, <2>1, <2>2 DEF LocalInv
<1>7. ASSUME Return("ok") PROVE LocalInv'
    BY <1>3, <1>4, <1>7, <1>t, LocalReturn DEF LocalInv, TypeOK
<1> QED
    BY <1>5, <1>6, <1>7

---------------------------------------------------------------------------
\* Starting a command: it begins at the first block of its entry.
LEMMA LocalCommand == LocalInv /\ Command => LocalInv'
<1> SUFFICES ASSUME LocalInv, Command PROVE LocalInv'
    OBVIOUS
<1>m. pc = "menu" /\ fmdt = disk_fmdt
    <2>1. pc = "menu"
        BY DEF Command, ResetDisk, Restart, NameInUse, NoEntryLeft, CreateNewFile,
               NoSuchFile, RemoveFile, OpenFile
    <2> QED
        BY <2>1, TablesAgree DEF Unwritten
<1>1. ASSUME ResetDisk PROVE LocalInv'
    <2>1. EmptyEntry \in FileMetaDataTableField
        BY SizesAssumption DEF EmptyEntry, FileMetaDataTableField
    <2>2. /\ fmdt' = [i \in Slots |-> EmptyEntry] /\ pc' = "reset" /\ reply' = "ok"
          /\ UNCHANGED <<disk_fmdt, blocks, slot, offset, probe, new_file_name,
                         processed, rest>>
        BY <1>1 DEF ResetDisk, disk, search
    <2>3. EntriesNamed' /\ FreeBlocksBlank'
        BY <2>2 DEF LocalInv, EntriesNamed, FreeBlocksBlank, Busy, EmptyEntry
    <2>4. TypeOK'
        BY <1>m, <2>1, <2>2 DEF LocalInv, TypeOK, Internal, ClearLoops, Searches
    <2>5. WriteThrough'
        BY <2>2 DEF WriteThrough, Unsaved
    <2>6. StepInv'
        BY <2>2 DEF StepInv, Headless, Searches, SearchInv
    <2> QED
        BY <2>3, <2>4, <2>5, <2>6 DEF LocalInv
<1>2. ASSUME Restart PROVE LocalInv'
    <2>1. UNCHANGED <<fmdt, disk_fmdt, blocks>>
        BY <1>2, <1>m DEF Restart, Reload, disk
    <2>2. EntriesNamed' /\ FreeBlocksBlank'
        BY <2>1 DEF LocalInv, EntriesNamed, FreeBlocksBlank, Busy
    <2> QED
        BY <1>2, <1>m, <2>1, <2>2, LocalReturn DEF Restart, Reload, LocalInv, TypeOK
<1>3. ASSUME NEW r \in {"in_use", "max_files", "incorrect_name"}, Refuse(r)
      PROVE  LocalInv'
    <2>1. UNCHANGED <<fmdt, disk_fmdt, blocks>>
        BY <1>3 DEF Refuse, disk
    <2>2. EntriesNamed' /\ FreeBlocksBlank'
        BY <2>1 DEF LocalInv, EntriesNamed, FreeBlocksBlank, Busy
    <2> QED
        BY <1>3, <1>m, <2>1, <2>2, LocalReturn DEF Refuse, LocalInv, TypeOK
<1>4. ASSUME NEW name \in Names, CreateNewFile(name) PROVE LocalInv'
    <2>1. PICK i \in Slots : FirstUnused(i) /\ slot' = i
        BY <1>4 DEF CreateNewFile
    <2>2. /\ pc' = "find" /\ probe' = 1 /\ new_file_name' = name
          /\ UNCHANGED <<fmdt, disk_fmdt, blocks, offset, processed, rest, reply>>
        BY <1>4 DEF CreateNewFile, disk
    <2>3. 1 \in Blocks
        BY SizesAssumption DEF Blocks
    <2>4. TypeOK'
        BY <1>m, <2>1, <2>2, <2>3
        DEF LocalInv, TypeOK, Internal, ClearLoops, Searches
    <2>5. WriteThrough' /\ EntriesNamed' /\ FreeBlocksBlank'
        BY <1>m, <2>2, TablesAgree DEF LocalInv, FreeBlocksBlank, Busy, Unwritten
    <2>6. StepInv'
        <3>1. fmdt'[slot'].begining_offset = 0
            BY <2>1, <2>2 DEF FirstUnused
        <3>2. \A j \in Slots : ~ Matches(j, new_file_name)'
            BY <1>4, <2>2 DEF CreateNewFile, Matches
        <3>3. \A b \in Blocks : ~ (b < probe')
            BY <2>2, SizesAssumption DEF Blocks
        <3> QED
            BY <2>2, <3>1, <3>2, <3>3 DEF StepInv, Headless, Searches, SearchInv
    <2> QED
        BY <2>4, <2>5, <2>6 DEF LocalInv
<1>5. ASSUME NEW name \in Names, NEW loop \in {"remove", "load"},
             pc = "menu", pc' = loop,
             \E i \in Slots : /\ FirstMatch(i, name)
                              /\ slot' = i
                              /\ offset' = fmdt[i].begining_offset,
             UNCHANGED <<fmdt, disk, search, processed, rest, reply>>
      PROVE  LocalInv'
    <2>1. PICK i \in Slots : /\ fmdt[i].name = name
                             /\ slot' = i
                             /\ offset' = fmdt[i].begining_offset
        BY <1>5 DEF FirstMatch, Matches
    <2>2. fmdt[i].begining_offset \in Blocks
        <3>1. fmdt[i].begining_offset # 0
            BY <2>1, NameNotEmpty DEF LocalInv, EntriesNamed
        <3> QED
            BY <3>1, SizesAssumption
            DEF LocalInv, TypeOK, FileMetaDataTableField, Blocks
    <2>3. UNCHANGED <<fmdt, disk_fmdt, blocks, probe, new_file_name, processed, rest,
                      reply>>
        BY <1>5 DEF disk, search
    <2>4. TypeOK'
        BY <1>5, <2>1, <2>2, <2>3 DEF LocalInv, TypeOK, Internal, ClearLoops, Searches
    <2>5. EntriesNamed' /\ WriteThrough' /\ FreeBlocksBlank'
        BY <1>m, <2>3, TablesAgree DEF LocalInv, FreeBlocksBlank, Busy, Unwritten
    <2>6. StepInv'
        BY <1>5, <2>1, <2>2, <2>3
        DEF StepInv, Blocks, Headless, Searches, SearchInv
    <2> QED
        BY <2>4, <2>5, <2>6 DEF LocalInv
<1> QED
    BY <1>1, <1>2, <1>3, <1>4, <1>5
    DEF Command, NameInUse, NoEntryLeft, NoSuchFile, RemoveFile, OpenFile

\* The editor touches nothing but its text.
LEMMA LocalEdit == LocalInv /\ Edit => LocalInv'
<1> SUFFICES ASSUME LocalInv, Edit PROVE LocalInv'
    OBVIOUS
<1>m. pc = "edit" /\ fmdt = disk_fmdt
    <2>1. pc = "edit"
        BY DEF Edit, ClearText, EraseText, AppendText, InsertText, Edited, EditThrows,
               CloseText
    <2> QED
        BY <2>1, TablesAgree DEF Unwritten
<1>1. ASSUME NEW text \in Seq(Chars), Edited(text) PROVE LocalInv'
    <2>1. /\ UNCHANGED <<fmdt, disk_fmdt, blocks, pc, slot, offset, probe,
                         new_file_name, rest, reply>>
          /\ processed' = text
        BY <1>1 DEF Edited, disk, search
    <2>2. TypeOK' /\ StepInv'
        BY <1>m, <2>1
        DEF LocalInv, TypeOK, StepInv, Headless, Searches, SearchInv, ClearLoops
    <2>3. EntriesNamed' /\ WriteThrough' /\ FreeBlocksBlank'
        BY <1>m, <2>1, TablesAgree DEF LocalInv, FreeBlocksBlank, Busy, Unwritten
    <2> QED
        BY <2>2, <2>3 DEF LocalInv
<1>2. ASSUME ClearText PROVE LocalInv'
    BY <1>1, <1>2, EmptySeq DEF ClearText
<1>3. ASSUME NEW p \in Positions, NEW size \in Positions, EraseText(p, size)
      PROVE  LocalInv'
    <2>1. /\ SubSeq(processed, 1, p) \in Seq(Chars)
          /\ SubSeq(processed, p + size + 1, Len(processed)) \in Seq(Chars)
        BY <1>3, EditType, SizesAssumption
        DEF LocalInv, TypeOK, EraseText, Positions
    <2> QED
        BY <1>1, <1>3, <2>1, ConcatProperties DEF EraseText
<1>4. ASSUME NEW c \in Chars, AppendText(c) PROVE LocalInv'
    <2>1. Append(processed, c) \in Seq(Chars)
        BY AppendProperties DEF LocalInv, TypeOK
    <2> QED
        BY <1>1, <1>4, <2>1 DEF AppendText
<1>5. ASSUME NEW p \in Positions, NEW c \in Chars, InsertText(p, c)
      PROVE  LocalInv'
    <2>1. /\ SubSeq(processed, 1, p) \in Seq(Chars)
          /\ SubSeq(processed, p + 1, Len(processed)) \in Seq(Chars)
          /\ <<c>> \in Seq(Chars)
        BY <1>5, EditType, SizesAssumption
        DEF LocalInv, TypeOK, InsertText, Positions
    <2>2. SubSeq(processed, 1, p) \o <<c>> \in Seq(Chars)
        BY <2>1, ConcatProperties
    <2> QED
        BY <1>1, <1>5, <2>1, <2>2, ConcatProperties DEF InsertText
<1>6. ASSUME Reload PROVE LocalInv'
    <2>1. UNCHANGED <<fmdt, disk_fmdt, blocks>>
        BY <1>6, <1>m DEF Reload, disk
    <2>2. EntriesNamed' /\ FreeBlocksBlank'
        BY <2>1 DEF LocalInv, EntriesNamed, FreeBlocksBlank, Busy
    <2> QED
        BY <1>6, <1>m, <2>1, <2>2, LocalReturn DEF Reload, LocalInv, TypeOK
<1>7. ASSUME CloseText PROVE LocalInv'
    <2>1. fmdt[slot].begining_offset \in Blocks
        BY <1>m, HeadIsBlock DEF Headless
    <2>2. UNCHANGED <<fmdt, disk_fmdt, blocks, probe, new_file_name>>
        BY <1>7 DEF CloseText, disk, search
    <2>3. TypeOK'
        BY <1>7, <2>1, <2>2
        DEF CloseText, LocalInv, TypeOK, Internal, ClearLoops, Searches
    <2>4. EntriesNamed' /\ WriteThrough' /\ FreeBlocksBlank'
        BY <1>m, <2>2, TablesAgree DEF LocalInv, FreeBlocksBlank, Busy, Unwritten
    <2>5. StepInv'
        BY <1>7, <2>2
        DEF CloseText, LocalInv, StepInv, Headless, Searches, SearchInv
    <2> QED
        BY <2>3, <2>4, <2>5 DEF LocalInv
<1> QED
    BY <1>2, <1>3, <1>4, <1>5, <1>6, <1>7 DEF Edit, EditThrows

\* The writes of the running operation, one by one.
LEMMA LocalProceed == LocalInv /\ Proceed => LocalInv'
<1> SUFFICES ASSUME LocalInv, Proceed PROVE LocalInv'
    OBVIOUS
<1> DEFINE head == fmdt[slot].begining_offset
<1>1. ASSUME pc \in {"create", "restore"}, SaveBlock(FirstBlock, head), Return("ok"),
             UNCHANGED <<fmdt, disk_fmdt>>
      PROVE  LocalInv'
    <2>1. blocks' \in [Blocks -> Block] /\ FreeBlocksBlank'
        BY <1>1, HeadIsBlock, BlockShapes, SaveBlockBlank DEF FirstBlock, Headless
    <2>2. fmdt = disk_fmdt /\ EntriesNamed'
        BY <1>1, TablesAgree DEF Unwritten
    <2> QED
        BY <1>1, <2>1, <2>2, LocalReturn DEF LocalInv, TypeOK
<1>2. ASSUME CreateBlock PROVE LocalInv'
    BY <1>1, <1>2 DEF CreateBlock
<1>3. ASSUME RestoreFirst PROVE LocalInv'
    BY <1>1, <1>3 DEF RestoreFirst
<1>4. ASSUME RemoveBlock PROVE LocalInv'
    BY <1>4, LocalClear DEF RemoveBlock, ClearLoops
<1>5. ASSUME WipeBlock PROVE LocalInv'
    BY <1>5, LocalClear DEF WipeBlock, ClearLoops
<1>6. ASSUME TrimBlock PROVE LocalInv'
    BY <1>6, LocalClear DEF TrimBlock, ClearLoops
<1>7. EmptyEntry \in FileMetaDataTableField /\ EmptyBlock \in Block
    BY SizesAssumption, BlockShapes DEF EmptyEntry, FileMetaDataTableField
<1>13. ASSUME DropEntry PROVE LocalInv'
    <2>1. pc = "drop_entry" /\ slot \in Slots /\ fmdt = disk_fmdt
        BY <1>13, HeadIsBlock, TablesAgree DEF DropEntry, Headless, Unwritten
    <2>2. /\ fmdt' \in [Slots -> FileMetaDataTableField]
          /\ fmdt'[slot] = EmptyEntry
          /\ \A j \in Slots \ {slot} : fmdt'[j] = fmdt[j]
        BY <1>7, <1>13, <2>1 DEF DropEntry, LocalInv, TypeOK
    <2>3. /\ pc' = "save_drop" /\ reply' = "ok"
          /\ UNCHANGED <<disk_fmdt, blocks, slot, offset, probe, new_file_name,
                         processed, rest>>
        BY <1>13 DEF DropEntry, disk, search
    <2>4. EntriesNamed' /\ FreeBlocksBlank'
        BY <2>2, <2>3
        DEF LocalInv, EntriesNamed, FreeBlocksBlank, Busy, EmptyEntry
    <2>5. TypeOK'
        BY <2>1, <2>2, <2>3 DEF LocalInv, TypeOK, Internal, ClearLoops, Searches
    <2>6. WriteThrough'
        BY <2>1, <2>2, <2>3 DEF WriteThrough, Unsaved
    <2>7. StepInv'
        BY <2>3 DEF StepInv, Headless, Searches, SearchInv
    <2> QED
        BY <2>4, <2>5, <2>6, <2>7 DEF LocalInv
<1>14. ASSUME SaveDrop PROVE LocalInv'
    <2>1. fmdt' = fmdt /\ disk_fmdt' = fmdt /\ blocks' = blocks /\ Return("ok")
        BY <1>14 DEF SaveDrop, SaveFMDT
    <2>2. EntriesNamed' /\ FreeBlocksBlank'
        BY <2>1 DEF LocalInv, EntriesNamed, FreeBlocksBlank, Busy
    <2> QED
        BY <2>1, <2>2, LocalReturn DEF LocalInv, TypeOK
<1>15. ASSUME WriteEmptyDisk PROVE LocalInv'
    <2>1. /\ fmdt' = fmdt /\ disk_fmdt' = [i \in Slots |-> EmptyEntry]
          /\ blocks' = [b \in Blocks |-> EmptyBlock] /\ Return("ok")
          /\ pc = "reset"
        BY <1>15 DEF WriteEmptyDisk
    <2>2. fmdt' = disk_fmdt'
        BY <2>1 DEF LocalInv, TypeOK, StepInv
    <2>3. fmdt' \in [Slots -> FileMetaDataTableField] /\ blocks' \in [Blocks -> Block]
        BY <1>7, <2>1, <2>2
    <2>4. EntriesNamed' /\ FreeBlocksBlank'
        BY <2>1, <2>2 DEF EntriesNamed, FreeBlocksBlank, EmptyEntry
    <2> QED
        BY <2>1, <2>2, <2>3, <2>4, LocalReturn
<1>16. ASSUME NextProbe PROVE LocalInv'
    <2>1. /\ pc \in Searches /\ probe \in Blocks /\ blocks[probe].busy_flag # 0
          /\ probe < AMOUNT_OF_BLOCKS_ /\ probe' = probe + 1
          /\ UNCHANGED <<fmdt, disk_fmdt, blocks, pc, slot, offset, new_file_name,
                         processed, rest, reply>>
        BY <1>16 DEF NextProbe, disk, LocalInv, TypeOK
    <2>2. probe' \in Blocks
        BY <2>1, SizesAssumption DEF Blocks
    <2>3. TypeOK'
        BY <2>1, <2>2 DEF LocalInv, TypeOK, Internal, ClearLoops, Searches
    <2>4. EntriesNamed' /\ WriteThrough' /\ FreeBlocksBlank'
        BY <2>1, TablesAgree
        DEF LocalInv, FreeBlocksBlank, Busy, Searches, Unwritten
    <2>5. \A b \in Blocks : b < probe' => b < probe \/ b = probe
        BY <2>1, SizesAssumption DEF Blocks
    <2>6. SearchInv'
        BY <2>1, <2>5 DEF LocalInv, StepInv, SearchInv
    <2>7. StepInv'
        BY <2>1, <2>6 DEF LocalInv, StepInv, Matches, Searches
    <2> QED
        BY <2>3, <2>4, <2>7 DEF LocalInv
<1>17. ASSUME NoBlockLeft PROVE LocalInv'
    <2>1. /\ pc = "find" /\ fmdt' = [fmdt EXCEPT ![slot].begining_offset = 0]
          /\ Return("max_files") /\ UNCHANGED <<disk_fmdt, blocks>>
        BY <1>17 DEF NoBlockLeft, disk
    <2>2. slot \in Slots /\ fmdt[slot].begining_offset = 0
          /\ fmdt \in [Slots -> FileMetaDataTableField]
        BY <2>1 DEF LocalInv, TypeOK, StepInv
    <2>3. fmdt' = fmdt
        BY <2>1, <2>2 DEF FileMetaDataTableField
    <2>4. fmdt = disk_fmdt /\ EntriesNamed' /\ FreeBlocksBlank'
        BY <2>1, <2>3, TablesAgree DEF Unwritten, LocalInv, FreeBlocksBlank, Busy
    <2> QED
        BY <2>1, <2>2, <2>3, <2>4, LocalReturn DEF LocalInv, TypeOK
<1>18. ASSUME FillEntry PROVE LocalInv'
    <2>1. PICK f \in Blocks :
              fmdt' = [fmdt EXCEPT ![slot] =
                          [name |-> new_file_name, begining_offset |-> f]]
        BY <1>18 DEF FillEntry
    <2>2. /\ pc = "find" /\ pc' = "save_entry" /\ probe' = 0 /\ new_file_name' = NoName
          /\ UNCHANGED <<disk_fmdt, blocks, slot, offset, processed, rest, reply>>
        BY <1>18 DEF FillEntry, disk
    <2>3. /\ slot \in Slots /\ new_file_name \in Names /\ fmdt = disk_fmdt
          /\ fmdt \in [Slots -> FileMetaDataTableField]
        BY <2>2, TablesAgree DEF LocalInv, TypeOK, Unwritten
    <2>4. [name |-> new_file_name, begining_offset |-> f] \in FileMetaDataTableField
        BY <2>3 DEF FileMetaDataTableField, Blocks
    <2>5. /\ fmdt' \in [Slots -> FileMetaDataTableField]
          /\ fmdt'[slot].name = new_file_name /\ fmdt'[slot].begining_offset = f
          /\ \A j \in Slots \ {slot} : fmdt'[j] = fmdt[j]
        BY <2>1, <2>3, <2>4
    <2>6. EntriesNamed'
        <3>1. new_file_name # NoName /\ f # 0
            BY <2>3, NameNotEmpty, SizesAssumption DEF Blocks
        <3> QED
            BY <2>2, <2>3, <2>5, <3>1 DEF LocalInv, EntriesNamed
    <2>7. TypeOK'
        BY <2>2, <2>3, <2>5 DEF LocalInv, TypeOK, Internal, ClearLoops, Searches
    <2>8. WriteThrough' /\ FreeBlocksBlank'
        BY <2>2, <2>3, <2>5 DEF LocalInv, WriteThrough, Unsaved, FreeBlocksBlank, Busy
    <2>9. StepInv'
        <3>1. f # 0
            BY SizesAssumption DEF Blocks
        <3> QED
            BY <2>2, <2>5, <3>1 DEF StepInv, Headless, Searches, SearchInv
    <2> QED
        BY <2>6, <2>7, <2>8, <2>9 DEF LocalInv
<1>19. ASSUME SaveEntry PROVE LocalInv'
    <2>1. /\ pc = "save_entry" /\ pc' = "create" /\ fmdt' = fmdt /\ disk_fmdt' = fmdt
          /\ UNCHANGED <<blocks, slot, offset, probe, new_file_name, processed, rest,
                         reply>>
        BY <1>19 DEF SaveEntry, SaveFMDT, search
    <2>2. TypeOK'
        BY <2>1 DEF LocalInv, TypeOK, Internal, ClearLoops, Searches
    <2>3. EntriesNamed' /\ WriteThrough' /\ FreeBlocksBlank'
        BY <2>1 DEF LocalInv, EntriesNamed, WriteThrough, FreeBlocksBlank, Busy
    <2>4. StepInv'
        BY <2>1 DEF LocalInv, StepInv, Headless, Searches, SearchInv
    <2> QED
        BY <2>2, <2>3, <2>4 DEF LocalInv
<1>8. ASSUME FileToBuffer PROVE LocalInv'
    <2>1. offset \in Blocks /\ blocks[offset] \in Block
        BY <1>8 DEF FileToBuffer, LocalInv, TypeOK
    <2>2. processed' \in Seq(Chars)
        BY <1>8, <2>1, ConcatProperties DEF FileToBuffer, LocalInv, TypeOK, Block
    <2>3. offset' \in 0 .. AMOUNT_OF_BLOCKS_ /\ (offset' # 0 => offset' \in Blocks)
        BY <1>8, <2>1, SizesAssumption DEF FileToBuffer, Block, Blocks
    <2>4. pc = "load" /\ UNCHANGED <<fmdt, disk_fmdt, blocks, probe, new_file_name>>
        BY <1>8 DEF FileToBuffer, disk, search
    <2>5. TypeOK'
        BY <1>8, <2>2, <2>3, <2>4
        DEF FileToBuffer, LocalInv, TypeOK, Internal, ClearLoops, Searches
    <2>6. EntriesNamed' /\ WriteThrough' /\ FreeBlocksBlank'
        BY <2>4, TablesAgree DEF LocalInv, FreeBlocksBlank, Busy, Unwritten
    <2>7. StepInv'
        BY <1>8, <2>4
        DEF FileToBuffer, LocalInv, StepInv, Headless, Searches, SearchInv
    <2> QED
        BY <2>5, <2>6, <2>7 DEF LocalInv
<1>9. ASSUME SaveData PROVE LocalInv'
    <2>1. offset \in Blocks /\ blocks[offset] \in Block /\ pc = "save"
        BY <1>9 DEF SaveData, LocalInv, TypeOK
    <2>2. /\ Filled(blocks[offset]) \in Block
          /\ Filled(blocks[offset]).busy_flag = 1
          /\ Filled(blocks[offset]).next_offset = blocks[offset].next_offset
        BY <2>1, FilledShape DEF LocalInv, TypeOK
    <2>3. blocks' \in [Blocks -> Block] /\ FreeBlocksBlank'
        BY <1>9, <2>1, <2>2, SaveBlockBlank DEF SaveData
    <2>4. blocks'[offset] = Filled(blocks[offset])
        BY <1>9, <2>1 DEF SaveData, SaveBlock, LocalInv, TypeOK
    <2>5. /\ fmdt' = fmdt /\ disk_fmdt' = disk_fmdt /\ fmdt = disk_fmdt
          /\ WriteThrough' /\ EntriesNamed'
        BY <1>9, TablesAgree DEF SaveData, Unwritten
    <2>6. CASE Return("ok")
        BY <2>3, <2>5, <2>6, LocalReturn DEF LocalInv, TypeOK
    <2>7. CASE /\ pc' = "unlink" /\ rest' = Remainder
               /\ blocks[offset].next_offset # 0
               /\ UNCHANGED <<slot, offset, search, processed, reply>>
        <3>1. TypeOK'
            BY <2>1, <2>3, <2>5, <2>7, SplitType
            DEF LocalInv, TypeOK, Internal, ClearLoops, Searches, search
        <3>2. StepInv'
            BY <2>1, <2>2, <2>4, <2>5, <2>7 DEF LocalInv, StepInv, Headless, Searches, SearchInv
        <3> QED
            BY <2>3, <2>5, <3>1, <3>2 DEF LocalInv
    <2>8. CASE /\ pc' = "extend" /\ probe' = 1 /\ rest' = Remainder
               /\ blocks[offset].next_offset = 0
               /\ UNCHANGED <<slot, offset, new_file_name, processed, reply>>
        <3>p. 1 \in Blocks /\ \A b \in Blocks : ~ (b < 1)
            BY SizesAssumption DEF Blocks
        <3>1. TypeOK'
            BY <2>1, <2>3, <2>5, <2>8, <3>p, SplitType
            DEF LocalInv, TypeOK, Internal, ClearLoops, Searches, search
        <3>2. StepInv'
            BY <2>1, <2>2, <2>4, <2>5, <2>8, <3>p DEF LocalInv, StepInv, Headless, Searches, SearchInv
        <3> QED
            BY <2>3, <2>5, <3>1, <3>2 DEF LocalInv
    <2>9. CASE /\ blocks[offset].next_offset # 0
               /\ offset' = blocks[offset].next_offset /\ rest' = Remainder
               /\ UNCHANGED <<pc, slot, search, processed, reply>>
        <3>1. offset' \in Blocks
            BY <2>1, <2>9, SizesAssumption DEF Block, Blocks
        <3>2. TypeOK'
            BY <2>1, <2>3, <2>5, <2>9, <3>1, SplitType
            DEF LocalInv, TypeOK, Internal, ClearLoops, Searches, search
        <3>3. StepInv'
            BY <2>1, <2>5, <2>9 DEF LocalInv, StepInv, Headless, Searches, SearchInv
        <3> QED
            BY <2>3, <2>5, <3>2, <3>3 DEF LocalInv
    <2> QED
        BY <1>9, <2>6, <2>7, <2>8, <2>9 DEF SaveData
<1>10. ASSUME UnlinkTail PROVE LocalInv'
    <2>1. offset \in Blocks /\ blocks[offset] \in Block /\ pc = "unlink"
        BY <1>10 DEF UnlinkTail, LocalInv, TypeOK
    <2>2. blocks[offset].next_offset \in Blocks
        BY <2>1, SizesAssumption DEF LocalInv, StepInv, Block, Blocks
    <2>3. blocks[offset].busy_flag = 1
        BY <2>1, <2>2
        DEF LocalInv, FreeBlocksBlank, Busy, EmptyBlock, Block, Blocks
    <2>4. /\ [blocks[offset] EXCEPT !.next_offset = 0] \in Block
          /\ [blocks[offset] EXCEPT !.next_offset = 0].busy_flag = 1
        BY <2>1, <2>3, BlockShapes, SizesAssumption DEF Block
    <2>5. blocks' \in [Blocks -> Block] /\ FreeBlocksBlank'
        BY <1>10, <2>1, <2>4, SaveBlockBlank DEF UnlinkTail
    <2>6. fmdt' = fmdt /\ disk_fmdt' = disk_fmdt /\ WriteThrough' /\ EntriesNamed'
        BY <1>10, <2>1, TablesAgree DEF UnlinkTail, Unwritten
    <2>7. TypeOK'
        BY <1>10, <2>2, <2>5, <2>6
        DEF UnlinkTail, LocalInv, TypeOK, Internal, ClearLoops, Searches, search
    <2>8. StepInv'
        BY <1>10, <2>6 DEF UnlinkTail, LocalInv, StepInv, Headless, Searches, SearchInv
    <2> QED
        BY <2>5, <2>6, <2>7, <2>8 DEF LocalInv
<1>11. ASSUME LinkBlock PROVE LocalInv'
    <2>1. offset \in Blocks /\ blocks[offset] \in Block /\ pc = "extend"
        BY <1>11 DEF LinkBlock, LocalInv, TypeOK
    <2>2. PICK f \in Blocks :
              /\ SaveBlock([blocks[offset] EXCEPT !.next_offset = f], offset)
              /\ offset' = f
        BY <1>11 DEF LinkBlock
    <2>3. /\ [blocks[offset] EXCEPT !.next_offset = f] \in Block
          /\ [blocks[offset] EXCEPT !.next_offset = f].busy_flag = 1
        BY <2>1, BlockShapes DEF LocalInv, StepInv, Block, Blocks
    <2>4. blocks' \in [Blocks -> Block] /\ FreeBlocksBlank'
        BY <2>1, <2>2, <2>3, SaveBlockBlank
    <2>5. fmdt' = fmdt /\ disk_fmdt' = disk_fmdt /\ WriteThrough' /\ EntriesNamed'
        BY <1>11, <2>1, TablesAgree DEF LinkBlock, Unwritten
    <2>6. TypeOK'
        BY <1>11, <2>2, <2>4, <2>5
        DEF LinkBlock, LocalInv, TypeOK, Internal, ClearLoops, Searches, search
    <2>7. StepInv'
        BY <1>11, <2>5 DEF LinkBlock, LocalInv, StepInv, Headless, Searches, SearchInv
    <2> QED
        BY <2>4, <2>5, <2>6, <2>7 DEF LocalInv
<1>12. ASSUME DiskFull PROVE LocalInv'
    <2>1. UNCHANGED <<fmdt, disk_fmdt, blocks>> /\ Return("lost") /\ pc = "extend"
        BY <1>12 DEF DiskFull, Refuse, disk
    <2>3. fmdt = disk_fmdt
        BY <2>1, TablesAgree DEF Unwritten
    <2>2. EntriesNamed' /\ FreeBlocksBlank'
        BY <2>1 DEF LocalInv, EntriesNamed, FreeBlocksBlank, Busy
    <2> QED
        BY <2>1, <2>2, <2>3, LocalReturn DEF LocalInv, TypeOK
<1> QED
    BY <1>2, <1>3, <1>4, <1>5, <1>6, <1>8, <1>9, <1>10, <1>11, <1>12, <1>13, <1>14,
       <1>15, <1>16, <1>17, <1>18, <1>19
    DEF Proceed

\* A new process starts with the table of the disk.
LEMMA LocalCrash == LocalInv /\ Crash => LocalInv'
<1> SUFFICES ASSUME LocalInv, Crash PROVE LocalInv'
    OBVIOUS
<1>1. fmdt' = disk_fmdt /\ UNCHANGED <<disk_fmdt, blocks>> /\ Return("ok")
    BY DEF Crash, Reload, disk
<1>2. EntriesNamed' /\ FreeBlocksBlank'
    BY <1>1 DEF LocalInv, EntriesNamed, FreeBlocksBlank, Busy
<1> QED
    BY <1>1, <1>2, LocalReturn DEF LocalInv, TypeOK

\* All steps together.
LEMMA LocalStep == LocalInv /\ [Next \/ Crash]_vars => LocalInv'
<1>1. LocalInv /\ UNCHANGED vars => LocalInv'
    BY DEF vars, search, LocalInv, TypeOK, EntriesNamed, WriteThrough, Unsaved,
           FreeBlocksBlank, Busy, StepInv, SearchInv, Matches
<1> QED
    BY <1>1, LocalCommand, LocalEdit, LocalProceed, LocalCrash DEF Next

---------------------------------------------------------------------------
(***************************************************************************)
(* No cycle is ever made.  Links are only dropped, but for LinkBlock, which *)
(* links the last block of a chain to a free, hence blank, block.          *)
(***************************************************************************)
LEMMA DroppingLinks ==
    ASSUME ChainsAcyclic,
           \A b \in Blocks : blocks'[b].next_offset \in {0, blocks[b].next_offset}
    PROVE  ChainsAcyclic'
<1> SUFFICES ASSUME NEW S \in (SUBSET Blocks) \ {{}}
             PROVE  \E b \in S : blocks'[b].next_offset \notin S
    BY DEF ChainsAcyclic
<1>1. PICK b \in S : blocks[b].next_offset \notin S
    BY DEF ChainsAcyclic
<1>2. b \in Blocks /\ 0 \notin S
    BY SizesAssumption DEF Blocks
<1> QED
    BY <1>1, <1>2

\* A link to a block that leads nowhere closes no cycle.
LEMMA AddingLink ==
    ASSUME ChainsAcyclic, NEW t \in Blocks, NEW f \in Blocks, t # f,
           blocks[f].next_offset = 0,
           blocks'[t].next_offset = f,
           \A b \in Blocks \ {t} : blocks'[b].next_offset = blocks[b].next_offset
    PROVE  ChainsAcyclic'
<1> SUFFICES ASSUME NEW S \in (SUBSET Blocks) \ {{}}
             PROVE  \E b \in S : blocks'[b].next_offset \notin S
    BY DEF ChainsAcyclic
<1>1. 0 \notin S
    BY SizesAssumption DEF Blocks
<1>2. CASE f \in S
    BY <1>1, <1>2
<1>3. CASE f \notin S /\ t \in S
    BY <1>3
<1>4. CASE f \notin S /\ t \notin S
    <2>1. PICK b \in S : blocks[b].next_offset \notin S
        BY DEF ChainsAcyclic
    <2> QED
        BY <1>4, <2>1
<1> QED
    BY <1>2, <1>3, <1>4

\* Every step cuts links or adds one to a free block.
LEMMA AcyclicStep == LocalInv /\ ChainsAcyclic /\ [Next \/ Crash]_vars => ChainsAcyclic'
<1> SUFFICES ASSUME LocalInv, ChainsAcyclic, [Next \/ Crash]_vars
             PROVE  ChainsAcyclic'
    OBVIOUS
<1> USE DEF SaveBlock
<1>1. ASSUME UNCHANGED blocks PROVE ChainsAcyclic'
    BY <1>1, DroppingLinks
<1>2. ASSUME NEW at \in Blocks, NEW x, SaveBlock(x, at),
             x.next_offset \in {0, blocks[at].next_offset}
      PROVE  ChainsAcyclic'
    <2>1. \A b \in Blocks : blocks'[b] = IF b = at THEN x ELSE blocks[b]
        BY <1>2 DEF LocalInv, TypeOK
    <2> QED
        BY <1>2, <2>1, DroppingLinks
<1>3. ASSUME WriteEmptyDisk PROVE ChainsAcyclic'
    <2>1. \A b \in Blocks : blocks'[b].next_offset = 0
        BY <1>3 DEF WriteEmptyDisk, EmptyBlock
    <2> QED
        BY <2>1, DroppingLinks
<1>4. ASSUME NEW loop \in ClearLoops, ClearTurn(loop) PROVE ChainsAcyclic'
    <2>1. offset \in Blocks /\ blocks[offset] \in Block
        BY <1>4 DEF LocalInv, TypeOK, ClearTurn, ClearLoops
    <2>2. ClearBlock(blocks[offset]).next_offset = 0
        BY <2>1, BlockShapes DEF EmptyBlock
    <2> QED
        BY <1>2, <1>4, <2>1, <2>2 DEF ClearTurn
<1>5. ASSUME pc \in {"create", "restore"},
             SaveBlock(FirstBlock, fmdt[slot].begining_offset)
      PROVE  ChainsAcyclic'
    BY <1>2, <1>5, HeadIsBlock DEF FirstBlock, Headless
<1>6. ASSUME SaveData PROVE ChainsAcyclic'
    <2>1. offset \in Blocks /\ blocks[offset] \in Block
        BY <1>6 DEF SaveData, LocalInv, TypeOK
    <2>2. Filled(blocks[offset]).next_offset = blocks[offset].next_offset
        BY <2>1, FilledShape DEF LocalInv, TypeOK
    <2> QED
        BY <1>2, <1>6, <2>1, <2>2 DEF SaveData
<1>7. ASSUME UnlinkTail PROVE ChainsAcyclic'
    <2>1. offset \in Blocks /\ blocks[offset] \in Block
        BY <1>7 DEF UnlinkTail, LocalInv, TypeOK
    <2>2. [blocks[offset] EXCEPT !.next_offset = 0].next_offset = 0
        BY <2>1 DEF Block
    <2> QED
        BY <1>2, <1>7, <2>1, <2>2 DEF UnlinkTail
<1>8. ASSUME LinkBlock PROVE ChainsAcyclic'
    <2>1. offset \in Blocks /\ blocks[offset] \in Block /\ pc = "extend"
        BY <1>8 DEF LinkBlock, LocalInv, TypeOK
    <2>2. PICK f \in Blocks :
              /\ FindFreeBlock(f)
              /\ SaveBlock([blocks[offset] EXCEPT !.next_offset = f], offset)
        BY <1>8 DEF LinkBlock
    <2>3. blocks[f].busy_flag = 0 /\ blocks[offset].busy_flag = 1
        <3>1. f # 0
            BY SizesAssumption DEF Blocks
        <3>2. blocks[f].busy_flag = 0
            BY <2>1, <2>2, <3>1, SearchEnds DEF Searches
        <3> QED
            BY <2>1, <3>2 DEF LocalInv, StepInv
    <2>4. blocks[f].next_offset = 0
        BY <2>3 DEF LocalInv, FreeBlocksBlank, Busy, EmptyBlock
    <2>5. [blocks[offset] EXCEPT !.next_offset = f].next_offset = f
        BY <2>1 DEF Block
    <2>6. /\ blocks'[offset].next_offset = f
          /\ \A b \in Blocks \ {offset} : blocks'[b] = blocks[b]
        BY <2>1, <2>2, <2>5 DEF LocalInv, TypeOK
    <2> QED
        BY <2>1, <2>3, <2>4, <2>6, AddingLink
<1>9. ASSUME Command PROVE ChainsAcyclic'
    BY <1>1, <1>9
    DEF Command, ResetDisk, Restart, Reload, NameInUse, NoEntryLeft, NoSuchFile,
        CreateNewFile, RemoveFile, OpenFile, Refuse, disk
<1>10. ASSUME Edit PROVE ChainsAcyclic'
    BY <1>1, <1>10
    DEF Edit, ClearText, EraseText, AppendText, InsertText, Edited, EditThrows,
        Reload, CloseText, disk
<1>11. ASSUME Proceed PROVE ChainsAcyclic'
    <2>1. ASSUME RemoveBlock \/ WipeBlock \/ TrimBlock PROVE ChainsAcyclic'
        BY <1>4, <2>1 DEF RemoveBlock, WipeBlock, TrimBlock, ClearLoops
    <2>2. ASSUME CreateBlock \/ RestoreFirst PROVE ChainsAcyclic'
        BY <1>5, <2>2 DEF CreateBlock, RestoreFirst
    <2>3. ASSUME \/ NextProbe \/ NoBlockLeft \/ FillEntry \/ SaveEntry
                 \/ DropEntry \/ SaveDrop \/ FileToBuffer \/ DiskFull
          PROVE  ChainsAcyclic'
        BY <1>1, <2>3
        DEF NextProbe, NoBlockLeft, FillEntry, SaveEntry, DropEntry, SaveDrop,
            FileToBuffer, DiskFull, Refuse, disk
    <2> QED
        BY <1>3, <1>6, <1>7, <1>8, <1>11, <2>1, <2>2, <2>3 DEF Proceed
<1>12. ASSUME Crash PROVE ChainsAcyclic'
    BY <1>1, <1>12 DEF Crash, Reload, disk
<1>13. CASE UNCHANGED vars
    BY <1>1, <1>13 DEF vars
<1> QED
    BY <1>9, <1>10, <1>11, <1>12, <1>13 DEF Next

\* Blank blocks have no links.
LEMMA AcyclicInit == Init => ChainsAcyclic
    BY SizesAssumption DEF Init, ChainsAcyclic, EmptyBlock, Blocks

---------------------------------------------------------------------------
\* However often the process is killed, and whatever damage the files have
\* taken, entries and links lead to blocks, and every loop is at a block.
THEOREM CrashTypeCorrect == CrashSpec => []TypeOK
<1>1. LocalInv => TypeOK
    BY DEF LocalInv
<1> QED
    BY <1>1, LocalInit, LocalStep, PTL DEF CrashSpec

\* However often the process is killed, no chain of blocks has a cycle: the
\* loops over a chain in RemoveFile, FileToBuffer, OpenFile and SaveFile end.
THEOREM CrashAcyclic == CrashSpec => []ChainsAcyclic
    BY LocalInit, LocalStep, AcyclicInit, AcyclicStep, PTL DEF CrashSpec

\* However often the process is killed, a block that FindFreeBlock returns is
\* blank.
THEOREM CrashFreeBlank == CrashSpec => []FreeBlocksBlank
<1>1. LocalInv => FreeBlocksBlank
    BY DEF LocalInv
<1> QED
    BY <1>1, LocalInit, LocalStep, PTL DEF CrashSpec

\* However often the process is killed: at every prompt, on whatever path the
\* operation came back, the table on the disk is the one in memory, and in between
\* a kill can take from it only the entry about to be saved, or the reset.
THEOREM CrashWriteThrough == CrashSpec => []WriteThrough
<1>1. LocalInv => WriteThrough
    BY DEF LocalInv
<1> QED
    BY <1>1, LocalInit, LocalStep, PTL DEF CrashSpec

---------------------------------------------------------------------------
(***************************************************************************)
(* The ownership of blocks, for a process that is not killed.  NoSharing   *)
(* and BusyIffOwned are not inductive: an operation takes blocks out of    *)
(* their chain before it clears them, and puts a block in a chain before   *)
(* it marks it busy.  AllocInv names the one block this happens to, and    *)
(* the moment when a reset has emptied the table and not yet the disk.     *)
(***************************************************************************)
Root == fmdt[slot].begining_offset

\* The loop has gone on from the head, or holds a tail that was cut off: the
\* block it is at belongs to nobody.
Detached == pc = "trim" \/ (pc \in {"remove", "wipe"} /\ offset # Root)

\* The entry still leads to a block that is cleared, or not yet marked busy.
HeadBlank ==
    pc \in {"save_entry", "create", "drop_entry", "restore"}
    \/ (pc \in {"remove", "wipe"} /\ offset # Root)

AllocInv ==
    /\ \A b \in Owned : \/ b \in Busy
                        \/ HeadBlank /\ b = Root
                        \/ pc = "save" /\ b = offset
    /\ \A b \in Busy : b \in Owned \/ (Detached /\ b = offset) \/ pc = "reset"
    /\ HeadBlank => Root \notin Busy
    /\ Detached => offset \notin Owned
    /\ pc = "save" => offset \in Owned

StructInv == LocalInv /\ NoSharing /\ AllocInv

\* A block is owned because an entry leads to it or because a block does.
LEMMA OwnedMembers ==
    \A b : /\ b \in Heads <=> b # 0 /\ \E i \in Slots : fmdt[i].begining_offset = b
           /\ b \in Links <=> b # 0 /\ \E c \in Blocks : blocks[c].next_offset = b
           /\ b \in Owned <=> b \in Heads \/ b \in Links
    BY DEF Heads, Links, Owned

\* The owned blocks after a step whose links and roots are known.
LEMMA OwnedMembersNext ==
    \A b : /\ b \in Heads' <=> b # 0 /\ \E i \in Slots : fmdt'[i].begining_offset = b
           /\ b \in Links' <=> b # 0 /\ \E c \in Blocks : blocks'[c].next_offset = b
           /\ b \in Owned' <=> b \in Heads' \/ b \in Links'
    BY DEF Heads, Links, Owned

\* What a write of one block changes.
LEMMA Written ==
    ASSUME LocalInv, NEW at \in Blocks, NEW x \in Block, SaveBlock(x, at)
    PROVE  /\ \A b \in Blocks : blocks'[b] = IF b = at THEN x ELSE blocks[b]
           /\ \A b \in Blocks : b # at => (b \in Busy' <=> b \in Busy)
           /\ at \in Busy' <=> x.busy_flag = 1
    BY DEF LocalInv, TypeOK, SaveBlock, Busy

\* A write that keeps the links and the entries keeps who owns what.
LEMMA SameOwners ==
    ASSUME LocalInv, NoSharing, fmdt' = fmdt,
           \A b \in Blocks : blocks'[b].next_offset = blocks[b].next_offset
    PROVE  NoSharing' /\ Owned' = Owned /\ Heads' = Heads /\ Links' = Links
<1>1. Heads' = Heads
    BY DEF Heads
<1>2. Links' = Links
    BY DEF Links
<1>3. Owned' = Owned
    BY <1>1, <1>2 DEF Owned
<1> QED
    BY <1>1, <1>2, <1>3 DEF NoSharing

\* A block whose link is dropped no longer owns the next one, and nobody else
\* does.
LEMMA LinkDropped ==
    ASSUME LocalInv, NoSharing, NEW at \in Blocks, NEW x \in Block,
           SaveBlock(x, at), x.next_offset = 0, fmdt' = fmdt
    PROVE  /\ NoSharing'
           /\ Heads' = Heads
           /\ Owned' = Owned \ ({blocks[at].next_offset} \ {0})
           /\ blocks[at].next_offset \notin Heads
<1>1. \A b \in Blocks : blocks'[b].next_offset
                         = IF b = at THEN 0 ELSE blocks[b].next_offset
    BY Written
<1>2. Heads' = Heads
    BY DEF Heads
<1>3. Links' = Links \ {blocks[at].next_offset}
    <2>1. ASSUME NEW b \in Links' PROVE b \in Links \ {blocks[at].next_offset}
        BY <1>1, <2>1, OwnedMembers, OwnedMembersNext DEF NoSharing
    <2>2. ASSUME NEW b \in Links \ {blocks[at].next_offset} PROVE b \in Links'
        BY <1>1, <2>2, OwnedMembers, OwnedMembersNext
    <2> QED
        BY <2>1, <2>2
<1>4. blocks[at].next_offset \notin Heads
    BY OwnedMembers DEF NoSharing
<1>5. Owned' = Owned \ ({blocks[at].next_offset} \ {0})
    BY <1>2, <1>3, <1>4, OwnedMembers DEF Owned
<1>6. NoSharing'
    BY <1>1, <1>2, <1>3 DEF NoSharing
<1> QED
    BY <1>2, <1>4, <1>5, <1>6

---------------------------------------------------------------------------
\* A fresh disk has nothing owned and nothing busy.
LEMMA StructInit == Init => StructInv
<1> SUFFICES ASSUME Init PROVE StructInv
    OBVIOUS
<1>1. Heads = {} /\ Links = {} /\ Busy = {}
    BY DEF Init, Heads, Links, Busy, EmptyEntry, EmptyBlock
<1>2. NoSharing
    BY <1>1 DEF Init, NoSharing, EmptyEntry, EmptyBlock
<1>3. AllocInv
    BY <1>1 DEF Init, AllocInv, Owned, HeadBlank, Detached
<1> QED
    BY <1>2, <1>3, LocalInit DEF StructInv

\* A step that writes nothing, between operations or before the first write.
LEMMA StructReadOnly ==
    ASSUME StructInv, UNCHANGED <<fmdt, blocks>>, ~ HeadBlank, ~ Detached,
           pc \notin {"save", "reset"},
           pc' \in {"menu", "find", "load", "edit", "unlink", "extend"}
           \/ (pc' = "remove" /\ offset' = Root')
           \/ (pc' = "wipe" /\ offset' = Root')
           \/ (pc' = "save" /\ offset' \in Owned)
    PROVE  NoSharing' /\ AllocInv'
<1>1. NoSharing' /\ Owned' = Owned
    BY SameOwners DEF StructInv
<1>2. Busy' = Busy
    BY DEF Busy
<1>3. ~ HeadBlank' /\ ~ Detached'
    BY DEF HeadBlank, Detached
<1> QED
    BY <1>1, <1>2, <1>3 DEF StructInv, AllocInv

\* Clearing a block frees it and drops the one link to its successor.
LEMMA StructClear ==
    ASSUME StructInv, NEW loop \in ClearLoops, ClearTurn(loop)
    PROVE  /\ GoOn => NoSharing' /\ AllocInv'
           /\ loop = "trim" /\ blocks[offset].next_offset = 0 /\ Return("ok")
                => NoSharing' /\ AllocInv'
           /\ loop # "trim" /\ (\E step \in {"drop_entry", "restore"} : Goto(step))
                => NoSharing' /\ AllocInv'
<1> DEFINE next == blocks[offset].next_offset
<1>1. /\ offset \in Blocks /\ blocks[offset] \in Block /\ pc = loop
      /\ LocalInv /\ NoSharing /\ AllocInv
    BY DEF StructInv, LocalInv, TypeOK, ClearTurn, ClearLoops
<1>2. ClearBlock(blocks[offset]) = EmptyBlock /\ EmptyBlock \in Block
    BY <1>1, BlockShapes
<1>3. SaveBlock(EmptyBlock, offset) /\ fmdt' = fmdt
    BY <1>2 DEF ClearTurn
<1>4. /\ NoSharing' /\ Heads' = Heads
      /\ Owned' = Owned \ ({next} \ {0})
      /\ next \notin Heads
    BY <1>1, <1>2, <1>3, LinkDropped DEF EmptyBlock
<1>5. Busy' = Busy \ {offset}
    BY <1>1, <1>2, <1>3, Written DEF EmptyBlock, Busy
<1>6. slot \in Slots /\ Root \in Blocks /\ Root \in Heads /\ Root # 0
    <2>1. slot \in Slots /\ Root \in Blocks
        BY <1>1, HeadIsBlock DEF ClearLoops, Headless, Root
    <2> QED
        BY <2>1, OwnedMembers, SizesAssumption DEF Blocks, Root
<1>7. ASSUME GoOn PROVE AllocInv'
    <2>1. /\ offset' = next /\ next # 0 /\ pc' = loop /\ Root' = Root
        BY <1>1, <1>3, <1>7 DEF GoOn, Root
    <2>2. next # Root
        BY <1>4, <1>6
    <2>3. /\ Detached' /\ (loop # "trim" => HeadBlank')
          /\ (loop = "trim" => ~ HeadBlank')
        BY <2>1, <2>2 DEF Detached, HeadBlank, ClearLoops
    <2>4. loop # "trim" => Root \notin Busy'
        BY <1>1, <1>5 DEF AllocInv, HeadBlank, ClearLoops
    <2>5. \A b \in Owned' : b \in Busy' \/ (HeadBlank' /\ b = Root)
        BY <1>1, <1>4, <1>5, <2>3 DEF AllocInv, HeadBlank, Detached, ClearLoops
    <2>6. \A b \in Busy' : b \in Owned' \/ b = next
        BY <1>1, <1>4, <1>5 DEF AllocInv, ClearLoops
    <2>7. next \notin Owned'
        BY <1>4, <2>1
    <2> QED
        BY <1>1, <2>1, <2>3, <2>4, <2>5, <2>6, <2>7 DEF AllocInv, ClearLoops
<1>8. ASSUME next = 0 PROVE Owned' = Owned
    BY <1>4, <1>8
<1>9. ASSUME loop = "trim", next = 0, Return("ok") PROVE AllocInv'
    <2>1. ~ HeadBlank' /\ ~ Detached' /\ pc' = "menu" /\ Detached /\ ~ HeadBlank
        BY <1>1, <1>9 DEF HeadBlank, Detached, Return
    <2> QED
        BY <1>1, <1>5, <1>8, <1>9, <2>1 DEF AllocInv
<1>10. ASSUME loop # "trim", NEW step \in {"drop_entry", "restore"}, Goto(step)
       PROVE  AllocInv'
    <2>1. /\ next = 0 /\ pc' = step /\ HeadBlank' /\ ~ Detached' /\ Root' = Root
        BY <1>3, <1>10 DEF Goto, HeadBlank, Detached, Root
    <2>2. Root \notin Busy'
        BY <1>1, <1>5, <1>10 DEF AllocInv, HeadBlank, ClearLoops
    <2>3. \A b \in Owned' : b \in Busy' \/ b = Root
        BY <1>1, <1>5, <1>8, <1>10, <2>1
        DEF AllocInv, HeadBlank, Detached, ClearLoops
    <2>4. \A b \in Busy' : b \in Owned'
        BY <1>1, <1>5, <1>8, <2>1 DEF AllocInv, ClearLoops
    <2> QED
        BY <1>10, <2>1, <2>2, <2>3, <2>4 DEF AllocInv
<1> QED
    BY <1>4, <1>7, <1>9, <1>10

\* CreateBlock and RestoreFirst mark the block of the entry busy; it was blank.
LEMMA StructFirstBlock ==
    ASSUME StructInv, pc \in {"create", "restore"}, SaveBlock(FirstBlock, Root),
           fmdt' = fmdt, pc' = "menu"
    PROVE  NoSharing' /\ AllocInv'
<1>1. LocalInv /\ NoSharing /\ AllocInv /\ slot \in Slots /\ Root \in Blocks
    BY HeadIsBlock DEF StructInv, Headless, Root
<1>2. Root \in Heads /\ HeadBlank /\ ~ Detached
    BY <1>1, OwnedMembers, SizesAssumption DEF Root, HeadBlank, Detached, Blocks
<1>3. blocks[Root] = EmptyBlock
    BY <1>1, <1>2 DEF AllocInv, LocalInv, FreeBlocksBlank
<1>4. \A b \in Blocks : blocks'[b] = IF b = Root THEN FirstBlock ELSE blocks[b]
    BY <1>1, BlockShapes, Written
<1>5. NoSharing' /\ Owned' = Owned
    BY <1>1, <1>3, <1>4, SameOwners DEF FirstBlock, EmptyBlock
<1>6. Busy' = Busy \cup {Root}
    BY <1>1, <1>4 DEF Busy, FirstBlock
<1>7. ~ HeadBlank' /\ ~ Detached'
    BY DEF HeadBlank, Detached
<1> QED
    BY <1>1, <1>2, <1>5, <1>6, <1>7, OwnedMembers DEF AllocInv

\* Starting a command leaves the chains as they are.
LEMMA StructCommand == StructInv /\ Command => NoSharing' /\ AllocInv'
<1> SUFFICES ASSUME StructInv, Command PROVE NoSharing' /\ AllocInv'
    OBVIOUS
<1>1. LocalInv /\ NoSharing /\ AllocInv
    BY DEF StructInv
<1>2. ASSUME ResetDisk PROVE NoSharing' /\ AllocInv'
    <2>1. /\ \A i \in Slots : fmdt'[i].begining_offset = 0
          /\ blocks' = blocks /\ pc = "menu" /\ pc' = "reset"
        BY <1>2 DEF ResetDisk, EmptyEntry, disk
    <2>2. Heads' = {} /\ Links' = Links /\ Busy' = Busy
        BY <2>1, OwnedMembersNext DEF Links, Busy
    <2>3. ~ HeadBlank /\ ~ HeadBlank' /\ ~ Detached'
        BY <2>1 DEF HeadBlank, Detached
    <2> QED
        BY <1>1, <2>1, <2>2, <2>3 DEF NoSharing, AllocInv, Owned
<1>3. ASSUME pc = "menu", UNCHANGED <<fmdt, blocks>>,
             \/ pc' \in {"menu", "find", "load"}
             \/ pc' = "remove" /\ offset' = Root'
      PROVE  NoSharing' /\ AllocInv'
    BY <1>3, StructReadOnly DEF HeadBlank, Detached
<1>4. ASSUME Restart PROVE NoSharing' /\ AllocInv'
    <2>1. fmdt = disk_fmdt
        BY <1>1, <1>4, TablesAgree DEF Restart, Unwritten
    <2> QED
        BY <1>3, <1>4, <2>1 DEF Restart, Reload, Return, disk
<1>5. ASSUME NEW r, pc = "menu", Refuse(r) PROVE NoSharing' /\ AllocInv'
    BY <1>3, <1>5 DEF Refuse, Return, disk
<1>6. ASSUME NEW name \in Names, RemoveFile(name) \/ OpenFile(name)
      PROVE  NoSharing' /\ AllocInv'
    BY <1>3, <1>6 DEF RemoveFile, OpenFile, disk, Root
<1>7. ASSUME NEW name \in Names, CreateNewFile(name) PROVE NoSharing' /\ AllocInv'
    BY <1>3, <1>7 DEF CreateNewFile, disk
<1> QED
    BY <1>2, <1>4, <1>5, <1>6, <1>7
    DEF Command, NameInUse, NoEntryLeft, NoSuchFile

\* So does the editor.
LEMMA StructEdit == StructInv /\ Edit => NoSharing' /\ AllocInv'
<1> SUFFICES ASSUME StructInv, Edit PROVE NoSharing' /\ AllocInv'
    OBVIOUS
<1>1. LocalInv /\ pc = "edit" /\ ~ HeadBlank /\ ~ Detached
    BY DEF StructInv, Edit, ClearText, EraseText, AppendText, InsertText, Edited,
           EditThrows, CloseText, HeadBlank, Detached
<1>2. ASSUME NEW text, Edited(text) PROVE NoSharing' /\ AllocInv'
    BY <1>1, <1>2, StructReadOnly DEF Edited, disk
<1>3. ASSUME EditThrows PROVE NoSharing' /\ AllocInv'
    <2>1. fmdt = disk_fmdt
        BY <1>1, TablesAgree DEF Unwritten
    <2> QED
        BY <1>1, <1>3, <2>1, StructReadOnly DEF EditThrows, Reload, Return, disk
<1>4. ASSUME CloseText PROVE NoSharing' /\ AllocInv'
    <2>1. Root \in Owned
        BY <1>1, HeadIsBlock, OwnedMembers, SizesAssumption DEF Root, Blocks, Headless
    <2> QED
        BY <1>1, <1>4, <2>1, StructReadOnly DEF CloseText, disk, Root
<1> QED
    BY <1>2, <1>3, <1>4 DEF Edit, ClearText, EraseText, AppendText, InsertText

\* The writes of the running operation, one by one.
LEMMA StructProceed == StructInv /\ Proceed => NoSharing' /\ AllocInv'
<1> SUFFICES ASSUME StructInv, Proceed PROVE NoSharing' /\ AllocInv'
    OBVIOUS
<1>1. LocalInv /\ NoSharing /\ AllocInv
    BY DEF StructInv
<1>2. ASSUME CreateBlock \/ RestoreFirst PROVE NoSharing' /\ AllocInv'
    BY <1>2, StructFirstBlock DEF CreateBlock, RestoreFirst, Return, Root
<1>3. ASSUME RemoveBlock \/ WipeBlock \/ TrimBlock PROVE NoSharing' /\ AllocInv'
    BY <1>3, StructClear DEF RemoveBlock, WipeBlock, TrimBlock, ClearLoops
<1>4. ASSUME DropEntry PROVE NoSharing' /\ AllocInv'
    <2>1. slot \in Slots /\ Root \in Blocks /\ HeadBlank /\ ~ Detached
        BY <1>1, <1>4, HeadIsBlock DEF DropEntry, Root, HeadBlank, Detached, Headless
    <2>2. /\ \A j \in Slots : fmdt'[j].begining_offset
                              = IF j = slot THEN 0 ELSE fmdt[j].begining_offset
          /\ blocks' = blocks /\ pc = "drop_entry" /\ pc' = "save_drop"
        BY <1>1, <1>4, <2>1
        DEF DropEntry, LocalInv, TypeOK, EmptyEntry, disk, Root
    <2>3. Links' = Links /\ Busy' = Busy
        BY <2>2 DEF Links, Busy
    <2>4. Root \in Heads /\ Root \notin Links
        BY <1>1, <2>1, OwnedMembers, SizesAssumption DEF NoSharing, Root, Blocks
    <2>5. Heads' = Heads \ {Root}
        <3>1. ASSUME NEW b \in Heads' PROVE b \in Heads /\ b # Root
            BY <1>1, <2>1, <2>2, <3>1, OwnedMembers, OwnedMembersNext
            DEF NoSharing, Root
        <3>2. ASSUME NEW b \in Heads, b # Root PROVE b \in Heads'
            BY <2>2, <3>2, OwnedMembers, OwnedMembersNext DEF Root
        <3> QED
            BY <3>1, <3>2
    <2>6. NoSharing'
        BY <1>1, <2>2, <2>3, <2>5 DEF NoSharing
    <2>7. Owned' = Owned \ {Root}
        BY <2>3, <2>4, <2>5 DEF Owned
    <2>8. ~ HeadBlank' /\ ~ Detached'
        BY <2>2 DEF HeadBlank, Detached
    <2> QED
        BY <1>1, <2>1, <2>2, <2>3, <2>6, <2>7, <2>8 DEF AllocInv
<1>5. ASSUME FileToBuffer \/ DiskFull \/ NextProbe \/ SaveDrop \/ NoBlockLeft
      PROVE  NoSharing' /\ AllocInv'
    <2>f. NoBlockLeft => fmdt' = fmdt
        <3>1. pc = "find" => /\ fmdt \in [Slots -> FileMetaDataTableField]
                             /\ slot \in Slots /\ fmdt[slot].begining_offset = 0
            BY <1>1 DEF LocalInv, TypeOK, StepInv
        <3> QED
            BY <3>1 DEF NoBlockLeft, FileMetaDataTableField
    <2>1. /\ pc \in {"load", "find", "extend", "save_drop"}
          /\ pc' \in {"menu", "load", "edit", "find", "extend"}
          /\ UNCHANGED <<fmdt, blocks>>
        BY <1>5, <2>f
        DEF FileToBuffer, DiskFull, NextProbe, SaveDrop, SaveFMDT, NoBlockLeft,
            Searches, Refuse, Return, disk
    <2> QED
        BY <2>1, StructReadOnly DEF HeadBlank, Detached
<1>6. ASSUME SaveData PROVE NoSharing' /\ AllocInv'
    <2>1. /\ offset \in Blocks /\ blocks[offset] \in Block /\ pc = "save"
          /\ ~ HeadBlank /\ ~ Detached /\ offset \in Owned /\ fmdt' = fmdt
        BY <1>1, <1>6
        DEF SaveData, LocalInv, TypeOK, HeadBlank, Detached, AllocInv
    <2>2. /\ Filled(blocks[offset]) \in Block
          /\ Filled(blocks[offset]).busy_flag = 1
          /\ Filled(blocks[offset]).next_offset = blocks[offset].next_offset
        BY <1>1, <2>1, FilledShape DEF LocalInv, TypeOK
    <2>3. \A b \in Blocks :
              blocks'[b] = IF b = offset THEN Filled(blocks[offset]) ELSE blocks[b]
        BY <1>1, <1>6, <2>1, <2>2, Written DEF SaveData
    <2>4. NoSharing' /\ Owned' = Owned
        BY <1>1, <2>1, <2>2, <2>3, SameOwners
    <2>5. Busy' = Busy \cup {offset}
        BY <2>1, <2>2, <2>3 DEF Busy
    <2>6. \/ pc' \in {"menu", "unlink", "extend"}
          \/ /\ pc' = "save" /\ offset' = blocks[offset].next_offset
             /\ offset' # 0
        BY <1>6, <2>1 DEF SaveData, Return
    <2>7. ~ HeadBlank' /\ ~ Detached'
        BY <2>6 DEF HeadBlank, Detached
    <2>8. pc' = "save" => offset' \in Owned
        BY <2>1, <2>6, OwnedMembers
    <2>9. Owned = Busy \cup {offset}
        BY <1>1, <2>1 DEF AllocInv
    <2> QED
        BY <2>4, <2>5, <2>6, <2>7, <2>8, <2>9 DEF AllocInv
<1>7. ASSUME UnlinkTail PROVE NoSharing' /\ AllocInv'
    <2>1. /\ offset \in Blocks /\ blocks[offset] \in Block /\ pc = "unlink"
          /\ ~ HeadBlank /\ ~ Detached
          /\ fmdt' = fmdt /\ pc' = "trim" /\ offset' = blocks[offset].next_offset
        BY <1>1, <1>7
        DEF UnlinkTail, LocalInv, TypeOK, HeadBlank, Detached
    <2>2. offset' # 0
        BY <1>1, <2>1 DEF LocalInv, StepInv
    <2> DEFINE x == [blocks[offset] EXCEPT !.next_offset = 0]
    <2>3. /\ x \in Block /\ x.next_offset = 0
          /\ x.busy_flag = blocks[offset].busy_flag
          /\ SaveBlock(x, offset)
        <3>1. 0 \in 0 .. AMOUNT_OF_BLOCKS_
            BY SizesAssumption
        <3>2. x \in Block
            BY <2>1, <3>1, BlockShapes
        <3>3. x.next_offset = 0 /\ x.busy_flag = blocks[offset].busy_flag
            BY <2>1 DEF Block
        <3> QED
            BY <1>7, <3>2, <3>3 DEF UnlinkTail
    <2> HIDE DEF x
    <2>4. /\ NoSharing' /\ Owned' = Owned \ {offset'}
        BY <1>1, <2>1, <2>2, <2>3, LinkDropped
    <2>5. Busy' = Busy
        BY <1>1, <2>1, <2>3, Written DEF Busy
    <2>6. ~ HeadBlank' /\ Detached'
        BY <2>1 DEF HeadBlank, Detached
    <2> QED
        BY <1>1, <2>1, <2>4, <2>5, <2>6 DEF AllocInv
<1>8. ASSUME LinkBlock PROVE NoSharing' /\ AllocInv'
    <2>1. /\ offset \in Blocks /\ blocks[offset] \in Block /\ pc = "extend"
          /\ ~ HeadBlank /\ ~ Detached
          /\ fmdt' = fmdt /\ pc' = "save"
          /\ blocks[offset].next_offset = 0
        BY <1>1, <1>8
        DEF LinkBlock, LocalInv, TypeOK, HeadBlank, Detached, StepInv
    <2>2. PICK f \in Blocks :
              /\ FindFreeBlock(f)
              /\ SaveBlock([blocks[offset] EXCEPT !.next_offset = f], offset)
              /\ offset' = f
        BY <1>8 DEF LinkBlock
    <2> DEFINE x == [blocks[offset] EXCEPT !.next_offset = f]
    <2>3. /\ x \in Block /\ x.next_offset = f
          /\ x.busy_flag = blocks[offset].busy_flag
          /\ SaveBlock(x, offset)
        BY <2>1, <2>2, BlockShapes DEF Block, Blocks
    <2> HIDE DEF x
    <2>4. f # 0 /\ f \notin Busy /\ f \notin Owned
        <3>1. f # 0
            BY SizesAssumption DEF Blocks
        <3>2. f \notin Busy
            BY <1>1, <2>1, <2>2, <3>1, SearchEnds DEF Searches, Busy
        <3> QED
            BY <1>1, <2>1, <3>1, <3>2 DEF AllocInv
    <2>5. \A b \in Blocks : blocks'[b].next_offset
                            = IF b = offset THEN f ELSE blocks[b].next_offset
        BY <1>1, <2>1, <2>3, Written
    <2>6. Heads' = Heads
        BY <2>1 DEF Heads
    <2>7. Links' = Links \cup {f}
        <3>1. \A b : b \in Links' <=> b \in Links \/ b = f
            BY <2>1, <2>4, <2>5, OwnedMembers, OwnedMembersNext
        <3> QED
            BY <3>1
    <2>8. NoSharing'
        BY <1>1, <2>1, <2>4, <2>5, <2>6, <2>7, OwnedMembers DEF NoSharing
    <2>9. Busy' = Busy
        BY <1>1, <2>1, <2>3, Written DEF Busy
    <2>10. ~ HeadBlank' /\ ~ Detached'
        BY <2>1 DEF HeadBlank, Detached
    <2> QED
        BY <1>1, <2>1, <2>2, <2>6, <2>7, <2>8, <2>9, <2>10 DEF AllocInv, Owned
<1>9. ASSUME FillEntry PROVE NoSharing' /\ AllocInv'
    <2>1. PICK f \in Blocks :
              /\ FindFreeBlock(f)
              /\ fmdt' = [fmdt EXCEPT ![slot] =
                              [name |-> new_file_name, begining_offset |-> f]]
        BY <1>9 DEF FillEntry
    <2>2. /\ \A j \in Slots : fmdt'[j].begining_offset
                              = IF j = slot THEN f ELSE fmdt[j].begining_offset
          /\ slot \in Slots /\ fmdt[slot].begining_offset = 0
          /\ blocks' = blocks
          /\ pc = "find" /\ pc' = "save_entry" /\ Root' = f
        BY <1>1, <1>9, <2>1
        DEF LocalInv, TypeOK, StepInv, FillEntry, Root, disk
    <2>3. f \notin Busy /\ f # 0
        <3>1. f # 0
            BY SizesAssumption DEF Blocks
        <3> QED
            BY <1>1, <2>1, <2>2, <3>1, SearchEnds DEF Searches, Busy
    <2>4. f \notin Owned
        BY <1>1, <2>2, <2>3 DEF AllocInv, HeadBlank
    <2>5. Heads' = Heads \cup {f} /\ Links' = Links /\ Busy' = Busy
        <3>1. Links' = Links /\ Busy' = Busy
            BY <2>2 DEF Links, Busy
        <3>2. \A b : b \in Heads' <=> b \in Heads \/ b = f
            BY <2>1, <2>2, <2>3, OwnedMembers, OwnedMembersNext
        <3> QED
            BY <3>1, <3>2
    <2>6. NoSharing'
        BY <1>1, <2>2, <2>4, <2>5, OwnedMembers DEF NoSharing
    <2>7. HeadBlank' /\ ~ Detached'
        BY <2>2 DEF HeadBlank, Detached
    <2> QED
        BY <1>1, <2>2, <2>3, <2>5, <2>6, <2>7
        DEF AllocInv, Owned, HeadBlank, Detached
<1>10. ASSUME SaveEntry PROVE NoSharing' /\ AllocInv'
    <2>1. /\ pc = "save_entry" /\ pc' = "create" /\ UNCHANGED <<fmdt, blocks, slot>>
        BY <1>10 DEF SaveEntry, SaveFMDT
    <2>2. NoSharing' /\ Owned' = Owned /\ Busy' = Busy /\ Root' = Root
        BY <1>1, <2>1, SameOwners DEF Busy, Root
    <2>3. HeadBlank /\ HeadBlank' /\ ~ Detached /\ ~ Detached'
        BY <2>1 DEF HeadBlank, Detached
    <2> QED
        BY <1>1, <2>1, <2>2, <2>3 DEF AllocInv
<1>11. ASSUME WriteEmptyDisk PROVE NoSharing' /\ AllocInv'
    <2>1. /\ \A i \in Slots : fmdt'[i].begining_offset = 0
          /\ \A b \in Blocks : blocks'[b] = EmptyBlock
          /\ pc' = "menu"
        BY <1>1, <1>11 DEF WriteEmptyDisk, LocalInv, StepInv, EmptyEntry, Return
    <2>2. Heads' = {} /\ Links' = {} /\ Busy' = {}
        BY <2>1, OwnedMembersNext DEF EmptyBlock, Busy
    <2>3. ~ HeadBlank' /\ ~ Detached'
        BY <2>1 DEF HeadBlank, Detached
    <2> QED
        BY <2>1, <2>2, <2>3 DEF NoSharing, AllocInv, Owned, EmptyBlock
<1> QED
    BY <1>2, <1>3, <1>4, <1>5, <1>6, <1>7, <1>8, <1>9, <1>10, <1>11 DEF Proceed

\* All steps together.
LEMMA StructStep == StructInv /\ [Next]_vars => StructInv'
<1>1. StructInv /\ UNCHANGED vars => NoSharing' /\ AllocInv'
    BY DEF vars, StructInv, NoSharing, AllocInv, Heads, Links, Owned, Busy,
           HeadBlank, Detached, Root
<1>2. StructInv /\ [Next]_vars => LocalInv'
    BY LocalStep DEF StructInv
<1> QED
    BY <1>1, <1>2, StructCommand, StructEdit, StructProceed DEF Next, StructInv

---------------------------------------------------------------------------
\* A process that is not killed never lets two entries, two blocks, or an
\* entry and a block lead to the same block: no file can overwrite another.
THEOREM BlocksNotShared == Spec => []NoSharing
<1>1. StructInv => NoSharing
    BY DEF StructInv
<1> QED
    BY <1>1, StructInit, StructStep, PTL DEF Spec

\* Between the operations of a process that is not killed, the blocks marked
\* busy are those of the files: nothing leaks, and nothing in use is free.
THEOREM FlagsAreRight == Spec => []BusyIffOwned
<1>1. StructInv => BusyIffOwned
    <2> SUFFICES ASSUME StructInv, pc \in {"menu", "load", "edit"}
                 PROVE  Busy = Owned
        BY DEF BusyIffOwned
    <2>1. ~ HeadBlank /\ ~ Detached /\ pc # "save"
        BY DEF HeadBlank, Detached
    <2> QED
        BY <2>1 DEF StructInv, AllocInv
<1> QED
    BY <1>1, StructInit, StructStep, PTL DEF Spec

\* A search that ends without a block has found every block in use, and then
\* every block belongs to a file: the search has missed none, and none has leaked.
LEMMA NoneLeft ==
    ASSUME StructInv, pc \in Searches, FindFreeBlock(0)
    PROVE  Owned = Blocks
<1>1. Busy = Blocks
    BY SearchEnds DEF StructInv
<1>2. ~ HeadBlank /\ ~ Detached /\ pc \notin {"save", "reset"}
    BY DEF HeadBlank, Detached, Searches
<1> QED
    BY <1>1, <1>2 DEF StructInv, AllocInv

\* The steps that print one of the two messages.
LEMMA RefusalsStep ==
    StructInv /\ RefusalsJustified /\ [Next]_vars => RefusalsJustified'
<1> SUFFICES ASSUME StructInv, RefusalsJustified, [Next]_vars
             PROVE  RefusalsJustified'
    OBVIOUS
<1>2. CASE UNCHANGED <<fmdt, blocks, pc, reply>>
    BY <1>2 DEF RefusalsJustified, Owned, Heads, Links
<1>3. CASE pc' # "menu" \/ reply' \in {"ok", "in_use", "incorrect_name"}
    BY <1>3 DEF RefusalsJustified
<1>4. ASSUME NEW name \in Names, NoEntryLeft(name) PROVE RefusalsJustified'
    BY <1>4 DEF NoEntryLeft, Refuse, Return, disk, RefusalsJustified
<1>5. CASE NoBlockLeft
    <2>1. /\ pc = "find" /\ reply' = "max_files" /\ blocks' = blocks /\ Owned = Blocks
          /\ fmdt' = [fmdt EXCEPT ![slot].begining_offset = 0]
        BY <1>5, NoneLeft DEF NoBlockLeft, Return, disk, Searches
    <2>2. /\ fmdt \in [Slots -> FileMetaDataTableField]
          /\ slot \in Slots /\ fmdt[slot].begining_offset = 0
        BY <2>1 DEF StructInv, LocalInv, TypeOK, StepInv
    <2>3. fmdt' = fmdt
        BY <2>1, <2>2 DEF FileMetaDataTableField
    <2>4. Owned' = Owned
        BY <2>1, <2>3 DEF Owned, Heads, Links
    <2> QED
        BY <2>1, <2>4 DEF RefusalsJustified
<1>6. CASE DiskFull
    <2>1. /\ reply' = "lost" /\ UNCHANGED <<fmdt, blocks>> /\ Owned = Blocks
        BY <1>6, NoneLeft DEF DiskFull, Refuse, Return, disk, Searches
    <2>2. Owned' = Owned
        BY <2>1 DEF Owned, Heads, Links
    <2> QED
        BY <2>1, <2>2 DEF RefusalsJustified
<1>7. ASSUME ClearTurn("remove") \/ ClearTurn("wipe") \/ ClearTurn("trim"), GoOn
      PROVE  pc' # "menu"
    BY <1>7 DEF ClearTurn, GoOn
<1>8. CASE Command
    BY <1>2, <1>3, <1>4, <1>8
    DEF Command, ResetDisk, Restart, Reload, NameInUse, CreateNewFile, NoSuchFile,
        RemoveFile, OpenFile, Refuse, Return
<1>9. CASE Edit
    BY <1>3, <1>9
    DEF Edit, ClearText, EraseText, AppendText, InsertText, Edited, EditThrows, Reload,
        Return, CloseText
<1>10. CASE Proceed
    BY <1>3, <1>5, <1>6, <1>7, <1>10
    DEF Proceed, WriteEmptyDisk, NextProbe, Searches, FillEntry, SaveEntry, CreateBlock,
        RemoveBlock, DropEntry, SaveDrop, FileToBuffer, WipeBlock, RestoreFirst,
        SaveData, UnlinkTail, TrimBlock, LinkBlock, Goto, Return
<1> QED
    BY <1>2, <1>8, <1>9, <1>10 DEF Next, vars

\* A process that is not killed refuses a file, or cuts a text, only when every
\* entry is taken or the files themselves fill the disk.
THEOREM RefusalsAreJustified == Spec => []RefusalsJustified
<1>1. Init => RefusalsJustified
    BY DEF Init, RefusalsJustified
<1> QED
    BY <1>1, StructInit, StructStep, RefusalsStep, PTL DEF Spec

---------------------------------------------------------------------------
\* What keeps the names of a table apart is kept on the disk too: a kill between
\* FillEntry and SaveEntry brings the older table back.
DiskNamesUnique ==
    \A i, j \in Slots :
        disk_fmdt[i].name = disk_fmdt[j].name
        => i = j \/ disk_fmdt[i].name \in LongNames \cup {NoName}

NamesInv == ShortNamesUnique /\ DiskNamesUnique

\* FillEntry is the only step that names an entry, and the search before it has
\* compared the name with every other one.
LEMMA NamesStep ==
    LocalInv /\ NamesInv /\ [Next \/ Crash]_vars => NamesInv'
<1> SUFFICES ASSUME LocalInv, NamesInv, [Next \/ Crash]_vars
             PROVE  NamesInv'
    OBVIOUS
<1>t. /\ fmdt \in [Slots -> FileMetaDataTableField]
      /\ disk_fmdt \in [Slots -> FileMetaDataTableField]
    BY DEF LocalInv, TypeOK
<1>1. ASSUME fmdt' \in {fmdt, disk_fmdt}, disk_fmdt' \in {fmdt, disk_fmdt}
      PROVE  NamesInv'
    BY <1>1 DEF NamesInv, ShortNamesUnique, DiskNamesUnique
<1>2. CASE ResetDisk
    BY <1>2 DEF ResetDisk, EmptyEntry, NamesInv, ShortNamesUnique, DiskNamesUnique, disk
<1>3. CASE WriteEmptyDisk
    BY <1>3
    DEF WriteEmptyDisk, EmptyEntry, NamesInv, ShortNamesUnique, DiskNamesUnique
<1>4. CASE DropEntry
    BY <1>4, <1>t
    DEF DropEntry, EmptyEntry, NamesInv, ShortNamesUnique, DiskNamesUnique, disk
<1>5. CASE FillEntry
    <2>1. PICK f \in Blocks :
              fmdt' = [fmdt EXCEPT ![slot] =
                          [name |-> new_file_name, begining_offset |-> f]]
        BY <1>5 DEF FillEntry
    <2>2. pc = "find" /\ disk_fmdt' = disk_fmdt
        BY <1>5 DEF FillEntry, disk
    <2>3. \A j \in Slots : fmdt[j].name = new_file_name => new_file_name \in LongNames
        BY <2>2 DEF LocalInv, StepInv, Matches
    <2>4. ShortNamesUnique'
        BY <2>1, <2>3, <1>t DEF NamesInv, ShortNamesUnique
    <2>5. DiskNamesUnique'
        BY <2>2 DEF NamesInv, DiskNamesUnique
    <2> QED
        BY <2>4, <2>5 DEF NamesInv
<1>6. CASE NoBlockLeft
    <2>1. \A j \in Slots : fmdt'[j].name = fmdt[j].name
        BY <1>6, <1>t DEF NoBlockLeft, FileMetaDataTableField
    <2> QED
        BY <1>6, <2>1 DEF NoBlockLeft, NamesInv, ShortNamesUnique, DiskNamesUnique, disk
<1>7. CASE Command
    BY <1>1, <1>2, <1>7
    DEF Command, Restart, Reload, NameInUse, NoEntryLeft, CreateNewFile, NoSuchFile,
        Refuse, RemoveFile, OpenFile, disk
<1>8. CASE Edit
    BY <1>1, <1>8
    DEF Edit, ClearText, EraseText, AppendText, InsertText, Edited, EditThrows, Reload,
        CloseText, disk
<1>9. CASE Proceed
    BY <1>1, <1>3, <1>4, <1>5, <1>6, <1>9
    DEF Proceed, NextProbe, SaveEntry, SaveFMDT, CreateBlock, RemoveBlock, ClearTurn,
        SaveDrop, FileToBuffer, WipeBlock, RestoreFirst, SaveData, UnlinkTail,
        TrimBlock, LinkBlock, DiskFull, Refuse, disk
<1>10. CASE Crash
    BY <1>1, <1>10 DEF Crash, Reload, disk
<1>11. CASE UNCHANGED vars
    BY <1>1, <1>11 DEF vars
<1> QED
    BY <1>7, <1>8, <1>9, <1>10, <1>11 DEF Next

\* However often the process is killed, a name that fits its field is the name
\* of one file: opening or removing it reaches the file it was given to.
THEOREM CrashNamesUnique == CrashSpec => []ShortNamesUnique
<1>1. Init => NamesInv
    BY DEF Init, NamesInv, ShortNamesUnique, DiskNamesUnique, EmptyEntry
<1>2. NamesInv => ShortNamesUnique
    BY DEF NamesInv
<1> QED
    BY <1>1, <1>2, LocalInit, LocalStep, NamesStep, PTL DEF CrashSpec
==============================================================================
