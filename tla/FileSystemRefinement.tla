------------------------ MODULE FileSystemRefinement ------------------------
(***************************************************************************)
(* The disk emulator implements the store of FileStore, as long as it is   *)
(* not killed and no name fills its field (LongNames = {}).                *)
(***************************************************************************)
EXTENDS FileSystem

CONSTANTS NoFile, Pending

\* The text of the chain that starts at a block.
Content ==
    LET text[b \in 0 .. AMOUNT_OF_BLOCKS_] ==
            IF b = 0 THEN <<>> ELSE blocks[b].data \o text[blocks[b].next_offset]
    IN  text

\* The change an operation is making, by the step it is at.
Kind ==
    CASE pc \in {"save_entry", "create"} -> "create"
      [] pc \in {"remove", "drop_entry"} -> "remove"
      [] pc \in {"wipe", "restore", "save", "unlink", "trim", "extend"} -> "save"
      [] OTHER                           -> "none"

EntryOf(n) == {i \in Slots : fmdt[i].name = n}

storeBar ==
    [n \in Names |->
        IF EntryOf(n) = {} THEN NoFile
        ELSE IF Kind # "none" /\ fmdt[slot].name = n THEN Pending
        ELSE Content[fmdt[CHOOSE i \in EntryOf(n) : TRUE].begining_offset]]

opBar ==
    IF Kind = "none"
    THEN [kind |-> "none", name |-> "", text |-> <<>>]
    ELSE [kind |-> Kind, name |-> fmdt[slot].name, text |-> processed]

editorBar ==
    IF pc = "edit"
    THEN [name |-> fmdt[slot].name, text |-> processed]
    ELSE [name |-> "", text |-> <<>>]

Store == INSTANCE FileStore WITH store <- storeBar, op <- opBar, editor <- editorBar

\* Each operation changes the text of its own file only, at every one of its
\* writes; a created file is empty, a removed one gone, a saved one holds the
\* edited text, or a prefix of it with the message that some was lost; an
\* opened one shows what was saved; a restart loses nothing.
ImplementsStore == Store!Spec
==============================================================================
