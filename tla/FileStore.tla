----------------------------- MODULE FileStore -----------------------------
(***************************************************************************)
(* What the disk emulator promises its user: a map from names to texts.    *)
(* While a file is created, removed or saved it is Pending and nothing is  *)
(* promised about it; every other file keeps its text at every step.       *)
(***************************************************************************)
EXTENDS Naturals, Sequences

CONSTANTS Names, Chars, NoFile, Pending

VARIABLES
    store,      \* store[name]: its text, NoFile, or Pending
    op,         \* the change being made: [kind, name, text], or NoOp
    editor,     \* the open file and its text in the editor, or Closed
    reply

vars == <<store, op, editor, reply>>

NoOp   == [kind |-> "none", name |-> "", text |-> <<>>]
Closed == [name |-> "", text |-> <<>>]

Init ==
    /\ store = [n \in Names |-> NoFile]
    /\ op = NoOp
    /\ editor = Closed
    /\ reply = "ok"

AtMenu == op = NoOp /\ editor = Closed

Begin(kind, n, t) ==
    /\ op' = [kind |-> kind, name |-> n, text |-> t]
    /\ store' = [store EXCEPT ![n] = Pending]
    /\ editor' = Closed
    /\ UNCHANGED reply

End(t, r) ==
    /\ store' = [store EXCEPT ![op.name] = t]
    /\ op' = NoOp
    /\ reply' = r
    /\ UNCHANGED editor

Reset ==
    /\ AtMenu
    /\ store' = [n \in Names |-> NoFile]
    /\ reply' = "ok"
    /\ UNCHANGED <<op, editor>>

\* A command that is turned down, and a new process: the files stay.
Refuse(r) ==
    /\ AtMenu
    /\ reply' = r
    /\ UNCHANGED <<store, op, editor>>

RefuseName(n) ==
    \/ store[n] # NoFile /\ Refuse("in_use")
    \/ store[n] = NoFile /\ Refuse("max_files")
    \/ store[n] = NoFile /\ Refuse("incorrect_name")

Create(n) == AtMenu /\ store[n] = NoFile /\ Begin("create", n, <<>>)
Remove(n) == AtMenu /\ store[n] # NoFile /\ Begin("remove", n, <<>>)

Open(n) ==
    /\ AtMenu
    /\ store[n] # NoFile
    /\ editor' = [name |-> n, text |-> store[n]]
    /\ UNCHANGED <<store, op, reply>>

\* The user may turn the text into any other.
Edit ==
    /\ editor # Closed
    /\ editor'.text \in Seq(Chars)
    /\ editor' = [editor EXCEPT !.text = editor'.text]
    /\ UNCHANGED <<store, op, reply>>

\* The editor ends with the process, or hands its text over.
Abandon ==
    /\ editor # Closed
    /\ editor' = Closed
    /\ reply' = "ok"
    /\ UNCHANGED <<store, op>>

Save == editor # Closed /\ Begin("save", editor.name, editor.text)

Finish ==
    \/ op.kind = "create" /\ End(<<>>, "ok")
    \/ op.kind = "remove" /\ End(NoFile, "ok")
    \/ op.kind = "save" /\ End(op.text, "ok")
    \/ /\ op.kind = "save"
       /\ \E k \in 1 .. (Len(op.text) - 1) : End(SubSeq(op.text, 1, k), "lost")

Next ==
    \/ Reset
    \/ Refuse("ok")
    \/ \E n \in Names : RefuseName(n) \/ Create(n) \/ Remove(n) \/ Open(n)
    \/ Edit
    \/ Abandon
    \/ Save
    \/ Finish

Spec == Init /\ [][Next]_vars
============================================================================
