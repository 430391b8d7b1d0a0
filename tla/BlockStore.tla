------------------------------ MODULE BlockStore ------------------------------
(***************************************************************************)
(* What the buffer cache promises the rest of the file system: a store of  *)
(* blocks in which nothing changes but by the task that writes.  Caching,  *)
(* eviction and the order of the device's work cannot be seen.             *)
(***************************************************************************)
CONSTANTS Tasks, Blocks, Values

VARIABLES
    content,    \* what each block holds
    failed,     \* the blocks on which the device has reported an error
    access      \* what each task is doing: nothing, or a block it uses

vars == <<content, failed, access>>

Idle == [op |-> "idle"]
Has(b) == [op |-> "has", blk |-> b]
Wrote(b) == [op |-> "wrote", blk |-> b]
Accesses == {Idle} \cup {Has(b) : b \in Blocks} \cup {Wrote(b) : b \in Blocks}

Init ==
    /\ content \in [Blocks -> Values]
    /\ failed = {}
    /\ access = [t \in Tasks |-> Idle]

\* Every block but those of B holds what it held; nothing is promised of a
\* block after an error on it.
Kept(B) ==
    /\ content' \in [Blocks -> Values]
    /\ failed \subseteq failed' /\ failed' \subseteq Blocks
    /\ \A b \in Blocks \ (failed' \cup B) : content'[b] = content[b]

\* A task gets hold of a block, lets go of it, or goes on after writing.
Move(t) ==
    /\ \E a \in Accesses : access' = [access EXCEPT ![t] = a]
    /\ \A b \in Blocks : access'[t] = Wrote(b) => access[t] = Wrote(b)
    /\ Kept({})

\* A task changes a block it has, or stores a whole block.
Write(t, b, v) ==
    /\ access[t] \in {Idle, Has(b)}
    /\ access' = [access EXCEPT ![t] = Wrote(b)]
    /\ Kept({b})
    /\ content'[b] = v \/ b \in failed'

\* The device works, or fails.
Device ==
    /\ Kept({})
    /\ UNCHANGED access

Next ==
    \/ \E t \in Tasks : Move(t)
    \/ \E t \in Tasks, b \in Blocks, v \in Values : Write(t, b, v)
    \/ Device

Spec == Init /\ [][Next]_vars
=============================================================================
