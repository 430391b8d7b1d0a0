------------------------------ MODULE FlatFiles ------------------------------
(***************************************************************************)
(* What fs/file.c promises its callers: a file is a sequence of words.     *)
(* Writing puts the caller's words at the caller's position and changes    *)
(* nothing else, in this file or in another; reading returns what is       *)
(* there.  Blocks, indirect blocks and the bitmap cannot be seen, with one *)
(* exception: a hole reads as zeros, but once a word of its block has been *)
(* written the others may be anything, and so may the words by which a     *)
(* file grows without having been written.                                 *)
(***************************************************************************)
EXTENDS Integers, Sequences

CONSTANTS
    Tasks, Files,
    data,           \* the word with which each task writes
    Hole            \* what is not there, and reads as zero

VARIABLES
    file,           \* the file that each task has open, which never changes
    content,        \* the words of each file
    pos,            \* where each task is in its file
    todo,           \* what each task has left to read or write
    view            \* what it has just been given

vars == <<file, content, pos, todo, view>>

Idle == [op |-> "none", left |-> 0]
Word(w) == IF w = Hole THEN 0 ELSE w

Init ==
    /\ file \in [Tasks -> Files]
    /\ \A f \in Files : \A n \in DOMAIN content[f] : content[f][n] = Hole
    /\ pos = [t \in Tasks |-> 0]
    /\ todo = [t \in Tasks |-> Idle]
    /\ view = [t \in Tasks |-> <<>>]

\* The files other than f are as they were.
Others(f) == \A g \in Files \ {f} : content'[g] = content[g]

\* The words that both have are the same, but for the holes of old.
Extends(new, old) ==
    \A n \in DOMAIN old \cap DOMAIN new : new[n] = old[n] \/ old[n] = Hole

\* In each of these old and new are what t's file holds before and after.

\* A task starts, goes on or stops; what its file holds does not change, but
\* holes may be filled and, if it writes, the file may grow.
Move(t, old, new) ==
    /\ new # old => todo'[t].op = "write" /\ Extends(new, old) /\ Len(new) >= Len(old)
    /\ todo[t].op = "truncate" => todo'[t] = todo[t]
    /\ todo' = [todo EXCEPT ![t] = todo'[t]]
    /\ view' = [view EXCEPT ![t] = <<>>]
    /\ UNCHANGED pos

\* t's next n words are written.
Write(t, n, old, new) ==
    /\ todo[t].op = "write" /\ n <= todo[t].left /\ pos[t] <= Len(old)
    /\ pos' = [pos EXCEPT ![t] = @ + n]
    /\ todo' = [todo EXCEPT ![t].left = @ - n]
    /\ Len(new) = IF Len(old) > pos[t] + n THEN Len(old) ELSE pos[t] + n
    /\ \A i \in DOMAIN new :
        new[i] = IF i \in (pos[t] + 1)..(pos[t] + n) THEN data[t] ELSE old[i]
    /\ UNCHANGED view

\* t is given the next n words.  The file may have been made shorter in the
\* meantime, and then nothing is said of the words behind its end.
Read(t, n, old, new) ==
    /\ todo[t].op = "read" /\ n <= todo[t].left /\ new = old
    /\ pos' = [pos EXCEPT ![t] = @ + n]
    /\ todo' = [todo EXCEPT ![t].left = @ - n]
    /\ view' = [view EXCEPT ![t] = view'[t]] /\ Len(view'[t]) = n
    /\ \A i \in 1..n : pos[t] + i \in DOMAIN old => view'[t][i] = Word(old[pos[t] + i])

Seek(t, old, new) ==
    /\ todo[t] = Idle /\ new = old
    /\ \E p \in 0..Len(old) : pos' = [pos EXCEPT ![t] = p]
    /\ UNCHANGED <<todo, view>>

\* The file has a new size.
Resize(t, old, new) ==
    /\ todo[t] = Idle /\ Extends(new, old)
    /\ UNCHANGED <<pos, todo, view>>

\* Words become holes, until none is left or the caller is told of a failure.
Truncate(t, old, new) ==
    /\ todo[t].op = "truncate" /\ Len(new) <= Len(old)
    /\ \A n \in DOMAIN new : new[n] \in {old[n], Hole}
    /\ todo' = [todo EXCEPT ![t] = todo'[t]] /\ todo'[t].op \in {"truncate", "none", "failed"}
    /\ todo'[t].op = "none" => \A n \in DOMAIN new : new[n] = Hole
    /\ UNCHANGED <<pos, view>>

Step(t, old, new) ==
    \/ Move(t, old, new) \/ Seek(t, old, new) \/ Resize(t, old, new) \/ Truncate(t, old, new)
    \/ \E n \in 0..todo[t].left : Write(t, n, old, new) \/ Read(t, n, old, new)

Next == \E t \in Tasks :
    /\ Step(t, content[file[t]], content'[file[t]]) /\ Others(file[t])
    /\ UNCHANGED file

Spec == Init /\ [][Next]_vars
=============================================================================
