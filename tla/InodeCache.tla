------------------------------ MODULE InodeCache ------------------------------
(***************************************************************************)
(* The inodes in memory, fs/inode.c, and the files of a directory that     *)
(* lead to them.  Tasks open, create and remove files (fs/dir.c) and, with *)
(* an inode in hand, change it, duplicate it, write it and close it.       *)
(*                                                                         *)
(* make_inode() runs inside forbid() and is one step between two sleeps;   *)
(* close_inode() and write_inode() may be preempted anywhere.  An inode's  *)
(* block is read and written through the buffer cache (module BufferCache, *)
(* which implements BlockStore): here the inodes on disk change in one     *)
(* step, and bread() may find no buffer.  One device, without removable    *)
(* media.                                                                  *)
(*                                                                         *)
(* Four races, an error nobody looks at and two exits of create_file()     *)
(* corrupt the cache.  The model stops there: clash names what has         *)
(* happened, and the properties say that nothing else can go wrong.        *)
(***************************************************************************)
EXTENDS Naturals, FiniteSets, Sequences, SequencesExt

CONSTANTS
    Tasks, Inums,
    Stamps,         \* what an inode holds besides its count of links
    NR_INODES,
    MaxRefs,        \* how often a task may have one inode open
    LinkWidth,      \* nlinks counts modulo this, 2^32 in the code
    Starved         \* the inodes whose block may find no buffer

ASSUME ParametersAssumption ==
    /\ IsFiniteSet(Tasks)
    /\ NR_INODES \in Nat /\ MaxRefs \in Nat \ {0, 1} /\ LinkWidth \in Nat \ {0, 1}
    /\ Starved \subseteq Inums /\ Stamps # {}

VARIABLES
    inode_open_list, inode_free_list,
    core,           \* the inodes in memory, struct core_inode
    dev_use_count,  \* of the device
    dinode,         \* the inodes on disk
    bitmap,         \* the inodes allocated on disk
    entries,        \* the inodes with an entry in the directory
    call,           \* what each task is doing
    clash,          \* what has corrupted the cache
    lost            \* inodes whose last write has found no buffer

lists == <<inode_open_list, inode_free_list>>
ondisk == <<dinode, bitmap, entries>>
vars == <<lists, core, dev_use_count, ondisk, call, clash, lost>>

Entries == 1..NR_INODES
Contents == [nlinks : 0..(LinkWidth - 1), stamp : Stamps]
CoreInodes == [inum : Inums, use_count : Nat, locked : BOOLEAN, dirty : BOOLEAN,
               inode : Contents]
Clashes == {"none", "reused", "overwritten", "dropped", "removed", "unwritten", "refreed", "returned"}

(* What a task is doing; x is the inode it has, n its references to it.
     make       in make_inode(i), for op;  asleep  on the locked_tasks of x
     read       in read_inode(x)
     init       create_file() has made the inode;  entry  has closed it once
     count      has made the entry;  remove  remove_link() has the inode
     have       outside inode.c;  dirty  has changed x, not yet its flag
     test copy clear    in write_inode()
     drop unlink free put   in the rest of close_inode()
     undo       create_file() frees the inode, which it has closed
   job is what a change or a write is part of: nothing more, a write_inode(),
   a close_inode(), or the make_file() and close_inode() of create_file(); or
   that close_inode() when make_file() has failed.                          *)
Idle == [pc |-> "idle"]
Making(op, i) == [pc |-> "make", op |-> op, inum |-> i]
Asleep(op, i, x) == [pc |-> "asleep", op |-> op, inum |-> i, x |-> x]
Reading(op, x) == [pc |-> "read", op |-> op, x |-> x]
Undoing(i) == [pc |-> "undo", inum |-> i]
Has(pc, x, n, job) == [pc |-> pc, x |-> x, n |-> n, job |-> job]

Ops == {"open", "create", "remove"}
Jobs == {"none", "write", "close", "make_file", "undo"}
HasPcs == {"init", "entry", "count", "remove", "have", "dirty", "test", "copy", "clear",
           "drop", "unlink", "free", "put"}
Calls ==
    {Idle} \cup {Making(op, i) : op \in Ops, i \in Inums}
    \cup {Asleep(op, i, x) : op \in Ops, i \in Inums, x \in Entries}
    \cup {Reading(op, x) : op \in Ops, x \in Entries} \cup {Undoing(i) : i \in Inums}
    \cup {Has(pc, x, n, job) : pc \in HasPcs, x \in Entries, n \in 0..MaxRefs, job \in Jobs}

\* The references of t to x that its use_count counts.
Refs(t, x) ==
    IF call[t].pc = "read" /\ call[t].x = x THEN 1
    ELSE IF call[t].pc \in HasPcs /\ call[t].x = x THEN call[t].n ELSE 0

\* They are numbered, for each task from 1.
References(x) == {r \in Tasks \X (1..MaxRefs) : r[2] <= Refs(r[1], x)}

Goto(t, c) == call' = [call EXCEPT ![t] = c]
\* t goes on with its inode.
GoOn(t, pc, n, job) == Goto(t, Has(pc, call[t].x, n, job))
Clash(c) == clash' = c

-----------------------------------------------------------------------------
(* make_inode()                                                             *)

open_inode(i) == {x \in ToSet(inode_open_list) : core[x].inum = i}

\* What make_inode()'s caller does with the inode.
Returned(op, x) ==
    Has(CASE op = "open" -> "have" [] op = "create" -> "init" [] OTHER -> "remove",
        x, 1, "none")

\* The race "removed": since t found the entry, the file has been removed and
\* closed by all who had it, so its inode is free or about to be.
Removed(t) == call[t].op = "open" /\ call[t].inum \notin entries

\* The inode is being read by another task.
make_inode_sleep(t) ==
    /\ call[t].pc = "make"
    /\ \E x \in open_inode(call[t].inum) :
        /\ core[x].locked
        /\ Goto(t, Asleep(call[t].op, call[t].inum, x))
    /\ UNCHANGED <<lists, core, dev_use_count, ondisk, clash, lost>>

\* Mutant: the new user is not counted.
make_inode_hit_uncounted(t) ==
    /\ call[t].pc = "make"
    /\ \E x \in open_inode(call[t].inum) :
        /\ ~core[x].locked
        /\ Goto(t, Returned(call[t].op, x))
    /\ UNCHANGED <<lists, core, dev_use_count, ondisk, clash, lost>>

\* The inode is in memory.  The race "reused": its last user has counted down
\* and is about to take it off the list, and will.
make_inode_hit(t) ==
    /\ call[t].pc = "make"
    /\ \E x \in open_inode(call[t].inum) :
        /\ ~core[x].locked
        /\ Clash(IF core[x].use_count = 0 THEN "reused" ELSE clash)
        /\ core' = [core EXCEPT ![x].use_count = @ + 1]
        /\ Goto(t, Returned(call[t].op, x))
    /\ UNCHANGED <<lists, dev_use_count, ondisk, lost>>

\* Mutant: the inode can be found while it is being read.
make_inode_miss_unlocked(t) ==
    /\ call[t].pc = "make" /\ open_inode(call[t].inum) = {}
    /\ inode_free_list # <<>>
    /\ LET x == Head(inode_free_list)
       IN  /\ inode_open_list' = <<x>> \o inode_open_list
           /\ core' = [core EXCEPT ![x].inum = call[t].inum, ![x].use_count = 1,
                                   ![x].locked = FALSE]
           /\ Goto(t, Reading(call[t].op, x))
    /\ inode_free_list' = Tail(inode_free_list)
    /\ dev_use_count' = dev_use_count + 1
    /\ Clash(IF Removed(t) THEN "removed" ELSE clash)
    /\ UNCHANGED <<ondisk, lost>>

\* Not in memory: a free entry is locked and read_inode() called.
make_inode_miss(t) ==
    /\ call[t].pc = "make" /\ open_inode(call[t].inum) = {}
    /\ inode_free_list # <<>>
    /\ LET x == Head(inode_free_list)
       IN  /\ inode_open_list' = <<x>> \o inode_open_list
           /\ core' = [core EXCEPT ![x].inum = call[t].inum, ![x].use_count = 1,
                                   ![x].locked = TRUE]
           /\ Goto(t, Reading(call[t].op, x))
    /\ inode_free_list' = Tail(inode_free_list)
    /\ dev_use_count' = dev_use_count + 1
    /\ Clash(IF Removed(t) THEN "removed" ELSE clash)
    /\ UNCHANGED <<ondisk, lost>>

\* create_file() frees the inode it could not get into memory; remove_link()
\* has already deleted the entry.
Unmade(t, op, i) ==
    /\ bitmap' = IF op = "create" THEN bitmap \ {i} ELSE bitmap
    /\ UNCHANGED <<dinode, entries, lost>>

\* There is no free entry.
make_inode_full(t) ==
    /\ call[t].pc = "make" /\ open_inode(call[t].inum) = {}
    /\ inode_free_list = <<>>
    /\ Unmade(t, call[t].op, call[t].inum)
    /\ Goto(t, Idle)
    /\ UNCHANGED <<lists, core, dev_use_count, clash>>

\* The tasks asleep on x start again.
Woken(x) ==
    [u \in Tasks |-> IF call[u].pc = "asleep" /\ call[u].x = x
                     THEN Making(call[u].op, call[u].inum) ELSE call[u]]

\* Mutant: those who wait for the inode are not woken.
read_inode_unwoken(t) ==
    /\ call[t].pc = "read"
    /\ LET x == call[t].x
       IN  /\ core' = [core EXCEPT ![x].inode = dinode[core[x].inum], ![x].dirty = FALSE,
                                   ![x].locked = FALSE]
           /\ Goto(t, Returned(call[t].op, x))
    /\ UNCHANGED <<lists, dev_use_count, ondisk, clash, lost>>

\* read_inode() has the block; make_inode() returns.
read_inode(t) ==
    /\ call[t].pc = "read"
    /\ LET x == call[t].x
       IN  /\ core' = [core EXCEPT ![x].inode = dinode[core[x].inum], ![x].dirty = FALSE,
                                   ![x].locked = FALSE]
           /\ call' = [Woken(x) EXCEPT ![t] = Returned(call[t].op, x)]
    /\ UNCHANGED <<lists, dev_use_count, ondisk, clash, lost>>

\* read_inode() has found no buffer.  The race "dropped": what other tasks have
\* put on the list since is dropped from it.
read_inode_fails(t) ==
    /\ call[t].pc = "read"
    /\ LET x == call[t].x
           p == SelectInSeq(inode_open_list, LAMBDA y : y = x)
       IN  /\ core[x].inum \in Starved
           /\ inode_open_list' = SubSeq(inode_open_list, p + 1, Len(inode_open_list))
           /\ inode_free_list' = <<x>> \o inode_free_list
           /\ Clash(IF p = 1 THEN clash ELSE "dropped")
           /\ call' = [Woken(x) EXCEPT ![t] = Idle]
           /\ Unmade(t, call[t].op, core[x].inum)
    /\ dev_use_count' = dev_use_count - 1
    /\ UNCHANGED core

-----------------------------------------------------------------------------
(* Users of inodes, fs/dir.c and fs/file.c.                                 *)

\* find_file_entry() has found the entry of i.
Open(t, i) ==
    /\ call[t] = Idle /\ i \in entries
    /\ Goto(t, Making("open", i))
    /\ UNCHANGED <<lists, core, dev_use_count, ondisk, clash, lost>>

\* delete_file_entry() has deleted it.
Remove_link(t, i) ==
    /\ call[t] = Idle /\ i \in entries
    /\ entries' = entries \ {i}
    /\ Goto(t, Making("remove", i))
    /\ UNCHANGED <<lists, core, dev_use_count, dinode, bitmap, clash, lost>>

\* alloc_inode() has found i.
Create(t, i) ==
    /\ call[t] = Idle /\ i \notin bitmap
    /\ bitmap' = bitmap \cup {i}
    /\ Goto(t, Making("create", i))
    /\ UNCHANGED <<lists, core, dev_use_count, dinode, entries, clash, lost>>

\* t changes its inode, as part of job; the flag is set by another statement.
Change(t, inode, job) ==
    /\ core' = [core EXCEPT ![call[t].x].inode = inode]
    /\ GoOn(t, "dirty", call[t].n, job)
    /\ UNCHANGED <<lists, dev_use_count, ondisk, clash, lost>>

\* write_file(), set_file_modes(): the inode is changed and kept.
Modify(t, s) ==
    /\ call[t].pc = "have"
    /\ Change(t, [core[call[t].x].inode EXCEPT !.stamp = s], "none")

\* create_file() clears the inode ...
InitInode(t, s) ==
    /\ call[t].pc = "init"
    /\ Change(t, [nlinks |-> 0, stamp |-> s], "make_file")

\* ... adds the entry, after make_file() and close_inode() ...
CreateEntry(t) ==
    /\ call[t].pc = "entry"
    /\ entries' = entries \cup {core[call[t].x].inum}
    /\ GoOn(t, "count", call[t].n, call[t].job)
    /\ UNCHANGED <<lists, core, dev_use_count, dinode, bitmap, clash, lost>>

\* ... which may fail: the file is closed, freed, and returned.
CreateEntryFails(t) ==
    /\ call[t].pc = "entry"
    /\ Clash("returned")
    /\ UNCHANGED <<lists, core, dev_use_count, ondisk, call, lost>>

\* ... and counts it.
CountLink(t) ==
    /\ call[t].pc = "count"
    /\ Change(t, [core[call[t].x].inode EXCEPT !.nlinks = (@ + 1) % LinkWidth], "write")

RemoveLink(t) ==
    /\ call[t].pc = "remove"
    /\ Change(t, [core[call[t].x].inode EXCEPT !.nlinks = (@ + LinkWidth - 1) % LinkWidth],
              "close")

\* dirty = TRUE; create_file() goes on with make_file(), that is dup_inode().
SetDirty(t) ==
    /\ call[t].pc = "dirty"
    /\ LET x == call[t].x
           dup == IF call[t].job = "make_file" THEN 1 ELSE 0
       IN  /\ core' = [core EXCEPT ![x].dirty = TRUE, ![x].use_count = @ + dup]
           /\ GoOn(t, IF call[t].job = "none" THEN "have" ELSE "test", call[t].n + dup,
                   call[t].job)
    /\ UNCHANGED <<lists, dev_use_count, ondisk, clash, lost>>

\* make_file() has no structure left: the inode is only closed.
MakeFileFails(t) ==
    /\ call[t].pc = "dirty" /\ call[t].job = "make_file"
    /\ core' = [core EXCEPT ![call[t].x].dirty = TRUE]
    /\ GoOn(t, "test", call[t].n, "undo")
    /\ UNCHANGED <<lists, dev_use_count, ondisk, clash, lost>>

\* create_file() frees the inode, which close_inode() has freed already.  The
\* error "refreed": it has been allocated again, or was kept for another user.
FreeAgain(t) ==
    /\ call[t].pc = "undo"
    /\ bitmap' = bitmap \ {call[t].inum}
    /\ Clash(IF call[t].inum \in bitmap THEN "refreed" ELSE clash)
    /\ Goto(t, Idle)
    /\ UNCHANGED <<lists, core, dev_use_count, dinode, entries, lost>>

\* dup_file(), by a task that has the inode.
dup_inode(t) ==
    /\ call[t].pc = "have" /\ call[t].n < MaxRefs
    /\ core' = [core EXCEPT ![call[t].x].use_count = @ + 1]
    /\ GoOn(t, "have", call[t].n + 1, call[t].job)
    /\ UNCHANGED <<lists, dev_use_count, ondisk, clash, lost>>

-----------------------------------------------------------------------------
(* write_inode() and close_inode()                                          *)

\* write_inode() is called, by itself or from close_inode().
Begin(t, job) ==
    /\ call[t].pc = "have"
    /\ GoOn(t, "test", call[t].n, job)
    /\ UNCHANGED <<lists, core, dev_use_count, ondisk, clash, lost>>

\* Where a task goes on after write_inode().
Written(t) ==
    IF call[t].job = "write" THEN Has("have", call[t].x, call[t].n, "none")
    ELSE Has("drop", call[t].x, call[t].n, call[t].job)

write_inode_test(t) ==
    /\ call[t].pc = "test"
    /\ IF core[call[t].x].dirty THEN GoOn(t, "copy", call[t].n, call[t].job)
       ELSE Goto(t, Written(t))
    /\ UNCHANGED <<lists, core, dev_use_count, ondisk, clash, lost>>

\* bread(), memcpy() and bdirty(): the inode's block is written.
write_inode_copy(t) ==
    /\ call[t].pc = "copy"
    /\ LET x == call[t].x
       IN dinode' = [dinode EXCEPT ![core[x].inum] = core[x].inode]
    /\ lost' = lost \ {core[call[t].x].inum}
    /\ GoOn(t, "clear", call[t].n, call[t].job)
    /\ UNCHANGED <<lists, core, dev_use_count, bitmap, entries, clash>>

\* bread() has found no buffer; nobody looks at what write_inode() returns.
write_inode_fails(t) ==
    /\ call[t].pc = "copy"
    /\ core[call[t].x].inum \in Starved
    /\ lost' = lost \cup {core[call[t].x].inum}
    /\ Goto(t, Written(t))
    /\ UNCHANGED <<lists, core, dev_use_count, ondisk, clash>>

\* The flag is cleared when the block has been written.  The race
\* "overwritten": another task has changed the inode meanwhile, and its flag is
\* cleared.
write_inode_clear(t) ==
    /\ call[t].pc = "clear"
    /\ LET x == call[t].x
       IN  /\ core' = [core EXCEPT ![x].dirty = FALSE]
           /\ Clash(IF \/ core[x].inode = dinode[core[x].inum]
                       \/ \E u \in Tasks : call[u].pc = "dirty" /\ call[u].x = x
                    THEN clash ELSE "overwritten")
    /\ Goto(t, Written(t))
    /\ UNCHANGED <<lists, dev_use_count, ondisk, lost>>

\* What a task does when close_inode() returns and it has no more references, and
\* the job that it has until then.
Closed(t) == IF call[t].job = "undo" THEN Undoing(core[call[t].x].inum) ELSE Idle
Rest(t) == IF call[t].job = "undo" THEN "undo" ELSE "none"

\* Mutant: an inode is freed with its last link, open or not.
close_inode_drop_frees(t) ==
    /\ call[t].pc = "drop"
    /\ LET x == call[t].x
           n == call[t].n - 1
       IN  /\ core' = [core EXCEPT ![x].use_count = @ - 1]
           /\ bitmap' = IF core[x].inode.nlinks = 0 THEN bitmap \ {core[x].inum} ELSE bitmap
           /\ Goto(t, IF core[x].use_count = 1 THEN Has("unlink", x, 0, Rest(t))
                      ELSE IF n = 0 THEN Closed(t)
                      ELSE Has(IF call[t].job = "make_file" THEN "entry" ELSE "have",
                               x, n, "none"))
    /\ UNCHANGED <<lists, dev_use_count, dinode, entries, clash, lost>>

\* --use_count, and t has one reference less.
close_inode_drop(t) ==
    /\ call[t].pc = "drop"
    /\ LET x == call[t].x
           n == call[t].n - 1
       IN  /\ core' = [core EXCEPT ![x].use_count = @ - 1]
           /\ Goto(t, IF core[x].use_count = 1 THEN Has("unlink", x, 0, Rest(t))
                      ELSE IF n = 0 THEN Closed(t)
                      ELSE Has(IF call[t].job = "make_file" THEN "entry" ELSE "have",
                               x, n, "none"))
    /\ UNCHANGED <<lists, dev_use_count, ondisk, clash, lost>>

\* The last reference is gone: the inode leaves the list.  The error
\* "unwritten": it leaves with a change that write_inode() failed to write.
close_inode_unlink(t) ==
    /\ call[t].pc = "unlink"
    /\ LET x == call[t].x
       IN  /\ inode_open_list' = RemoveFirst(inode_open_list, x)
           /\ Clash(IF core[x].dirty /\ core[x].inum \in lost THEN "unwritten" ELSE clash)
           /\ GoOn(t, IF core[x].inode.nlinks = 0 THEN "free" ELSE "put", 0, Rest(t))
    /\ UNCHANGED <<inode_free_list, core, dev_use_count, ondisk, lost>>

\* delete_inode_data() and free_inode().
close_inode_free(t) ==
    /\ call[t].pc = "free"
    /\ bitmap' = bitmap \ {core[call[t].x].inum}
    /\ GoOn(t, "put", 0, Rest(t))
    /\ UNCHANGED <<lists, core, dev_use_count, dinode, entries, clash, lost>>

\* release_device(), and the entry is free.
close_inode_put(t) ==
    /\ call[t].pc = "put"
    /\ dev_use_count' = dev_use_count - 1
    /\ inode_free_list' = <<call[t].x>> \o inode_free_list
    /\ Goto(t, Closed(t))
    /\ UNCHANGED <<inode_open_list, core, ondisk, clash, lost>>

-----------------------------------------------------------------------------
\* init_inodes(), add_device(); some of the inodes are files.
Init ==
    /\ inode_open_list = <<>>
    /\ inode_free_list = [n \in Entries |-> n]
    /\ \E s \in Stamps, i \in Inums :
        core = [x \in Entries |-> [inum |-> i, use_count |-> 0, locked |-> FALSE,
                                   dirty |-> FALSE, inode |-> [nlinks |-> 0, stamp |-> s]]]
    /\ dev_use_count = 1
    /\ entries \in SUBSET Inums /\ bitmap = entries
    /\ \E s \in [Inums -> Stamps] :
        dinode = [i \in Inums |-> [nlinks |-> IF i \in entries THEN 1 ELSE 0, stamp |-> s[i]]]
    /\ call = [t \in Tasks |-> Idle]
    /\ clash = "none" /\ lost = {}

make_inode(t) == make_inode_sleep(t) \/ make_inode_hit(t) \/ make_inode_miss(t)
                 \/ make_inode_full(t) \/ read_inode(t) \/ read_inode_fails(t)
write_inode(t) == write_inode_test(t) \/ write_inode_copy(t) \/ write_inode_fails(t)
                  \/ write_inode_clear(t)
close_inode(t) == close_inode_drop(t) \/ close_inode_unlink(t) \/ close_inode_free(t)
                  \/ close_inode_put(t)
User(t) ==
    \/ \E i \in Inums : Open(t, i) \/ Remove_link(t, i) \/ Create(t, i)
    \/ \E s \in Stamps : Modify(t, s) \/ InitInode(t, s)
    \/ CreateEntry(t) \/ CreateEntryFails(t) \/ MakeFileFails(t) \/ FreeAgain(t)
    \/ CountLink(t) \/ RemoveLink(t) \/ SetDirty(t) \/ dup_inode(t)
    \/ \E job \in {"write", "close"} : Begin(t, job)

Step(t) == make_inode(t) \/ write_inode(t) \/ close_inode(t) \/ User(t)

Next ==
    \/ clash = "none" /\ \E t \in Tasks : Step(t)
    \/ clash # "none" /\ UNCHANGED vars

Spec == Init /\ [][Next]_vars

-----------------------------------------------------------------------------
\* The types of the variables.
TypeOK ==
    /\ inode_open_list \in Seq(Entries) /\ inode_free_list \in Seq(Entries)
    /\ core \in [Entries -> CoreInodes]
    /\ dev_use_count \in Nat
    /\ dinode \in [Inums -> Contents]
    /\ bitmap \in SUBSET Inums /\ entries \in SUBSET Inums
    /\ call \in [Tasks -> Calls]
    /\ clash \in Clashes /\ lost \in SUBSET Inums

\* The entries that close_inode() has taken off one list and not yet put on
\* the other.
Leaving == {call[t].x : t \in {u \in Tasks : call[u].pc \in {"free", "put"}}}

\* As long as nothing has clashed: an entry is open, free or on its way from
\* one to the other; no inode is in memory twice; its use_count counts the
\* references to it; the device's counts the entries that are not free.
InodesConsistent == clash = "none" =>
    /\ IsInjective(inode_open_list) /\ IsInjective(inode_free_list)
    /\ ToSet(inode_open_list) \cup ToSet(inode_free_list) \cup Leaving = Entries
    /\ ToSet(inode_open_list) \cap (ToSet(inode_free_list) \cup Leaving) = {}
    /\ \A x, y \in ToSet(inode_open_list) : core[x].inum = core[y].inum => x = y
    /\ \A x \in ToSet(inode_open_list) :
        core[x].use_count = Cardinality(References(x))
    /\ dev_use_count = 1 + NR_INODES - Len(inode_free_list)

\* A task asleep on an inode will be woken: another is reading that inode.
SleepersAreWoken == clash = "none" =>
    \A t \in Tasks : call[t].pc = "asleep" =>
        \E u \in Tasks : call[u].pc = "read" /\ call[u].x = call[t].x

\* An inode that is free on disk has no entry in the directory, and nobody has
\* it open: "Only deallocate the inode on disk when no one has it open."
FreeIsUnused == clash = "none" =>
    \A i \in Inums \ bitmap :
        /\ i \notin entries
        /\ \A t \in Tasks : call[t].pc \in HasPcs /\ call[t].n > 0 => core[call[t].x].inum # i

\* The inodes in memory stay sound while their users sleep: lists and counts
\* are right, nobody sleeps for ever, and what is free is used by nobody
\* (make_inode, close_inode, read_inode, delete_inode).
InodesSound == TypeOK /\ InodesConsistent /\ SleepersAreWoken /\ FreeIsUnused

\* What each inode holds, for those who use it, and what they do with it.
content ==
    [i \in Inums |->
        IF \E x \in open_inode(i) : ~core[x].locked
        THEN core[CHOOSE x \in open_inode(i) : ~core[x].locked].inode
        ELSE dinode[i]]

access ==
    [t \in Tasks |->
        IF call[t].pc \notin HasPcs \/ call[t].pc \in {"unlink", "free", "put"}
        THEN [op |-> "idle"]
        ELSE [op |-> IF call[t].pc = "dirty" THEN "wrote" ELSE "has",
              blk |-> core[call[t].x].inum]]

Store == INSTANCE BlockStore
    WITH Blocks <- Inums, Values <- Contents, failed <- {}

\* The inodes are a store: what a task writes into an inode all tasks see, and
\* it is still there when the inode is closed and opened again.
InodesKept ==
    /\ Store!Init
    /\ [][clash' = "none" => Store!Next \/ UNCHANGED Store!vars]_vars
=============================================================================
