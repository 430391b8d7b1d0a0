------------------------------- MODULE FileData -------------------------------
(***************************************************************************)
(* The data of files: fs/file.c, the part of fs/inode.c that finds and     *)
(* makes the blocks of a file, and the bitmap of blocks, fs/bitmap.c.      *)
(*                                                                         *)
(* Tasks read, write, seek, truncate and resize files that they have open  *)
(* for reading and writing, on a device without removable media.  Blocks   *)
(* are read and written through the buffer cache (which implements module  *)
(* BlockStore): here they change in one step.  Every loop of read_file()   *)
(* and write_file() is a walk from the inode over the indirect blocks to a *)
(* block of data, one step for each pointer, and other tasks run between   *)
(* the steps.  A position is private to its task.                          *)
(*                                                                         *)
(* A truncation goes over the blocks in the same way, one step for each.   *)
(* Any step that needs a block in a buffer may find none.                  *)
(*                                                                         *)
(* Nothing locks a file.  Tasks that have the same file open can clash in  *)
(* five ways, named by clash, and one of them, "uncleared", is also what a *)
(* task runs into when an indirect block was linked and could not be       *)
(* cleared; the model stops there, and the properties say that nothing     *)
(* else can go wrong.                                                      *)
(***************************************************************************)
EXTENDS Integers, Sequences, SequencesExt, FiniteSets, FiniteSetsExt

CONSTANTS
    Tasks, Files,
    Handles,        \* the ways in which the tasks may have files open
    data,           \* the word with which each task fills what it writes
    NR_BLOCKS,      \* blocks of data on the device
    FS_BLKSIZ,      \* words in a block, of the size of a block number
    SINGLE_INDIRECT,\* direct pointers in an inode
    Lens,           \* how many words a task reads or writes
    Places,         \* where it seeks to, and where it reads and writes
    Sizes,          \* what it makes the size of a file
    Stale,          \* what the blocks hold at first
    MaxCalls        \* how many calls there may be, and times that there is no buffer

ASSUME ParametersAssumption ==
    /\ NR_BLOCKS \in Nat \ {0} /\ FS_BLKSIZ \in Nat \ {0} /\ SINGLE_INDIRECT \in Nat \ {0}
    /\ IsFiniteSet(Tasks) /\ Lens \subseteq Nat /\ Places \subseteq Nat /\ Sizes \subseteq Nat
    /\ Handles \subseteq [Tasks -> Files] /\ data \in [Tasks -> Nat] /\ Stale \in Nat /\ MaxCalls \in Nat

VARIABLES
    bitmap,         \* the blocks allocated
    blk,            \* what each block holds: data, or block numbers
    inode,          \* the size and the pointers of each file
    file, pos,      \* the file each task has open, and where it is in it
    call,           \* what each task is doing
    lost,           \* blocks that no file has and that are not free
    garbled,        \* indirect blocks for which there was no buffer to clear them
    calls,          \* how many there have been
    clash           \* how two tasks have clashed

disk == <<bitmap, blk, inode, lost, garbled>>
vars == <<disk, file, pos, call, calls, clash>>

PTRS_PER_INDIRECT == FS_BLKSIZ
DOUBLE_INDIRECT == SINGLE_INDIRECT + 1
TRIPLE_INDIRECT == SINGLE_INDIRECT + 2

\* The data area starts behind the others, so no block is number 0.  Its first
\* block is the root directory's.
Blocks == 1..NR_BLOCKS
ROOT_BLK == 1
Offsets == 0..(FS_BLKSIZ - 1)
Pointers == 0..TRIPLE_INDIRECT
NoWords == [o \in Offsets |-> 0]

(* What a task is doing, with len words left to op ("read" or "write").
     loop      at the test of read_file()'s loop
     chunk     behind it, about to compute this_read
     walk      about to follow the first pointer of path in holder: a block,
               or 0 for the inode;  the next n words are at its end
     alloc     the pointer is 0, about to allocate a block for it
     clear     has stored a new block in it, about to fill that with zeros
     copy      has the block of data
     given     has copied n words to the caller
     end       behind write_file()'s loop;  set  the file has grown
     truncate  frees what the block at the end of path points to, that path
               being the pointers it has followed: <<>> for the inode
     failed    has given that up                                              *)
Idle == [pc |-> "idle"]
At(pc, op, len) == [pc |-> pc, op |-> op, len |-> len]
Walk(pc, op, len, n, holder, path) ==
    [pc |-> pc, op |-> op, len |-> len, n |-> n, holder |-> holder, path |-> path]
Truncating(path) == [pc |-> "truncate", op |-> "truncate", len |-> 0, path |-> path]
Given(len, words) == [pc |-> "given", op |-> "read", len |-> len, words |-> words]

Walking == {"walk", "alloc", "clear", "copy"}

Goto(t, c) == call' = [call EXCEPT ![t] = c] /\ UNCHANGED file
Clash(c) == clash' = c

-----------------------------------------------------------------------------
(* The bitmap.                                                              *)

\* The first free block and the bitmap with its bit set, which no other task
\* sees apart (bmap_alloc() does both inside forbid()).
alloc_block ==
    LET b == Min(Blocks \ bitmap) IN [blk |-> b, bitmap |-> bitmap \cup {b}]

-----------------------------------------------------------------------------
(* The blocks of a file.                                                    *)

\* Mutant: the blocks behind the first indirect block are counted from it.
Path_overlapping(n) ==
    LET P == PTRS_PER_INDIRECT
        s == n - SINGLE_INDIRECT
    IN  CASE n < SINGLE_INDIRECT -> <<n>>
          [] n >= SINGLE_INDIRECT /\ s < P -> <<SINGLE_INDIRECT, s>>
          [] OTHER -> <<DOUBLE_INDIRECT, (s \div P) % P, s % P>>

\* The offsets of the pointers that lead to block n of a file, the first of
\* them in the inode; none if no file has so many blocks.
Path(n) ==
    LET P == PTRS_PER_INDIRECT
        s == n - SINGLE_INDIRECT
        d == s - P
        t == d - P * P
    IN  CASE n < SINGLE_INDIRECT -> <<n>>
          [] s \in 0..(P - 1) -> <<SINGLE_INDIRECT, s>>
          [] d \in 0..(P * P - 1) -> <<DOUBLE_INDIRECT, d \div P, d % P>>
          [] t \in 0..(P * P * P - 1) ->
                <<TRIPLE_INDIRECT, t \div (P * P), (t \div P) % P, t % P>>
          [] OTHER -> <<>>

Pointer(f, holder, o) == IF holder = 0 THEN inode[f].data[o] ELSE blk[holder][o]

\* The blocks that a task has put into a pointer and not yet cleared, or never will.
Uncleared == {call[t].holder : t \in {u \in Tasks : call[u].pc = "clear"}} \cup garbled

\* The block to which path p of f leads, 0 where there is none: one of
\* read_file()'s walks, all at once.
Step(holder, o) == IF holder = 0 \/ holder \in Uncleared THEN 0 ELSE blk[holder][o]
block_of(f, p) ==
    LET d == inode[f].data
    IN  CASE Len(p) = 1 -> d[p[1]]
          [] Len(p) = 2 -> Step(d[p[1]], p[2])
          [] Len(p) = 3 -> Step(Step(d[p[1]], p[2]), p[3])
          [] Len(p) = 4 -> Step(Step(Step(d[p[1]], p[2]), p[3]), p[4])
          [] OTHER -> 0

\* The blocks to which the blocks of B, or pointer k of f's inode, point.
Below(B) == (UNION {ToSet(blk[b]) : b \in (B \cap Blocks) \ Uncleared}) \ {0}
Top(f, k) == {inode[f].data[k]} \ {0}

indirect_blocks(f) ==
    (UNION {Top(f, k) : k \in SINGLE_INDIRECT..TRIPLE_INDIRECT})
    \cup Below(Top(f, DOUBLE_INDIRECT) \cup Top(f, TRIPLE_INDIRECT))
    \cup Below(Below(Top(f, TRIPLE_INDIRECT)))

\* All blocks that belong to indirect pointer k of f.
Behind(f, k) ==
    LET single == Top(f, k)
        double == Below(single)
        triple == Below(double)
    IN  single \cup double \cup (IF k > SINGLE_INDIRECT THEN triple ELSE {})
        \cup (IF k > DOUBLE_INDIRECT THEN Below(triple) ELSE {})

\* t begins a round of its loop: n words, all in one block.
Chunk(t, len) == Min({len, FS_BLKSIZ - (pos[t] % FS_BLKSIZ)})
Start(t, op, len, n) ==
    Walk("walk", op, len, n, 0, Path(pos[t] \div FS_BLKSIZ))

\* What follows a write: the next round, or the end.  pos' is as it has become.
WriteOn(t, len) ==
    IF len = 0 THEN At("end", "write", 0)
    ELSE Walk("walk", "write", len, Min({len, FS_BLKSIZ - (pos'[t] % FS_BLKSIZ)}), 0,
              Path(pos'[t] \div FS_BLKSIZ))

\* Another task that has t's file open is on its way through the file's blocks,
\* or frees them.
Others(t) == {u \in Tasks \ {t} : file[u] = file[t]}
BeingFreed(t) == \E u \in Others(t) : call[u].pc = "truncate"
InUse(t) == BeingFreed(t) \/ \E u \in Others(t) : call[u].pc \in Walking

\* read_file() returns what it has read so far.
GiveUp(t) == Goto(t, IF call[t].op = "read" THEN Idle ELSE At("end", "write", 0))

\* No block of a file is so far.
TooFar(t) ==
    /\ call[t].pc = "walk" /\ call[t].path = <<>>
    /\ GiveUp(t)
    /\ UNCHANGED <<disk, pos, clash>>

\* bread() or bwrite() finds no buffer, or the device fails: for an indirect
\* block, for the bitmap, for a new indirect block, which stays in its pointer
\* as it is, or for the block of data.
NoBuffer(t) ==
    LET c == call[t]
    IN  /\ c.pc \in Walking /\ (c.pc = "walk" => c.path # <<>> /\ c.holder # 0)
        /\ garbled' = garbled \cup (IF c.pc = "clear" THEN {c.holder} ELSE {})
        /\ GiveUp(t)
        /\ UNCHANGED <<bitmap, blk, inode, lost, pos, clash>>

\* The pointer leads on: to the next, or to the data.  The race "uncleared":
\* another task has just made the block in which t looks, or never cleared it.
Follow(t) ==
    LET c == call[t]
        b == Pointer(file[t], c.holder, Head(c.path))
    IN  /\ c.pc = "walk" /\ c.path # <<>>
        /\ IF c.holder \in Uncleared
           THEN Clash("uncleared") /\ UNCHANGED <<call, file>>
           ELSE /\ b # 0
                /\ Goto(t, [c EXCEPT !.pc = IF Len(c.path) = 1 THEN "copy" ELSE "walk",
                                     !.holder = b, !.path = Tail(@)])
                /\ UNCHANGED clash
        /\ UNCHANGED <<disk, pos>>

\* The pointer is 0.  A reader is given zeros; a writer allocates a block.
Missing(t) ==
    LET c == call[t]
    IN  /\ c.pc = "walk" /\ c.path # <<>> /\ c.holder \notin Uncleared
        /\ Pointer(file[t], c.holder, Head(c.path)) = 0
        /\ IF c.op = "read"
           THEN /\ Goto(t, Given(c.len - c.n, [i \in 1..c.n |-> 0]))
                /\ pos' = [pos EXCEPT ![t] = @ + c.n]
           ELSE Goto(t, [c EXCEPT !.pc = "alloc"]) /\ UNCHANGED pos
        /\ UNCHANGED <<disk, clash>>

\* Mutant: an indirect block is used as it is found.
AfterAlloc_uncleared(c, b) ==
    [c EXCEPT !.pc = IF Len(c.path) = 1 THEN "copy" ELSE "walk",
              !.holder = b, !.path = Tail(@)]

\* A new indirect block is cleared, a new block of data is not.
AfterAlloc(c, b) ==
    [c EXCEPT !.pc = IF Len(c.path) = 1 THEN "copy" ELSE "clear",
              !.holder = b, !.path = Tail(@)]

\* The block is allocated and the pointer to it stored.  The race "twice":
\* another task has done the same since t looked.
Allocate(t) ==
    LET c == call[t]
        o == Head(c.path)
        f == file[t]
    IN  /\ c.pc = "alloc" /\ bitmap # Blocks
        /\ IF Pointer(f, c.holder, o) # 0
           THEN Clash("twice") /\ UNCHANGED <<call, file, disk>>
           ELSE LET a == alloc_block
                IN  /\ bitmap' = a.bitmap
                    /\ IF c.holder = 0
                       THEN inode' = [inode EXCEPT ![f].data[o] = a.blk] /\ UNCHANGED blk
                       ELSE blk' = [blk EXCEPT ![c.holder][o] = a.blk] /\ UNCHANGED inode
                    /\ Goto(t, AfterAlloc(c, a.blk))
                    /\ UNCHANGED <<lost, garbled, clash>>
        /\ UNCHANGED pos

\* E_NOSPC: what has been allocated on the way stays.
NoSpace(t) ==
    /\ call[t].pc = "alloc" /\ bitmap = Blocks
    /\ Goto(t, At("end", "write", 0))
    /\ UNCHANGED <<disk, pos, clash>>

Clear(t) ==
    /\ call[t].pc = "clear"
    /\ blk' = [blk EXCEPT ![call[t].holder] = NoWords]
    /\ Goto(t, [call[t] EXCEPT !.pc = "walk"])
    /\ UNCHANGED <<bitmap, inode, lost, garbled, pos, clash>>

-----------------------------------------------------------------------------
(* The operations of a file.                                                *)

seek_file(t, p) ==
    /\ call[t] = Idle /\ p <= inode[file[t]].size
    /\ pos' = [pos EXCEPT ![t] = p]
    /\ UNCHANGED <<disk, file, call, clash>>

read_file(t, len) ==
    /\ call[t] = Idle
    /\ Goto(t, At("loop", "read", len))
    /\ UNCHANGED <<disk, pos, clash>>

ReadTest(t) ==
    /\ call[t].pc \in {"loop", "given"}
    /\ Goto(t, IF call[t].len > 0 /\ pos[t] < inode[file[t]].size
               THEN At("chunk", "read", call[t].len) ELSE Idle)
    /\ UNCHANGED <<disk, pos, clash>>

\* The race "negative": the file has been made shorter since the test, and
\* this_read, of which memcpy() is going to move so many, is below zero.  The
\* race "freed": another task is freeing the blocks, and zeroes each pointer
\* only when the block may already belong to another file.
ReadChunk(t) ==
    LET len == call[t].len
        rest == inode[file[t]].size - pos[t]
    IN  /\ call[t].pc = "chunk"
        /\ IF rest < 0
           THEN Clash("negative") /\ UNCHANGED <<call, file>>
           ELSE IF BeingFreed(t) THEN Clash("freed") /\ UNCHANGED <<call, file>>
           ELSE Goto(t, Start(t, "read", len, Min({Chunk(t, len), rest}))) /\ UNCHANGED clash
        /\ UNCHANGED <<disk, pos>>

ReadCopy(t) ==
    LET c == call[t]
    IN  /\ c.pc = "copy" /\ c.op = "read"
        /\ Goto(t, Given(c.len - c.n,
                         [i \in 1..c.n |-> blk[c.holder][(pos[t] + i - 1) % FS_BLKSIZ]]))
        /\ pos' = [pos EXCEPT ![t] = @ + c.n]
        /\ UNCHANGED <<disk, clash>>

write_file(t, len) ==
    /\ call[t] = Idle
    /\ IF BeingFreed(t) THEN Clash("freed") /\ UNCHANGED <<call, file>>
       ELSE Goto(t, Start(t, "write", len, Chunk(t, len))) /\ UNCHANGED clash
    /\ UNCHANGED <<disk, pos>>

\* A whole block by bwrite(), or a part of one.
WriteCopy(t) ==
    LET c == call[t]
        put == {(pos[t] + i) % FS_BLKSIZ : i \in 0..(c.n - 1)}
    IN  /\ c.pc = "copy" /\ c.op = "write"
        /\ blk' = [blk EXCEPT ![c.holder] =
                     [o \in Offsets |-> IF o \in put THEN data[t] ELSE @[o]]]
        /\ pos' = [pos EXCEPT ![t] = @ + c.n]
        /\ Goto(t, WriteOn(t, c.len - c.n))
        /\ UNCHANGED <<bitmap, inode, lost, garbled, clash>>

\* Whether or not anything has been written.
WriteEnd(t) ==
    /\ call[t].pc = "end"
    /\ Goto(t, IF pos[t] > inode[file[t]].size THEN At("set", "write", 0) ELSE Idle)
    /\ UNCHANGED <<disk, pos, clash>>

\* The race "shrunk": another task has made the file longer since.
WriteSize(t) ==
    /\ call[t].pc = "set"
    /\ IF inode[file[t]].size > pos[t]
       THEN Clash("shrunk") /\ UNCHANGED <<call, file, disk>>
       ELSE /\ inode' = [inode EXCEPT ![file[t]].size = pos[t]]
            /\ Goto(t, Idle)
            /\ UNCHANGED <<bitmap, blk, lost, garbled, clash>>
    /\ UNCHANGED pos

-----------------------------------------------------------------------------
(* truncate_file(): delete_inode_data() and delete_indirect_blocks().       *)

\* The race "freed": another task is about to use a block of the file, or is
\* freeing them itself.
truncate_file(t) ==
    /\ call[t] = Idle
    /\ IF InUse(t) THEN Clash("freed") /\ UNCHANGED <<call, file>>
       ELSE Goto(t, Truncating(<<>>)) /\ UNCHANGED clash
    /\ UNCHANGED <<disk, pos>>

\* The block in which t is, and its pointers that are left.  Those before them
\* are 0 by now, and nobody else changes one: that would be a clash.
Inside(f, p) == IF p = <<>> THEN 0 ELSE block_of(f, p)
Left(f, p) ==
    {o \in IF p = <<>> THEN Pointers ELSE Offsets : Pointer(f, Inside(f, p), o) # 0}
FirstLeft(f, p) == Append(p, Min(Left(f, p)))

\* Path p leads to a block of data.
ToData(p) == p[1] < SINGLE_INDIRECT \/ Len(p) = p[1] - SINGLE_INDIRECT + 2

Truncates(t) == call[t].pc = "truncate"

\* The pointer at the end of path p is set to 0.
Cut(f, p) ==
    IF Len(p) = 1
    THEN inode' = [inode EXCEPT ![f].data[p[1]] = 0] /\ UNCHANGED blk
    ELSE blk' = [blk EXCEPT ![Inside(f, Front(p))][Last(p)] = 0] /\ UNCHANGED inode

\* A block of data is freed and the pointer to it is set to 0: in between
\* nobody looks at the pointer, or there is a clash.
FreeData(t) ==
    LET f == file[t]
        p == call[t].path
        q == FirstLeft(f, p)
    IN  /\ Truncates(t) /\ Left(f, p) # {} /\ ToData(q)
        /\ bitmap' = bitmap \ {block_of(f, q)} /\ Cut(f, q)
        /\ UNCHANGED <<lost, garbled, file, pos, call, clash>>

\* free_block() finds no buffer for the bitmap, and nobody looks at its answer.
FreeFails(t) ==
    LET f == file[t]
        p == call[t].path
        q == FirstLeft(f, p)
    IN  /\ Truncates(t) /\ Left(f, p) # {} /\ ToData(q)
        /\ lost' = lost \cup {block_of(f, q)} /\ Cut(f, q)
        /\ UNCHANGED <<bitmap, garbled, file, pos, call, clash>>

\* delete_indirect_blocks() is called for the next pointer.
Enter(t) ==
    LET f == file[t]
        p == call[t].path
        q == FirstLeft(f, p)
    IN  /\ Truncates(t) /\ Left(f, p) # {} /\ ~ToData(q)
        /\ IF block_of(f, q) \in Uncleared
           THEN Clash("uncleared") /\ UNCHANGED <<call, file>>
           ELSE Goto(t, Truncating(q)) /\ UNCHANGED clash
        /\ UNCHANGED <<disk, pos>>

\* There it finds no buffer and returns FALSE, as does every call around it:
\* the inode's pointer is set to 0 all the same, what is behind it is lost, and
\* the pointers after it stay, in a file of size 0.
EnterFails(t) ==
    LET f == file[t]
        p == call[t].path
        q == FirstLeft(f, p)
    IN  /\ Truncates(t) /\ Left(f, p) # {} /\ ~ToData(q)
        /\ inode' = [inode EXCEPT ![f].data[q[1]] = 0, ![f].size = 0]
        /\ lost' = lost \cup Behind(f, q[1])
        /\ Goto(t, At("failed", "failed", 0))
        /\ UNCHANGED <<bitmap, blk, garbled, pos, clash>>

\* It returns: the indirect block, empty by now, is never freed.
Leave(t) ==
    LET f == file[t]
        p == call[t].path
    IN  /\ Truncates(t) /\ Left(f, p) = {} /\ p # <<>>
        /\ Cut(f, p) /\ lost' = lost \cup {Inside(f, p)}
        /\ Goto(t, Truncating(Front(p)))
        /\ UNCHANGED <<bitmap, garbled, pos, clash>>

TruncateEnd(t) ==
    /\ Truncates(t) /\ call[t].path = <<>> /\ Left(file[t], <<>>) = {}
    /\ inode' = [inode EXCEPT ![file[t]].size = 0]
    /\ Goto(t, Idle)
    /\ UNCHANGED <<bitmap, blk, lost, garbled, pos, clash>>

TruncateFailed(t) ==
    /\ call[t].pc = "failed"
    /\ Goto(t, Idle)
    /\ UNCHANGED <<disk, pos, clash>>

\* Only the size: no block is freed, allocated or cleared.
set_file_size(t, size) ==
    /\ call[t] = Idle
    /\ inode' = [inode EXCEPT ![file[t]].size = size]
    /\ UNCHANGED <<bitmap, blk, lost, garbled, file, pos, call, clash>>

-----------------------------------------------------------------------------
\* mkfs() and new files, some of them with a size: the blocks hold what they
\* held before.
Init ==
    /\ bitmap = {ROOT_BLK} /\ lost = {} /\ garbled = {}
    /\ blk = [b \in Blocks |-> [o \in Offsets |-> Stale]]
    /\ \E size \in {0} \cup Sizes :
        inode = [f \in Files |-> [size |-> size, data |-> [k \in Pointers |-> 0]]]
    /\ file \in Handles /\ pos = [t \in Tasks |-> 0]
    /\ call = [t \in Tasks |-> Idle] /\ calls = 0 /\ clash = "none"

get_data_blkno(t) ==
    TooFar(t) \/ Follow(t) \/ Missing(t) \/ Allocate(t) \/ NoSpace(t) \/ Clear(t)
Reading(t) == ReadTest(t) \/ ReadChunk(t) \/ ReadCopy(t)
WritingOn(t) == WriteCopy(t) \/ WriteEnd(t) \/ WriteSize(t)
delete_inode_data(t) ==
    FreeData(t) \/ Enter(t) \/ Leave(t) \/ TruncateEnd(t) \/ TruncateFailed(t)
Failing(t) == NoBuffer(t) \/ FreeFails(t) \/ EnterFails(t)
Call(t) ==
    \/ \E len \in Lens : pos[t] \in Places /\ (read_file(t, len) \/ write_file(t, len))
    \/ truncate_file(t)
    \/ \E p \in Places : seek_file(t, p)
    \/ \E n \in Sizes : set_file_size(t, n)

Next ==
    \/ clash = "none" /\ \E t \in Tasks :
        \/ get_data_blkno(t) /\ UNCHANGED calls
        \/ (Reading(t) \/ WritingOn(t) \/ delete_inode_data(t)) /\ UNCHANGED calls
        \/ calls < MaxCalls /\ (Call(t) \/ Failing(t)) /\ calls' = calls + 1
    \/ clash # "none" /\ UNCHANGED vars
    \/ calls = MaxCalls /\ (\A t \in Tasks : call[t] = Idle) /\ UNCHANGED vars

Spec == Init /\ [][Next]_vars

-----------------------------------------------------------------------------
\* The pointers of f and of its indirect blocks that are not 0, but for those
\* in a block that is still to be cleared.
References ==
    {<<f, 0, k>> : f \in Files, k \in Pointers} \cup
    {<<f, b, o>> : f \in Files, b \in Blocks, o \in Offsets}
Live(f) == {r \in References :
    /\ r[1] = f
    /\ r[2] = 0 \/ r[2] \in indirect_blocks(f) \ Uncleared
    /\ Pointer(f, r[2], r[3]) # 0}

\* As long as nothing has clashed: every pointer of a file, in its inode or in
\* an indirect block, leads to a block of the data area that is allocated and
\* to which no other pointer leads, be it in the same file or in another; and
\* a block that is allocated but in no file is one that delete_inode_data() has
\* left behind: an indirect block, or one whose bit or pointer it could not reach.
BlocksOwned == clash = "none" =>
    LET live == UNION {Live(f) : f \in Files}
        target(r) == Pointer(r[1], r[2], r[3])
    IN  /\ \A r, s \in live : target(r) = target(s) => r = s
        /\ bitmap = {target(r) : r \in live} \cup lost \cup {ROOT_BLK}
        /\ \A r \in live : target(r) \in Blocks \ (lost \cup {ROOT_BLK})

-----------------------------------------------------------------------------
(* What FlatFiles calls the content of a file.                              *)

\* The paths to all blocks that a file can have.
Paths ==
    LET P == PTRS_PER_INDIRECT
    IN  [n \in 0..(SINGLE_INDIRECT + P + P * P + P * P * P - 1) |-> Path(n)]

\* As far as its size, and as far as a task that writes has come, which is
\* going to be its size.
Writers(f) == {t \in Tasks : file[t] = f /\ call[t].pc # "idle" /\ call[t].op = "write"}
Extent(f) == Max({inode[f].size} \cup {pos[t] : t \in Writers(f)})

Hole == -1
Content(f) ==
    LET blocks == [n \in DOMAIN Paths |-> block_of(f, Paths[n])]
        word(i) == LET n == i \div FS_BLKSIZ
                   IN  IF n \in DOMAIN Paths /\ blocks[n] # 0 THEN blk[blocks[n]][i % FS_BLKSIZ]
                       ELSE Hole
    IN  [i \in 1..Extent(f) |-> word(i - 1)]

Todo(c) == IF c.pc = "idle" THEN [op |-> "none", left |-> 0] ELSE [op |-> c.op, left |-> c.len]
View(c) == IF c.pc = "given" THEN c.words ELSE <<>>

content == [f \in Files |-> Content(f)]
todo == [t \in Tasks |-> Todo(call[t])]
view == [t \in Tasks |-> View(call[t])]
Flat == INSTANCE FlatFiles

\* As long as nothing has clashed: tasks that read and write files, their
\* walks through the blocks interleaved, see what FlatFiles promises.  What
\* has been written is read back from where it has been written, with every
\* block that lies between, and no other file calls.
ImplementsFlatFiles == Flat!Init /\ [][clash' = "none" => Flat!Next]_Flat!vars
=============================================================================
