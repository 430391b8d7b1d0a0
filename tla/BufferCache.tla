------------------------------ MODULE BufferCache ------------------------------
(***************************************************************************)
(* The buffer cache of the file system, fs/buffer.c, over a device that    *)
(* serves its requests in order (vmm/blkdev.h) and may fail.               *)
(*                                                                         *)
(* bread() and bwrite() run inside forbid(): nothing else runs until they  *)
(* sleep, so what they do between two sleeps is one step.  bdirty() and    *)
(* brelse() may be preempted between any two of their statements.  A task  *)
(* uses one buffer at a time.                                              *)
(*                                                                         *)
(* The devices are the ones without removable media (test_media() returns  *)
(* TRUE, no buffer is invalidated); a block stands for a device and a      *)
(* block number.  LAZY_WRITES is not defined.                              *)
(***************************************************************************)
EXTENDS Naturals, Sequences, SequencesExt, FiniteSetsExt

CONSTANTS
    Tasks, Blocks, Values,
    Sizes,              \* the numbers of buffers to consider, 20 in the code
    BUFFER_BUCKETS,
    BUFFER_HASH,        \* the bucket of each block
    NoBlock,            \* the block of a buffer that has held none
    Fragile             \* the blocks on which the device may fail

ASSUME ParametersAssumption ==
    /\ Sizes \subseteq Nat /\ BUFFER_BUCKETS \in Nat \ {0}
    /\ BUFFER_HASH \in [Blocks -> 0..(BUFFER_BUCKETS - 1)]
    /\ NoBlock \notin Blocks /\ Values # {} /\ Fragile \subseteq Blocks
    /\ IsFiniteSet(Tasks)

VARIABLES
    NR_BUFFERS,     \* how many buffers there are, which never changes
    buffer_table,   \* the buffers in each bucket, last used first
    bh_free_list,   \* the buffers that hold nothing
    last_bucket,    \* where make_free_buffer() left off
    buf,            \* the buffers, struct buf_head
    disk,           \* what each block holds on its device
    requests,       \* the device's queue of requests
    call,           \* what each task is doing
    failed          \* the blocks on which the device has reported an error

cache == <<buffer_table, bh_free_list, last_bucket, buf>>
vars == <<NR_BUFFERS, cache, disk, requests, call, failed>>

Buffers == 1..NR_BUFFERS
Buckets == 0..(BUFFER_BUCKETS - 1)

\* struct buf_head
BufHeads == [blkno : Blocks \cup {NoBlock}, use_count : Nat,
             dirty : BOOLEAN, locked : BOOLEAN, data : Values]

(* What a task is doing.
     idle      outside the cache
     asleep    in bread() or bwrite(), on the locked_tasks of x
     again     woken, about to look for blk again
     reading   waiting for the device to fill x;  read  the device has
     held      bread() has returned x;  modified  it has changed x's data
     clear     about to clear x's dirty flag and
     submit    to write x
     writing   waiting for the device to store x;  then is what follows
     brelse    at the start of brelse(x);  release  at its last statement   *)
Idle == [pc |-> "idle"]
Again(op) == [pc |-> "again", op |-> op]
Asleep(op, x) == [pc |-> "asleep", op |-> op, x |-> x]
Using(pc, x) == [pc |-> pc, x |-> x]
Writing(pc, x, then) == [pc |-> pc, x |-> x, then |-> then]

Read(b) == [name |-> "bread", blk |-> b]
Write(b, v) == [name |-> "bwrite", blk |-> b, data |-> v]
Ops == {Read(b) : b \in Blocks} \cup {Write(b, v) : b \in Blocks, v \in Values}

Calls ==
    {Idle} \cup {Again(op) : op \in Ops} \cup {Asleep(op, x) : op \in Ops, x \in Buffers}
    \cup {Using(pc, x) : pc \in {"reading", "read", "held", "modified", "brelse", "release"},
                         x \in Buffers}
    \cup {Writing(pc, x, then) : pc \in {"clear", "submit", "writing"}, x \in Buffers,
                                 then \in {"held", "release"}}

Become(calls) == call' = calls /\ UNCHANGED NR_BUFFERS
Goto(t, c) == Become([call EXCEPT ![t] = c])

\* The tasks that have a reference to x, counted in its use_count.
UsingCalls == {"reading", "read", "held", "modified", "brelse", "release",
               "clear", "submit", "writing"}
Users(x) == {t \in Tasks : call[t].pc \in UsingCalls /\ call[t].x = x}

-----------------------------------------------------------------------------
(* Finding and making buffers.                                              *)

\* The buffers a walk along b's bucket could return; CacheConsistent says
\* that there is one at most.
find_buffer(b) == {x \in ToSet(buffer_table[BUFFER_HASH[b]]) : buf[x].blkno = b}

\* The positions in bucket i of the buffers nobody uses.
unused(i) == {n \in DOMAIN buffer_table[i] : buf[buffer_table[i][n]].use_count = 0}

\* The numbers of buckets to go on from last_bucket to one with such a buffer.
tries == {n \in 1..BUFFER_BUCKETS : unused((last_bucket + n) % BUFFER_BUCKETS) # {}}

\* The lists as they are, and after the buffer at position n of bucket i has
\* been moved to the free list.
Lists0 == [table |-> buffer_table, free |-> bh_free_list, last |-> last_bucket]
Moved(i, n) == [table |-> [buffer_table EXCEPT ![i] = RemoveAt(@, n)],
                free |-> <<buffer_table[i][n]>>, last |-> i]

\* Mutant: the last buffer of a bucket is evicted, in use or not.
make_free_buffer_used ==
    LET full == {i \in Buckets : buffer_table[i] # <<>>}
    IN  IF full = {} THEN Lists0
        ELSE Moved(Min(full), Len(buffer_table[Min(full)]))

\* The unused buffer nearest to the end of the next bucket that has one is
\* moved to the free list.  It is never dirty (UnusedIsClean): nothing is
\* written and nobody sleeps.
make_free_buffer ==
    IF tries = {} THEN Lists0
    ELSE LET i == (last_bucket + Min(tries)) % BUFFER_BUCKETS
         IN  Moved(i, Max(unused(i)))

\* The lists from which a new buffer is taken.
lists == IF bh_free_list = <<>> THEN make_free_buffer ELSE Lists0

\* x, the first free buffer, is put at the head of the bucket of b and made
\* head.
new_buffer(x, b, head) ==
    /\ lists.free # <<>> /\ x = Head(lists.free)
    /\ bh_free_list' = Tail(lists.free)
    /\ buffer_table' = [lists.table EXCEPT ![BUFFER_HASH[b]] = <<x>> \o @]
    /\ last_bucket' = lists.last
    /\ buf' = [buf EXCEPT ![x] = head]

\* x is found: one more user, and moved to the head of its bucket.
found_buffer(x, head) ==
    /\ buffer_table' = [buffer_table EXCEPT ![BUFFER_HASH[buf[x].blkno]] = <<x>> \o RemoveFirst(@, x)]
    /\ buf' = [buf EXCEPT ![x] = head]
    /\ UNCHANGED <<bh_free_list, last_bucket>>

-----------------------------------------------------------------------------
(* bread() and bwrite().                                                    *)

\* t enters with op, or has been woken and starts again.
Looks(t, op) == call[t] \in {Idle, Again(op)}

\* The buffer is locked: another task waits for the device to fill it.
Sleep(t, op) ==
    /\ Looks(t, op)
    /\ \E x \in find_buffer(op.blk) :
        /\ buf[x].locked
        /\ Goto(t, Asleep(op, x))
    /\ UNCHANGED <<cache, disk, requests, failed>>

\* There is no buffer to be had: NULL, or FALSE, is returned.
NoBuffer(t, op) ==
    /\ Looks(t, op)
    /\ find_buffer(op.blk) = {} /\ lists.free = <<>>
    /\ Goto(t, Idle)
    /\ UNCHANGED <<cache, disk, requests, failed>>

\* Mutant: the tasks that want a buffer being filled find it unlocked.
bread_miss_unlocked(t, b) ==
    /\ Looks(t, Read(b)) /\ find_buffer(b) = {}
    /\ \E x \in Buffers :
        /\ new_buffer(x, b, [blkno |-> b, use_count |-> 1, dirty |-> FALSE,
                             locked |-> FALSE, data |-> buf[x].data])
        /\ requests' = Append(requests, [task |-> t, op |-> "read", x |-> x])
        /\ Goto(t, Using("reading", x))
    /\ UNCHANGED <<disk, failed>>

\* Not cached: a new buffer is locked and filled by the device.
bread_miss(t, b) ==
    /\ Looks(t, Read(b)) /\ find_buffer(b) = {}
    /\ \E x \in Buffers :
        /\ new_buffer(x, b, [blkno |-> b, use_count |-> 1, dirty |-> FALSE,
                             locked |-> TRUE, data |-> buf[x].data])
        /\ requests' = Append(requests, [task |-> t, op |-> "read", x |-> x])
        /\ Goto(t, Using("reading", x))
    /\ UNCHANGED <<disk, failed>>

\* Cached: the buffer is returned at once.
bread_hit(t, b) ==
    /\ Looks(t, Read(b))
    /\ \E x \in find_buffer(b) :
        /\ ~buf[x].locked
        /\ found_buffer(x, [buf[x] EXCEPT !.use_count = @ + 1])
        /\ Goto(t, Using("held", x))
    /\ UNCHANGED <<disk, requests, failed>>

\* Mutant: the buffer is unlocked but those who wait for it are not woken.
bread_filled_unwoken(t) ==
    /\ call[t].pc = "read"
    /\ buf' = [buf EXCEPT ![call[t].x].locked = FALSE]
    /\ Goto(t, Using("held", call[t].x))
    /\ UNCHANGED <<buffer_table, bh_free_list, last_bucket, disk, requests, failed>>

\* The device has answered.  The codes of errors are positive and the test is
\* ERRNO < 0, so the buffer is returned whatever the answer.
bread_filled(t) ==
    /\ call[t].pc = "read"
    /\ LET x == call[t].x
       IN  /\ buf' = [buf EXCEPT ![x].locked = FALSE]
           /\ Become([u \in Tasks |->
                        IF u = t THEN Using("held", x)
                        ELSE IF call[u].pc = "asleep" /\ call[u].x = x
                        THEN Again(call[u].op) ELSE call[u]])
    /\ UNCHANGED <<buffer_table, bh_free_list, last_bucket, disk, requests, failed>>

\* The whole block is replaced in the cache, then brelse() writes it.
bwrite_hit(t, b, v) ==
    /\ Looks(t, Write(b, v))
    /\ \E x \in find_buffer(b) :
        /\ ~buf[x].locked
        /\ found_buffer(x, [buf[x] EXCEPT !.use_count = @ + 1, !.dirty = TRUE, !.data = v])
        /\ Goto(t, Using("brelse", x))
    /\ UNCHANGED <<disk, requests, failed>>

bwrite_miss(t, b, v) ==
    /\ Looks(t, Write(b, v)) /\ find_buffer(b) = {}
    /\ \E x \in Buffers :
        /\ new_buffer(x, b, [blkno |-> b, use_count |-> 1, dirty |-> TRUE,
                             locked |-> FALSE, data |-> v])
        /\ Goto(t, Using("brelse", x))
    /\ UNCHANGED <<disk, requests, failed>>

-----------------------------------------------------------------------------
(* What a task does with a buffer it has.                                   *)

\* The caller of bread() changes the data, as get_inode_blkno(), bmap_alloc()
\* and write_file() do, and then calls bdirty().
Modify(t, v) ==
    /\ call[t].pc = "held"
    /\ buf' = [buf EXCEPT ![call[t].x].data = v]
    /\ Goto(t, Using("modified", call[t].x))
    /\ UNCHANGED <<buffer_table, bh_free_list, last_bucket, disk, requests, failed>>

bdirty(t, write_now) ==
    /\ call[t].pc = "modified"
    /\ buf' = [buf EXCEPT ![call[t].x].dirty = TRUE]
    /\ Goto(t, IF write_now THEN Writing("clear", call[t].x, "held")
                            ELSE Using("held", call[t].x))
    /\ UNCHANGED <<buffer_table, bh_free_list, last_bucket, disk, requests, failed>>

\* dirty is cleared before the write, for those who set it meanwhile.
ClearDirty(t) ==
    /\ call[t].pc = "clear"
    /\ buf' = [buf EXCEPT ![call[t].x].dirty = FALSE]
    /\ Goto(t, [call[t] EXCEPT !.pc = "submit"])
    /\ UNCHANGED <<buffer_table, bh_free_list, last_bucket, disk, requests, failed>>

Submit(t) ==
    /\ call[t].pc = "submit"
    /\ requests' = Append(requests, [task |-> t, op |-> "write", x |-> call[t].x])
    /\ Goto(t, [call[t] EXCEPT !.pc = "writing"])
    /\ UNCHANGED <<cache, disk, failed>>

\* Mutant: the reference is given up before the data has been written.
brelse_early(t) ==
    /\ call[t].pc \in {"held", "brelse"}
    /\ LET x == call[t].x
       IN  /\ Goto(t, IF buf[x].dirty THEN Writing("clear", x, "release")
                                      ELSE Idle)
           /\ buf' = [buf EXCEPT ![x].use_count = @ - 1]
    /\ UNCHANGED <<buffer_table, bh_free_list, last_bucket, disk, requests, failed>>

\* brelse() tests dirty, and writes a dirty buffer through ...
brelse(t) ==
    /\ call[t].pc \in {"held", "brelse"}
    /\ LET x == call[t].x
       IN  Goto(t, IF buf[x].dirty THEN Writing("clear", x, "release")
                                   ELSE Using("release", x))
    /\ UNCHANGED <<cache, disk, requests, failed>>

\* ... before it gives the reference up.
Release(t) ==
    /\ call[t].pc = "release"
    /\ buf' = [buf EXCEPT ![call[t].x].use_count = @ - 1]
    /\ Goto(t, Idle)
    /\ UNCHANGED <<buffer_table, bh_free_list, last_bucket, disk, requests, failed>>

-----------------------------------------------------------------------------
(* The device serves the first request and wakes the task that made it.  An *)
(* error leaves anything in the buffer, or on the disk, and is not noticed. *)

DeviceRead(v, ok) ==
    /\ requests # <<>> /\ Head(requests).op = "read"
    /\ LET r == Head(requests)
           b == buf[r.x].blkno
       IN  /\ IF ok THEN v = disk[b] ELSE b \in Fragile
           /\ buf' = [buf EXCEPT ![r.x].data = v]
           /\ failed' = IF ok THEN failed ELSE failed \cup {b}
           /\ Goto(r.task, Using("read", r.x))
    /\ requests' = Tail(requests)
    /\ UNCHANGED <<buffer_table, bh_free_list, last_bucket, disk>>

DeviceWrite(v, ok) ==
    /\ requests # <<>> /\ Head(requests).op = "write"
    /\ LET r == Head(requests)
           b == buf[r.x].blkno
       IN  /\ IF ok THEN v = buf[r.x].data ELSE b \in Fragile
           /\ disk' = [disk EXCEPT ![b] = v]
           /\ failed' = IF ok THEN failed ELSE failed \cup {b}
           /\ Goto(r.task, Using(call[r.task].then, r.x))
    /\ requests' = Tail(requests)
    /\ UNCHANGED cache

-----------------------------------------------------------------------------
\* init_buffers(); the disks hold anything.
Init ==
    /\ NR_BUFFERS \in Sizes
    /\ buffer_table = [i \in Buckets |-> <<>>]
    /\ bh_free_list = [n \in Buffers |-> n]
    /\ last_bucket = 0
    /\ \E v \in Values :
        buf = [x \in Buffers |-> [blkno |-> NoBlock, use_count |-> 0, dirty |-> FALSE,
                                  locked |-> FALSE, data |-> v]]
    /\ disk \in [Blocks -> Values]
    /\ requests = <<>>
    /\ call = [t \in Tasks |-> Idle]
    /\ failed = {}

Enter(t) ==
    \/ \E op \in Ops : Sleep(t, op) \/ NoBuffer(t, op)
    \/ \E b \in Blocks : bread_miss(t, b) \/ bread_hit(t, b)
    \/ \E b \in Blocks, v \in Values : bwrite_hit(t, b, v) \/ bwrite_miss(t, b, v)

Use(t) ==
    \/ bread_filled(t) \/ ClearDirty(t) \/ Submit(t) \/ brelse(t) \/ Release(t)
    \/ \E v \in Values : Modify(t, v)
    \/ \E now \in BOOLEAN : bdirty(t, now)

Device == \E v \in Values, ok \in BOOLEAN : DeviceRead(v, ok) \/ DeviceWrite(v, ok)

Next == (\E t \in Tasks : Enter(t) \/ Use(t)) \/ Device

Spec == Init /\ [][Next]_vars

-----------------------------------------------------------------------------
\* The types of the variables.
TypeOK ==
    /\ NR_BUFFERS \in Sizes
    /\ buffer_table \in [Buckets -> Seq(Buffers)]
    /\ bh_free_list \in Seq(Buffers)
    /\ last_bucket \in Buckets
    /\ buf \in [Buffers -> BufHeads]
    /\ disk \in [Blocks -> Values]
    /\ requests \in Seq([task : Tasks, op : {"read", "write"}, x : Buffers])
    /\ call \in [Tasks -> Calls]
    /\ failed \in SUBSET Blocks

Cached == UNION {ToSet(buffer_table[i]) : i \in Buckets}

\* Every buffer is once on the free list or in one bucket, the one of its
\* block; no block is in two buffers; and a buffer is used by as many tasks as
\* its use_count says, so none of them can lose it to another block: bread()
\* and bwrite() give out the block that was asked for, and the same buffer to
\* all who ask for it.
CacheConsistent ==
    /\ IsInjective(bh_free_list) /\ ToSet(bh_free_list) \cup Cached = Buffers
    /\ \A i \in Buckets :
        /\ IsInjective(buffer_table[i])
        /\ \A x \in ToSet(buffer_table[i]) :
            /\ x \notin ToSet(bh_free_list)
            /\ buf[x].blkno \in Blocks /\ BUFFER_HASH[buf[x].blkno] = i
    /\ \A x, y \in Cached : buf[x].blkno = buf[y].blkno => x = y
    /\ \A x \in Buffers :
        buf[x].use_count = IF x \in Cached THEN Cardinality(Users(x)) ELSE 0

\* A cached buffer that nobody uses has no change left to write: it is clean
\* and holds what the disk holds, so make_free_buffer() loses nothing and does
\* not sleep inside forbid().
UnusedIsClean ==
    \A x \in Cached : buf[x].use_count = 0 =>
        /\ ~buf[x].dirty /\ ~buf[x].locked
        /\ buf[x].blkno \notin failed => buf[x].data = disk[buf[x].blkno]

\* A task that sleeps on a buffer will be woken: another task waits for the
\* device to fill that buffer, and will wake all who sleep on it.
SleepersAreWoken ==
    \A t \in Tasks : call[t].pc = "asleep" =>
        \E u \in Users(call[t].x) : call[u].pc \in {"reading", "read"}

\* The cache stays sound while its users sleep: lists and counts are right, no
\* change is lost with a buffer, and nobody sleeps for ever (bread, brelse,
\* bdirty, make_free_buffer).
CacheSound == TypeOK /\ CacheConsistent /\ UnusedIsClean /\ SleepersAreWoken

\* What each block holds for those who use the cache.
content ==
    [b \in Blocks |->
        IF \E x \in find_buffer(b) : ~buf[x].locked
        THEN buf[CHOOSE x \in find_buffer(b) : ~buf[x].locked].data
        ELSE disk[b]]

\* What each task is doing, as those who use the cache see it.
access ==
    [t \in Tasks |->
        LET b == buf[call[t].x].blkno
        IN  IF call[t].pc \in {"idle", "again", "asleep", "reading", "read"}
            THEN [op |-> "idle"]
            ELSE IF call[t].pc \in {"modified", "brelse"}
            THEN [op |-> "wrote", blk |-> b]
            ELSE [op |-> "has", blk |-> b]]

Store == INSTANCE BlockStore

\* The cache is a store of blocks: reading, evicting and writing back change
\* nothing, and what a task writes, all tasks see, until somebody writes again
\* or the device fails on the block.
ImplementsStore == Store!Init /\ [][Store!Next]_(Store!vars)

\* The comment on bread(): "Return a buffer containing the block BLKNO of the
\* device DEV, or NULL if an error occurred".  What the device has filled for a
\* task holds the block when bread() returns it.
ErrorsReturnNull ==
    [][\A t \in Tasks : call[t].pc = "read" /\ call'[t].pc = "held" =>
        buf'[call[t].x].data = disk[buf[call[t].x].blkno]]_vars
=============================================================================
