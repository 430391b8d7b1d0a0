-------------------------------- MODULE Heap --------------------------------
(***************************************************************************)
(* The kernel's heap (kernel/alloc): malloc(), free() and realloc(), each   *)
(* of them between forbid() and permit() and so one step.  Large requests    *)
(* get whole blocks from an ordered circular list of free clusters, which    *)
(* starts at entry 0 of the table _heapinfo; small ones get a fragment of a  *)
(* block, and all free fragments of one size are on one list.  The table     *)
(* lives in the heap, and moves when it has to grow.                         *)
(*                                                                         *)
(* Addresses are counted in blocks, as BLOCK() does, from 1.  An entry of    *)
(* _heapinfo is one record with the fields of both members of the union;    *)
(* `size' is the size of a large cluster, busy or free.  The heap has the    *)
(* kernel's break for itself, as nobody else calls kernel_sbrk() with a      *)
(* number other than 0.                                                      *)
(***************************************************************************)
EXTENDS Integers, Sequences, FiniteSets

CONSTANTS
    BLOCKLOG,           \* a block has 2^BLOCKLOG bytes
    LIST,               \* sizeof(struct list)
    INFO,               \* sizeof(union info)
    HEAPSIZE,           \* HEAP / BLOCKSIZE: the entries of the first table
    FINAL_FREE_BLOCKS,
    CoreLimit,          \* blocks that kernel_sbrk() has to give
    Sizes,              \* sizes that are asked for
    MaxLive             \* bound: pointers in use at once

VARIABLES
    heap,   \* _heapinfo, _heapindex, _heaplimit, _fraghead, _fragblocks, heapsize; the
            \* break and the block where the table is
    live    \* the pointers that are in use, <<block, fragment>>, and their sizes

hvars == <<heap, live>>

BLOCKSIZE == 2^BLOCKLOG
BLOCKIFY(size) == (size + BLOCKSIZE - 1) \div BLOCKSIZE
Logs == 1..(BLOCKLOG - 1)
TableBlocks(n) == BLOCKIFY(n * INFO)
Entry == [type |-> 0, size |-> 0, next |-> 0, prev |-> 0, nfree |-> 0, first |-> 0]
NULL == <<0, 0>>

-----------------------------------------------------------------------------
(* free() of a large cluster.                                                *)

RECURSIVE Back(_, _, _), Ahead(_, _, _)

Back(info, i, block) == IF i > block THEN Back(info, info[i].prev, block) ELSE i

Ahead(info, i, block) ==
    LET n == info[i].next IN IF n > 0 /\ n < block THEN Ahead(info, n, block) ELSE info[n].prev

\* The free cluster before block, looked for from _heapindex.
Before(h, block) ==
    IF h.index > block THEN Back(h.info, h.index, block) ELSE Ahead(h.info, h.index, block)

\* Link the cluster at block into the list after i, or make it a part of i.
Linked(info, i, block) ==
    IF block = i + info[i].size
      THEN [info |-> [info EXCEPT ![i].size = @ + info[block].size], block |-> i]
      ELSE LET n == info[i].next
               one == [info EXCEPT ![block].next = n, ![block].prev = i, ![i].next = block]
           IN [info |-> [one EXCEPT ![n].prev = block], block |-> block]

\* Mutant: the next cluster's successor keeps its pointer to it.
Merged_halfway(info, block) ==
    LET n == info[block].next
    IN IF block + info[block].size = n
         THEN [info EXCEPT ![block].size = @ + info[n].size, ![block].next = info[n].next]
         ELSE info

\* If block ends where the next free cluster starts, it takes it in.
Merged(info, block) ==
    LET n == info[block].next
        one == [info EXCEPT ![block].size = @ + info[n].size, ![block].next = info[n].next]
    IN IF block + info[block].size = n THEN [one EXCEPT ![one[block].next].prev = block] ELSE info

Unlinked(info, block) ==
    LET one == [info EXCEPT ![info[block].prev].next = info[block].next]
    IN [one EXCEPT ![info[block].next].prev = info[block].prev]

\* The cluster at block is free; the last one of the heap may go back to the system.
Settled(h, info, block) ==
    LET blocks == info[block].size
    IN IF blocks >= FINAL_FREE_BLOCKS /\ block + blocks = h.limit /\ h.brk = block + blocks
         THEN [h EXCEPT !.limit = @ - blocks, !.brk = @ - blocks, !.info = Unlinked(info, block),
                        !.index = info[block].prev]
         ELSE [h EXCEPT !.info = info, !.index = block]

Coalesced(h, l) == Settled(h, Merged(l.info, l.block), l.block)

free_large(h, freed) == Coalesced(h, Linked(h.info, Before(h, freed), freed))

-----------------------------------------------------------------------------
(* malloc() of whole blocks.                                                 *)

RECURSIVE Doubled(_, _), Circle(_, _, _)

Doubled(n, need) == IF need > n THEN Doubled(2 * n, need) ELSE n

\* Get blocks from the system, growing the table when they are beyond it.
morecore(h, blocks) ==
    LET result == h.brk
        end == result + blocks
        newsize == Doubled(h.heapsize, end)
        moved == [h EXCEPT !.info[h.table] = [Entry EXCEPT !.size = TableBlocks(h.heapsize)],
                           !.table = end, !.brk = end + TableBlocks(newsize)]
    IN IF end - 1 > CoreLimit THEN [ok |-> FALSE, h |-> h]
       ELSE IF end <= h.heapsize THEN [ok |-> TRUE, h |-> [h EXCEPT !.brk = end, !.limit = end]]
       ELSE IF end + TableBlocks(newsize) - 1 > CoreLimit THEN [ok |-> FALSE, h |-> h]
       ELSE [ok |-> TRUE, h |-> [free_large(moved, h.table) EXCEPT !.heapsize = newsize, !.limit = end]]

\* The first cluster large enough, going round from block, or -1.
Circle(h, block, blocks) ==
    IF h.info[block].size >= blocks THEN block
    ELSE IF h.info[block].next = h.index THEN -1
    ELSE Circle(h, h.info[block].next, blocks)

\* Take blocks off the front of a free cluster.
Carved(h, block, blocks) ==
    LET b == h.info[block]
        rest == block + blocks
        busy == [Entry EXCEPT !.size = blocks]
        one == [h.info EXCEPT ![rest] = [Entry EXCEPT !.size = b.size - blocks, !.next = b.next, !.prev = b.prev],
                              ![b.prev].next = rest]
        two == [one EXCEPT ![b.next].prev = rest]
    IN IF b.size > blocks
         THEN [h EXCEPT !.info = [two EXCEPT ![block] = busy], !.index = rest]
         ELSE [h EXCEPT !.info = [Unlinked(h.info, block) EXCEPT ![block] = busy], !.index = b.next]

\* The last free cluster ends at the break.
Adjoins(h, block) == h.limit # 0 /\ block + h.info[block].size = h.limit /\ h.brk = h.limit

\* Blocks at the break, if the system has them.
AtBreak(h, blocks, fresh) ==
    IF fresh.ok THEN [h |-> [fresh.h EXCEPT !.info[h.brk] = [Entry EXCEPT !.size = blocks]], ptr |-> <<h.brk, 0>>]
    ELSE [h |-> h, ptr |-> NULL]

\* The last free cluster, made large enough with more if it adjoins the break.
Enlarged(h, blocks, more) ==
    LET final == h.info[0].prev
        last == more.h.info[0].prev
    IN IF Adjoins(h, final) /\ more.ok
         THEN [h |-> Carved([more.h EXCEPT !.info[last].size = @ + (blocks - h.info[final].size)], last, blocks),
               ptr |-> <<last, 0>>]
         ELSE AtBreak(h, blocks, morecore(h, blocks))

malloc_large(h, blocks) ==
    LET found == Circle(h, h.index, blocks)
    IN IF found >= 0 THEN [h |-> Carved(h, found, blocks), ptr |-> <<found, 0>>]
       ELSE Enlarged(h, blocks, morecore(h, blocks - h.info[h.info[0].prev].size))

-----------------------------------------------------------------------------
(* Fragments.                                                                *)

Fragments(log) == 2^(BLOCKLOG - log)
Log(size) == CHOOSE l \in Logs : size <= 2^l /\ (l = 1 \/ size > 2^(l - 1))

\* Mutant: a block keeps saying that its first free fragment is the one taken.
Popped_stale(h, log) == [h EXCEPT !.info[Head(h.frag[log])[1]].nfree = @ - 1, !.frag[log] = Tail(@)]

\* Pop the first free fragment of a size; its block's next one is the next on the list.
Popped(h, log) ==
    LET block == Head(h.frag[log])[1]
        one == [h EXCEPT !.info[block].nfree = @ - 1, !.frag[log] = Tail(@)]
    IN IF one.info[block].nfree = 0 THEN one
       ELSE [one EXCEPT !.info[block].first = Head(one.frag[log])[2]]

\* Break a block into fragments; the last one comes first on the list.
Broken(h, block, log) ==
    LET n == Fragments(log)
    IN [h EXCEPT !.fragblocks[log] = @ + 1,
                 !.info[block] = [Entry EXCEPT !.type = log, !.nfree = n - 1, !.first = n - 1],
                 !.frag[log] = [i \in 1..(n - 1) |-> <<block, n - i>>] \o @]

Fragmented(got, log) == IF got.ptr = NULL THEN got ELSE [h |-> Broken(got.h, got.ptr[1], log), ptr |-> got.ptr]

malloc_fragment(h, log) ==
    IF h.frag[log] # <<>> THEN [h |-> Popped(h, log), ptr |-> Head(h.frag[log])]
    ELSE Fragmented(malloc_large(h, 1), log)

Position(list, f) == CHOOSE k \in DOMAIN list : list[k] = f

\* Give a fragment back: with its whole block when the others are free and another block
\* has fragments of the size, else behind the first free one of its block.
free_fragment(h, ptr) ==
    LET block == ptr[1]
        log == h.info[block].type
        list == h.frag[log]
        at == Position(list, <<block, h.info[block].first>>)
        n == Fragments(log)
    IN IF h.info[block].nfree = n - 1 /\ h.fragblocks[log] > 1
         THEN free_large([h EXCEPT !.fragblocks[log] = @ - 1,
                                   !.frag[log] = SubSeq(list, 1, at - 1) \o SubSeq(list, at + n - 1, Len(list)),
                                   !.info[block] = [Entry EXCEPT !.size = 1]], block)
       ELSE IF h.info[block].nfree > 0
         THEN [h EXCEPT !.frag[log] = SubSeq(list, 1, at) \o <<ptr>> \o SubSeq(list, at + 1, Len(list)),
                        !.info[block].nfree = @ + 1]
       ELSE [h EXCEPT !.info[block].nfree = 1, !.info[block].first = ptr[2], !.frag[log] = <<ptr>> \o @]

-----------------------------------------------------------------------------
Least(size) == IF size < LIST THEN LIST ELSE size
Small(size) == size <= BLOCKSIZE \div 2

Malloc(h, size) ==
    IF Small(Least(size)) THEN malloc_fragment(h, Log(Least(size))) ELSE malloc_large(h, BLOCKIFY(size))

Free(h, ptr) == IF h.info[ptr[1]].type = 0 THEN free_large(h, ptr[1]) ELSE free_fragment(h, ptr)

malloc(size) ==
    /\ Cardinality(DOMAIN live) < MaxLive
    /\ \E r \in {Malloc(heap, size)} :
       /\ heap' = r.h
       /\ live' = IF r.ptr = NULL THEN live ELSE [p \in DOMAIN live \cup {r.ptr} |-> IF p = r.ptr THEN size ELSE live[p]]

free(ptr) ==
    /\ heap' = Free(heap, ptr)
    /\ live' = [p \in DOMAIN live \ {ptr} |-> live[p]]

\* What realloc() does to the heap, and the pointer it returns: the contents are
\* copied and the old piece freed, if there is a new one.
Copied(r, ptr) == IF r.ptr = NULL THEN r ELSE [h |-> Free(r.h, ptr), ptr |-> r.ptr]
Moved(h, ptr, size) == Copied(Malloc(h, size), ptr)

Shrunk(h, ptr, blocks) ==
    LET block == ptr[1]
        rest == h.info[block].size - blocks
    IN [h |-> free_large([h EXCEPT !.info[block].size = blocks,
                                   !.info[block + blocks] = [Entry EXCEPT !.size = rest]], block + blocks),
        ptr |-> ptr]

\* Mutant: the cluster is looked for at the start of the free one it became a part of.
Unfreed_anyhow(h, block, blocks) == malloc_large(h, blocks).h

\* Take back the cluster that was just freed and is now a part of a free one.
Retaken(previous, blocks) == free_large(malloc_large(previous.h, blocks).h, previous.ptr[1])
Unfreed(h, block, blocks) ==
    IF h.index = block THEN malloc_large(h, blocks).h
    ELSE Retaken(malloc_large(h, block - h.index), blocks)

\* Free first, without giving anything back to the system, in case there is room in place.
Refilled(h, ptr, freed, r) ==
    IF r.ptr # NULL THEN r ELSE [h |-> Unfreed(freed, ptr[1], h.info[ptr[1]].size), ptr |-> NULL]
Retried(h, ptr, freed, size) == Refilled(h, ptr, freed, Malloc(freed, size))
Grown(h, ptr, size) ==
    Retried(h, ptr, [free_large([h EXCEPT !.limit = 0], ptr[1]) EXCEPT !.limit = h.limit], size)

Realloc(h, ptr, size) ==
    LET e == h.info[ptr[1]]
        blocks == BLOCKIFY(size)
    IN IF IF e.type > 0 THEN size > 2^(e.type - 1) /\ size <= 2^e.type ELSE ~Small(size) /\ blocks = e.size
         THEN [h |-> h, ptr |-> ptr]
       ELSE IF e.type > 0 \/ Small(size) THEN Moved(h, ptr, size)
       ELSE IF blocks < e.size THEN Shrunk(h, ptr, blocks)
       ELSE Grown(h, ptr, size)

realloc(ptr, size) ==
    \E r \in {Realloc(heap, ptr, size)} :
       /\ heap' = r.h
       /\ live' = IF r.ptr = NULL THEN live
                  ELSE [p \in (DOMAIN live \ {ptr}) \cup {r.ptr} |-> IF p = r.ptr THEN size ELSE live[p]]

HInit ==
    /\ heap = [info |-> [b \in 0..(CoreLimit + 1) |-> Entry], index |-> 0, limit |-> 0,
               brk |-> 1 + TableBlocks(HEAPSIZE), table |-> 1, heapsize |-> HEAPSIZE,
               frag |-> [l \in Logs |-> <<>>], fragblocks |-> [l \in Logs |-> 0]]
    /\ live = <<>>

HNext ==
    \/ \E size \in Sizes : malloc(size)
    \/ \E p \in DOMAIN live : free(p) \/ \E size \in Sizes : realloc(p, size)

HSpec == HInit /\ [][HNext]_hvars

-----------------------------------------------------------------------------
RECURSIVE Clusters(_, _)
Clusters(info, i) == IF info[i].next = 0 THEN <<>> ELSE <<info[i].next>> \o Clusters(info, info[i].next)

Span(block, size) == block..(block + size - 1)
LiveLarge == {p \in DOMAIN live : heap.info[p[1]].type = 0}
LiveFragments(block) == {p \in DOMAIN live \ LiveLarge : p[1] = block}
FragmentBlocks(log) == {p[1] : p \in {q \in DOMAIN live : heap.info[q[1]].type = log}}
                          \cup {heap.frag[log][k][1] : k \in DOMAIN heap.frag[log]}

\* The pieces of the heap: its table, the free clusters, those in use, the broken blocks.
Pieces ==
    LET c == Clusters(heap.info, 0)
    IN {Span(heap.table, TableBlocks(heap.heapsize))}
         \cup {Span(c[k], heap.info[c[k]].size) : k \in DOMAIN c}
         \cup {Span(p[1], heap.info[p[1]].size) : p \in LiveLarge}
         \cup {{b} : b \in UNION {FragmentBlocks(l) : l \in Logs}}

(* The heap stays in order whatever is allocated, resized and freed, and when *)
(* memory runs out: the free clusters are linked both ways in the order of    *)
(* their addresses, none touching the next, and the search index is on the    *)
(* list (malloc.c:185-249, free.c:31-84); every block up to the break belongs *)
(* to exactly one cluster, broken block or table, also after the table has    *)
(* moved and after a realloc() that failed has taken its cluster back          *)
(* (realloc.c:82-93); and the free fragments of a block stand together on     *)
(* their list from the one the block names, as many as it counts, which is    *)
(* what free() relies on when it takes them all off (free.c:95-105).          *)
HeapInOrder ==
    LET c == Clusters(heap.info, 0)
    IN /\ \A k \in DOMAIN c : /\ heap.info[c[k]].prev = IF k = 1 THEN 0 ELSE c[k - 1]
                              /\ k > 1 => c[k - 1] + heap.info[c[k - 1]].size < c[k]
       /\ heap.info[0].prev = IF c = <<>> THEN 0 ELSE c[Len(c)]
       /\ heap.index \in {0} \cup {c[k] : k \in DOMAIN c}
       /\ UNION Pieces = 1..(heap.brk - 1)
       /\ \A a, b \in Pieces : a = b \/ a \cap b = {}
       /\ \A p \in DOMAIN live : heap.info[p[1]].type = 0 => live[p] <= heap.info[p[1]].size * BLOCKSIZE
       /\ \A l \in Logs :
            /\ heap.fragblocks[l] = Cardinality(FragmentBlocks(l))
            /\ \A b \in FragmentBlocks(l) :
                 LET at == {k \in DOMAIN heap.frag[l] : heap.frag[l][k][1] = b}
                     first == CHOOSE k \in at : \A j \in at : k <= j
                 IN /\ heap.info[b].nfree = Cardinality(at)
                    /\ {heap.frag[l][k] : k \in at} \cup LiveFragments(b) = {b} \X (0..(Fragments(l) - 1))
                    /\ {heap.frag[l][k] : k \in at} \cap LiveFragments(b) = {}
                    /\ at # {} => /\ at = first..(first + Cardinality(at) - 1)
                                  /\ heap.frag[l][first][2] = heap.info[b].first
=============================================================================
