--------------------------- MODULE BufferCacheProofs ---------------------------
(***************************************************************************)
(* The buffer cache keeps its lists, its counts and its users' changes for *)
(* any number of tasks, buffers, buckets and blocks, and implements the    *)
(* store of blocks.                                                        *)
(***************************************************************************)
EXTENDS BufferCache, ListLemmas, FiniteSetTheorems

\* t has a reference to x.
Has(t, x) == call[t].pc \in UsingCalls /\ call[t].x = x

\* t waits for the device to fill a buffer, or is about to unlock it.
Filling(t) == call[t].pc \in {"reading", "read"}

\* Nobody has a reference to a buffer that is not cached.
UsersCached == \A t \in Tasks : call[t].pc \in UsingCalls => call[t].x \in Cached

\* A buffer is locked while its only user waits for the device to fill it.
LocksHeld ==
    /\ \A x \in Cached : buf[x].locked => \E t \in Tasks : Has(t, x) /\ Filling(t)
    /\ \A t, u \in Tasks, x \in Buffers :
         Has(t, x) /\ Filling(t) => buf[x].locked /\ (Has(u, x) => u = t)

\* Each request of the device is the one its task waits for.
RequestsMatch ==
    /\ \A n \in 1..Len(requests) :
         LET r == requests[n]
         IN  Has(r.task, r.x) /\ call[r.task].pc =
               IF r.op = "read" THEN "reading" ELSE "writing"
    /\ \A m, n \in 1..Len(requests) : m # n => requests[m].task # requests[n].task

\* A dirty buffer has a user who has not tested the flag in brelse() yet, or
\* who is about to clear it and write.
Notices(t) ==
    \/ call[t].pc \in {"held", "modified", "brelse", "clear"}
    \/ call[t].pc \in {"submit", "writing"} /\ call[t].then = "held"
DirtyNoticed ==
    \A x \in Cached : buf[x].dirty => \E t \in Tasks : Has(t, x) /\ Notices(t)

\* A cached block differs from the disk only while it is dirty, being filled or
\* being written, or its last change is not marked yet.
Writes(t) == call[t].pc \in {"reading", "modified", "submit", "writing"}
ChangesKept ==
    \A x \in Cached :
        \/ buf[x].blkno \in failed \/ buf[x].data = disk[buf[x].blkno]
        \/ buf[x].dirty \/ \E t \in Tasks : Has(t, x) /\ Writes(t)

\* The lists of CacheConsistent, and its counts.
Listed ==
    /\ NoRepeats(bh_free_list) /\ ToSet(bh_free_list) \cup Cached = Buffers
    /\ \A i \in Buckets :
        /\ NoRepeats(buffer_table[i])
        /\ \A x \in ToSet(buffer_table[i]) :
            /\ x \notin ToSet(bh_free_list)
            /\ buf[x].blkno \in Blocks /\ BUFFER_HASH[buf[x].blkno] = i
    /\ \A x, y \in Cached : buf[x].blkno = buf[y].blkno => x = y
Counted ==
    \A x \in Buffers :
        buf[x].use_count = IF x \in Cached THEN Cardinality(Users(x)) ELSE 0

\* The inductive invariant.
BInv == /\ TypeOK /\ Listed /\ Counted /\ UsersCached /\ LocksHeld
        /\ RequestsMatch /\ SleepersAreWoken /\ DirtyNoticed /\ ChangesKept

-----------------------------------------------------------------------------
(* The calls.                                                               *)

\* What a call is made of, by its place in the code.
LEMMA CallForms ==
  ASSUME TypeOK, NEW t \in Tasks
  PROVE  /\ call[t].pc \in UsingCalls \cup {"asleep"} => call[t].x \in Buffers
         /\ call[t].pc \in {"reading", "read", "held", "modified", "brelse", "release"} =>
              call[t] = Using(call[t].pc, call[t].x)
         /\ call[t].pc \in {"clear", "submit", "writing"} =>
              /\ call[t] = Writing(call[t].pc, call[t].x, call[t].then)
              /\ call[t].then \in {"held", "release"}
         /\ call[t].pc = "asleep" =>
              call[t].op \in Ops /\ call[t] = Asleep(call[t].op, call[t].x)
         /\ call[t].pc = "again" => call[t].op \in Ops /\ call[t] = Again(call[t].op)
         /\ call[t].pc \notin UsingCalls \cup {"asleep", "again"} => call[t] = Idle
<1>1. call[t] \in Calls
  BY DEF TypeOK
<1>2. CASE call[t] = Idle
  BY <1>2 DEF Idle, UsingCalls
<1>3. ASSUME NEW op \in Ops, call[t] = Again(op)
      PROVE  call[t].pc = "again" /\ call[t].op = op
  BY <1>3 DEF Again
<1>4. ASSUME NEW op \in Ops, NEW x \in Buffers, call[t] = Asleep(op, x)
      PROVE  call[t].pc = "asleep" /\ call[t].op = op /\ call[t].x = x
  BY <1>4 DEF Asleep
<1>5. ASSUME NEW pc \in {"reading", "read", "held", "modified", "brelse", "release"},
             NEW x \in Buffers, call[t] = Using(pc, x)
      PROVE  call[t].pc = pc /\ call[t].x = x
  BY <1>5 DEF Using
<1>6. ASSUME NEW pc \in {"clear", "submit", "writing"}, NEW x \in Buffers,
             NEW then \in {"held", "release"}, call[t] = Writing(pc, x, then)
      PROVE  call[t].pc = pc /\ call[t].x = x /\ call[t].then = then
  BY <1>6 DEF Writing
<1>. QED
  BY <1>1, <1>2, <1>3, <1>4, <1>5, <1>6 DEF Calls, UsingCalls

\* The places and the parts of the calls.
LEMMA CallParts ==
  /\ Idle.pc = "idle" /\ Idle \in Calls
  /\ \A op \in Ops : Again(op).pc = "again" /\ Again(op) \in Calls
  /\ \A op \in Ops, x \in Buffers :
       Asleep(op, x).pc = "asleep" /\ Asleep(op, x).x = x /\ Asleep(op, x).op = op
       /\ Asleep(op, x) \in Calls
  /\ \A x \in Buffers,
        pc \in {"reading", "read", "held", "modified", "brelse", "release"} :
       Using(pc, x).pc = pc /\ Using(pc, x).x = x /\ Using(pc, x) \in Calls
  /\ \A x \in Buffers, pc \in {"clear", "submit", "writing"},
        then \in {"held", "release"} :
       /\ Writing(pc, x, then).pc = pc /\ Writing(pc, x, then).x = x
       /\ Writing(pc, x, then).then = then /\ Writing(pc, x, then) \in Calls
<1>1. /\ Idle.pc = "idle" /\ Idle \in Calls
  BY DEF Idle, Calls
<1>2. \A op \in Ops : Again(op).pc = "again" /\ Again(op) \in Calls
  BY DEF Again, Calls
<1>3. \A op \in Ops, x \in Buffers :
       Asleep(op, x).pc = "asleep" /\ Asleep(op, x).x = x /\ Asleep(op, x).op = op
       /\ Asleep(op, x) \in Calls
  BY DEF Asleep, Calls
<1>4. \A x \in Buffers,
        pc \in {"reading", "read", "held", "modified", "brelse", "release"} :
       Using(pc, x).pc = pc /\ Using(pc, x).x = x /\ Using(pc, x) \in Calls
  BY DEF Using, Calls
<1>5. \A x \in Buffers, pc \in {"clear", "submit", "writing"},
        then \in {"held", "release"} :
       /\ Writing(pc, x, then).pc = pc /\ Writing(pc, x, then).x = x
       /\ Writing(pc, x, then).then = then /\ Writing(pc, x, then) \in Calls
  BY DEF Writing, Calls
<1>. QED
  BY <1>1, <1>2, <1>3, <1>4, <1>5

-----------------------------------------------------------------------------
(* The lists.                                                               *)

\* The buffer x, which nobody uses, goes to the head of the bucket of b.
Moves(x, b) ==
    /\ bh_free_list' \in Seq(Buffers) /\ NoRepeats(bh_free_list')
    /\ ToSet(bh_free_list') = ToSet(bh_free_list) \ {x}
    /\ buffer_table' \in [Buckets -> Seq(Buffers)]
    /\ \A i \in Buckets :
         /\ NoRepeats(buffer_table'[i])
         /\ ToSet(buffer_table'[i]) = {y \in Buffers :
              \/ y \in ToSet(buffer_table[i]) /\ y # x
              \/ i = BUFFER_HASH[b] /\ y = x}
    /\ last_bucket' \in Buckets

\* make_free_buffer() takes a buffer nobody uses out of its bucket.
LEMMA Evicted ==
  ASSUME TypeOK, bh_free_list = <<>>, lists.free # <<>>
  PROVE  \E i \in Buckets : \E n \in 1..Len(buffer_table[i]) :
           /\ lists = Moved(i, n)
           /\ buf[buffer_table[i][n]].use_count = 0
<1>1. tries # {} /\ lists = LET i == (last_bucket + Min(tries)) % BUFFER_BUCKETS
                            IN  Moved(i, Max(unused(i)))
  BY DEF lists, make_free_buffer, Lists0
<1>2. tries \in SUBSET Nat
  BY ParametersAssumption DEF tries
<1>3. Min(tries) \in tries
  BY <1>1, <1>2, MinInSet
<1> DEFINE i == (last_bucket + Min(tries)) % BUFFER_BUCKETS
<1>4. i \in Buckets
  <2>1. last_bucket \in Nat /\ Min(tries) \in Nat /\ BUFFER_BUCKETS \in Nat \ {0}
    <3>1. last_bucket \in Buckets
      BY DEF TypeOK
    <3>2. BUFFER_BUCKETS \in Nat \ {0}
      BY ParametersAssumption
    <3>3. Min(tries) \in Nat
      BY <1>2, <1>3
    <3>4. last_bucket \in Nat
      BY <3>1, <3>2 DEF Buckets
    <3>. QED  BY <3>2, <3>3, <3>4
  <2>. QED  BY <2>1 DEF Buckets
<1>5. unused(i) # {}
  BY <1>3 DEF tries
<1>6. lists = Moved(i, Max(unused(i)))
  BY <1>1
<1> HIDE DEF i
<1>7. buffer_table[i] \in Seq(Buffers)
  BY <1>4 DEF TypeOK
<1>8. unused(i) \subseteq 1..Len(buffer_table[i])
  BY <1>7 DEF unused
<1>9. Max(unused(i)) \in unused(i)
  <2>1. Len(buffer_table[i]) \in Nat /\ unused(i) \in SUBSET (1..Len(buffer_table[i]))
    BY <1>7, <1>8
  <2> HIDE DEF unused
  <2>. QED  BY <1>5, <2>1, MaxInSet
<1>. QED
  BY <1>4, <1>6, <1>8, <1>9 DEF unused

\* A buffer that is not in use has no users.
LEMMA NoUsers ==
  ASSUME Counted, UsersCached, NEW x \in Buffers,
         x \in Cached => buf[x].use_count = 0
  PROVE  \A t \in Tasks : ~Has(t, x)
<1>1. CASE x \notin Cached
  BY <1>1 DEF UsersCached, Has
<1>2. CASE x \in Cached
  <2>1. Cardinality(Users(x)) = 0
    BY <1>2 DEF Counted
  <2>2. IsFiniteSet(Users(x))
    BY ParametersAssumption, FS_Subset DEF Users
  <2>3. Users(x) = {}
    BY <2>1, <2>2, FS_EmptySet
  <2>. QED  BY <2>3 DEF Users, Has
<1>. QED
  BY <1>1, <1>2

\* A new buffer, from the free list or evicted, has no users.
LEMMA NewBuffer ==
  ASSUME TypeOK, Listed, Counted, UsersCached, UNCHANGED NR_BUFFERS,
         NEW b \in Blocks, NEW x \in Buffers, NEW head, new_buffer(x, b, head)
  PROVE  /\ Moves(x, b) /\ buf' = [buf EXCEPT ![x] = head]
         /\ \A t \in Tasks : ~Has(t, x)
<1> DEFINE h == BUFFER_HASH[b]
<1>1. h \in Buckets
  BY ParametersAssumption DEF Buckets
<1> HIDE DEF h
<1>2. /\ lists.free # <<>> /\ x = Head(lists.free)
      /\ bh_free_list' = Tail(lists.free)
      /\ buffer_table' = [lists.table EXCEPT ![h] = <<x>> \o @]
      /\ last_bucket' = lists.last /\ buf' = [buf EXCEPT ![x] = head]
  BY DEF new_buffer, h
<1>3. /\ buffer_table \in [Buckets -> Seq(Buffers)] /\ bh_free_list \in Seq(Buffers)
      /\ last_bucket \in Buckets
      /\ NoRepeats(bh_free_list) /\ \A i \in Buckets : NoRepeats(buffer_table[i])
  BY DEF TypeOK, Listed
<1>4. \A i \in Buckets : ToSet(buffer_table[i]) \subseteq Buffers
  BY <1>3 DEF ToSet
<1>5. SUFFICES ASSUME NEW T \in [Buckets -> Seq(Buffers)], lists.table = T,
                      \A i \in Buckets : /\ NoRepeats(T[i])
                                         /\ ToSet(T[i]) = ToSet(buffer_table[i]) \ {x},
                      bh_free_list' \in Seq(Buffers), NoRepeats(bh_free_list'),
                      ToSet(bh_free_list') = ToSet(bh_free_list) \ {x},
                      last_bucket' \in Buckets
               PROVE  Moves(x, b)
  <2>1. CASE bh_free_list # <<>>
    <3>1. lists = Lists0
      BY <2>1 DEF lists
    <3>2. /\ lists.free = bh_free_list /\ lists.table = buffer_table
          /\ lists.last = last_bucket
      BY <3>1 DEF Lists0
    <3>3. /\ bh_free_list' \in Seq(Buffers) /\ NoRepeats(bh_free_list')
          /\ ToSet(bh_free_list') = ToSet(bh_free_list) \ {x}
          /\ x \in ToSet(bh_free_list)
      BY <1>2, <1>3, <2>1, <3>2, TailNode
    <3>4. \A i \in Buckets : x \notin ToSet(buffer_table[i])
      BY <3>3 DEF Listed
    <3>5. \A i \in Buckets : ToSet(buffer_table[i]) = ToSet(buffer_table[i]) \ {x}
      BY <3>4
    <3>6. x \notin Cached
      BY <3>4 DEF Cached
    <3>7. \A t \in Tasks : ~Has(t, x)
      BY <3>6, NoUsers
    <3>. QED  BY <1>2, <1>3, <1>5, <3>2, <3>3, <3>5, <3>7
  <2>2. CASE bh_free_list = <<>>
    <3>0. PICK i \in Buckets : \E n \in 1..Len(buffer_table[i]) :
            lists = Moved(i, n) /\ buf[buffer_table[i][n]].use_count = 0
      BY <1>2, <2>2, Evicted
    <3>1. PICK n \in 1..Len(buffer_table[i]) :
            lists = Moved(i, n) /\ buf[buffer_table[i][n]].use_count = 0
      BY <3>0
    <3> DEFINE T == [buffer_table EXCEPT ![i] = RemoveAt(@, n)]
    <3>2. /\ lists.table = T /\ lists.free = <<buffer_table[i][n]>>
          /\ lists.last = i
      BY <3>1 DEF Moved
    <3>3. x = buffer_table[i][n] /\ bh_free_list' = <<>> /\ last_bucket' = i
      BY <1>2, <3>2
    <3>4. /\ RemoveAt(buffer_table[i], n) \in Seq(Buffers)
          /\ NoRepeats(RemoveAt(buffer_table[i], n))
          /\ ToSet(RemoveAt(buffer_table[i], n)) = ToSet(buffer_table[i]) \ {x}
      BY <1>3, <3>3, RemoveAtNode
    <3>5. /\ T \in [Buckets -> Seq(Buffers)] /\ T[i] = RemoveAt(buffer_table[i], n)
          /\ \A j \in Buckets \ {i} : T[j] = buffer_table[j]
      BY <1>3, <3>4
    <3> HIDE DEF T
    <3>6. x \in ToSet(buffer_table[i])
      BY <1>3, <3>3 DEF ToSet
    <3>7. \A j \in Buckets \ {i} : x \notin ToSet(buffer_table[j])
      BY <3>6 DEF Listed
    <3>8. \A j \in Buckets : NoRepeats(T[j]) /\ ToSet(T[j]) = ToSet(buffer_table[j]) \ {x}
      BY <1>3, <3>4, <3>5, <3>7
    <3>9. ToSet(bh_free_list') = ToSet(bh_free_list) \ {x}
          /\ bh_free_list' \in Seq(Buffers) /\ NoRepeats(bh_free_list')
      BY <2>2, <3>3 DEF ToSet, NoRepeats
    <3>10. \A t \in Tasks : ~Has(t, x)
      BY <3>1, <3>3, NoUsers
    <3>. QED  BY <1>2, <1>5, <3>2, <3>3, <3>5, <3>8, <3>9, <3>10
  <2>. QED  BY <2>1, <2>2
<1>6. buffer_table' = [T EXCEPT ![h] = <<x>> \o T[h]]
  BY <1>2, <1>5
<1>7. x \notin ToSet(T[h]) /\ T[h] \in Seq(Buffers)
  BY <1>1, <1>5
<1>8. /\ <<x>> \o T[h] \in Seq(Buffers) /\ NoRepeats(<<x>> \o T[h])
      /\ ToSet(<<x>> \o T[h]) = ToSet(T[h]) \cup {x}
  BY <1>1, <1>5, <1>7, ConsNode
<1>9. /\ buffer_table' \in [Buckets -> Seq(Buffers)]
      /\ buffer_table'[h] = <<x>> \o T[h]
      /\ \A i \in Buckets \ {h} : buffer_table'[i] = T[i]
  BY <1>1, <1>6, <1>8
<1>10. ASSUME NEW i \in Buckets
       PROVE  /\ NoRepeats(buffer_table'[i])
              /\ ToSet(buffer_table'[i]) = {y \in Buffers :
                   \/ y \in ToSet(buffer_table[i]) /\ y # x
                   \/ i = h /\ y = x}
  <2>1. CASE i = h
    <3>1. ToSet(buffer_table'[i]) = (ToSet(buffer_table[i]) \ {x}) \cup {x}
      BY <1>5, <1>8, <1>9, <2>1
    <3>. QED  BY <1>4, <1>8, <1>9, <2>1, <3>1
  <2>2. CASE i # h
    <3>1. ToSet(buffer_table'[i]) = ToSet(buffer_table[i]) \ {x}
      BY <1>5, <1>9, <2>2
    <3>. QED  BY <1>4, <1>5, <1>9, <2>2, <3>1
  <2>. QED  BY <2>1, <2>2
<1>. QED
  BY <1>5, <1>9, <1>10 DEF Moves, h

\* A buffer that is found stays in its bucket.
LEMMA FoundBuffer ==
  ASSUME TypeOK, Listed, NEW b \in Blocks, NEW x \in find_buffer(b), NEW head,
         found_buffer(x, head)
  PROVE  /\ x \in Buffers /\ x \in Cached /\ buf[x].blkno = b
         /\ buffer_table' \in [Buckets -> Seq(Buffers)]
         /\ \A i \in Buckets : /\ NoRepeats(buffer_table'[i])
                               /\ ToSet(buffer_table'[i]) = ToSet(buffer_table[i])
         /\ buf' = [buf EXCEPT ![x] = head]
         /\ UNCHANGED <<bh_free_list, last_bucket>>
<1> DEFINE h == BUFFER_HASH[b]
           s == buffer_table[h]
<1>1. h \in Buckets /\ x \in ToSet(s) /\ buf[x].blkno = b
  BY ParametersAssumption DEF Buckets, find_buffer
<1>2. /\ buffer_table \in [Buckets -> Seq(Buffers)] /\ s \in Seq(Buffers)
      /\ \A i \in Buckets : NoRepeats(buffer_table[i])
  BY <1>1 DEF TypeOK, Listed
<1>3. x \in Buffers /\ x \in Cached
  BY <1>1, <1>2 DEF ToSet, Cached
<1>4. /\ buffer_table' = [buffer_table EXCEPT ![h] = <<x>> \o RemoveFirst(s, x)]
      /\ buf' = [buf EXCEPT ![x] = head] /\ UNCHANGED <<bh_free_list, last_bucket>>
  BY <1>1 DEF found_buffer
<1> DEFINE r == RemoveFirst(s, x)
<1>5. r \in Seq(Buffers) /\ NoRepeats(r) /\ ToSet(r) = ToSet(s) \ {x}
  BY <1>1, <1>2, RemoveNode
<1>6. /\ <<x>> \o r \in Seq(Buffers) /\ NoRepeats(<<x>> \o r)
      /\ ToSet(<<x>> \o r) = ToSet(s)
  <2> HIDE DEF r
  <2>1. ToSet(<<x>> \o r) = ToSet(r) \cup {x} /\ <<x>> \o r \in Seq(Buffers)
        /\ NoRepeats(<<x>> \o r)
    BY <1>3, <1>5, ConsNode
  <2>. QED  BY <1>1, <1>5, <2>1
<1>7. /\ buffer_table' \in [Buckets -> Seq(Buffers)]
      /\ buffer_table'[h] = <<x>> \o r
      /\ \A i \in Buckets \ {h} : buffer_table'[i] = buffer_table[i]
  BY <1>1, <1>2, <1>4, <1>6
<1>8. \A i \in Buckets : /\ NoRepeats(buffer_table'[i])
                         /\ ToSet(buffer_table'[i]) = ToSet(buffer_table[i])
  <2> HIDE DEF r, h
  <2>. QED  BY <1>2, <1>6, <1>7
<1>. QED
  BY <1>1, <1>3, <1>4, <1>7, <1>8

\* The lists after a step that leaves every buffer where it is ...
LEMMA SameLists ==
  ASSUME Listed, UNCHANGED <<NR_BUFFERS, bh_free_list>>,
         \A i \in Buckets : /\ NoRepeats(buffer_table'[i])
                            /\ ToSet(buffer_table'[i]) = ToSet(buffer_table[i]),
         \A x \in Buffers : buf'[x].blkno = buf[x].blkno
  PROVE  Listed' /\ Cached' = Cached
<1>1. Cached' = Cached /\ Buffers' = Buffers
  BY DEF Cached, Buffers
<1>2. Cached \subseteq Buffers /\ \A i \in Buckets : ToSet(buffer_table[i]) \subseteq Buffers
  BY DEF Listed, Cached
<1>. QED
  BY <1>1, <1>2 DEF Listed

\* ... and after one that puts a buffer into another bucket.
LEMMA MovedLists ==
  ASSUME TypeOK, Listed, UNCHANGED NR_BUFFERS, NEW b \in Blocks, find_buffer(b) = {},
         NEW x \in Buffers, Moves(x, b), buf' \in [Buffers -> BufHeads],
         buf'[x].blkno = b, \A y \in Buffers \ {x} : buf'[y].blkno = buf[y].blkno
  PROVE  Listed' /\ Cached' = Cached \cup {x}
<1> DEFINE h == BUFFER_HASH[b]
<1>1. h \in Buckets /\ Buffers' = Buffers
  BY ParametersAssumption DEF Buckets, Buffers
<1>2. /\ NoRepeats(bh_free_list') /\ ToSet(bh_free_list') = ToSet(bh_free_list) \ {x}
      /\ \A i \in Buckets : NoRepeats(buffer_table'[i])
      /\ \A i \in Buckets, y \in Buffers : y \in ToSet(buffer_table'[i]) <=>
           \/ y \in ToSet(buffer_table[i]) /\ y # x
           \/ i = h /\ y = x
      /\ \A i \in Buckets : ToSet(buffer_table'[i]) \subseteq Buffers
  BY DEF Moves
<1> HIDE DEF h
<1>3. Cached \subseteq Buffers
  BY DEF Listed
<1>4. /\ \A y : y \in Cached <=> \E i \in Buckets : y \in ToSet(buffer_table[i])
      /\ \A y : y \in Cached' <=> \E i \in Buckets : y \in ToSet(buffer_table'[i])
  BY DEF Cached
<1>5. Cached' = Cached \cup {x}
  BY <1>1, <1>2, <1>3, <1>4
<1>6. (ToSet(bh_free_list) \cup Cached = Buffers)'
  BY <1>1, <1>2, <1>5 DEF Listed
<1>7. ASSUME NEW i \in Buckets, NEW y \in ToSet(buffer_table'[i])
      PROVE  /\ y \notin ToSet(bh_free_list')
             /\ buf'[y].blkno \in Blocks /\ BUFFER_HASH[buf'[y].blkno] = i
  <2>1. y \in Buffers
    BY <1>2
  <2>2. CASE y = x
    BY <1>2, <2>1, <2>2 DEF Listed, h
  <2>3. CASE y # x
    BY <1>2, <2>1, <2>3 DEF Listed
  <2>. QED  BY <2>2, <2>3
<1>8. ASSUME NEW y \in Cached, y # x PROVE buf[y].blkno # b
  BY <1>4 DEF Listed, find_buffer, h
<1>9. \A y, z \in Cached' : buf'[y].blkno = buf'[z].blkno => y = z
  BY <1>3, <1>5, <1>8 DEF Listed
<1>. QED
  BY <1>2, <1>5, <1>6, <1>7, <1>9 DEF Listed

-----------------------------------------------------------------------------
(* The steps of a task with a buffer it has.                                *)

\* t, which has x, goes on to v, and leaves x as h; it may wake others; the
\* lists stay.
UseStep(t, x, v, h) ==
    /\ call[t].pc \in UsingCalls /\ call[t].x = x
    /\ v.pc \in UsingCalls /\ v.x = x
    /\ h.blkno = buf[x].blkno /\ h.use_count = buf[x].use_count
    /\ call' \in [Tasks -> Calls] /\ call'[t] = v
    /\ \A u \in Tasks \ {t} :
         call'[u] = call[u] \/ (call[u].pc = "asleep" /\ call'[u].pc = "again")
    /\ buf' \in [Buffers -> BufHeads] /\ buf'[x] = h
    /\ \A y \in Buffers \ {x} : buf'[y] = buf[y]
    /\ UNCHANGED <<NR_BUFFERS, buffer_table, bh_free_list, last_bucket>>

\* The shape of a step by Goto that leaves x as h.
LEMMA UseStepForm ==
  ASSUME TypeOK, NEW t \in Tasks, call[t].pc \in UsingCalls,
         NEW x, x = call[t].x, NEW v \in Calls, v.pc \in UsingCalls, v.x = x,
         NEW h \in BufHeads,
         h.blkno = buf[x].blkno, h.use_count = buf[x].use_count,
         Goto(t, v), buf' = [buf EXCEPT ![x] = h],
         UNCHANGED <<buffer_table, bh_free_list, last_bucket>>
  PROVE  UseStep(t, x, v, h)
<1>1. /\ call \in [Tasks -> Calls] /\ buf \in [Buffers -> BufHeads] /\ x \in Buffers
      /\ call' = [call EXCEPT ![t] = v] /\ UNCHANGED NR_BUFFERS
  BY CallForms DEF TypeOK, Goto, Become
<1>. QED
  BY <1>1 DEF UseStep

\* Such a step keeps the lists and the counts ...
LEMMA UseStepCounts ==
  ASSUME BInv, NEW t \in Tasks, NEW x, NEW v, NEW h, UseStep(t, x, v, h)
  PROVE  /\ Listed' /\ Counted' /\ UsersCached'
         /\ Cached' = Cached /\ Buffers' = Buffers /\ Calls' = Calls
         /\ x \in Buffers /\ x \in Cached
         /\ \A u \in Tasks, y \in Buffers : Has(u, y)' <=> Has(u, y)
<1>1. x \in Buffers /\ x \in Cached
  BY CallForms DEF BInv, UseStep, UsersCached
<1>2. Buffers' = Buffers /\ Calls' = Calls
  BY DEF UseStep, Buffers, Calls
<1>3. Listed' /\ Cached' = Cached
  <2>1. \A i \in Buckets : /\ NoRepeats(buffer_table'[i])
                           /\ ToSet(buffer_table'[i]) = ToSet(buffer_table[i])
    BY DEF UseStep, BInv, Listed
  <2>2. \A y \in Buffers : buf'[y].blkno = buf[y].blkno
    BY DEF UseStep
  <2>. QED  BY <2>1, <2>2, SameLists DEF BInv, UseStep
<1>4. \A u \in Tasks : /\ call'[u].pc \in UsingCalls <=> call[u].pc \in UsingCalls
                       /\ call[u].pc \in UsingCalls => call'[u].x = call[u].x
  BY DEF UseStep, UsingCalls
<1>5. \A u \in Tasks, y \in Buffers : Has(u, y)' <=> Has(u, y)
  BY <1>4 DEF Has
<1>6. UsersCached'
  BY <1>3, <1>4 DEF UsersCached, BInv
<1>7. \A y \in Buffers : Users(y)' = Users(y)
  BY <1>4 DEF Users
<1>8. \A y \in Buffers : buf'[y].use_count = buf[y].use_count
  BY DEF UseStep
<1>9. Counted'
  BY <1>2, <1>3, <1>7, <1>8 DEF Counted, BInv
<1>. QED
  BY <1>1, <1>2, <1>3, <1>5, <1>6, <1>9

\* ... and one that neither starts nor ends the filling of a buffer, the locks.
LEMMA UseStepLocks ==
  ASSUME BInv, NEW t \in Tasks, NEW x, NEW v, NEW h, UseStep(t, x, v, h),
         h.locked = buf[x].locked,
         v.pc \in {"reading", "read"} <=> Filling(t)
  PROVE  LocksHeld' /\ SleepersAreWoken'
<1>1. /\ Cached' = Cached /\ Buffers' = Buffers /\ x \in Buffers
      /\ \A u \in Tasks, y \in Buffers : Has(u, y)' <=> Has(u, y)
  BY UseStepCounts
<1>2. \A u \in Tasks : Filling(u)' <=> Filling(u)
  BY DEF UseStep, Filling
<1>3. \A y \in Buffers : buf'[y].locked = buf[y].locked
  BY <1>1 DEF UseStep
<1>4. Cached \subseteq Buffers
  BY DEF BInv, Listed
<1>5. LocksHeld'
  BY <1>1, <1>2, <1>3, <1>4 DEF LocksHeld, BInv
<1>6. ASSUME NEW u \in Tasks, call'[u].pc = "asleep"
      PROVE  \E w \in Tasks : /\ call'[w].pc \in UsingCalls
                             /\ call'[w].x = call'[u].x /\ Filling(w)'
  <2>1. u # t
    BY <1>6 DEF UseStep, UsingCalls
  <2>2. call'[u] = call[u] /\ call[u].x \in Buffers
    BY <1>6, <2>1, CallForms DEF UseStep, BInv
  <2>3. PICK w \in Tasks : Has(w, call[u].x) /\ Filling(w)
    BY <1>6, <2>2 DEF BInv, SleepersAreWoken, Users, Has, Filling
  <2>4. call'[w].pc \in UsingCalls /\ call'[w].x = call[w].x
    BY <2>3 DEF Has, UseStep, UsingCalls
  <2>. QED  BY <1>2, <2>2, <2>3, <2>4 DEF Has
<1>7. SleepersAreWoken'
  BY <1>6 DEF SleepersAreWoken, Users, Has, Filling
<1>. QED
  BY <1>5, <1>7

\* A task that does not wait for the device has no request.
LEMMA NoRequest ==
  ASSUME BInv, NEW t \in Tasks, call[t].pc \notin {"reading", "writing"}
  PROVE  \A n \in 1..Len(requests) : requests[n].task # t
  BY DEF BInv, RequestsMatch

\* The requests stay, and so do the tasks that wait for them.
LEMMA SameRequests ==
  ASSUME BInv, requests' = requests,
         \A u \in Tasks : call[u].pc \in {"reading", "writing"} => call'[u] = call[u]
  PROVE  RequestsMatch'
<1>1. requests \in Seq([task : Tasks, op : {"read", "write"}, x : Buffers])
  BY DEF BInv, TypeOK
<1>2. ASSUME NEW n \in 1..Len(requests)
      PROVE  call'[requests[n].task] = call[requests[n].task]
  <2>1. requests[n] \in [task : Tasks, op : {"read", "write"}, x : Buffers]
    BY <1>1, ElementOfSeq
  <2>2. requests[n].task \in Tasks
    BY <2>1
  <2>. QED  BY <2>2 DEF BInv, RequestsMatch
<1>. QED
  BY <1>2 DEF BInv, RequestsMatch, Has

\* v is the call of a task that notices a dirty buffer, or keeps a change.
NoticesIn(v) == \/ v.pc \in {"held", "modified", "brelse", "clear"}
                \/ v.pc \in {"submit", "writing"} /\ v.then = "held"
WritesIn(v) == v.pc \in {"reading", "modified", "submit", "writing"}

\* A step loses no change, if its own task sees to what it does to the buffer
\* and to its block on the disk.
LEMMA UseStepChanges ==
  ASSUME BInv, NEW t \in Tasks, NEW x, NEW v, NEW h, UseStep(t, x, v, h),
         failed \subseteq failed',
         \A b \in Blocks \ {h.blkno} : disk'[b] = disk[b],
         h.dirty => NoticesIn(v) \/ (buf[x].dirty /\ ~Notices(t)),
         \/ h.dirty \/ WritesIn(v)
         \/ h.blkno \in failed' \/ h.data = disk'[h.blkno]
         \/ disk' = disk /\ h.data = buf[x].data /\ ~Writes(t) /\ ~buf[x].dirty
  PROVE  DirtyNoticed' /\ ChangesKept'
<1>1. /\ Cached' = Cached /\ x \in Buffers /\ x \in Cached
      /\ \A u \in Tasks, y \in Buffers : Has(u, y)' <=> Has(u, y)
      /\ Cached \subseteq Buffers
  BY UseStepCounts DEF BInv, Listed
<1>2. /\ \A u \in Tasks \ {t} :
           call'[u] = call[u] \/ (call[u].pc = "asleep" /\ call'[u].pc = "again")
      /\ \A y \in Buffers \ {x} : buf'[y] = buf[y]
      /\ buf'[x] = h /\ h.blkno = buf[x].blkno /\ Has(t, x) /\ Has(t, x)'
      /\ call'[t] = v
  BY <1>1 DEF UseStep, Has
<1>3. /\ \A u \in Tasks \ {t} : (Notices(u)' <=> Notices(u)) /\ (Writes(u)' <=> Writes(u))
      /\ NoticesIn(v) => Notices(t)'
      /\ WritesIn(v) => Writes(t)'
  BY <1>2 DEF Notices, Writes, NoticesIn, WritesIn
<1>4. ASSUME NEW y \in Cached, buf'[y].dirty
      PROVE  \E u \in Tasks : Has(u, y)' /\ Notices(u)'
  <2>1. CASE y = x /\ NoticesIn(v)
    BY <1>2, <1>3, <2>1
  <2>2. CASE y = x /\ ~NoticesIn(v)
    <3>1. buf[x].dirty /\ ~Notices(t)
      BY <1>2, <1>4, <2>2
    <3>2. PICK u \in Tasks : Has(u, x) /\ Notices(u)
      BY <1>1, <3>1 DEF BInv, DirtyNoticed
    <3>. QED  BY <1>1, <1>3, <2>2, <3>1, <3>2
  <2>3. CASE y # x
    <3>1. buf[y].dirty /\ y \in Buffers
      BY <1>1, <1>2, <1>4, <2>3
    <3>2. PICK u \in Tasks : Has(u, y) /\ Notices(u)
      BY <3>1 DEF BInv, DirtyNoticed
    <3>3. u # t
      BY <1>2, <2>3, <3>2 DEF Has
    <3>. QED  BY <1>1, <1>3, <3>1, <3>2, <3>3
  <2>. QED  BY <2>1, <2>2, <2>3
<1>5. ASSUME NEW y \in Cached
      PROVE  \/ buf'[y].blkno \in failed' \/ buf'[y].data = disk'[buf'[y].blkno]
             \/ buf'[y].dirty \/ \E u \in Tasks : Has(u, y)' /\ Writes(u)'
  <2>1. CASE y = x /\ (\/ h.dirty \/ WritesIn(v)
                       \/ h.blkno \in failed' \/ h.data = disk'[h.blkno])
    BY <1>2, <1>3, <2>1
  <2>2. CASE /\ y = x
             /\ disk' = disk /\ h.data = buf[x].data /\ ~Writes(t) /\ ~buf[x].dirty
    <3>1. CASE buf[x].blkno \in failed \/ buf[x].data = disk[buf[x].blkno]
      BY <1>2, <2>2, <3>1
    <3>2. ASSUME NEW u \in Tasks, Has(u, x), Writes(u)
          PROVE  Has(u, x)' /\ Writes(u)'
      BY <1>1, <1>3, <2>2, <3>2
    <3>. QED  BY <1>1, <2>2, <3>1, <3>2 DEF BInv, ChangesKept
  <2>3. CASE y # x
    <3>1. buf'[y] = buf[y] /\ y \in Buffers
      BY <1>1, <1>2, <2>3
    <3>0. disk'[buf[y].blkno] = disk[buf[y].blkno]
      BY <1>1, <1>2, <2>3 DEF BInv, Listed, Cached
    <3>2. ASSUME NEW u \in Tasks, Has(u, y), Writes(u)
          PROVE  Has(u, y)' /\ Writes(u)'
      <4>1. u # t
        BY <1>2, <2>3, <3>2 DEF Has
      <4>. QED  BY <1>1, <1>3, <3>1, <3>2, <4>1
    <3>. QED  BY <3>0, <3>1, <3>2 DEF BInv, ChangesKept
  <2>. QED  BY <2>1, <2>2, <2>3
<1>6. DirtyNoticed'
  BY <1>1, <1>4 DEF DirtyNoticed
<1>7. ChangesKept'
  BY <1>1, <1>5 DEF ChangesKept
<1>. QED
  BY <1>6, <1>7

\* The types after a step of this kind.
LEMMA UseStepType ==
  ASSUME BInv, NEW t \in Tasks, NEW x, NEW v, NEW h, UseStep(t, x, v, h),
         disk' \in [Blocks -> Values], failed' \in SUBSET Blocks,
         requests' \in Seq([task : Tasks, op : {"read", "write"}, x : Buffers])
  PROVE  TypeOK'
<1>1. Buffers' = Buffers /\ Calls' = Calls
  BY UseStepCounts
<1>. QED
  BY <1>1 DEF TypeOK, BInv, UseStep

\* The steps in which a task works on its buffer by itself.
LEMMA QuietStep ==
  ASSUME BInv, NEW t \in Tasks, NEW x, NEW v, NEW h, UseStep(t, x, v, h),
         UNCHANGED <<disk, requests, failed>>, h.locked = buf[x].locked,
         call[t].pc \notin {"reading", "read", "writing"},
         v.pc \notin {"reading", "read"},
         h.dirty => NoticesIn(v) \/ (buf[x].dirty /\ ~Notices(t)),
         \/ h.dirty \/ WritesIn(v)
         \/ h.data = buf[x].data /\ ~Writes(t) /\ ~buf[x].dirty
  PROVE  BInv'
<1>1. Listed' /\ Counted' /\ UsersCached'
  BY UseStepCounts
<1>2. LocksHeld' /\ SleepersAreWoken'
  BY UseStepLocks DEF Filling
<1>3. DirtyNoticed' /\ ChangesKept'
  BY UseStepChanges
<1>4. TypeOK'
  BY UseStepType DEF BInv, TypeOK
<1>5. RequestsMatch'
  BY SameRequests DEF UseStep
<1>. QED
  BY <1>1, <1>2, <1>3, <1>4, <1>5 DEF BInv

\* The caller of bread() changes the data of its buffer.
LEMMA ModifyInv ==
  ASSUME BInv, NEW t \in Tasks, NEW w \in Values, Modify(t, w)
  PROVE  BInv'
<1> DEFINE x == call[t].x
           v == Using("modified", x)
           h == [buf[x] EXCEPT !.data = w]
<1>1. TypeOK /\ call[t].pc = "held" /\ x \in Buffers /\ buf \in [Buffers -> BufHeads]
  BY CallForms DEF BInv, TypeOK, Modify, UsingCalls
<1>2. buf' = [buf EXCEPT ![x] = h] /\ Goto(t, v)
  BY <1>1 DEF Modify
<1>3. /\ h \in BufHeads /\ h.blkno = buf[x].blkno /\ h.use_count = buf[x].use_count
      /\ h.locked = buf[x].locked
  BY <1>1 DEF BufHeads
<1>4. v \in Calls /\ v.pc = "modified" /\ v.x = x
  BY <1>1, CallParts
<1>5. UNCHANGED <<buffer_table, bh_free_list, last_bucket, disk, requests, failed>>
  BY DEF Modify
<1> HIDE DEF h, v, x
<1>6. UseStep(t, x, v, h)
  BY <1>1, <1>2, <1>3, <1>4, <1>5, UseStepForm DEF UsingCalls, x
<1>7. NoticesIn(v) /\ WritesIn(v)
  BY <1>4 DEF NoticesIn, WritesIn
<1>. QED
  BY <1>1, <1>3, <1>4, <1>5, <1>6, <1>7, QuietStep

\* bdirty() marks the change.
LEMMA BdirtyInv ==
  ASSUME BInv, NEW t \in Tasks, NEW now \in BOOLEAN, bdirty(t, now)
  PROVE  BInv'
<1> DEFINE x == call[t].x
           v == IF now THEN Writing("clear", x, "held") ELSE Using("held", x)
           h == [buf[x] EXCEPT !.dirty = TRUE]
<1>1. TypeOK /\ call[t].pc = "modified" /\ x \in Buffers /\ buf \in [Buffers -> BufHeads]
  BY CallForms DEF BInv, TypeOK, bdirty, UsingCalls
<1>2. buf' = [buf EXCEPT ![x] = h] /\ Goto(t, v)
  BY <1>1 DEF bdirty
<1>3. /\ h \in BufHeads /\ h.blkno = buf[x].blkno /\ h.use_count = buf[x].use_count
      /\ h.locked = buf[x].locked /\ h.dirty
  BY <1>1 DEF BufHeads
<1>4. v \in Calls /\ v.pc \in {"clear", "held"} /\ v.x = x
  BY <1>1, CallParts
<1>5. UNCHANGED <<buffer_table, bh_free_list, last_bucket, disk, requests, failed>>
  BY DEF bdirty
<1> HIDE DEF h, v, x
<1>6. UseStep(t, x, v, h)
  BY <1>1, <1>2, <1>3, <1>4, <1>5, UseStepForm DEF UsingCalls, x
<1>7. NoticesIn(v)
  BY <1>4 DEF NoticesIn
<1>. QED
  BY <1>1, <1>3, <1>4, <1>5, <1>6, <1>7, QuietStep

\* A write begins by clearing the mark.
LEMMA ClearDirtyInv ==
  ASSUME BInv, NEW t \in Tasks, ClearDirty(t)
  PROVE  BInv'
<1> DEFINE x == call[t].x
           v == Writing("submit", x, call[t].then)
           h == [buf[x] EXCEPT !.dirty = FALSE]
<1>1. /\ TypeOK /\ call[t].pc = "clear" /\ x \in Buffers
      /\ buf \in [Buffers -> BufHeads]
      /\ call[t] = Writing("clear", x, call[t].then) /\ call[t].then \in {"held", "release"}
  BY CallForms DEF BInv, TypeOK, ClearDirty, UsingCalls
<1>2. buf' = [buf EXCEPT ![x] = h] /\ Goto(t, v)
  BY <1>1 DEF ClearDirty, Writing
<1>3. /\ h \in BufHeads /\ h.blkno = buf[x].blkno /\ h.use_count = buf[x].use_count
      /\ h.locked = buf[x].locked /\ ~h.dirty
  BY <1>1 DEF BufHeads
<1>4. v \in Calls /\ v.pc = "submit" /\ v.x = x
  BY <1>1, CallParts
<1>5. UNCHANGED <<buffer_table, bh_free_list, last_bucket, disk, requests, failed>>
  BY DEF ClearDirty
<1> HIDE DEF h, v, x
<1>6. UseStep(t, x, v, h)
  BY <1>1, <1>2, <1>3, <1>4, <1>5, UseStepForm DEF UsingCalls, x
<1>7. WritesIn(v)
  BY <1>4 DEF WritesIn
<1>. QED
  BY <1>1, <1>3, <1>4, <1>5, <1>6, <1>7, QuietStep

\* brelse() tests the mark, and writes or goes on to the release.
LEMMA BrelseInv ==
  ASSUME BInv, NEW t \in Tasks, brelse(t)
  PROVE  BInv'
<1> DEFINE x == call[t].x
           v == IF buf[x].dirty THEN Writing("clear", x, "release") ELSE Using("release", x)
           h == buf[x]
<1>1. /\ TypeOK /\ call[t].pc \in {"held", "brelse"} /\ x \in Buffers
      /\ buf \in [Buffers -> BufHeads] /\ h \in BufHeads
  BY CallForms DEF BInv, TypeOK, brelse, UsingCalls
<1>2. buf' = [buf EXCEPT ![x] = h] /\ Goto(t, v)
  BY <1>1 DEF brelse, cache
<1>4. /\ v \in Calls /\ v.pc \in {"clear", "release"} /\ v.x = x
      /\ h.dirty => v.pc = "clear"
  BY <1>1, CallParts
<1>5. UNCHANGED <<buffer_table, bh_free_list, last_bucket, disk, requests, failed>>
  BY DEF brelse, cache
<1> HIDE DEF v, x
<1>6. UseStep(t, x, v, h)
  BY <1>1, <1>2, <1>4, <1>5, UseStepForm DEF UsingCalls, x
<1>7. h.dirty => NoticesIn(v)
  BY <1>4 DEF NoticesIn
<1>8. ~Writes(t)
  BY <1>1 DEF Writes
<1>. QED
  BY <1>1, <1>4, <1>5, <1>6, <1>7, <1>8, QuietStep

\* The request that is added is the one its task now waits for.
LEMMA AddRequest ==
  ASSUME BInv, NEW t \in Tasks, NEW x \in Buffers, NEW op \in {"read", "write"},
         requests' = Append(requests, [task |-> t, op |-> op, x |-> x]),
         call[t].pc \notin {"reading", "writing"},
         \A u \in Tasks \ {t} : call[u].pc \in {"reading", "writing"} => call'[u] = call[u],
         call'[t].x = x,
         call'[t].pc = IF op = "read" THEN "reading" ELSE "writing"
  PROVE  /\ RequestsMatch'
         /\ requests' \in Seq([task : Tasks, op : {"read", "write"}, x : Buffers])
<1> DEFINE R == [task : Tasks, op : {"read", "write"}, x : Buffers]
           r == [task |-> t, op |-> op, x |-> x]
<1>1. requests \in Seq(R) /\ r \in R /\ requests' = Append(requests, r)
  BY DEF BInv, TypeOK
<1>2. r.task = t /\ r.op = op /\ r.x = x
  OBVIOUS
<1> HIDE DEF R, r
<1>3. /\ requests' \in Seq(R) /\ Len(requests') = Len(requests) + 1
      /\ Len(requests) \in Nat /\ requests'[Len(requests) + 1] = r
      /\ \A n \in 1..Len(requests) : requests'[n] = requests[n] /\ requests[n] \in R
  BY <1>1
<1>4. \A n \in 1..Len(requests) : requests[n].task \in Tasks \ {t}
  BY <1>3, NoRequest DEF R
<1>5. ASSUME NEW n \in 1..Len(requests')
      PROVE  /\ call'[requests'[n].task].pc \in UsingCalls
             /\ call'[requests'[n].task].x = requests'[n].x
             /\ call'[requests'[n].task].pc =
                  IF requests'[n].op = "read" THEN "reading" ELSE "writing"
  <2>1. CASE n = Len(requests) + 1
    BY <1>2, <1>3, <2>1 DEF UsingCalls
  <2>2. CASE n # Len(requests) + 1
    <3>1. n \in 1..Len(requests)
      BY <1>3, <2>2
    <3>2. call'[requests[n].task] = call[requests[n].task] /\ requests'[n] = requests[n]
      BY <1>3, <1>4, <3>1 DEF BInv, RequestsMatch
    <3>. QED  BY <3>1, <3>2 DEF BInv, RequestsMatch, Has
  <2>. QED  BY <2>1, <2>2
<1>6. ASSUME NEW m \in 1..Len(requests'), NEW n \in 1..Len(requests'), m < n
      PROVE  requests'[m].task # requests'[n].task
  <2>1. m \in 1..Len(requests)
    BY <1>3, <1>6
  <2>2. CASE n = Len(requests) + 1
    BY <1>2, <1>3, <1>4, <2>1, <2>2
  <2>3. CASE n # Len(requests) + 1
    <3>1. n \in 1..Len(requests)
      BY <1>3, <2>3
    <3>. QED  BY <1>3, <1>6, <2>1, <3>1 DEF BInv, RequestsMatch
  <2>. QED  BY <2>2, <2>3
<1>7. \A m, n \in 1..Len(requests') : m # n => requests'[m].task # requests'[n].task
  BY <1>3, <1>6
<1>. QED
  BY <1>3, <1>5, <1>7 DEF RequestsMatch, Has, R

\* The write is handed to the device.
LEMMA SubmitInv ==
  ASSUME BInv, NEW t \in Tasks, Submit(t)
  PROVE  BInv'
<1> DEFINE x == call[t].x
           v == Writing("writing", x, call[t].then)
           h == buf[x]
<1>1. /\ TypeOK /\ call[t].pc = "submit" /\ x \in Buffers
      /\ buf \in [Buffers -> BufHeads] /\ h \in BufHeads
      /\ call[t] = Writing("submit", x, call[t].then) /\ call[t].then \in {"held", "release"}
  BY CallForms DEF BInv, TypeOK, Submit, UsingCalls
<1>2. buf' = [buf EXCEPT ![x] = h] /\ Goto(t, v)
  BY <1>1 DEF Submit, cache, Writing
<1>4. v \in Calls /\ v.pc = "writing" /\ v.x = x /\ v.then = call[t].then
  BY <1>1, CallParts
<1>5. UNCHANGED <<buffer_table, bh_free_list, last_bucket, disk, failed>>
  BY DEF Submit, cache
<1>6. requests' = Append(requests, [task |-> t, op |-> "write", x |-> x])
  BY DEF Submit
<1> HIDE DEF v, x
<1>7. UseStep(t, x, v, h)
  BY <1>1, <1>2, <1>4, <1>5, UseStepForm DEF UsingCalls, x
<1>8. RequestsMatch' /\ requests' \in Seq([task : Tasks, op : {"read", "write"}, x : Buffers])
  <2>1. /\ call'[t].x = x /\ call'[t].pc = "writing"
        /\ \A u \in Tasks \ {t} : call[u].pc \in {"reading", "writing"} => call'[u] = call[u]
    BY <1>4, <1>7 DEF UseStep
  <2>. QED  BY <1>1, <1>6, <2>1, AddRequest
<1>9. NoticesIn(v) <=> Notices(t)
  BY <1>1, <1>4 DEF NoticesIn, Notices
<1>10. DirtyNoticed' /\ ChangesKept'
  BY <1>4, <1>5, <1>7, <1>9, UseStepChanges DEF WritesIn
<1>11. Listed' /\ Counted' /\ UsersCached'
  BY <1>7, UseStepCounts
<1>12. LocksHeld' /\ SleepersAreWoken'
  BY <1>1, <1>4, <1>7, UseStepLocks DEF Filling
<1>13. TypeOK'
  BY <1>5, <1>7, <1>8, UseStepType DEF BInv, TypeOK
<1>. QED
  BY <1>8, <1>10, <1>11, <1>12, <1>13 DEF BInv

\* The device takes the first request: its task waits for it, the others keep
\* theirs.
LEMMA FirstRequest ==
  ASSUME BInv, requests # <<>>
  PROVE  LET r == Head(requests)
         IN  /\ r.task \in Tasks /\ r.x \in Buffers
             /\ Has(r.task, r.x)
             /\ call[r.task].pc = IF r.op = "read" THEN "reading" ELSE "writing"
<1> DEFINE R == [task : Tasks, op : {"read", "write"}, x : Buffers]
<1>1. requests \in Seq(R)
  BY DEF BInv, TypeOK
<1> HIDE DEF R
<1>2. Head(requests) = requests[1] /\ 1 \in 1..Len(requests) /\ Head(requests) \in R
  BY <1>1
<1>. QED
  BY <1>2 DEF R, BInv, RequestsMatch

\* The first request is served.
LEMMA DropRequest ==
  ASSUME BInv, requests # <<>>, requests' = Tail(requests),
         \A u \in Tasks \ {Head(requests).task} :
           call[u].pc \in {"reading", "writing"} => call'[u] = call[u]
  PROVE  /\ RequestsMatch'
         /\ requests' \in Seq([task : Tasks, op : {"read", "write"}, x : Buffers])
<1> DEFINE R == [task : Tasks, op : {"read", "write"}, x : Buffers]
<1>1. requests \in Seq(R)
  BY DEF BInv, TypeOK
<1> HIDE DEF R
<1>2. /\ requests' \in Seq(R) /\ Len(requests') = Len(requests) - 1
      /\ Len(requests) \in Nat \ {0} /\ Head(requests) = requests[1]
      /\ \A n \in 1..Len(requests') : requests'[n] = requests[n + 1]
      /\ \A n \in 1..Len(requests) : requests[n] \in R
  BY <1>1
<1>3. ASSUME NEW n \in 1..Len(requests')
      PROVE  /\ call'[requests'[n].task].pc \in UsingCalls
             /\ call'[requests'[n].task].x = requests'[n].x
             /\ call'[requests'[n].task].pc =
                  IF requests'[n].op = "read" THEN "reading" ELSE "writing"
  <2>1. n + 1 \in 1..Len(requests) /\ 1 \in 1..Len(requests) /\ n + 1 # 1
    BY <1>2
  <2>2. requests[n + 1].task # Head(requests).task /\ requests[n + 1].task \in Tasks
    BY <1>2, <2>1 DEF BInv, RequestsMatch, R
  <2>3. call'[requests[n + 1].task] = call[requests[n + 1].task]
    BY <2>1, <2>2 DEF BInv, RequestsMatch
  <2>. QED  BY <1>2, <2>1, <2>3 DEF BInv, RequestsMatch, Has
<1>4. ASSUME NEW m \in 1..Len(requests'), NEW n \in 1..Len(requests'), m # n
      PROVE  requests'[m].task # requests'[n].task
  <2>1. m + 1 \in 1..Len(requests) /\ n + 1 \in 1..Len(requests) /\ m + 1 # n + 1
    BY <1>2, <1>4
  <2>. QED  BY <1>2, <2>1 DEF BInv, RequestsMatch
<1>. QED
  BY <1>2, <1>3, <1>4 DEF RequestsMatch, Has, R

\* The device fills a buffer.
LEMMA DeviceReadInv ==
  ASSUME BInv, NEW w \in Values, NEW ok \in BOOLEAN, DeviceRead(w, ok)
  PROVE  BInv'
<1> DEFINE r == Head(requests)
           t == r.task
           x == r.x
           b == buf[x].blkno
           v == Using("read", x)
           h == [buf[x] EXCEPT !.data = w]
<1>1. /\ requests # <<>> /\ r.op = "read" /\ requests' = Tail(requests)
      /\ ok => w = disk[b]
      /\ ~ok => b \in Fragile
      /\ failed' = IF ok THEN failed ELSE failed \cup {b}
      /\ buf' = [buf EXCEPT ![x].data = w] /\ Goto(t, v)
      /\ UNCHANGED <<buffer_table, bh_free_list, last_bucket, disk>>
  BY DEF DeviceRead
<1>2. /\ TypeOK /\ t \in Tasks /\ x \in Buffers /\ call[t].pc = "reading" /\ call[t].x = x
      /\ buf \in [Buffers -> BufHeads]
  BY <1>1, FirstRequest DEF BInv, TypeOK, Has
<1>3. buf' = [buf EXCEPT ![x] = h]
  BY <1>1, <1>2
<1>4. /\ h \in BufHeads /\ h.blkno = b /\ h.use_count = buf[x].use_count
      /\ h.locked = buf[x].locked /\ h.dirty = buf[x].dirty /\ h.data = w
  BY <1>2 DEF BufHeads
<1>5. v \in Calls /\ v.pc = "read" /\ v.x = x
  BY <1>2, CallParts
<1> HIDE DEF t, x, v, h
<1>6. UseStep(t, x, v, h)
  BY <1>1, <1>2, <1>3, <1>4, <1>5, UseStepForm DEF UsingCalls
<1>7. RequestsMatch' /\ requests' \in Seq([task : Tasks, op : {"read", "write"}, x : Buffers])
  BY <1>1, <1>6, DropRequest DEF UseStep, t
<1>8. failed \subseteq failed' /\ failed' \in SUBSET Blocks
  BY <1>1, ParametersAssumption DEF BInv, TypeOK
<1>9. h.blkno \in failed' \/ h.data = disk'[h.blkno]
  BY <1>1, <1>4
<1>10. ~Notices(t)
  BY <1>2 DEF Notices
<1>11. DirtyNoticed' /\ ChangesKept'
  BY <1>1, <1>2, <1>4, <1>6, <1>8, <1>9, <1>10, UseStepChanges
<1>12. Listed' /\ Counted' /\ UsersCached'
  BY <1>2, <1>6, UseStepCounts
<1>13. LocksHeld' /\ SleepersAreWoken'
  BY <1>2, <1>4, <1>5, <1>6, UseStepLocks DEF Filling
<1>14. TypeOK'
  BY <1>1, <1>2, <1>6, <1>7, <1>8, UseStepType DEF BInv, TypeOK
<1>. QED
  BY <1>7, <1>11, <1>12, <1>13, <1>14 DEF BInv

\* The device stores a buffer.
LEMMA DeviceWriteInv ==
  ASSUME BInv, NEW w \in Values, NEW ok \in BOOLEAN, DeviceWrite(w, ok)
  PROVE  BInv'
<1> DEFINE r == Head(requests)
           t == r.task
           x == r.x
           b == buf[x].blkno
           v == Using(call[t].then, x)
           h == buf[x]
<1>1. /\ requests # <<>> /\ r.op = "write" /\ requests' = Tail(requests)
      /\ ok => w = buf[x].data
      /\ ~ok => b \in Fragile
      /\ failed' = IF ok THEN failed ELSE failed \cup {b}
      /\ disk' = [disk EXCEPT ![b] = w] /\ Goto(t, v)
      /\ UNCHANGED <<buffer_table, bh_free_list, last_bucket, buf>>
  BY DEF DeviceWrite, cache
<1>2. /\ TypeOK /\ t \in Tasks /\ x \in Buffers /\ call[t].pc = "writing" /\ call[t].x = x
      /\ buf \in [Buffers -> BufHeads] /\ h \in BufHeads
      /\ disk \in [Blocks -> Values]
  BY <1>1, FirstRequest DEF BInv, TypeOK, Has
<1>3. call[t].then \in {"held", "release"}
  BY <1>2, CallForms
<1>4. buf' = [buf EXCEPT ![x] = h]
  BY <1>1, <1>2
<1>5. b \in Blocks
  <2>1. x \in Cached
    BY <1>2 DEF BInv, UsersCached, UsingCalls
  <2>. QED  BY <2>1 DEF BInv, Listed, Cached
<1>6. v \in Calls /\ v.pc = call[t].then /\ v.x = x
  BY <1>2, <1>3, CallParts
<1> HIDE DEF t, x, v
<1>7. UseStep(t, x, v, h)
  BY <1>1, <1>2, <1>3, <1>4, <1>6, UseStepForm DEF UsingCalls
<1>8. RequestsMatch' /\ requests' \in Seq([task : Tasks, op : {"read", "write"}, x : Buffers])
  BY <1>1, <1>7, DropRequest DEF UseStep, t
<1>9. failed \subseteq failed' /\ failed' \in SUBSET Blocks
  BY <1>1, ParametersAssumption DEF BInv, TypeOK
<1>10. /\ disk' \in [Blocks -> Values] /\ disk'[b] = w
       /\ \A c \in Blocks \ {b} : disk'[c] = disk[c]
  BY <1>1, <1>2, <1>5
<1>11. h.blkno \in failed' \/ h.data = disk'[h.blkno]
  BY <1>1, <1>10
<1>12. NoticesIn(v) \/ ~Notices(t)
  BY <1>2, <1>3, <1>6 DEF Notices, NoticesIn
<1>13. DirtyNoticed' /\ ChangesKept'
  BY <1>2, <1>7, <1>9, <1>10, <1>11, <1>12, UseStepChanges
<1>14. Listed' /\ Counted' /\ UsersCached'
  BY <1>2, <1>7, UseStepCounts
<1>15. LocksHeld' /\ SleepersAreWoken'
  BY <1>2, <1>3, <1>6, <1>7, UseStepLocks DEF Filling
<1>16. TypeOK'
  BY <1>2, <1>7, <1>8, <1>9, <1>10, UseStepType
<1>. QED
  BY <1>8, <1>13, <1>14, <1>15, <1>16 DEF BInv

\* The buffer is unlocked and all who wait for it are woken.
LEMMA BreadFilledInv ==
  ASSUME BInv, NEW t \in Tasks, bread_filled(t)
  PROVE  BInv'
<1> DEFINE x == call[t].x
           v == Using("held", x)
           h == [buf[x] EXCEPT !.locked = FALSE]
<1>1. /\ TypeOK /\ call[t].pc = "read" /\ x \in Buffers /\ buf \in [Buffers -> BufHeads]
      /\ call \in [Tasks -> Calls]
  BY CallForms DEF BInv, TypeOK, bread_filled, UsingCalls
<1>2. /\ buf' = [buf EXCEPT ![x] = h] /\ UNCHANGED NR_BUFFERS
      /\ call' = [u \in Tasks |->
                    IF u = t THEN v
                    ELSE IF call[u].pc = "asleep" /\ call[u].x = x
                    THEN Again(call[u].op) ELSE call[u]]
  BY <1>1 DEF bread_filled, Become
<1>3. /\ h \in BufHeads /\ h.blkno = buf[x].blkno /\ h.use_count = buf[x].use_count
      /\ ~h.locked /\ h.dirty = buf[x].dirty /\ h.data = buf[x].data
  BY <1>1 DEF BufHeads
<1>4. v \in Calls /\ v.pc = "held" /\ v.x = x
  BY <1>1, CallParts
<1>5. UNCHANGED <<buffer_table, bh_free_list, last_bucket, disk, requests, failed>>
  BY DEF bread_filled
<1> HIDE DEF h, v, x
<1>6. \A u \in Tasks : call[u].pc = "asleep" => Again(call[u].op) \in Calls
                                              /\ Again(call[u].op).pc = "again"
  BY <1>1, CallForms, CallParts
<1>7. /\ call' \in [Tasks -> Calls] /\ call'[t] = v
      /\ \A u \in Tasks \ {t} :
           call'[u] = call[u] \/ (call[u].pc = "asleep" /\ call'[u].pc = "again")
  BY <1>1, <1>2, <1>4, <1>6
<1>8. UseStep(t, x, v, h)
  <2>1. call[t].pc \in UsingCalls /\ v.pc \in UsingCalls /\ call[t].x = x
    BY <1>1, <1>4 DEF UsingCalls, x
  <2>2. /\ buf' \in [Buffers -> BufHeads] /\ buf'[x] = h
        /\ \A y \in Buffers \ {x} : buf'[y] = buf[y]
    BY <1>1, <1>2, <1>3
  <2>. QED  BY <1>2, <1>3, <1>4, <1>5, <1>7, <2>1, <2>2 DEF UseStep
<1>9. /\ Listed' /\ Counted' /\ UsersCached' /\ Cached' = Cached /\ Buffers' = Buffers
      /\ \A u \in Tasks, y \in Buffers : Has(u, y)' <=> Has(u, y)
  BY <1>8, UseStepCounts
<1>10. Has(t, x) /\ Filling(t) /\ ~Filling(t)'
  BY <1>1, <1>4, <1>7 DEF Has, UsingCalls, Filling, x
<1>11. \A u \in Tasks : Has(u, x) => u = t
  BY <1>1, <1>10 DEF BInv, LocksHeld
<1>12. \A u \in Tasks \ {t} : Filling(u)' <=> Filling(u)
  BY <1>7 DEF Filling
<1>13. /\ \A y \in Buffers \ {x} : buf'[y] = buf[y]
       /\ ~buf'[x].locked /\ Cached \subseteq Buffers
  BY <1>3, <1>8 DEF UseStep, BInv, Listed
<1>14. ASSUME NEW y \in Cached, buf'[y].locked
       PROVE  \E u \in Tasks : Has(u, y)' /\ Filling(u)'
  <2>1. y # x /\ buf[y].locked /\ y \in Buffers
    BY <1>13, <1>14
  <2>2. PICK u \in Tasks : Has(u, y) /\ Filling(u)
    BY <2>1 DEF BInv, LocksHeld
  <2>3. u # t
    BY <1>10, <2>1, <2>2 DEF Has
  <2>. QED  BY <1>9, <1>12, <2>1, <2>2, <2>3
<1>15. ASSUME NEW u \in Tasks, NEW w \in Tasks, NEW y \in Buffers,
              Has(u, y)', Filling(u)'
       PROVE  buf'[y].locked /\ (Has(w, y)' => w = u)
  <2>1. u # t /\ Has(u, y) /\ Filling(u)
    BY <1>9, <1>10, <1>12, <1>15
  <2>2. y # x
    BY <1>11, <2>1
  <2>. QED  BY <1>9, <1>13, <2>1, <2>2 DEF BInv, LocksHeld
<1>16. LocksHeld'
  BY <1>9, <1>14, <1>15 DEF LocksHeld
<1>17. ASSUME NEW u \in Tasks, call'[u].pc = "asleep"
       PROVE  \E w \in Tasks : /\ call'[w].pc \in UsingCalls
                               /\ call'[w].x = call'[u].x /\ Filling(w)'
  <2>1. u # t /\ call'[u] = call[u]
    BY <1>4, <1>7, <1>17
  <2>2. call[u].x # x
    BY <1>2, <1>6, <1>17, <2>1
  <2>3. PICK w \in Tasks : call[w].pc \in UsingCalls /\ call[w].x = call[u].x /\ Filling(w)
    BY <1>17, <2>1 DEF BInv, SleepersAreWoken, Users, Filling
  <2>4. w # t
    BY <2>2, <2>3 DEF x
  <2>5. call'[w] = call[w]
    BY <1>7, <2>3, <2>4 DEF UsingCalls
  <2>. QED  BY <1>12, <2>1, <2>3, <2>4, <2>5
<1>18. SleepersAreWoken'
  BY <1>17 DEF SleepersAreWoken, Users, Filling
<1>19. NoticesIn(v) /\ ~Writes(t)
  BY <1>1, <1>4 DEF NoticesIn, Writes
<1>20. DirtyNoticed' /\ ChangesKept'
  BY <1>3, <1>5, <1>8, <1>19, UseStepChanges
<1>21. TypeOK'
  BY <1>5, <1>8, UseStepType DEF BInv, TypeOK
<1>22. RequestsMatch'
  BY <1>1, <1>5, <1>7, SameRequests
<1>. QED
  BY <1>9, <1>16, <1>18, <1>20, <1>21, <1>22 DEF BInv

-----------------------------------------------------------------------------
(* The steps in which a task gets a buffer, or gives it up.                 *)

\* t, which has no buffer, gets x, left as h, and goes on to v.
GetStep(t, x, v, h) ==
    /\ call[t].pc \notin UsingCalls \cup {"asleep"}
    /\ v.pc \in UsingCalls /\ v.x = x
    /\ x \in Buffers /\ h.use_count = Cardinality(Users(x)) + 1
    /\ call' \in [Tasks -> Calls] /\ call'[t] = v
    /\ \A u \in Tasks \ {t} : call'[u] = call[u]
    /\ buf' \in [Buffers -> BufHeads] /\ buf'[x] = h
    /\ \A y \in Buffers \ {x} : buf'[y] = buf[y]
    /\ UNCHANGED <<NR_BUFFERS, disk, failed>>
    /\ Listed' /\ Cached' = Cached \cup {x}

\* The step takes a reference for t alone.
LEMMA GetStepHas ==
  ASSUME BInv, NEW t \in Tasks, NEW x, NEW v, NEW h, GetStep(t, x, v, h)
  PROVE  /\ \A u \in Tasks, y \in Buffers : Has(u, y)' <=> Has(u, y) \/ (u = t /\ y = x)
         /\ \A y \in Buffers : ~Has(t, y)
         /\ Buffers' = Buffers /\ Calls' = Calls
         /\ Counted' /\ UsersCached'
<1>1. \A y \in Buffers : ~Has(t, y)
  BY DEF GetStep, Has
<1>2. \A u \in Tasks, y \in Buffers : Has(u, y)' <=> Has(u, y) \/ (u = t /\ y = x)
  BY <1>1 DEF GetStep, Has
<1>3. Buffers' = Buffers /\ Calls' = Calls
  BY DEF GetStep, Buffers, Calls
<1>4. UsersCached'
  BY DEF GetStep, UsersCached, BInv
<1>5. ASSUME NEW y \in Buffers
      PROVE  buf'[y].use_count = IF y \in Cached' THEN Cardinality(Users(y)') ELSE 0
  <2>1. Users(y) = {u \in Tasks : Has(u, y)} /\ Users(y)' = {u \in Tasks : Has(u, y)'}
    BY DEF Users, Has
  <2>2. CASE y = x
    <3>1. t \notin Users(x) /\ Users(x)' = Users(x) \cup {t}
      BY <1>1, <1>2, <1>5, <2>1, <2>2
    <3>2. IsFiniteSet(Users(x))
      BY ParametersAssumption, FS_Subset DEF Users
    <3>3. Cardinality(Users(x)') = Cardinality(Users(x)) + 1
      BY <3>1, <3>2, FS_AddElement
    <3>. QED  BY <2>2, <3>3 DEF GetStep
  <2>3. CASE y # x
    <3>1. Users(y)' = Users(y)
      BY <1>2, <1>5, <2>1, <2>3
    <3>. QED  BY <1>5, <2>3, <3>1 DEF GetStep, BInv, Counted
  <2>. QED  BY <2>2, <2>3
<1>6. Counted'
  BY <1>3, <1>5 DEF Counted
<1>. QED
  BY <1>1, <1>2, <1>3, <1>4, <1>6

\* The buffer is nobody's and being filled, or is filled and stays so.
LEMMA GetStepLocks ==
  ASSUME BInv, NEW t \in Tasks, NEW x, NEW v, NEW h, GetStep(t, x, v, h),
         \A u \in Tasks : Has(u, x) => ~Filling(u),
         h.locked <=> v.pc \in {"reading", "read"},
         h.locked => \A u \in Tasks : ~Has(u, x)
  PROVE  LocksHeld' /\ SleepersAreWoken'
<1>1. /\ \A u \in Tasks, y \in Buffers : Has(u, y)' <=> Has(u, y) \/ (u = t /\ y = x)
      /\ \A y \in Buffers : ~Has(t, y)
      /\ Buffers' = Buffers /\ Cached' = Cached \cup {x} /\ x \in Buffers
      /\ Cached \subseteq Buffers
  BY GetStepHas DEF GetStep, BInv, Listed
<1>2. /\ \A u \in Tasks \ {t} : Filling(u)' <=> Filling(u)
      /\ Filling(t)' <=> h.locked
      /\ \A y \in Buffers \ {x} : buf'[y] = buf[y]
      /\ buf'[x] = h
  BY DEF GetStep, Filling
<1>3. ASSUME NEW y \in Cached', buf'[y].locked
      PROVE  \E u \in Tasks : Has(u, y)' /\ Filling(u)'
  <2>1. CASE y = x
    BY <1>1, <1>2, <1>3, <2>1
  <2>2. CASE y # x
    <3>1. y \in Cached /\ buf[y].locked /\ y \in Buffers
      BY <1>1, <1>2, <1>3, <2>2
    <3>2. PICK u \in Tasks : Has(u, y) /\ Filling(u)
      BY <3>1 DEF BInv, LocksHeld
    <3>. QED  BY <1>1, <1>2, <3>1, <3>2
  <2>. QED  BY <2>1, <2>2
<1>4. ASSUME NEW u \in Tasks, NEW w \in Tasks, NEW y \in Buffers,
             Has(u, y)', Filling(u)'
      PROVE  buf'[y].locked /\ (Has(w, y)' => w = u)
  <2>1. CASE u = t
    <3>1. y = x /\ h.locked
      BY <1>1, <1>2, <1>4, <2>1
    <3>. QED  BY <1>1, <1>2, <2>1, <3>1
  <2>2. CASE u # t
    <3>1. Has(u, y) /\ Filling(u) /\ y # x
      BY <1>1, <1>2, <1>4, <2>2
    <3>. QED  BY <1>1, <1>2, <3>1 DEF BInv, LocksHeld
  <2>. QED  BY <2>1, <2>2
<1>5. LocksHeld'
  BY <1>1, <1>3, <1>4 DEF LocksHeld
<1>6. ASSUME NEW u \in Tasks, call'[u].pc = "asleep"
      PROVE  \E w \in Tasks : /\ call'[w].pc \in UsingCalls
                              /\ call'[w].x = call'[u].x /\ Filling(w)'
  <2>1. u # t /\ call'[u] = call[u]
    BY <1>6 DEF GetStep, UsingCalls
  <2>2. PICK w \in Tasks : call[w].pc \in UsingCalls /\ call[w].x = call[u].x /\ Filling(w)
    BY <1>6, <2>1 DEF BInv, SleepersAreWoken, Users, Filling
  <2>3. w # t /\ call'[w] = call[w]
    BY <2>2 DEF GetStep
  <2>. QED  BY <1>2, <2>1, <2>2, <2>3
<1>7. SleepersAreWoken'
  BY <1>6 DEF SleepersAreWoken, Users, Filling
<1>. QED
  BY <1>5, <1>7

\* What the buffer held before is not lost.
LEMMA GetStepChanges ==
  ASSUME BInv, NEW t \in Tasks, NEW x, NEW v, NEW h, GetStep(t, x, v, h),
         h.dirty => NoticesIn(v),
         \/ h.dirty \/ WritesIn(v)
         \/ /\ x \in Cached /\ h.data = buf[x].data /\ h.blkno = buf[x].blkno
            /\ h.dirty = buf[x].dirty
  PROVE  DirtyNoticed' /\ ChangesKept'
<1>1. /\ \A u \in Tasks, y \in Buffers : Has(u, y)' <=> Has(u, y) \/ (u = t /\ y = x)
      /\ \A y \in Buffers : ~Has(t, y)
      /\ Cached' = Cached \cup {x} /\ x \in Buffers /\ Cached \subseteq Buffers
  BY GetStepHas DEF GetStep, BInv, Listed
<1>2. /\ \A u \in Tasks \ {t} : (Notices(u)' <=> Notices(u)) /\ (Writes(u)' <=> Writes(u))
      /\ NoticesIn(v) => Notices(t)'
      /\ WritesIn(v) => Writes(t)'
      /\ \A y \in Buffers \ {x} : buf'[y] = buf[y]
      /\ buf'[x] = h /\ UNCHANGED <<disk, failed>>
  BY DEF GetStep, Notices, Writes, NoticesIn, WritesIn
<1>3. ASSUME NEW y \in Cached', buf'[y].dirty
      PROVE  \E u \in Tasks : Has(u, y)' /\ Notices(u)'
  <2>1. CASE y = x
    BY <1>1, <1>2, <1>3, <2>1
  <2>2. CASE y # x
    <3>1. y \in Cached /\ buf[y].dirty /\ y \in Buffers
      BY <1>1, <1>2, <1>3, <2>2
    <3>2. PICK u \in Tasks : Has(u, y) /\ Notices(u)
      BY <3>1 DEF BInv, DirtyNoticed
    <3>. QED  BY <1>1, <1>2, <3>1, <3>2
  <2>. QED  BY <2>1, <2>2
<1>4. ASSUME NEW y \in Cached'
      PROVE  \/ buf'[y].blkno \in failed' \/ buf'[y].data = disk'[buf'[y].blkno]
             \/ buf'[y].dirty \/ \E u \in Tasks : Has(u, y)' /\ Writes(u)'
  <2>1. CASE y = x /\ (h.dirty \/ WritesIn(v))
    BY <1>1, <1>2, <2>1
  <2>2. CASE /\ y \in Cached /\ buf'[y].data = buf[y].data
             /\ buf'[y].blkno = buf[y].blkno /\ buf'[y].dirty = buf[y].dirty
    <3>1. CASE \/ buf[y].blkno \in failed \/ buf[y].data = disk[buf[y].blkno]
               \/ buf[y].dirty
      BY <1>2, <2>2, <3>1
    <3>2. ASSUME NEW u \in Tasks, Has(u, y), Writes(u)
          PROVE  Has(u, y)' /\ Writes(u)'
      BY <1>1, <1>2, <2>2, <3>2
    <3>. QED  BY <2>2, <3>1, <3>2 DEF BInv, ChangesKept
  <2>. QED  BY <1>1, <1>2, <2>1, <2>2
<1>. QED
  BY <1>3, <1>4 DEF DirtyNoticed, ChangesKept

\* Such a step keeps the types.
LEMMA GetStepType ==
  ASSUME BInv, NEW t \in Tasks, NEW x, NEW v, NEW h, GetStep(t, x, v, h),
         buffer_table' \in [Buckets -> Seq(Buffers)], bh_free_list' \in Seq(Buffers),
         last_bucket' \in Buckets,
         requests' \in Seq([task : Tasks, op : {"read", "write"}, x : Buffers])
  PROVE  TypeOK'
<1>1. Buffers' = Buffers /\ Calls' = Calls
  BY GetStepHas
<1>. QED
  BY <1>1 DEF TypeOK, BInv, GetStep

\* A task looks for a block when it enters and when it has been woken.
LEMMA LooksPlace ==
  ASSUME NEW t \in Tasks, NEW op, Looks(t, op)
  PROVE  call[t].pc \in {"idle", "again"}
  BY DEF Looks, Idle, Again

\* A buffer is found and unlocked.
LEMMA HitStep ==
  ASSUME BInv, NEW t \in Tasks, NEW op, Looks(t, op), NEW b \in Blocks,
         NEW x \in find_buffer(b), ~buf[x].locked,
         NEW h \in BufHeads, found_buffer(x, h), NEW v \in Calls, Goto(t, v),
         v.pc \in {"held", "brelse"}, v.x = x,
         h.blkno = b, h.use_count = buf[x].use_count + 1, ~h.locked,
         h.dirty \/ (h.data = buf[x].data /\ h.dirty = buf[x].dirty),
         UNCHANGED <<disk, requests, failed>>
  PROVE  BInv' /\ GetStep(t, x, v, h)
<1>1. /\ TypeOK /\ Listed /\ buf \in [Buffers -> BufHeads] /\ call \in [Tasks -> Calls]
      /\ call' = [call EXCEPT ![t] = v] /\ UNCHANGED NR_BUFFERS
  BY DEF BInv, TypeOK, Goto, Become
<1>2. /\ x \in Buffers /\ x \in Cached /\ buf[x].blkno = b
      /\ buffer_table' \in [Buckets -> Seq(Buffers)]
      /\ \A i \in Buckets : /\ NoRepeats(buffer_table'[i])
                            /\ ToSet(buffer_table'[i]) = ToSet(buffer_table[i])
      /\ buf' = [buf EXCEPT ![x] = h]
      /\ UNCHANGED <<bh_free_list, last_bucket>>
  BY <1>1, FoundBuffer
<1>3. /\ buf' \in [Buffers -> BufHeads] /\ buf'[x] = h
      /\ \A y \in Buffers \ {x} : buf'[y] = buf[y]
      /\ call' \in [Tasks -> Calls] /\ call'[t] = v
      /\ \A u \in Tasks \ {t} : call'[u] = call[u]
  BY <1>1, <1>2
<1>4. Listed' /\ Cached' = Cached
  <2>1. \A y \in Buffers : buf'[y].blkno = buf[y].blkno
    BY <1>2, <1>3
  <2>. QED  BY <1>1, <1>2, <2>1, SameLists
<1>5. buf[x].use_count = Cardinality(Users(x))
  BY <1>2 DEF BInv, Counted
<1>6. call[t].pc \in {"idle", "again"}
  BY LooksPlace
<1>7. GetStep(t, x, v, h)
  BY <1>1, <1>2, <1>3, <1>4, <1>5, <1>6 DEF GetStep, UsingCalls
<1>8. Counted' /\ UsersCached'
  BY <1>7, GetStepHas
<1>9. \A u \in Tasks : Has(u, x) => ~Filling(u)
  BY <1>2 DEF BInv, LocksHeld
<1>10. LocksHeld' /\ SleepersAreWoken'
  BY <1>7, <1>9, GetStepLocks
<1>11. NoticesIn(v)
  BY DEF NoticesIn
<1>12. DirtyNoticed' /\ ChangesKept'
  BY <1>2, <1>7, <1>11, GetStepChanges
<1>13. TypeOK'
  BY <1>1, <1>2, <1>7, GetStepType DEF BInv, TypeOK
<1>14. RequestsMatch'
  BY <1>3, <1>6, SameRequests
<1>. QED
  BY <1>4, <1>7, <1>8, <1>10, <1>12, <1>13, <1>14 DEF BInv

\* A buffer is made for a block that has none.
LEMMA MissStep ==
  ASSUME BInv, NEW t \in Tasks, NEW op, Looks(t, op), NEW b \in Blocks,
         find_buffer(b) = {}, NEW x \in Buffers,
         NEW h \in BufHeads, new_buffer(x, b, h), NEW v \in Calls, Goto(t, v),
         v.pc \in {"reading", "brelse"}, v.x = x,
         h.blkno = b, h.use_count = 1, h.locked <=> v.pc = "reading",
         h.dirty <=> v.pc = "brelse", UNCHANGED <<disk, failed>>
  PROVE  /\ Listed' /\ Counted' /\ UsersCached' /\ LocksHeld' /\ SleepersAreWoken'
         /\ DirtyNoticed' /\ ChangesKept' /\ GetStep(t, x, v, h)
         /\ buffer_table' \in [Buckets -> Seq(Buffers)]
         /\ bh_free_list' \in Seq(Buffers) /\ last_bucket' \in Buckets
         /\ \A u \in Tasks : ~Has(u, x)
<1>1. /\ TypeOK /\ Listed /\ Counted /\ UsersCached
      /\ buf \in [Buffers -> BufHeads] /\ call \in [Tasks -> Calls]
      /\ call' = [call EXCEPT ![t] = v] /\ UNCHANGED NR_BUFFERS
  BY DEF BInv, TypeOK, Goto, Become
<1>2. /\ Moves(x, b) /\ buf' = [buf EXCEPT ![x] = h] /\ \A u \in Tasks : ~Has(u, x)
  BY <1>1, NewBuffer
<1>3. /\ buf' \in [Buffers -> BufHeads] /\ buf'[x] = h
      /\ \A y \in Buffers \ {x} : buf'[y] = buf[y]
      /\ call' \in [Tasks -> Calls] /\ call'[t] = v
      /\ \A u \in Tasks \ {t} : call'[u] = call[u]
  BY <1>1, <1>2
<1>4. Listed' /\ Cached' = Cached \cup {x}
  BY <1>1, <1>2, <1>3, MovedLists
<1>5. Users(x) = {} /\ Cardinality(Users(x)) = 0
  <2>1. Users(x) = {}
    BY <1>2 DEF Users, Has
  <2>. QED  BY <2>1, FS_EmptySet
<1>6. call[t].pc \in {"idle", "again"}
  BY LooksPlace
<1>7. GetStep(t, x, v, h)
  BY <1>1, <1>3, <1>4, <1>5, <1>6 DEF GetStep, UsingCalls
<1>8. Counted' /\ UsersCached'
  BY <1>7, GetStepHas
<1>9. LocksHeld' /\ SleepersAreWoken'
  BY <1>2, <1>7, GetStepLocks
<1>10. (h.dirty => NoticesIn(v)) /\ (h.dirty \/ WritesIn(v))
  BY DEF NoticesIn, WritesIn
<1>11. DirtyNoticed' /\ ChangesKept'
  BY <1>7, <1>10, GetStepChanges
<1>. QED
  BY <1>2, <1>4, <1>7, <1>8, <1>9, <1>11 DEF Moves

\* No buffer holds a block that find_buffer() does not find.
LEMMA NotFound ==
  ASSUME BInv, NEW b \in Blocks, find_buffer(b) = {}
  PROVE  \A y \in Cached : buf[y].blkno # b
<1> SUFFICES ASSUME NEW y \in Cached, buf[y].blkno = b PROVE FALSE
  OBVIOUS
<1>1. PICK i \in Buckets : y \in ToSet(buffer_table[i])
  BY DEF Cached
<1>2. BUFFER_HASH[b] = i
  BY <1>1 DEF BInv, Listed
<1>. QED
  BY <1>1, <1>2 DEF find_buffer

\* t gets x for block b: the unlocked buffer of b, or one nobody uses.
Obtains(t, b, x, v, h) ==
    /\ GetStep(t, x, v, h) /\ h.blkno = b
    /\ \/ x \in Cached /\ buf[x].blkno = b /\ ~buf[x].locked /\ ~h.locked
       \/ (\A y \in Cached : buf[y].blkno # b) /\ \A u \in Tasks : ~Has(u, x)

\* bread() finds the block.
LEMMA BreadHitInv ==
  ASSUME BInv, NEW t \in Tasks, NEW b \in Blocks, bread_hit(t, b)
  PROVE  /\ BInv'
         /\ \E x \in Buffers, v \in Calls, h \in BufHeads :
              /\ Obtains(t, b, x, v, h) /\ v.pc = "held" /\ ~h.locked
              /\ x \in Cached /\ buf[x].blkno = b /\ h.data = buf[x].data
<1>1. PICK x \in find_buffer(b) :
        /\ ~buf[x].locked
        /\ found_buffer(x, [buf[x] EXCEPT !.use_count = @ + 1])
        /\ Goto(t, Using("held", x))
  BY DEF bread_hit
<1> DEFINE h == [buf[x] EXCEPT !.use_count = @ + 1]
           v == Using("held", x)
<1>2. x \in Buffers /\ buf[x] \in BufHeads /\ buf[x].blkno = b
  BY <1>1, FoundBuffer DEF BInv, TypeOK
<1>3. /\ h \in BufHeads /\ h.blkno = b /\ h.use_count = buf[x].use_count + 1
      /\ ~h.locked /\ h.data = buf[x].data /\ h.dirty = buf[x].dirty
  BY <1>1, <1>2 DEF BufHeads
<1>4. v \in Calls /\ v.pc = "held" /\ v.x = x
  BY <1>2, CallParts
<1>5. found_buffer(x, h) /\ Goto(t, v)
  BY <1>1
<1> HIDE DEF h, v
<1>6. BInv' /\ GetStep(t, x, v, h)
  BY <1>1, <1>3, <1>4, <1>5, HitStep DEF bread_hit
<1>7. x \in Cached
  BY <1>1, FoundBuffer DEF BInv
<1>. QED
  BY <1>1, <1>2, <1>3, <1>4, <1>6, <1>7 DEF Obtains

\* bwrite() finds the block.
LEMMA BwriteHitInv ==
  ASSUME BInv, NEW t \in Tasks, NEW b \in Blocks, NEW w \in Values, bwrite_hit(t, b, w)
  PROVE  /\ BInv'
         /\ \E x \in Buffers, v \in Calls, h \in BufHeads :
              Obtains(t, b, x, v, h) /\ v.pc = "brelse" /\ h.data = w /\ ~h.locked
<1>1. PICK x \in find_buffer(b) :
        /\ ~buf[x].locked
        /\ found_buffer(x, [buf[x] EXCEPT !.use_count = @ + 1, !.dirty = TRUE, !.data = w])
        /\ Goto(t, Using("brelse", x))
  BY DEF bwrite_hit
<1> DEFINE h == [buf[x] EXCEPT !.use_count = @ + 1, !.dirty = TRUE, !.data = w]
           v == Using("brelse", x)
<1>2. x \in Buffers /\ buf[x] \in BufHeads /\ buf[x].blkno = b
  BY <1>1, FoundBuffer DEF BInv, TypeOK
<1>3. /\ h \in BufHeads /\ h.blkno = b /\ h.use_count = buf[x].use_count + 1
      /\ ~h.locked /\ h.dirty /\ h.data = w
  <2> DEFINE n == buf[x].use_count + 1
  <2>1. ~buf[x].locked
    BY <1>1
  <2>2. n \in Nat
    BY <1>2 DEF BufHeads
  <2>3. h = [buf[x] EXCEPT !.use_count = n, !.dirty = TRUE, !.data = w]
    OBVIOUS
  <2> HIDE DEF n, h
  <2>4. h \in BufHeads /\ h.blkno = buf[x].blkno /\ h.use_count = n
    BY <1>2, <2>2, <2>3 DEF BufHeads
  <2>5. h.locked = buf[x].locked /\ h.dirty /\ h.data = w
    BY <1>2, <2>3 DEF BufHeads
  <2>. QED  BY <1>2, <2>1, <2>4, <2>5 DEF n
<1>4. v \in Calls /\ v.pc = "brelse" /\ v.x = x
  BY <1>2, CallParts
<1>5. found_buffer(x, h) /\ Goto(t, v)
  BY <1>1
<1> HIDE DEF h, v
<1>6. BInv' /\ GetStep(t, x, v, h)
  BY <1>1, <1>3, <1>4, <1>5, HitStep DEF bwrite_hit
<1>7. x \in Cached
  BY <1>1, FoundBuffer DEF BInv
<1>. QED
  BY <1>1, <1>2, <1>3, <1>4, <1>6, <1>7 DEF Obtains

\* bread() has to have the block read.
LEMMA BreadMissInv ==
  ASSUME BInv, NEW t \in Tasks, NEW b \in Blocks, bread_miss(t, b)
  PROVE  /\ BInv'
         /\ \E x \in Buffers, v \in Calls, h \in BufHeads :
              /\ Obtains(t, b, x, v, h) /\ v.pc = "reading" /\ h.locked
              /\ \A y \in Cached : buf[y].blkno # b
<1>1. PICK x \in Buffers :
        /\ new_buffer(x, b, [blkno |-> b, use_count |-> 1, dirty |-> FALSE,
                             locked |-> TRUE, data |-> buf[x].data])
        /\ requests' = Append(requests, [task |-> t, op |-> "read", x |-> x])
        /\ Goto(t, Using("reading", x))
  BY DEF bread_miss
<1> DEFINE h == [blkno |-> b, use_count |-> 1, dirty |-> FALSE,
                 locked |-> TRUE, data |-> buf[x].data]
           v == Using("reading", x)
<1>2. buf[x] \in BufHeads
  BY DEF BInv, TypeOK
<1>3. /\ h \in BufHeads /\ h.blkno = b /\ h.use_count = 1 /\ h.locked /\ ~h.dirty
  BY <1>2 DEF BufHeads
<1>4. v \in Calls /\ v.pc = "reading" /\ v.x = x
  BY CallParts
<1>5. new_buffer(x, b, h) /\ Goto(t, v)
  BY <1>1
<1> HIDE DEF h, v
<1>6. /\ Listed' /\ Counted' /\ UsersCached' /\ LocksHeld' /\ SleepersAreWoken'
      /\ DirtyNoticed' /\ ChangesKept' /\ GetStep(t, x, v, h)
      /\ buffer_table' \in [Buckets -> Seq(Buffers)]
      /\ bh_free_list' \in Seq(Buffers) /\ last_bucket' \in Buckets
      /\ \A u \in Tasks : ~Has(u, x)
  BY <1>3, <1>4, <1>5, MissStep DEF bread_miss
<1>7. call[t].pc \in {"idle", "again"}
  BY LooksPlace DEF bread_miss
<1>8. RequestsMatch' /\ requests' \in Seq([task : Tasks, op : {"read", "write"}, x : Buffers])
  <2>1. /\ call'[t].x = x /\ call'[t].pc = "reading"
        /\ \A u \in Tasks \ {t} : call'[u] = call[u]
    BY <1>4, <1>6 DEF GetStep
  <2>. QED  BY <1>1, <1>7, <2>1, AddRequest
<1>9. TypeOK'
  BY <1>6, <1>8, GetStepType
<1>10. BInv'
  BY <1>6, <1>8, <1>9 DEF BInv
<1>11. \A y \in Cached : buf[y].blkno # b
  BY NotFound DEF bread_miss
<1>. QED
  BY <1>3, <1>4, <1>6, <1>10, <1>11 DEF Obtains

\* bwrite() makes a buffer for the block.
LEMMA BwriteMissInv ==
  ASSUME BInv, NEW t \in Tasks, NEW b \in Blocks, NEW w \in Values, bwrite_miss(t, b, w)
  PROVE  /\ BInv'
         /\ \E x \in Buffers, v \in Calls, h \in BufHeads :
              Obtains(t, b, x, v, h) /\ v.pc = "brelse" /\ h.data = w /\ ~h.locked
<1>1. PICK x \in Buffers :
        /\ new_buffer(x, b, [blkno |-> b, use_count |-> 1, dirty |-> TRUE,
                             locked |-> FALSE, data |-> w])
        /\ Goto(t, Using("brelse", x))
  BY DEF bwrite_miss
<1> DEFINE h == [blkno |-> b, use_count |-> 1, dirty |-> TRUE,
                 locked |-> FALSE, data |-> w]
           v == Using("brelse", x)
<1>2. /\ h \in BufHeads /\ h.blkno = b /\ h.use_count = 1 /\ ~h.locked /\ h.dirty
      /\ h.data = w
  BY DEF BufHeads
<1>3. v \in Calls /\ v.pc = "brelse" /\ v.x = x
  BY CallParts
<1>4. new_buffer(x, b, h) /\ Goto(t, v)
  BY <1>1
<1> HIDE DEF h, v
<1>5. /\ Listed' /\ Counted' /\ UsersCached' /\ LocksHeld' /\ SleepersAreWoken'
      /\ DirtyNoticed' /\ ChangesKept' /\ GetStep(t, x, v, h)
      /\ buffer_table' \in [Buckets -> Seq(Buffers)]
      /\ bh_free_list' \in Seq(Buffers) /\ last_bucket' \in Buckets
      /\ \A u \in Tasks : ~Has(u, x)
  BY <1>2, <1>3, <1>4, MissStep DEF bwrite_miss
<1>6. call[t].pc \in {"idle", "again"} /\ requests' = requests
  BY LooksPlace DEF bwrite_miss
<1>7. RequestsMatch'
  BY <1>5, <1>6, SameRequests DEF GetStep
<1>8. TypeOK'
  BY <1>5, <1>6, GetStepType DEF BInv, TypeOK
<1>9. BInv'
  BY <1>5, <1>7, <1>8 DEF BInv
<1>10. \A y \in Cached : buf[y].blkno # b
  BY NotFound DEF bwrite_miss
<1>. QED
  BY <1>2, <1>3, <1>5, <1>9, <1>10 DEF Obtains

\* The last statement of brelse(): the buffer may have lost its last user.
LEMMA ReleaseInv ==
  ASSUME BInv, NEW t \in Tasks, Release(t)
  PROVE  BInv'
<1> DEFINE x == call[t].x
           n == buf[x].use_count - 1
           h == [buf[x] EXCEPT !.use_count = n]
<1>1. /\ TypeOK /\ call[t].pc = "release" /\ x \in Buffers
      /\ buf \in [Buffers -> BufHeads] /\ call \in [Tasks -> Calls] /\ x \in Cached
  BY CallForms DEF BInv, TypeOK, Release, UsersCached, UsingCalls
<1>2. /\ buf' = [buf EXCEPT ![x] = h] /\ call' = [call EXCEPT ![t] = Idle]
      /\ UNCHANGED <<NR_BUFFERS, buffer_table, bh_free_list, last_bucket,
                     disk, requests, failed>>
  BY <1>1 DEF Release, Goto, Become
<1>3. t \in Users(x) /\ IsFiniteSet(Users(x))
  BY <1>1, ParametersAssumption, FS_Subset DEF Users, UsingCalls
<1>4. buf[x].use_count = Cardinality(Users(x)) /\ Cardinality(Users(x)) \in Nat
  BY <1>1, <1>3, FS_CardinalityType DEF BInv, Counted
<1>5. Cardinality(Users(x) \ {t}) = n /\ n \in Nat
  <2>1. /\ Cardinality(Users(x) \ {t}) = Cardinality(Users(x)) - 1
        /\ IsFiniteSet(Users(x) \ {t})
    BY <1>3, FS_RemoveElement
  <2>2. Cardinality(Users(x) \ {t}) \in Nat
    BY <2>1, FS_CardinalityType
  <2>. QED  BY <1>4, <2>1, <2>2
<1> HIDE DEF n
<1>6. /\ h \in BufHeads /\ h.blkno = buf[x].blkno /\ h.use_count = n
      /\ h.locked = buf[x].locked /\ h.dirty = buf[x].dirty /\ h.data = buf[x].data
  BY <1>1, <1>5 DEF BufHeads
<1> HIDE DEF h, x
<1>7. /\ buf' \in [Buffers -> BufHeads] /\ buf'[x] = h
      /\ \A y \in Buffers \ {x} : buf'[y] = buf[y]
      /\ call' \in [Tasks -> Calls] /\ call'[t].pc = "idle"
      /\ \A u \in Tasks \ {t} : call'[u] = call[u]
  BY <1>1, <1>2, <1>6, CallParts
<1>8. \A y \in Buffers :
        /\ buf'[y].blkno = buf[y].blkno /\ buf'[y].locked = buf[y].locked
        /\ buf'[y].dirty = buf[y].dirty /\ buf'[y].data = buf[y].data
  BY <1>6, <1>7
<1>9. Listed' /\ Cached' = Cached
  <2>1. \A i \in Buckets : /\ NoRepeats(buffer_table'[i])
                           /\ ToSet(buffer_table'[i]) = ToSet(buffer_table[i])
    BY <1>2 DEF BInv, Listed
  <2>. QED  BY <1>2, <1>8, <2>1, SameLists DEF BInv
<1>10. Buffers' = Buffers /\ Calls' = Calls /\ Cached \subseteq Buffers
  BY <1>2 DEF Buffers, Calls, BInv, Listed
<1>11. \A u \in Tasks, y \in Buffers : Has(u, y)' <=> Has(u, y) /\ u # t
  BY <1>7 DEF Has, UsingCalls
<1>12. ASSUME NEW y \in Buffers
       PROVE  buf'[y].use_count = IF y \in Cached THEN Cardinality(Users(y)') ELSE 0
  <2>1. Users(y) = {u \in Tasks : Has(u, y)} /\ Users(y)' = {u \in Tasks : Has(u, y)'}
    BY DEF Users, Has
  <2>2. Users(y)' = Users(y) \ {t}
    BY <1>11, <2>1
  <2>3. CASE y = x
    BY <1>1, <1>5, <1>6, <1>7, <2>2, <2>3
  <2>4. CASE y # x
    <3>1. t \notin Users(y)
      BY <2>4 DEF Users, x
    <3>2. Users(y)' = Users(y)
      BY <2>2, <3>1
    <3>. QED  BY <1>7, <2>4, <3>2 DEF BInv, Counted
  <2>. QED  BY <2>3, <2>4
<1>13. Counted'
  BY <1>9, <1>10, <1>12 DEF Counted
<1>14. UsersCached'
  BY <1>7, <1>9 DEF BInv, UsersCached, UsingCalls
<1>15. /\ ~Filling(t) /\ ~Notices(t) /\ ~Writes(t) /\ ~Filling(t)'
       /\ \A u \in Tasks \ {t} : /\ Filling(u)' <=> Filling(u)
                                 /\ Notices(u)' <=> Notices(u)
                                 /\ Writes(u)' <=> Writes(u)
  BY <1>1, <1>7 DEF Filling, Notices, Writes
<1>16. LocksHeld'
  <2>1. ASSUME NEW y \in Cached, buf'[y].locked
        PROVE  \E u \in Tasks : Has(u, y)' /\ Filling(u)'
    <3>1. PICK u \in Tasks : Has(u, y) /\ Filling(u)
      BY <1>8, <1>10, <2>1 DEF BInv, LocksHeld
    <3>. QED  BY <1>10, <1>11, <1>15, <3>1
  <2>2. ASSUME NEW u \in Tasks, NEW w \in Tasks, NEW y \in Buffers,
               Has(u, y)', Filling(u)'
        PROVE  buf'[y].locked /\ (Has(w, y)' => w = u)
    BY <1>8, <1>11, <1>15, <2>2 DEF BInv, LocksHeld
  <2>. QED  BY <1>9, <1>10, <2>1, <2>2 DEF LocksHeld
<1>17. ASSUME NEW u \in Tasks, call'[u].pc = "asleep"
       PROVE  \E w \in Tasks : /\ call'[w].pc \in UsingCalls
                               /\ call'[w].x = call'[u].x /\ Filling(w)'
  <2>1. u # t /\ call'[u] = call[u]
    BY <1>7, <1>17
  <2>2. PICK w \in Tasks : call[w].pc \in UsingCalls /\ call[w].x = call[u].x /\ Filling(w)
    BY <1>17, <2>1 DEF BInv, SleepersAreWoken, Users, Filling
  <2>3. w # t /\ call'[w] = call[w]
    BY <1>7, <1>15, <2>2
  <2>. QED  BY <1>15, <2>1, <2>2, <2>3
<1>18. SleepersAreWoken'
  BY <1>17 DEF SleepersAreWoken, Users, Filling
<1>19. ASSUME NEW y \in Cached, buf'[y].dirty
       PROVE  \E u \in Tasks : Has(u, y)' /\ Notices(u)'
  <2>1. PICK u \in Tasks : Has(u, y) /\ Notices(u)
    BY <1>8, <1>10, <1>19 DEF BInv, DirtyNoticed
  <2>. QED  BY <1>10, <1>11, <1>15, <2>1
<1>20. DirtyNoticed'
  BY <1>9, <1>19 DEF DirtyNoticed
<1>21. ASSUME NEW y \in Cached
       PROVE  \/ buf'[y].blkno \in failed' \/ buf'[y].data = disk'[buf'[y].blkno]
              \/ buf'[y].dirty \/ \E u \in Tasks : Has(u, y)' /\ Writes(u)'
  <2>1. ASSUME NEW u \in Tasks, Has(u, y), Writes(u) PROVE Has(u, y)' /\ Writes(u)'
    BY <1>10, <1>11, <1>15, <2>1
  <2>2. y \in Buffers
    BY <1>10
  <2>. QED  BY <1>2, <1>8, <2>1, <2>2 DEF BInv, ChangesKept
<1>22. ChangesKept'
  BY <1>9, <1>21 DEF ChangesKept
<1>23. TypeOK'
  BY <1>2, <1>7, <1>10 DEF BInv, TypeOK
<1>24. RequestsMatch'
  BY <1>1, <1>2, <1>7, SameRequests
<1>. QED
  BY <1>9, <1>13, <1>14, <1>16, <1>18, <1>20, <1>22, <1>23, <1>24 DEF BInv

\* A task that goes to sleep, or away, leaves everything as it is.
LEMMA IdleStep ==
  ASSUME BInv, NEW t \in Tasks, call[t].pc \in {"idle", "again"}, NEW v \in Calls,
         v.pc \in {"idle", "asleep"},
         v.pc = "asleep" => \E w \in Tasks : Has(w, v.x) /\ Filling(w),
         Goto(t, v), UNCHANGED <<cache, disk, requests, failed>>
  PROVE  BInv'
<1>1. /\ call \in [Tasks -> Calls] /\ call' = [call EXCEPT ![t] = v]
      /\ UNCHANGED <<NR_BUFFERS, buffer_table, bh_free_list, last_bucket, buf>>
  BY DEF BInv, TypeOK, Goto, Become, cache
<1>2. /\ call' \in [Tasks -> Calls] /\ call'[t] = v
      /\ \A u \in Tasks \ {t} : call'[u] = call[u]
  BY <1>1
<1>3. \A u \in Tasks : /\ call'[u].pc \in UsingCalls <=> call[u].pc \in UsingCalls
                       /\ call[u].pc \in UsingCalls => call'[u] = call[u]
  BY <1>2 DEF UsingCalls
<1>4. /\ Buffers' = Buffers /\ Calls' = Calls /\ Cached' = Cached
      /\ \A y \in Buffers : Users(y)' = Users(y)
  BY <1>1, <1>3 DEF Buffers, Calls, Cached, Users
<1>5. \A u \in Tasks, y \in Buffers :
        /\ Has(u, y)' <=> Has(u, y)
        /\ Filling(u)' <=> Filling(u)
        /\ Has(u, y) => (Notices(u)' <=> Notices(u)) /\ (Writes(u)' <=> Writes(u))
  BY <1>2, <1>3 DEF Has, Filling, Notices, Writes
<1>6. Listed' /\ Counted' /\ UsersCached'
  BY <1>1, <1>3, <1>4 DEF BInv, Listed, Counted, UsersCached
<1>7. Cached \subseteq Buffers
  BY DEF BInv, Listed
<1>8. LocksHeld'
  BY <1>1, <1>4, <1>5, <1>7 DEF BInv, LocksHeld
<1>9. DirtyNoticed' /\ ChangesKept'
  BY <1>1, <1>4, <1>5, <1>7 DEF BInv, DirtyNoticed, ChangesKept
<1>10. ASSUME NEW u \in Tasks, call'[u].pc = "asleep"
       PROVE  \E w \in Tasks : /\ call'[w].pc \in UsingCalls
                               /\ call'[w].x = call'[u].x /\ Filling(w)'
  <2>1. PICK w \in Tasks : call[w].pc \in UsingCalls /\ call[w].x = call'[u].x /\ Filling(w)
    <3>1. CASE u = t
      BY <1>2, <1>10, <3>1 DEF Has
    <3>2. CASE u # t
      BY <1>2, <1>10, <3>2 DEF BInv, SleepersAreWoken, Users, Filling
    <3>. QED  BY <3>1, <3>2
  <2>. QED  BY <1>3, <2>1 DEF Filling
<1>11. SleepersAreWoken'
  BY <1>10 DEF SleepersAreWoken, Users, Filling
<1>12. TypeOK'
  BY <1>1, <1>2, <1>4 DEF BInv, TypeOK
<1>13. RequestsMatch'
  BY <1>2, SameRequests
<1>. QED
  BY <1>6, <1>8, <1>9, <1>11, <1>12, <1>13 DEF BInv

\* bread() and bwrite() wait for a locked buffer, or find none to be had.
LEMMA SleepInv ==
  ASSUME BInv, NEW t \in Tasks, NEW op \in Ops, Sleep(t, op) \/ NoBuffer(t, op)
  PROVE  BInv'
<1>1. call[t].pc \in {"idle", "again"}
  BY LooksPlace DEF Sleep, NoBuffer
<1>2. CASE NoBuffer(t, op)
  <2>1. /\ Idle \in Calls /\ Idle.pc = "idle" /\ Goto(t, Idle)
        /\ UNCHANGED <<cache, disk, requests, failed>>
    BY <1>2, CallParts DEF NoBuffer
  <2>. QED  BY <1>1, <2>1, IdleStep
<1>3. CASE Sleep(t, op)
  <2>1. PICK x \in find_buffer(op.blk) : buf[x].locked /\ Goto(t, Asleep(op, x))
    BY <1>3 DEF Sleep
  <2>2. x \in Cached /\ x \in Buffers
    <3>1. op.blk \in Blocks
      BY DEF Ops, Read, Write
    <3>2. BUFFER_HASH[op.blk] \in Buckets
      BY <3>1, ParametersAssumption DEF Buckets
    <3>3. x \in Cached
      BY <2>1, <3>2 DEF find_buffer, Cached
    <3>. QED  BY <3>3 DEF BInv, Listed
  <2>3. \E w \in Tasks : Has(w, x) /\ Filling(w)
    BY <2>1, <2>2 DEF BInv, LocksHeld
  <2>4. Asleep(op, x) \in Calls /\ Asleep(op, x).pc = "asleep" /\ Asleep(op, x).x = x
    BY <2>2, CallParts
  <2>. QED  BY <1>1, <1>3, <2>1, <2>3, <2>4, IdleStep DEF Sleep
<1>. QED
  BY <1>2, <1>3

\* Every step keeps the invariant ...
LEMMA NextBInv == BInv /\ [Next]_vars => BInv'
<1> SUFFICES ASSUME BInv, [Next]_vars PROVE BInv'
  OBVIOUS
<1>1. CASE UNCHANGED vars
  <2>1. /\ UNCHANGED NR_BUFFERS /\ UNCHANGED buffer_table /\ UNCHANGED bh_free_list
        /\ UNCHANGED last_bucket /\ UNCHANGED buf /\ UNCHANGED disk
        /\ UNCHANGED requests /\ UNCHANGED call /\ UNCHANGED failed
    BY <1>1 DEF vars, cache
  <2>2. Buffers' = Buffers /\ Cached' = Cached /\ Calls' = Calls
    BY <2>1 DEF Buffers, Cached, Calls
  <2>3. TypeOK'
    BY <2>1, <2>2 DEF BInv, TypeOK
  <2>4. Listed'
    BY <2>1, <2>2 DEF BInv, Listed
  <2>5. Counted' /\ SleepersAreWoken'
    BY <2>1, <2>2 DEF BInv, Counted, SleepersAreWoken, Users
  <2>6. UsersCached' /\ LocksHeld'
    BY <2>1, <2>2 DEF BInv, UsersCached, LocksHeld, Has, Filling
  <2>7. RequestsMatch'
    BY <2>1, <2>2 DEF BInv, RequestsMatch, Has
  <2>8. DirtyNoticed' /\ ChangesKept'
    BY <2>1, <2>2 DEF BInv, DirtyNoticed, ChangesKept, Has, Notices, Writes
  <2>. QED  BY <2>3, <2>4, <2>5, <2>6, <2>7, <2>8 DEF BInv
<1>2. CASE Device
  BY <1>2, DeviceReadInv, DeviceWriteInv DEF Device
<1>3. ASSUME NEW t \in Tasks, Enter(t) PROVE BInv'
  BY <1>3, SleepInv, BreadMissInv, BreadHitInv, BwriteHitInv, BwriteMissInv DEF Enter
<1>4. ASSUME NEW t \in Tasks, Use(t) PROVE BInv'
  BY <1>4, BreadFilledInv, ClearDirtyInv, SubmitInv, BrelseInv, ReleaseInv,
     ModifyInv, BdirtyInv DEF Use
<1>. QED
  BY <1>1, <1>2, <1>3, <1>4 DEF Next

\* ... which holds at the start ...
LEMMA InitBInv == Init => BInv
<1> SUFFICES ASSUME Init PROVE BInv
  OBVIOUS
<1>1. /\ NR_BUFFERS \in Nat
      /\ \A i \in Buckets : buffer_table[i] = <<>>
      /\ \A n \in Buffers : bh_free_list[n] = n
      /\ requests = <<>> /\ \A t \in Tasks : call[t].pc = "idle"
      /\ \A x \in Buffers : buf[x].use_count = 0
  BY CallParts, ParametersAssumption DEF Init
<1>2. /\ bh_free_list \in Seq(Buffers) /\ Len(bh_free_list) = NR_BUFFERS
      /\ DOMAIN bh_free_list = Buffers
  BY <1>1 DEF Init, Buffers
<1>3. Cached = {}
  BY <1>1 DEF Cached, ToSet
<1>4. ToSet(bh_free_list) = Buffers
  <2>1. ToSet(bh_free_list) \subseteq Buffers
    BY <1>1, <1>2 DEF ToSet
  <2>2. ASSUME NEW n \in Buffers PROVE n \in ToSet(bh_free_list)
    BY <1>1, <1>2 DEF ToSet
  <2>. QED  BY <2>1, <2>2
<1>5. TypeOK
  <2>1. 0 \in Buckets
    BY ParametersAssumption DEF Buckets
  <2>2. PICK w \in Values :
          buf = [x \in Buffers |-> [blkno |-> NoBlock, use_count |-> 0, dirty |-> FALSE,
                                    locked |-> FALSE, data |-> w]]
    BY DEF Init
  <2>3. buf \in [Buffers -> BufHeads]
    BY <2>2 DEF BufHeads
  <2>4. buffer_table \in [Buckets -> Seq(Buffers)]
    BY DEF Init
  <2>5. call \in [Tasks -> Calls]
    BY CallParts DEF Init
  <2> DEFINE R == [task : Tasks, op : {"read", "write"}, x : Buffers]
  <2>6. requests \in Seq(R)
    <3> HIDE DEF R
    <3>. QED  BY <1>1
  <2>7. /\ last_bucket \in Buckets /\ NR_BUFFERS \in Sizes /\ failed \in SUBSET Blocks
        /\ disk \in [Blocks -> Values]
    BY <2>1 DEF Init
  <2>. QED  BY <1>2, <2>3, <2>4, <2>5, <2>6, <2>7 DEF TypeOK
<1>6. Listed
  BY <1>1, <1>2, <1>3, <1>4 DEF Listed, NoRepeats, ToSet, Buffers
<1>7. Counted /\ UsersCached /\ LocksHeld /\ DirtyNoticed /\ ChangesKept
  BY <1>1, <1>3 DEF Counted, UsersCached, LocksHeld, DirtyNoticed, ChangesKept,
     UsingCalls, Filling
<1>8. RequestsMatch /\ SleepersAreWoken
  BY <1>1 DEF RequestsMatch, SleepersAreWoken
<1>. QED
  BY <1>5, <1>6, <1>7, <1>8 DEF BInv

\* ... and so always.
LEMMA Invariance == Spec => []BInv
  BY InitBInv, NextBInv, PTL DEF Spec

\* For any number of tasks, buffers, buckets and blocks: every buffer is in one
\* list and counted, an unused one has nothing left to write, and nobody sleeps
\* on a buffer without somebody who will wake him (bread, bwrite, brelse,
\* bdirty, make_free_buffer).
THEOREM CacheSafe == Spec => []CacheSound
<1>1. BInv => CacheSound
  <2> SUFFICES ASSUME BInv PROVE CacheSound
    OBVIOUS
  <2>1. CacheConsistent
    <3>1. Listed /\ Counted /\ TypeOK
      BY DEF BInv
    <3>2. bh_free_list \in Seq(Buffers) /\ \A i \in Buckets : buffer_table[i] \in Seq(Buffers)
      BY <3>1 DEF TypeOK
    <3>3. IsInjective(bh_free_list) /\ \A i \in Buckets : IsInjective(buffer_table[i])
      BY <3>1, <3>2, NoRepeatsInjective DEF Listed
    <3>. QED  BY <3>1, <3>3 DEF Listed, Counted, CacheConsistent
  <2>2. ASSUME NEW x \in Cached, buf[x].use_count = 0
        PROVE  /\ ~buf[x].dirty /\ ~buf[x].locked
               /\ buf[x].blkno \notin failed => buf[x].data = disk[buf[x].blkno]
    <3>1. \A t \in Tasks : ~Has(t, x)
      <4>1. x \in Buffers
        BY DEF BInv, Listed
      <4>. QED  BY <2>2, <4>1, NoUsers DEF BInv
    <3>. QED  BY <3>1 DEF BInv, DirtyNoticed, LocksHeld, ChangesKept
  <2>. QED  BY <2>1, <2>2 DEF CacheSound, UnusedIsClean, BInv
<1>. QED
  BY Invariance, <1>1, PTL

-----------------------------------------------------------------------------
(* The cache implements the store of blocks.                                *)

\* A block holds what its buffer holds once that is filled, and what the disk
\* holds before.
ContentRight ==
    /\ content \in [Blocks -> Values]
    /\ \A x \in Cached :
         /\ buf[x].blkno \in Blocks
         /\ buf[x].locked => content[buf[x].blkno] = disk[buf[x].blkno]
         /\ ~buf[x].locked => content[buf[x].blkno] = buf[x].data
    /\ \A b \in Blocks : (\A x \in Cached : buf[x].blkno # b) => content[b] = disk[b]

\* The invariant gives each block one meaning.
LEMMA Contents == BInv => ContentRight
<1> SUFFICES ASSUME BInv PROVE ContentRight
  OBVIOUS
<1>1. /\ disk \in [Blocks -> Values] /\ buf \in [Buffers -> BufHeads]
      /\ \A x \in Cached : x \in Buffers /\ buf[x].blkno \in Blocks
      /\ \A x, y \in Cached : buf[x].blkno = buf[y].blkno => x = y
  <2>1. \A x \in Cached : x \in Buffers /\ buf[x].blkno \in Blocks
    BY DEF BInv, Listed, Cached
  <2>. QED  BY <2>1 DEF BInv, TypeOK, Listed
<1>2. \A b \in Blocks : find_buffer(b) = {x \in Cached : buf[x].blkno = b}
  <2> SUFFICES ASSUME NEW b \in Blocks, NEW x
               PROVE  x \in find_buffer(b) <=> x \in Cached /\ buf[x].blkno = b
    OBVIOUS
  <2>1. BUFFER_HASH[b] \in Buckets
    BY ParametersAssumption DEF Buckets
  <2>2. x \in find_buffer(b) => x \in Cached /\ buf[x].blkno = b
    BY <2>1 DEF find_buffer, Cached
  <2>3. ASSUME x \in Cached, buf[x].blkno = b PROVE x \in find_buffer(b)
    <3>1. PICK i \in Buckets : x \in ToSet(buffer_table[i])
      BY <2>3 DEF Cached
    <3>2. BUFFER_HASH[b] = i
      BY <2>3, <3>1 DEF BInv, Listed
    <3>. QED  BY <2>3, <3>1, <3>2 DEF find_buffer
  <2>. QED  BY <2>2, <2>3
<1>3. ASSUME NEW b \in Blocks, \A x \in Cached : buf[x].blkno # b
      PROVE  content[b] = disk[b]
  <2>1. find_buffer(b) = {}
    BY <1>2, <1>3
  <2>. QED  BY <2>1 DEF content
<1>4. ASSUME NEW x \in Cached
      PROVE  /\ buf[x].locked => content[buf[x].blkno] = disk[buf[x].blkno]
             /\ ~buf[x].locked => content[buf[x].blkno] = buf[x].data
  <2> DEFINE b == buf[x].blkno
  <2>1. b \in Blocks /\ find_buffer(b) = {x}
    BY <1>1, <1>2
  <2>2. CASE buf[x].locked
    BY <2>1, <2>2 DEF content
  <2>3. CASE ~buf[x].locked
    <3>1. (CHOOSE y \in find_buffer(b) : ~buf[y].locked) = x
      BY <2>1, <2>3
    <3>. QED  BY <2>1, <2>3, <3>1 DEF content
  <2>. QED  BY <2>2, <2>3
<1>5. ASSUME NEW b \in Blocks PROVE content[b] \in Values
  <2>1. CASE \A x \in Cached : buf[x].blkno # b
    BY <1>1, <1>3, <2>1
  <2>2. ASSUME NEW x \in Cached, buf[x].blkno = b PROVE content[b] \in Values
    <3>1. buf[x].data \in Values /\ disk[b] \in Values
      BY <1>1 DEF BufHeads
    <3>. QED  BY <1>4, <2>2, <3>1
  <2>. QED  BY <2>1, <2>2
<1>6. content \in [Blocks -> Values]
  BY <1>5 DEF content
<1>. QED
  BY <1>1, <1>3, <1>4, <1>6 DEF ContentRight

\* What a task does, as those who use the cache see it, by its place.
AccessRight ==
    \A t \in Tasks :
        /\ access[t] \in Store!Accesses
        /\ call[t].pc \in {"idle", "again", "asleep", "reading", "read"} =>
             access[t] = Store!Idle
        /\ call[t].pc \in {"modified", "brelse"} =>
             access[t] = Store!Wrote(buf[call[t].x].blkno)
        /\ call[t].pc \in {"held", "release", "clear", "submit", "writing"} =>
             access[t] = Store!Has(buf[call[t].x].blkno)

\* The invariant gives each place one meaning.
LEMMA AccessForms == BInv => AccessRight
<1> SUFFICES ASSUME BInv, NEW t \in Tasks
             PROVE  /\ access[t] \in Store!Accesses
                    /\ call[t].pc \in {"idle", "again", "asleep", "reading", "read"} =>
                         access[t] = Store!Idle
                    /\ call[t].pc \in {"modified", "brelse"} =>
                         access[t] = Store!Wrote(buf[call[t].x].blkno)
                    /\ call[t].pc \in {"held", "release", "clear", "submit", "writing"} =>
                         access[t] = Store!Has(buf[call[t].x].blkno)
  BY DEF AccessRight
<1> DEFINE b == buf[call[t].x].blkno
           pc == call[t].pc
<1>1. pc \in UsingCalls \cup {"idle", "again", "asleep"}
  BY CallForms DEF BInv, Idle
<1>2. pc \in UsingCalls => b \in Blocks
  <2>1. pc \in UsingCalls => call[t].x \in Cached
    BY DEF BInv, UsersCached
  <2>. QED  BY <2>1 DEF BInv, Listed, Cached
<1>3. /\ pc \in {"idle", "again", "asleep", "reading", "read"} => access[t] = Store!Idle
      /\ pc \in {"modified", "brelse"} => access[t] = Store!Wrote(b)
      /\ pc \in {"held", "release", "clear", "submit", "writing"} => access[t] = Store!Has(b)
  BY DEF access, Store!Idle, Store!Wrote, Store!Has
<1> HIDE DEF b, pc
<1>4. access[t] \in Store!Accesses
  BY <1>1, <1>2, <1>3 DEF UsingCalls, Store!Accesses
<1>. QED
  BY <1>3, <1>4 DEF b, pc

\* The places a task can be at.
LEMMA PcForm ==
  ASSUME NEW t \in Tasks
  PROVE  TypeOK => call[t].pc \in UsingCalls \cup {"idle", "again", "asleep"}
  BY CallForms DEF Idle

\* The step of t: the others go on as they were, or are woken.
Others(t) ==
    \A u \in Tasks \ {t} :
        call'[u] = call[u] \/ (call[u].pc = "asleep" /\ call'[u].pc = "again")

\* A step of t changes what t does, and no block that another uses.
LEMMA OthersAccess ==
  ASSUME BInv, BInv', NEW t \in Tasks, Others(t),
         \A u \in Tasks \ {t} :
           call[u].pc \in UsingCalls => buf'[call[u].x].blkno = buf[call[u].x].blkno
  PROVE  /\ access' = [access EXCEPT ![t] = access'[t]]
         /\ access'[t] \in Store!Accesses
<1>1. AccessRight
  BY AccessForms
<1>2. AccessRight'
  BY AccessForms, PTL
<1>3. ASSUME NEW u \in Tasks \ {t} PROVE access'[u] = access[u]
  <2>1. CASE call'[u] = call[u] /\ call[u].pc \in UsingCalls
    BY <2>1 DEF access
  <2>2. CASE call'[u] = call[u] /\ call[u].pc \notin UsingCalls
    <3>1. call[u].pc \in {"idle", "again", "asleep"}
      BY <2>2, CallForms DEF BInv, Idle
    <3>. QED  BY <1>1, <1>2, <2>2, <3>1 DEF AccessRight, Store!Idle
  <2>3. CASE call[u].pc = "asleep" /\ call'[u].pc = "again"
    BY <1>1, <1>2, <2>3 DEF AccessRight, Store!Idle
  <2>. QED  BY <2>1, <2>2, <2>3 DEF Others
<1>4. access = [u \in Tasks |-> access[u]] /\ access' = [u \in Tasks |-> access'[u]]
  BY DEF access
<1>. QED
  BY <1>2, <1>3, <1>4 DEF AccessRight

\* A block outside B keeps what it holds when its buffer stays, and the data or
\* the disk that it is read from.
LEMMA SameContent ==
  ASSUME BInv, BInv', NEW B, Cached' = Cached,
         \A y \in Cached : buf'[y].blkno = buf[y].blkno,
         \A y \in Cached : buf[y].blkno \notin B =>
           /\ buf'[y].locked = buf[y].locked
           /\ buf[y].locked \/ buf'[y].data = buf[y].data
           /\ ~buf[y].locked \/ disk'[buf[y].blkno] = disk[buf[y].blkno],
         \A c \in Blocks : (\A y \in Cached : buf[y].blkno # c) => disk'[c] = disk[c]
  PROVE  \A c \in Blocks \ B : content'[c] = content[c]
<1>1. ContentRight
  BY Contents
<1>2. ContentRight'
  BY Contents, PTL
<1> SUFFICES ASSUME NEW c \in Blocks \ B PROVE content'[c] = content[c]
  OBVIOUS
<1>3. CASE \A y \in Cached : buf[y].blkno # c
  <2>1. content[c] = disk[c] /\ content'[c] = disk'[c]
    BY <1>1, <1>2, <1>3 DEF ContentRight
  <2>. QED  BY <1>3, <2>1
<1>4. ASSUME NEW y \in Cached, buf[y].blkno = c PROVE content'[c] = content[c]
  <2>1. /\ buf[y].locked => content[c] = disk[c]
        /\ ~buf[y].locked => content[c] = buf[y].data
    BY <1>1, <1>4 DEF ContentRight
  <2>2. /\ buf'[y].locked => content'[c] = disk'[c]
        /\ ~buf'[y].locked => content'[c] = buf'[y].data
    BY <1>2, <1>4 DEF ContentRight
  <2>. QED  BY <1>4, <2>1, <2>2
<1>. QED
  BY <1>3, <1>4

\* A task gets a block, keeps it, or lets go of it.
LEMMA MoveStep ==
  ASSUME BInv, BInv', NEW t \in Tasks, Others(t),
         \A u \in Tasks \ {t} :
           call[u].pc \in UsingCalls => buf'[call[u].x].blkno = buf[call[u].x].blkno,
         call'[t].pc \notin {"modified", "brelse"}, failed \subseteq failed',
         \A c \in Blocks \ failed' : content'[c] = content[c]
  PROVE  Store!Move(t)
<1>1. access' = [access EXCEPT ![t] = access'[t]] /\ access'[t] \in Store!Accesses
  BY OthersAccess
<1>2. AccessRight' /\ ContentRight' /\ TypeOK'
  <2>1. AccessRight' /\ ContentRight'
    BY AccessForms, Contents, PTL
  <2>. QED  BY <2>1 DEF BInv
<1>3. call'[t].pc \in UsingCalls \cup {"idle", "again", "asleep"}
  <2>1. (TypeOK => call[t].pc \in UsingCalls \cup {"idle", "again", "asleep"})'
    BY PcForm, PTL
  <2>. QED  BY <1>2, <2>1
<1>4. access'[t].op \in {"idle", "has"}
  <2>1. CASE call'[t].pc \in {"idle", "again", "asleep", "reading", "read"}
    <3>1. access'[t] = Store!Idle
      BY <1>2, <2>1 DEF AccessRight, Store!Idle
    <3>. QED  BY <3>1 DEF Store!Idle
  <2>2. CASE call'[t].pc \in {"held", "release", "clear", "submit", "writing"}
    <3>1. access'[t] = Store!Has(buf'[call'[t].x].blkno)
      BY <1>2, <2>2 DEF AccessRight, Store!Has
    <3>. QED  BY <3>1 DEF Store!Has
  <2>. QED  BY <1>3, <2>1, <2>2 DEF UsingCalls
<1>5. ASSUME NEW b \in Blocks PROVE access'[t] # Store!Wrote(b)
  <2>1. Store!Wrote(b).op = "wrote"
    BY DEF Store!Wrote
  <2>. QED  BY <1>4, <2>1
<1>6. Store!Kept({})
  BY <1>2 DEF Store!Kept, ContentRight, TypeOK
<1>. QED
  BY <1>1, <1>5, <1>6 DEF Store!Move

\* A task changes the block b.
LEMMA WriteStep ==
  ASSUME BInv, BInv', NEW t \in Tasks, Others(t),
         \A u \in Tasks \ {t} :
           call[u].pc \in UsingCalls => buf'[call[u].x].blkno = buf[call[u].x].blkno,
         NEW b \in Blocks, NEW w \in Values,
         access[t] \in {Store!Idle, Store!Has(b)},
         call'[t].pc \in {"modified", "brelse"}, buf'[call'[t].x].blkno = b,
         failed \subseteq failed', content'[b] = w,
         \A c \in Blocks \ (failed' \cup {b}) : content'[c] = content[c]
  PROVE  Store!Write(t, b, w)
<1>1. access' = [access EXCEPT ![t] = access'[t]]
  BY OthersAccess
<1>2. AccessRight' /\ ContentRight' /\ TypeOK'
  <2>1. AccessRight' /\ ContentRight'
    BY AccessForms, Contents, PTL
  <2>. QED  BY <2>1 DEF BInv
<1>3. access'[t] = Store!Wrote(b)
  BY <1>2 DEF AccessRight, Store!Wrote
<1>4. Store!Kept({b})
  BY <1>2 DEF Store!Kept, ContentRight, TypeOK
<1>. QED
  BY <1>1, <1>3, <1>4 DEF Store!Write

\* The steps of a task that leave the buffers where they are and their blocks
\* as they were.
LEMMA QuietMove ==
  ASSUME BInv, BInv', NEW t \in Tasks, Others(t), Cached' = Cached,
         \A y \in Buffers : /\ buf'[y].blkno = buf[y].blkno
                            /\ buf'[y].locked = buf[y].locked
                            /\ buf'[y].data = buf[y].data,
         UNCHANGED <<disk, failed>>, call'[t].pc \notin {"modified", "brelse"}
  PROVE  Store!Move(t)
<1>1. Cached \subseteq Buffers
  BY DEF BInv, Listed
<1>2. \A u \in Tasks : call[u].pc \in UsingCalls => call[u].x \in Buffers
  BY <1>1 DEF BInv, UsersCached
<1>3. \A c \in Blocks \ {} : content'[c] = content[c]
  BY <1>1, SameContent
<1>. QED
  BY <1>2, <1>3, MoveStep

\* A step by Goto moves t alone.
LEMMA GotoOthers ==
  ASSUME BInv, NEW t \in Tasks, NEW v, Goto(t, v)
  PROVE  Others(t) /\ call'[t] = v /\ UNCHANGED NR_BUFFERS
  BY DEF BInv, TypeOK, Goto, Become, Others

\* brelse() and the parts of bdirty() after the data has been marked, and a task
\* that goes to sleep or away, change nothing a user of the cache sees.
LEMMA QuietActions ==
  ASSUME BInv, BInv', NEW t \in Tasks,
         \/ \E now \in BOOLEAN : bdirty(t, now)
         \/ ClearDirty(t) \/ Submit(t) \/ brelse(t) \/ Release(t)
         \/ \E op \in Ops : Sleep(t, op) \/ NoBuffer(t, op)
  PROVE  Store!Move(t)
<1> DEFINE x == call[t].x
           Plain == /\ Others(t) /\ UNCHANGED <<NR_BUFFERS, buffer_table, disk, failed>>
                    /\ \A y \in Buffers : /\ buf'[y].blkno = buf[y].blkno
                                          /\ buf'[y].locked = buf[y].locked
                                          /\ buf'[y].data = buf[y].data
                    /\ call'[t].pc \notin {"modified", "brelse"}
<1>1. buf \in [Buffers -> BufHeads] /\ (call[t].pc \in UsingCalls => x \in Buffers)
  BY CallForms DEF BInv, TypeOK
<1>2. SUFFICES Plain
  <2>1. Cached' = Cached
    BY <1>2 DEF Cached
  <2>. QED  BY <1>2, <2>1, QuietMove
<1>3. ASSUME NEW now \in BOOLEAN, bdirty(t, now) PROVE Plain
  <2>1. /\ x \in Buffers /\ buf' = [buf EXCEPT ![x].dirty = TRUE]
        /\ UNCHANGED <<buffer_table, disk, failed>>
    BY <1>1, <1>3 DEF bdirty, UsingCalls
  <2>2. \A y \in Buffers : /\ buf'[y].blkno = buf[y].blkno
                           /\ buf'[y].locked = buf[y].locked
                           /\ buf'[y].data = buf[y].data
    BY <1>1, <2>1 DEF BufHeads
  <2> DEFINE v == IF now THEN Writing("clear", x, "held") ELSE Using("held", x)
  <2>3. v.pc \in {"clear", "held"}
    BY DEF Writing, Using
  <2>4. Goto(t, v)
    BY <1>3 DEF bdirty
  <2> HIDE DEF v
  <2>5. Others(t) /\ call'[t] = v /\ UNCHANGED NR_BUFFERS
    BY <2>4, GotoOthers
  <2>. QED  BY <2>1, <2>2, <2>3, <2>5
<1>4. ASSUME ClearDirty(t) PROVE Plain
  <2>1. /\ x \in Buffers /\ buf' = [buf EXCEPT ![x].dirty = FALSE]
        /\ UNCHANGED <<buffer_table, disk, failed>>
    BY <1>1, <1>4 DEF ClearDirty, UsingCalls
  <2>2. \A y \in Buffers : /\ buf'[y].blkno = buf[y].blkno
                           /\ buf'[y].locked = buf[y].locked
                           /\ buf'[y].data = buf[y].data
    BY <1>1, <2>1 DEF BufHeads
  <2> DEFINE v == [call[t] EXCEPT !.pc = "submit"]
  <2>3. v.pc = "submit"
    <3>1. call[t] = Writing(call[t].pc, x, call[t].then)
      BY <1>4, CallForms DEF BInv, ClearDirty
    <3>. QED  BY <3>1 DEF Writing
  <2>4. Goto(t, v)
    BY <1>4 DEF ClearDirty
  <2> HIDE DEF v
  <2>5. Others(t) /\ call'[t] = v /\ UNCHANGED NR_BUFFERS
    BY <2>4, GotoOthers
  <2>. QED  BY <2>1, <2>2, <2>3, <2>5
<1>5. ASSUME Submit(t) PROVE Plain
  <2> DEFINE v == [call[t] EXCEPT !.pc = "writing"]
  <2>1. v.pc = "writing"
    <3>1. call[t] = Writing(call[t].pc, x, call[t].then)
      BY <1>5, CallForms DEF BInv, Submit
    <3>. QED  BY <3>1 DEF Writing
  <2>2. Goto(t, v) /\ UNCHANGED <<buffer_table, buf, disk, failed>>
    BY <1>5 DEF Submit, cache
  <2> HIDE DEF v
  <2>3. Others(t) /\ call'[t] = v /\ UNCHANGED NR_BUFFERS
    BY <2>2, GotoOthers
  <2>. QED  BY <2>1, <2>2, <2>3
<1>6. ASSUME brelse(t) PROVE Plain
  <2> DEFINE v == IF buf[x].dirty THEN Writing("clear", x, "release") ELSE Using("release", x)
  <2>1. v.pc \in {"clear", "release"}
    BY DEF Writing, Using
  <2>2. Goto(t, v) /\ UNCHANGED <<buffer_table, buf, disk, failed>>
    BY <1>6 DEF brelse, cache
  <2> HIDE DEF v
  <2>3. Others(t) /\ call'[t] = v /\ UNCHANGED NR_BUFFERS
    BY <2>2, GotoOthers
  <2>. QED  BY <2>1, <2>2, <2>3
<1>7. ASSUME Release(t) PROVE Plain
  <2>1. /\ x \in Buffers /\ buf' = [buf EXCEPT ![x].use_count = @ - 1]
        /\ Goto(t, Idle) /\ UNCHANGED <<buffer_table, disk, failed>>
    BY <1>1, <1>7 DEF Release, UsingCalls
  <2>2. \A y \in Buffers : /\ buf'[y].blkno = buf[y].blkno
                           /\ buf'[y].locked = buf[y].locked
                           /\ buf'[y].data = buf[y].data
    BY <1>1, <2>1 DEF BufHeads
  <2>3. Others(t) /\ call'[t].pc = "idle" /\ UNCHANGED NR_BUFFERS
    BY <2>1, GotoOthers, CallParts
  <2>. QED  BY <2>1, <2>2, <2>3
<1>8. ASSUME NEW op \in Ops, Sleep(t, op) PROVE Plain
  <2>1. UNCHANGED <<buffer_table, buf, disk, failed>>
    BY <1>8 DEF Sleep, cache
  <2>2. PICK y : Goto(t, Asleep(op, y))
    BY <1>8 DEF Sleep
  <2>3. Others(t) /\ call'[t] = Asleep(op, y) /\ UNCHANGED NR_BUFFERS
    BY <2>2, GotoOthers
  <2>4. call'[t].pc = "asleep"
    BY <2>3 DEF Asleep
  <2>. QED  BY <2>1, <2>3, <2>4
<1>9. ASSUME NEW op \in Ops, NoBuffer(t, op) PROVE Plain
  <2>1. Goto(t, Idle) /\ UNCHANGED <<buffer_table, buf, disk, failed>>
    BY <1>9 DEF NoBuffer, cache
  <2>2. Others(t) /\ call'[t].pc = "idle" /\ UNCHANGED NR_BUFFERS
    BY <2>1, GotoOthers, CallParts
  <2>. QED  BY <2>1, <2>2
<1> HIDE DEF Plain
<1>. QED
  BY <1>3, <1>4, <1>5, <1>6, <1>7, <1>8, <1>9

\* A change of a buffer's data is a write of its block.
LEMMA ModifyStore ==
  ASSUME BInv, BInv', NEW t \in Tasks, NEW w \in Values, Modify(t, w)
  PROVE  \E b \in Blocks : Store!Write(t, b, w)
<1> DEFINE x == call[t].x
           b == buf[x].blkno
<1>1. /\ buf \in [Buffers -> BufHeads] /\ x \in Buffers /\ x \in Cached
      /\ call[t].pc = "held" /\ Has(t, x)
  BY CallForms DEF BInv, TypeOK, UsersCached, Modify, UsingCalls, Has
<1>2. /\ buf' = [buf EXCEPT ![x].data = w] /\ Goto(t, Using("modified", x))
      /\ UNCHANGED <<buffer_table, disk, failed>>
  BY DEF Modify
<1>3. /\ \A y \in Buffers : buf'[y].blkno = buf[y].blkno /\ buf'[y].locked = buf[y].locked
      /\ \A y \in Buffers \ {x} : buf'[y].data = buf[y].data
      /\ buf'[x].data = w
  BY <1>1, <1>2 DEF BufHeads
<1>4. Others(t) /\ call'[t] = Using("modified", x) /\ UNCHANGED NR_BUFFERS
  BY <1>2, GotoOthers
<1>5. call'[t].pc = "modified" /\ call'[t].x = x
  BY <1>4 DEF Using
<1>6. Cached' = Cached
  BY <1>2, <1>4 DEF Cached
<1>7. /\ Cached \subseteq Buffers /\ b \in Blocks
      /\ \A y \in Cached : buf[y].blkno = b => y = x
  BY <1>1 DEF BInv, Listed, Cached
<1>8. ~buf[x].locked
  BY <1>1 DEF BInv, LocksHeld, Filling
<1>9. content'[b] = w
  <2>1. ContentRight'
    BY Contents, PTL
  <2>2. x \in Cached' /\ ~buf'[x].locked
    BY <1>1, <1>3, <1>6, <1>8
  <2>. QED  BY <1>1, <1>3, <2>1, <2>2 DEF ContentRight
<1>10. access[t] = Store!Has(b)
  BY <1>1, AccessForms DEF AccessRight
<1>11. \A u \in Tasks : call[u].pc \in UsingCalls => call[u].x \in Buffers
  BY <1>7 DEF BInv, UsersCached
<1>12. \A c \in Blocks \ {b} : content'[c] = content[c]
  <2> HIDE DEF b, x
  <2>1. \A y \in Cached : buf[y].blkno \notin {b} =>
           /\ buf'[y].locked = buf[y].locked
           /\ buf[y].locked \/ buf'[y].data = buf[y].data
           /\ ~buf[y].locked \/ disk'[buf[y].blkno] = disk[buf[y].blkno]
    BY <1>2, <1>3, <1>7 DEF b
  <2>. QED  BY <1>2, <1>3, <1>6, <1>7, <2>1, SameContent
<1> HIDE DEF b, x
<1>13. buf'[call'[t].x].blkno = b
  BY <1>1, <1>3, <1>5 DEF b
<1>. QED
  BY <1>2, <1>3, <1>4, <1>5, <1>7, <1>9, <1>10, <1>11, <1>12, <1>13, WriteStep

\* What the device has filled holds the block, unless the device failed on it.
LEMMA FilledStore ==
  ASSUME BInv, BInv', NEW t \in Tasks, bread_filled(t)
  PROVE  Store!Move(t)
<1> DEFINE x == call[t].x
           b == buf[x].blkno
<1>1. /\ buf \in [Buffers -> BufHeads] /\ x \in Buffers /\ x \in Cached
      /\ call[t].pc = "read" /\ Has(t, x) /\ call \in [Tasks -> Calls]
  BY CallForms DEF BInv, TypeOK, UsersCached, bread_filled, UsingCalls, Has
<1>2. /\ buf' = [buf EXCEPT ![x].locked = FALSE]
      /\ UNCHANGED <<NR_BUFFERS, buffer_table, disk, failed>>
      /\ call' = [u \in Tasks |->
                    IF u = t THEN Using("held", x)
                    ELSE IF call[u].pc = "asleep" /\ call[u].x = x
                    THEN Again(call[u].op) ELSE call[u]]
  BY DEF bread_filled, Become
<1>3. /\ \A y \in Buffers : buf'[y].blkno = buf[y].blkno /\ buf'[y].data = buf[y].data
      /\ \A y \in Buffers \ {x} : buf'[y].locked = buf[y].locked
      /\ ~buf'[x].locked
  BY <1>1, <1>2 DEF BufHeads
<1>4. call'[t].pc = "held"
  BY <1>2 DEF Using
<1>5. Others(t)
  <2> SUFFICES ASSUME NEW u \in Tasks \ {t}
               PROVE  call'[u] = call[u] \/ (call[u].pc = "asleep" /\ call'[u].pc = "again")
    BY DEF Others
  <2>1. CASE call[u].pc = "asleep" /\ call[u].x = x
    BY <1>2, <2>1 DEF Again
  <2>2. CASE ~(call[u].pc = "asleep" /\ call[u].x = x)
    BY <1>2, <2>2
  <2>. QED  BY <2>1, <2>2
<1>6. Cached' = Cached
  BY <1>2 DEF Cached
<1>7. /\ Cached \subseteq Buffers /\ b \in Blocks
      /\ \A y \in Cached : buf[y].blkno = b => y = x
  BY <1>1 DEF BInv, Listed, Cached
<1>8. buf[x].locked /\ \A u \in Tasks : Has(u, x) => u = t
  BY <1>1 DEF BInv, LocksHeld, Filling
<1>9. b \in failed \/ buf[x].data = disk[b]
  <2>1. ~Notices(t) /\ ~Writes(t)
    BY <1>1 DEF Notices, Writes
  <2>2. ~buf[x].dirty
    BY <1>1, <1>8, <2>1 DEF BInv, DirtyNoticed
  <2>. QED  BY <1>1, <1>8, <2>1, <2>2 DEF BInv, ChangesKept
<1>10. content[b] = disk[b] /\ content'[b] = buf[x].data
  <2>1. ContentRight
    BY Contents
  <2>2. ContentRight'
    BY Contents, PTL
  <2>3. x \in Cached' /\ buf'[x].data = buf[x].data /\ buf'[x].blkno = b
    BY <1>1, <1>3, <1>6
  <2>4. content[b] = disk[b]
    BY <1>1, <1>8, <2>1 DEF ContentRight
  <2>5. content'[b] = buf'[x].data
    BY <1>3, <2>2, <2>3 DEF ContentRight
  <2>. QED  BY <2>3, <2>4, <2>5
<1>11. \A u \in Tasks : call[u].pc \in UsingCalls => call[u].x \in Buffers
  BY <1>7 DEF BInv, UsersCached
<1>12. \A c \in Blocks \ {b} : content'[c] = content[c]
  <2> HIDE DEF b, x
  <2>1. \A y \in Cached : buf[y].blkno \notin {b} =>
           /\ buf'[y].locked = buf[y].locked
           /\ buf[y].locked \/ buf'[y].data = buf[y].data
           /\ ~buf[y].locked \/ disk'[buf[y].blkno] = disk[buf[y].blkno]
    BY <1>2, <1>3, <1>7 DEF b
  <2>. QED  BY <1>2, <1>3, <1>6, <1>7, <2>1, SameContent
<1> HIDE DEF b, x
<1>13. \A c \in Blocks \ failed' : content'[c] = content[c]
  BY <1>2, <1>7, <1>9, <1>10, <1>12
<1>. QED
  BY <1>2, <1>3, <1>4, <1>5, <1>11, <1>13, MoveStep

\* Getting a buffer for b, and evicting another block for it, leaves every block
\* but b as it is, unless the device failed on it.
LEMMA ObtainsContent ==
  ASSUME BInv, BInv', NEW t \in Tasks, NEW b \in Blocks, NEW x \in Buffers, NEW v, NEW h,
         Obtains(t, b, x, v, h)
  PROVE  /\ Others(t) /\ call'[t] = v /\ UNCHANGED <<disk, failed>>
         /\ access[t] = Store!Idle /\ v.x = x /\ buf'[x].blkno = b
         /\ \A u \in Tasks \ {t} :
              call[u].pc \in UsingCalls => buf'[call[u].x].blkno = buf[call[u].x].blkno
         /\ \A c \in Blocks \ (failed \cup {b}) : content'[c] = content[c]
         /\ ~h.locked => content'[b] = h.data
         /\ h.locked => content'[b] = disk[b]
         /\ x \in Cached /\ buf[x].blkno = b => content[b] = buf[x].data
         /\ (\A y \in Cached : buf[y].blkno # b) => content[b] = disk[b]
<1>1. /\ GetStep(t, x, v, h) /\ h.blkno = b
      /\ \/ x \in Cached /\ buf[x].blkno = b /\ ~buf[x].locked /\ ~h.locked
         \/ (\A y \in Cached : buf[y].blkno # b) /\ \A u \in Tasks : ~Has(u, x)
  BY DEF Obtains
<1>2. /\ call[t].pc \notin UsingCalls \cup {"asleep"}
      /\ call'[t] = v /\ v.x = x /\ \A u \in Tasks \ {t} : call'[u] = call[u]
      /\ buf'[x] = h /\ \A y \in Buffers \ {x} : buf'[y] = buf[y]
      /\ UNCHANGED disk /\ UNCHANGED failed /\ Cached' = Cached \cup {x}
  BY <1>1 DEF GetStep
<1>3. Others(t)
  BY <1>2 DEF Others
<1>4. access[t] = Store!Idle
  <2>1. call[t].pc \in {"idle", "again", "asleep"}
    BY <1>2, PcForm DEF BInv
  <2>. QED  BY <2>1, AccessForms DEF AccessRight
<1>5. /\ Cached \subseteq Buffers
      /\ \A y \in Cached : buf[y].blkno \in Blocks
      /\ \A y, z \in Cached : buf[y].blkno = buf[z].blkno => y = z
  BY DEF BInv, Listed, Cached
<1>6. ASSUME NEW u \in Tasks \ {t}, call[u].pc \in UsingCalls
      PROVE  buf'[call[u].x].blkno = buf[call[u].x].blkno
  <2>1. call[u].x \in Cached /\ call[u].x \in Buffers /\ Has(u, call[u].x)
    BY <1>5, <1>6 DEF BInv, UsersCached, Has
  <2>. QED  BY <1>1, <1>2, <2>1
<1>7. ContentRight
  BY Contents
<1>8. ContentRight'
  BY Contents, PTL
<1>9. /\ ~h.locked => content'[b] = h.data
      /\ h.locked => content'[b] = disk[b]
  <2>1. x \in Cached' /\ buf'[x] = h
    BY <1>2
  <2>. QED  BY <1>1, <1>2, <1>8, <2>1 DEF ContentRight
<1>10. /\ x \in Cached /\ buf[x].blkno = b => content[b] = buf[x].data
       /\ (\A y \in Cached : buf[y].blkno # b) => content[b] = disk[b]
  BY <1>1, <1>7 DEF ContentRight
<1>11. ASSUME NEW c \in Blocks \ (failed \cup {b}) PROVE content'[c] = content[c]
  <2>1. CASE \A y \in Cached : buf[y].blkno # c
    <3>1. \A y \in Cached' : buf'[y].blkno # c
      BY <1>1, <1>2, <1>5, <1>11, <2>1
    <3>2. content'[c] = disk'[c] /\ content[c] = disk[c]
      BY <1>7, <1>8, <2>1, <3>1 DEF ContentRight
    <3>. QED  BY <1>2, <3>2
  <2>2. ASSUME NEW y \in Cached, buf[y].blkno = c, y # x PROVE content'[c] = content[c]
    <3>1. y \in Cached' /\ buf'[y] = buf[y]
      BY <1>2, <1>5, <2>2
    <3>2. /\ buf[y].locked => content[c] = disk[c]
          /\ ~buf[y].locked => content[c] = buf[y].data
      BY <1>7, <2>2 DEF ContentRight
    <3>3. /\ buf'[y].locked => content'[c] = disk'[c]
          /\ ~buf'[y].locked => content'[c] = buf'[y].data
      BY <1>8, <2>2, <3>1 DEF ContentRight
    <3>. QED  BY <1>2, <3>1, <3>2, <3>3
  <2>3. CASE x \in Cached /\ buf[x].blkno = c
    <3>1. \A u \in Tasks : ~Has(u, x)
      BY <1>1, <1>11, <2>3
    <3>2. ~buf[x].locked /\ buf[x].data = disk[c]
      BY <1>11, <2>3, <3>1 DEF BInv, LocksHeld, DirtyNoticed, ChangesKept
    <3>3. content[c] = disk[c]
      BY <1>7, <2>3, <3>2 DEF ContentRight
    <3>4. \A y \in Cached' : buf'[y].blkno # c
      BY <1>1, <1>2, <1>5, <1>11, <2>3
    <3>5. content'[c] = disk'[c]
      BY <1>8, <3>4 DEF ContentRight
    <3>. QED  BY <1>2, <3>3, <3>5
  <2>. QED  BY <2>1, <2>2, <2>3
<1>. QED
  BY <1>1, <1>2, <1>3, <1>4, <1>6, <1>9, <1>10, <1>11

\* bread() gives out a block as it is ...
LEMMA BreadStore ==
  ASSUME BInv, NEW t \in Tasks, NEW b \in Blocks, bread_hit(t, b) \/ bread_miss(t, b)
  PROVE  Store!Move(t)
<1>1. BInv'
  BY BreadHitInv, BreadMissInv
<1>2. PICK x \in Buffers, v \in Calls, h \in BufHeads :
        /\ Obtains(t, b, x, v, h) /\ v.pc \in {"held", "reading"}
        /\ \/ ~h.locked /\ x \in Cached /\ buf[x].blkno = b /\ h.data = buf[x].data
           \/ h.locked /\ \A y \in Cached : buf[y].blkno # b
  <2>1. CASE bread_hit(t, b)
    BY <2>1, BreadHitInv
  <2>2. CASE bread_miss(t, b)
    BY <2>2, BreadMissInv
  <2>. QED  BY <2>1, <2>2
<1>3. /\ Others(t) /\ call'[t] = v /\ UNCHANGED <<disk, failed>>
      /\ \A u \in Tasks \ {t} :
           call[u].pc \in UsingCalls => buf'[call[u].x].blkno = buf[call[u].x].blkno
      /\ \A c \in Blocks \ (failed \cup {b}) : content'[c] = content[c]
      /\ content'[b] = content[b]
  BY <1>1, <1>2, ObtainsContent
<1>. QED
  BY <1>1, <1>2, <1>3, MoveStep

\* ... and bwrite() writes one.
LEMMA BwriteStore ==
  ASSUME BInv, NEW t \in Tasks, NEW b \in Blocks, NEW w \in Values,
         bwrite_hit(t, b, w) \/ bwrite_miss(t, b, w)
  PROVE  Store!Write(t, b, w)
<1>1. BInv'
  BY BwriteHitInv, BwriteMissInv
<1>2. PICK x \in Buffers, v \in Calls, h \in BufHeads :
        Obtains(t, b, x, v, h) /\ v.pc = "brelse" /\ h.data = w /\ ~h.locked
  <2>1. CASE bwrite_hit(t, b, w)
    BY <2>1, BwriteHitInv
  <2>2. CASE bwrite_miss(t, b, w)
    BY <2>2, BwriteMissInv
  <2>. QED  BY <2>1, <2>2
<1>3. /\ Others(t) /\ call'[t] = v /\ UNCHANGED <<disk, failed>>
      /\ access[t] = Store!Idle /\ v.x = x /\ buf'[x].blkno = b
      /\ \A u \in Tasks \ {t} :
           call[u].pc \in UsingCalls => buf'[call[u].x].blkno = buf[call[u].x].blkno
      /\ \A c \in Blocks \ (failed \cup {b}) : content'[c] = content[c]
      /\ content'[b] = w
  BY <1>1, <1>2, ObtainsContent
<1>4. call'[t].pc = "brelse" /\ buf'[call'[t].x].blkno = b
  BY <1>2, <1>3
<1>. QED
  BY <1>1, <1>3, <1>4, WriteStep

\* The device fills a locked buffer and stores an unlocked one: no block changes
\* for those who use the cache.
LEMMA DeviceStore ==
  ASSUME BInv, NEW w \in Values, NEW ok \in BOOLEAN,
         DeviceRead(w, ok) \/ DeviceWrite(w, ok)
  PROVE  Store!Device
<1> DEFINE r == Head(requests)
           t == r.task
           x == r.x
           b == buf[x].blkno
<1>1. BInv' /\ TypeOK'
  BY DeviceReadInv, DeviceWriteInv DEF BInv
<1>2. /\ requests # <<>> /\ failed' = IF ok THEN failed ELSE failed \cup {b}
      /\ UNCHANGED buffer_table
  BY DEF DeviceRead, DeviceWrite, cache
<1>3. /\ t \in Tasks /\ x \in Buffers /\ Has(t, x)
      /\ call[t].pc = IF r.op = "read" THEN "reading" ELSE "writing"
  BY <1>2, FirstRequest
<1>4. /\ buf \in [Buffers -> BufHeads] /\ x \in Cached /\ Cached \subseteq Buffers
      /\ b \in Blocks /\ \A y \in Cached : buf[y].blkno = b => y = x
      /\ disk \in [Blocks -> Values]
  <2>1. x \in Cached
    BY <1>3 DEF BInv, UsersCached, Has
  <2>2. \A y \in Cached : buf[y].blkno \in Blocks /\ y \in Buffers
    BY DEF BInv, Listed, Cached
  <2>. QED  BY <2>1, <2>2 DEF BInv, TypeOK, Listed
<1> HIDE DEF r, t, x, b
<1> DEFINE Plain == /\ Others(t) /\ UNCHANGED NR_BUFFERS
                    /\ \A y \in Buffers : buf'[y].blkno = buf[y].blkno
                    /\ access'[t] = access[t]
                    /\ \A c \in Blocks : content'[c] = content[c]
<1>5. AccessRight /\ AccessRight' /\ ContentRight'
  <2>1. AccessRight' /\ ContentRight'
    BY <1>1, AccessForms, Contents, PTL
  <2>. QED  BY <2>1, AccessForms
<1>6. SUFFICES Plain
  <2>1. \A u \in Tasks : call[u].pc \in UsingCalls => call[u].x \in Buffers
    BY <1>4 DEF BInv, UsersCached
  <2>2. access' = [access EXCEPT ![t] = access'[t]]
    BY <1>1, <1>3, <1>6, <2>1, OthersAccess
  <2>3. access' = access
    BY <1>6, <2>2 DEF access
  <2>4. failed \subseteq failed' /\ failed' \subseteq Blocks
    BY <1>1, <1>2 DEF TypeOK
  <2>. QED  BY <1>5, <1>6, <2>3, <2>4 DEF Store!Device, Store!Kept, ContentRight
<1>7. CASE DeviceRead(w, ok)
  <2>1. /\ buf' = [buf EXCEPT ![x].data = w] /\ Goto(t, Using("read", x))
        /\ UNCHANGED disk /\ r.op = "read"
    BY <1>7 DEF DeviceRead, r, t, x
  <2>2. Others(t) /\ call'[t] = Using("read", x) /\ UNCHANGED NR_BUFFERS
    BY <1>3, <2>1, GotoOthers
  <2>3. /\ \A y \in Buffers : buf'[y].blkno = buf[y].blkno /\ buf'[y].locked = buf[y].locked
        /\ \A y \in Buffers \ {x} : buf'[y].data = buf[y].data
    BY <1>3, <1>4, <2>1 DEF BufHeads
  <2>4. call[t].pc = "reading" /\ call'[t].pc = "read"
    BY <1>3, <2>1, <2>2 DEF Using
  <2>5. buf[x].locked
    BY <1>3, <2>4 DEF BInv, LocksHeld, Filling
  <2>6. access[t] = Store!Idle
    BY <1>3, <1>5, <2>4 DEF AccessRight
  <2>7. access'[t] = Store!Idle
    BY <1>3, <1>5, <2>4 DEF AccessRight, Store!Idle
  <2>8. Cached' = Cached
    BY <1>2, <2>2 DEF Cached
  <2>9. \A c \in Blocks \ {} : content'[c] = content[c]
    BY <1>1, <1>4, <2>1, <2>3, <2>5, <2>8, SameContent
  <2>. QED  BY <2>2, <2>3, <2>6, <2>7, <2>9
<1>8. CASE DeviceWrite(w, ok)
  <2>1. /\ disk' = [disk EXCEPT ![b] = w] /\ Goto(t, Using(call[t].then, x))
        /\ UNCHANGED buf /\ r.op = "write"
    BY <1>8 DEF DeviceWrite, cache, r, t, x, b
  <2>2. Others(t) /\ call'[t] = Using(call[t].then, x) /\ UNCHANGED NR_BUFFERS
    BY <1>3, <2>1, GotoOthers
  <2>3. call[t].pc = "writing" /\ call[t].then \in {"held", "release"}
    BY <1>3, <2>1, CallForms DEF BInv
  <2>4. call'[t].pc \in {"held", "release"} /\ call'[t].x = x /\ call[t].x = x
    BY <1>3, <2>2, <2>3 DEF Using, Has
  <2>5. ~buf[x].locked
    <3>1. ~Filling(t)
      BY <2>3 DEF Filling
    <3>2. \A u \in Tasks : Has(u, x) /\ Filling(u) => u = t
      BY <1>3 DEF BInv, LocksHeld
    <3>. QED  BY <1>4, <3>1, <3>2 DEF BInv, LocksHeld
  <2>6. access[t] = Store!Has(b)
    BY <1>3, <1>5, <2>3, <2>4 DEF AccessRight, b
  <2>7. access'[t] = Store!Has(b)
    BY <1>3, <1>5, <2>1, <2>4 DEF AccessRight, Store!Has, b
  <2>8. Cached' = Cached
    BY <1>2, <2>2 DEF Cached
  <2>9. \A c \in Blocks \ {b} : disk'[c] = disk[c]
    BY <1>4, <2>1
  <2>10. \A y \in Cached : buf[y].locked => disk'[buf[y].blkno] = disk[buf[y].blkno]
    <3> SUFFICES ASSUME NEW y \in Cached, buf[y].locked
                 PROVE  disk'[buf[y].blkno] = disk[buf[y].blkno]
      OBVIOUS
    <3>1. buf[y].blkno \in Blocks \ {b}
      BY <1>4, <2>5 DEF BInv, Listed, Cached
    <3>. QED  BY <2>9, <3>1
  <2>11. \A c \in Blocks : (\A y \in Cached : buf[y].blkno # c) => disk'[c] = disk[c]
    BY <1>4, <2>9 DEF b
  <2>12. \A c \in Blocks \ {} : content'[c] = content[c]
    BY <1>1, <2>1, <2>8, <2>10, <2>11, SameContent
  <2>. QED  BY <2>1, <2>2, <2>6, <2>7, <2>12
<1>. QED
  BY <1>7, <1>8

\* Every step of the cache is a step of the store, or cannot be seen.
LEMMA NextStore ==
  BInv /\ BInv' /\ [Next]_vars => [Store!Next]_(Store!vars)
<1> SUFFICES ASSUME BInv, BInv', [Next]_vars PROVE [Store!Next]_(Store!vars)
  OBVIOUS
<1>1. CASE UNCHANGED vars
  <2>1. /\ UNCHANGED buffer_table /\ UNCHANGED buf /\ UNCHANGED disk /\ UNCHANGED call
        /\ UNCHANGED failed
    BY <1>1 DEF vars, cache
  <2>2. content' = content /\ access' = access
    BY <2>1 DEF content, access, find_buffer
  <2>. QED  BY <2>1, <2>2 DEF Store!vars
<1>2. CASE Device
  <2>1. Store!Device
    BY <1>2, DeviceStore DEF Device
  <2>. QED  BY <2>1 DEF Store!Next
<1>3. ASSUME NEW t \in Tasks, Enter(t) PROVE Store!Next
  <2>1. CASE \E op \in Ops : Sleep(t, op) \/ NoBuffer(t, op)
    BY <2>1, QuietActions DEF Store!Next
  <2>2. CASE \E b \in Blocks : bread_miss(t, b) \/ bread_hit(t, b)
    BY <2>2, BreadStore DEF Store!Next
  <2>3. CASE \E b \in Blocks, v \in Values : bwrite_hit(t, b, v) \/ bwrite_miss(t, b, v)
    BY <2>3, BwriteStore DEF Store!Next
  <2>. QED  BY <1>3, <2>1, <2>2, <2>3 DEF Enter
<1>4. ASSUME NEW t \in Tasks, Use(t) PROVE Store!Next
  <2>1. CASE bread_filled(t)
    BY <2>1, FilledStore DEF Store!Next
  <2>2. CASE \E v \in Values : Modify(t, v)
    BY <2>2, ModifyStore DEF Store!Next
  <2>3. CASE \/ \E now \in BOOLEAN : bdirty(t, now)
             \/ ClearDirty(t) \/ Submit(t) \/ brelse(t) \/ Release(t)
    BY <2>3, QuietActions DEF Store!Next
  <2>. QED  BY <1>4, <2>1, <2>2, <2>3 DEF Use
<1>. QED
  BY <1>1, <1>2, <1>3, <1>4 DEF Next

\* At the start nothing is cached: the store holds what the disks hold.
LEMMA InitStore == Init => Store!Init
<1> SUFFICES ASSUME Init PROVE Store!Init
  OBVIOUS
<1>1. BInv
  BY InitBInv
<1>2. \A t \in Tasks : call[t].pc = "idle"
  BY CallParts DEF Init
<1>3. content \in [Blocks -> Values]
  BY <1>1, Contents DEF ContentRight
<1>4. \A t \in Tasks : access[t] = Store!Idle
  BY <1>1, <1>2, AccessForms DEF AccessRight
<1>5. access = [t \in Tasks |-> access[t]]
  BY DEF access
<1>. QED
  BY <1>3, <1>4, <1>5 DEF Store!Init, Init

\* The buffer cache implements the store of blocks: for any number of tasks,
\* buffers, buckets and blocks, whatever bread() evicts and in whatever order
\* the device works, a task sees what was last written to a block, unless the
\* device failed on it (bread, bwrite, bdirty, brelse, make_free_buffer).
THEOREM StoreSafe == Spec => ImplementsStore
<1>1. Init => Store!Init
  BY InitStore
<1>2. BInv /\ BInv' /\ [Next]_vars => [Store!Next]_(Store!vars)
  BY NextStore
<1>. QED
  BY <1>1, <1>2, Invariance, PTL DEF Spec, ImplementsStore
=============================================================================
