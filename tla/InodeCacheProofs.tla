--------------------------- MODULE InodeCacheProofs ---------------------------
(***************************************************************************)
(* The inodes in memory stay sound: proofs about InodeCache for any number *)
(* of tasks, inodes and entries.                                           *)
(*                                                                         *)
(* The invariant has two layers.  The first says who is where: which       *)
(* entries are on which list, and which calls may have them.  The second   *)
(* says what an inode's number and content mean while a file is created,   *)
(* removed, written or freed.                                              *)
(***************************************************************************)
EXTENDS InodeCache, ListLemmas, FiniteSetTheorems

Opened == ToSet(inode_open_list)
Free == ToSet(inode_free_list)

\* The places in close_inode() after the last use of an inode.
Closing == {"unlink", "free", "put"}
Using(t, x) == call[t].pc \in HasPcs \ Closing /\ call[t].x = x
At(t, x) == call[t].pc \in HasPcs /\ call[t].x = x
Reads(t, x) == call[t].pc = "read" /\ call[t].x = x

-----------------------------------------------------------------------------
(* The first layer.                                                         *)

\* InodesConsistent, but for the counts of the references; no entry is free and
\* leaving, and two tasks do not take the same one away.
Listed ==
    /\ NoRepeats(inode_open_list) /\ NoRepeats(inode_free_list)
    /\ Opened \cup Free \cup Leaving = Entries
    /\ Opened \cap (Free \cup Leaving) = {}
    /\ Free \cap Leaving = {}
    /\ \A x, y \in Opened : core[x].inum = core[y].inum => x = y
    /\ \A t, u \in Tasks :
         call[t].pc \in {"free", "put"} /\ call[u].pc \in {"free", "put"}
         /\ call[t].x = call[u].x => t = u
    /\ dev_use_count = 1 + NR_INODES - Len(inode_free_list)

Counted == \A x \in Opened : core[x].use_count = Cardinality(References(x))

\* A locked inode has one reader and nobody else.
LocksHeld ==
    /\ \A t \in Tasks : call[t].pc = "read" => call[t].x \in Opened /\ core[call[t].x].locked
    /\ \A x \in Opened : core[x].locked => \E t \in Tasks : Reads(t, x)
    /\ \A t, u \in Tasks : \A x \in Opened : Reads(t, x) /\ Reads(u, x) => t = u

\* A create_file() has one reference, and two from dup_inode() to close_inode().
Fits(c) ==
    /\ c.pc \in {"init", "entry", "count"} => c.n = 1
    /\ c.pc = "dirty" /\ c.job = "make_file" => c.n = 1
    /\ c.pc \in {"test", "copy", "clear", "drop"} /\ c.job = "make_file" => c.n = 2

\* Who has an inode has it open and read, with a reference or as the last.
UsersHold ==
    /\ \A t \in Tasks : call[t].pc \in HasPcs \ Closing =>
         call[t].n >= 1 /\ call[t].x \in Opened /\ ~core[call[t].x].locked
    /\ \A t \in Tasks : call[t].pc \in Closing => call[t].n = 0
    /\ \A t \in Tasks : call[t].pc = "unlink" =>
         /\ call[t].x \in Opened /\ ~core[call[t].x].locked
         /\ \A u \in Tasks : At(u, call[t].x) => u = t
    /\ \A t \in Tasks : Fits(call[t])

\* SleepersAreWoken, while nothing has clashed.
SleepersSafe ==
    \A t \in Tasks : call[t].pc = "asleep" => \E u \in Tasks : Reads(u, call[t].x)

Layer1 == Listed /\ Counted /\ LocksHeld /\ UsersHold /\ SleepersSafe

-----------------------------------------------------------------------------
(* The second layer.                                                        *)

\* The number of the inode that t is after or has.
Inum(t) == IF call[t].pc \in {"make", "asleep"} THEN call[t].inum ELSE core[call[t].x].inum

\* t has deleted the entry of its inode and not yet counted that.
Removing(t) ==
    \/ call[t].pc \in {"make", "asleep", "read"} /\ call[t].op = "remove"
    \/ call[t].pc = "remove"

\* t has allocated its inode and not yet made the entry.
Creating(t) ==
    \/ call[t].pc \in {"make", "read"} /\ call[t].op = "create"
    \/ call[t].pc \in {"init", "entry"}
    \/ call[t].pc \in {"dirty", "test", "copy", "clear", "drop"} /\ call[t].job = "make_file"

\* t has made the entry and not yet counted it.
Counting(t) == call[t].pc = "count"

\* An inode that is allocated has an entry, or one who takes the entry away, or
\* one who is about to make it.
Claimed ==
    /\ entries \subseteq bitmap
    /\ \A t \in Tasks : Removing(t) \/ Creating(t) => Inum(t) \in bitmap \ entries
    /\ \A t, u \in Tasks :
         (Removing(t) \/ Creating(t)) /\ (Removing(u) \/ Creating(u)) /\ Inum(t) = Inum(u)
         => t = u
    /\ \A t, u \in Tasks :
         Counting(t) /\ (Creating(u) \/ Counting(u)) /\ Inum(t) = Inum(u) => t = u
    /\ \A t \in Tasks : ~(call[t].pc = "asleep" /\ call[t].op = "create")
    /\ \A t \in Tasks : call[t].pc = "make" /\ call[t].op = "create" =>
         open_inode(call[t].inum) = {}

\* Open inodes are allocated; one that is about to be freed is nobody's.
Allocated ==
    /\ \A x \in Opened : core[x].inum \in bitmap
    /\ \A t \in Tasks : call[t].pc = "free" =>
         LET i == core[call[t].x].inum
         IN  /\ i \in bitmap /\ i \notin entries /\ open_inode(i) = {}
             /\ \A u \in Tasks : Removing(u) \/ Creating(u) => Inum(u) # i
             /\ \A u \in Tasks : call[u].pc = "free" /\ core[call[u].x].inum = i => u = t

\* An inode differs from the disk only while it is dirty or its last change is
\* not marked yet, and a dirty one is written or has failed to be before the
\* last user is gone.
KeptIn(x) ==
    /\ \/ core[x].inode = dinode[core[x].inum] \/ core[x].dirty
       \/ \E t \in Tasks : Using(t, x) /\ call[t].pc = "dirty"
    /\ core[x].dirty =>
         \/ core[x].inum \in lost
         \/ \E t \in Tasks : Using(t, x) /\ call[t].pc # "drop"
Kept == \A x \in Opened : ~core[x].locked => KeptIn(x)

\* What an inode with an entry counts, in memory and on disk.
Linked(i) == i \in entries \/ \E t \in Tasks : Removing(t) /\ Inum(t) = i
Links(i) == IF \E t \in Tasks : Counting(t) /\ Inum(t) = i THEN 0 ELSE 1
LinksCounted ==
    /\ \A x \in Opened : Linked(core[x].inum) /\ ~core[x].locked =>
         core[x].inode.nlinks = Links(core[x].inum)
    /\ \A i \in Inums : Linked(i) /\ (\A x \in open_inode(i) : core[x].locked) =>
         dinode[i].nlinks = Links(i)
    /\ \A t \in Tasks : Creating(t) /\ call[t].pc \notin {"make", "read", "init"} =>
         core[call[t].x].inode.nlinks = 0

Layer2 == Claimed /\ Allocated /\ Kept /\ LinksCounted

\* The inductive invariant.
IInv == TypeOK /\ (clash = "none" => Layer1 /\ Layer2)

-----------------------------------------------------------------------------
(* The calls.                                                               *)

\* What a call is made of, by its place in the code.
LEMMA CallForms ==
  ASSUME TypeOK, NEW t \in Tasks
  PROVE  /\ call[t] \in Calls
         /\ call[t].pc \in {"idle", "make", "asleep", "read", "undo"} \cup HasPcs
         /\ call[t].pc = "idle" => call[t] = Idle
         /\ call[t].pc = "make" => call[t].op \in Ops /\ call[t].inum \in Inums
         /\ call[t].pc = "undo" => call[t].inum \in Inums
         /\ call[t].pc = "asleep" =>
              call[t].op \in Ops /\ call[t].inum \in Inums /\ call[t].x \in Entries
         /\ call[t].pc = "read" => call[t].op \in Ops /\ call[t].x \in Entries
         /\ call[t].pc \in HasPcs =>
              /\ call[t].x \in Entries /\ call[t].n \in 0..MaxRefs /\ call[t].job \in Jobs
              /\ call[t] = Has(call[t].pc, call[t].x, call[t].n, call[t].job)
<1>1. call[t] \in Calls
  BY DEF TypeOK
<1>2. CASE call[t] = Idle
  BY <1>1, <1>2 DEF Idle, HasPcs
<1>3. ASSUME NEW op \in Ops, NEW i \in Inums, call[t] = Making(op, i)
      PROVE  call[t].pc = "make" /\ call[t].op = op /\ call[t].inum = i
  BY <1>3 DEF Making
<1>4. ASSUME NEW op \in Ops, NEW i \in Inums, NEW x \in Entries, call[t] = Asleep(op, i, x)
      PROVE  call[t].pc = "asleep" /\ call[t].op = op /\ call[t].inum = i /\ call[t].x = x
  BY <1>4 DEF Asleep
<1>5. ASSUME NEW op \in Ops, NEW x \in Entries, call[t] = Reading(op, x)
      PROVE  call[t].pc = "read" /\ call[t].op = op /\ call[t].x = x
  BY <1>5 DEF Reading
<1>6. ASSUME NEW pc \in HasPcs, NEW x \in Entries, NEW n \in 0..MaxRefs, NEW job \in Jobs,
             call[t] = Has(pc, x, n, job)
      PROVE  call[t].pc = pc /\ call[t].x = x /\ call[t].n = n /\ call[t].job = job
  BY <1>6 DEF Has
<1>7. "idle" \notin HasPcs /\ "make" \notin HasPcs /\ "asleep" \notin HasPcs
      /\ "read" \notin HasPcs /\ "undo" \notin HasPcs
  BY DEF HasPcs
<1>8. ASSUME NEW i \in Inums, call[t] = Undoing(i)
      PROVE  call[t].pc = "undo" /\ call[t].inum = i
  BY <1>8 DEF Undoing
<1>. QED
  BY <1>1, <1>2, <1>3, <1>4, <1>5, <1>6, <1>7, <1>8 DEF Calls

\* The places and the parts of the calls.
LEMMA CallParts ==
  /\ Idle.pc = "idle" /\ Idle \in Calls
  /\ \A op \in Ops, i \in Inums :
       /\ Making(op, i).pc = "make" /\ Making(op, i).op = op /\ Making(op, i).inum = i
       /\ Making(op, i) \in Calls
  /\ \A op \in Ops, i \in Inums, x \in Entries :
       /\ Asleep(op, i, x).pc = "asleep" /\ Asleep(op, i, x).op = op
       /\ Asleep(op, i, x).inum = i /\ Asleep(op, i, x).x = x /\ Asleep(op, i, x) \in Calls
  /\ \A op \in Ops, x \in Entries :
       /\ Reading(op, x).pc = "read" /\ Reading(op, x).op = op /\ Reading(op, x).x = x
       /\ Reading(op, x) \in Calls
  /\ \A i \in Inums : Undoing(i).pc = "undo" /\ Undoing(i).inum = i /\ Undoing(i) \in Calls
  /\ \A pc \in HasPcs, x \in Entries, n \in 0..MaxRefs, job \in Jobs :
       /\ Has(pc, x, n, job).pc = pc /\ Has(pc, x, n, job).x = x
       /\ Has(pc, x, n, job).n = n /\ Has(pc, x, n, job).job = job
       /\ Has(pc, x, n, job) \in Calls
<1>1. Idle.pc = "idle" /\ Idle \in Calls
  BY DEF Idle, Calls
<1>2. \A op \in Ops, i \in Inums :
       /\ Making(op, i).pc = "make" /\ Making(op, i).op = op /\ Making(op, i).inum = i
       /\ Making(op, i) \in Calls
  BY DEF Making, Calls
<1>3. \A op \in Ops, i \in Inums, x \in Entries :
       /\ Asleep(op, i, x).pc = "asleep" /\ Asleep(op, i, x).op = op
       /\ Asleep(op, i, x).inum = i /\ Asleep(op, i, x).x = x /\ Asleep(op, i, x) \in Calls
  BY DEF Asleep, Calls
<1>4. \A op \in Ops, x \in Entries :
       /\ Reading(op, x).pc = "read" /\ Reading(op, x).op = op /\ Reading(op, x).x = x
       /\ Reading(op, x) \in Calls
  BY DEF Reading, Calls
<1>5. \A pc \in HasPcs, x \in Entries, n \in 0..MaxRefs, job \in Jobs :
       /\ Has(pc, x, n, job).pc = pc /\ Has(pc, x, n, job).x = x
       /\ Has(pc, x, n, job).n = n /\ Has(pc, x, n, job).job = job
       /\ Has(pc, x, n, job) \in Calls
  BY DEF Has, Calls
<1>6. \A i \in Inums : Undoing(i).pc = "undo" /\ Undoing(i).inum = i /\ Undoing(i) \in Calls
  BY DEF Undoing, Calls
<1>. QED
  BY <1>1, <1>2, <1>3, <1>4, <1>5, <1>6

\* What make_inode() returns is one reference.
LEMMA ReturnedParts ==
  ASSUME NEW op \in Ops, NEW x \in Entries
  PROVE  \E pc \in HasPcs :
           /\ Returned(op, x) = Has(pc, x, 1, "none") /\ Returned(op, x) \in Calls
           /\ pc = IF op = "open" THEN "have" ELSE IF op = "create" THEN "init" ELSE "remove"
<1> DEFINE pc == IF op = "open" THEN "have" ELSE IF op = "create" THEN "init" ELSE "remove"
<1>1. Returned(op, x) = Has(pc, x, 1, "none") /\ pc \in HasPcs
  BY DEF Returned, HasPcs, Ops
<1>2. 1 \in 0..MaxRefs /\ "none" \in Jobs
  BY ParametersAssumption DEF Jobs
<1> HIDE DEF pc
<1>3. Returned(op, x) \in Calls
  BY <1>1, <1>2, CallParts
<1>. QED
  BY <1>1, <1>3 DEF pc

-----------------------------------------------------------------------------
(* The lists and the counts.                                                *)

\* A list that repeats nothing is no longer than there are entries.
LEMMA ListBound ==
  ASSUME NEW s \in Seq(Entries), NoRepeats(s)
  PROVE  Len(s) <= NR_INODES
<1>1. Len(s) \in Nat /\ s \in [1..Len(s) -> Entries]
  OBVIOUS
<1>2. IsFiniteSet(Entries) /\ Cardinality(Entries) = NR_INODES
  <2>1. NR_INODES \in Nat
    BY ParametersAssumption
  <2>. QED  BY <2>1, FS_Interval DEF Entries
<1>3. Cardinality(1..Len(s)) = Len(s) /\ IsFiniteSet(1..Len(s))
  BY <1>1, FS_Interval
<1>4. ~(Cardinality(Entries) < Cardinality(1..Len(s)))
  <2>1. \A i, j \in 1..Len(s) : i # j => s[i] # s[j]
    BY DEF NoRepeats
  <2>. QED  BY <1>1, <1>2, <1>3, <2>1, FS_PigeonHole
<1>. QED
  BY <1>1, <1>2, <1>3, <1>4, ParametersAssumption

\* What read_inode() leaves on the list when it fails.
LEMMA Dropped ==
  ASSUME NEW T, NEW s \in Seq(T), NEW x \in ToSet(s), NEW p,
         p = SelectInSeq(s, LAMBDA y : y = x)
  PROVE  /\ SubSeq(s, p + 1, Len(s)) \in Seq(T)
         /\ p = 1 => s # <<>> /\ x = Head(s) /\ SubSeq(s, p + 1, Len(s)) = Tail(s)
<1> DEFINE I == {i \in 1..Len(s) : s[i] = x}
<1>1. Len(s) \in Nat /\ s \in [1..Len(s) -> T]
  OBVIOUS
<1>2. I # {} /\ I \in SUBSET Nat
  BY <1>1 DEF ToSet
<1>3. p = Min(I)
  BY <1>2 DEF SelectInSeq
<1>4. p \in I
  <2> HIDE DEF I
  <2>. QED  BY <1>2, <1>3, MinInSet
<1>5. p \in 1..Len(s) /\ s[p] = x
  BY <1>4
<1> HIDE DEF I
<1>6. SubSeq(s, p + 1, Len(s)) \in Seq(T)
  <2>1. \A i \in (p + 1)..Len(s) : s[i] \in T
    BY <1>1, <1>5
  <2>2. p + 1 \in Int /\ Len(s) \in Int
    BY <1>1, <1>5
  <2> DEFINE m == p + 1
             n == Len(s)
  <2>3. m \in Int /\ n \in Int /\ \A i \in m..n : s[i] \in T
    BY <2>1, <2>2
  <2> HIDE DEF m, n
  <2>4. SubSeq(s, m, n) \in Seq(T)
    BY <2>3, SubSeqProperties
  <2>. QED  BY <2>4 DEF m, n
<1>7. ASSUME p = 1 PROVE s # <<>> /\ x = Head(s) /\ SubSeq(s, p + 1, Len(s)) = Tail(s)
  <2>1. s # <<>> /\ x = Head(s)
    BY <1>1, <1>5, <1>7
  <2>2. p + 1 = 2 /\ \A i \in 2..Len(s) : s[i] \in T
    BY <1>1, <1>7
  <2> DEFINE r == SubSeq(s, 2, Len(s))
  <2>3. /\ r \in Seq(T) /\ Len(r) = IF 2 <= Len(s) THEN Len(s) - 2 + 1 ELSE 0
        /\ \A i \in 1..(Len(s) - 2 + 1) : r[i] = s[2 + i - 1]
    BY <1>1, <2>2, SubSeqProperties
  <2> HIDE DEF r
  <2>4. /\ r \in Seq(T) /\ Len(r) = Len(s) - 1
        /\ \A i \in 1..(Len(s) - 1) : r[i] = s[i + 1]
    <3>1. Len(s) \in Nat /\ Len(s) >= 1
      BY <1>1, <1>5
    <3>2. ASSUME NEW i \in 1..(Len(s) - 1) PROVE r[i] = s[i + 1]
      <4>1. 2 + i - 1 = i + 1 /\ i \in 1..(Len(s) - 2 + 1)
        BY <3>1
      <4>. QED  BY <2>3, <4>1
    <3>3. Len(r) = Len(s) - 1
      <4>1. CASE 2 <= Len(s)
        BY <2>3, <3>1, <4>1
      <4>2. CASE ~(2 <= Len(s))
        <5>1. Len(r) = 0
          BY <2>3, <4>2
        <5>2. Len(s) = 1
          <6> DEFINE n == Len(s)
          <6>1. n \in Nat /\ n >= 1 /\ ~(2 <= n)
            BY <3>1, <4>2
          <6> HIDE DEF n
          <6>2. n = 1
            BY <6>1
          <6>. QED  BY <6>2 DEF n
        <5>. QED  BY <5>1, <5>2
      <4>. QED  BY <4>1, <4>2
    <3>. QED  BY <2>3, <3>2, <3>3
  <2>5. r = Tail(s)
    BY <1>1, <2>1, <2>4
  <2>6. SubSeq(s, p + 1, Len(s)) = r
    BY <2>2 DEF r
  <2>. QED  BY <2>1, <2>5, <2>6
<1>. QED
  BY <1>6, <1>7

\* The references are finitely many, and as many as Refs says.
LEMMA ReferencesFinite ==
  ASSUME NEW x
  PROVE  IsFiniteSet(References(x)) /\ Cardinality(References(x)) \in Nat
<1>1. IsFiniteSet(Tasks) /\ IsFiniteSet(1..MaxRefs)
  BY ParametersAssumption, FS_Interval
<1>2. IsFiniteSet(Tasks \X (1..MaxRefs))
  BY <1>1, FS_Product
<1>. QED
  BY <1>2, FS_Subset, FS_CardinalityType DEF References

\* The references, when each task has as many as f says.
RefSet(f) == {r \in Tasks \X (1..MaxRefs) : r[2] <= f[r[1]]}

LEMMA RefSetMore ==
  ASSUME NEW f \in [Tasks -> 0..MaxRefs], NEW g \in [Tasks -> 0..MaxRefs], NEW t \in Tasks,
         g[t] = f[t] + 1, \A u \in Tasks \ {t} : g[u] = f[u]
  PROVE  Cardinality(RefSet(g)) = Cardinality(RefSet(f)) + 1
<1>0. MaxRefs \in Nat
  BY ParametersAssumption
<1>1. RefSet(g) = RefSet(f) \cup {<<t, g[t]>>}
  <2>1. ASSUME NEW u \in Tasks, NEW n \in 1..MaxRefs
        PROVE  n <= g[u] <=> n <= f[u] \/ <<u, n>> = <<t, g[t]>>
    <3>1. CASE u = t
      <4>1. f[t] \in 0..MaxRefs /\ g[t] \in 0..MaxRefs
        OBVIOUS
      <4>2. n <= g[t] <=> n <= f[t] \/ n = g[t]
        BY <1>0, <4>1
      <4>. QED  BY <3>1, <4>2
    <3>2. CASE u # t
      BY <3>2
    <3>. QED  BY <3>1, <3>2
  <2>2. g[t] \in 1..MaxRefs
    <3>1. f[t] \in 0..MaxRefs /\ g[t] \in 0..MaxRefs
      OBVIOUS
    <3>. QED  BY <1>0, <3>1
  <2>3. <<t, g[t]>> \in RefSet(g)
    BY <2>2 DEF RefSet
  <2>4. \A r \in Tasks \X (1..MaxRefs) : r = <<r[1], r[2]>> /\ r[1] \in Tasks
                                         /\ r[2] \in 1..MaxRefs
    OBVIOUS
  <2>5. \A r \in Tasks \X (1..MaxRefs) :
          r \in RefSet(g) <=> r \in RefSet(f) \/ r = <<t, g[t]>>
    BY <2>1, <2>4 DEF RefSet
  <2>. QED  BY <2>3, <2>5 DEF RefSet
<1>2. <<t, g[t]>> \notin RefSet(f)
  <2>1. f[t] \in 0..MaxRefs
    OBVIOUS
  <2>2. ~(g[t] <= f[t])
    BY <1>0, <2>1
  <2>. QED  BY <2>2 DEF RefSet
<1>3. IsFiniteSet(RefSet(f))
  <2>1. IsFiniteSet(Tasks) /\ IsFiniteSet(1..MaxRefs)
    BY ParametersAssumption, FS_Interval
  <2>2. IsFiniteSet(Tasks \X (1..MaxRefs))
    BY <2>1, FS_Product
  <2>. QED  BY <2>2, FS_Subset DEF RefSet
<1>. QED
  BY <1>1, <1>2, <1>3, FS_AddElement

\* A task has no more references than MaxRefs.
LEMMA RefsBound ==
  ASSUME TypeOK, NEW u \in Tasks, NEW x
  PROVE  Refs(u, x) \in 0..MaxRefs
<1>1. 1 \in 0..MaxRefs /\ 0 \in 0..MaxRefs
  BY ParametersAssumption
<1>2. call[u].pc \in HasPcs => call[u].n \in 0..MaxRefs
  BY CallForms
<1>. QED
  BY <1>1, <1>2 DEF Refs

LEMMA ReferencesSet ==
  ASSUME NEW x
  PROVE  References(x) = RefSet([u \in Tasks |-> Refs(u, x)])
<1> DEFINE f == [u \in Tasks |-> Refs(u, x)]
<1>1. \A r \in Tasks \X (1..MaxRefs) : r[1] \in Tasks
  OBVIOUS
<1>2. \A r \in Tasks \X (1..MaxRefs) : f[r[1]] = Refs(r[1], x)
  BY <1>1
<1> HIDE DEF f
<1>3. References(x) = RefSet(f)
  BY <1>2 DEF References, RefSet
<1>. QED
  BY <1>3 DEF f

\* A step that gives t one reference more, or one less, to x.
LEMMA ReferencesMore ==
  ASSUME TypeOK, TypeOK', NEW x, NEW t \in Tasks,
         \A u \in Tasks \ {t} : Refs(u, x)' = Refs(u, x)
  PROVE  /\ Refs(t, x)' = Refs(t, x) =>
              Cardinality(References(x)') = Cardinality(References(x))
         /\ Refs(t, x)' = Refs(t, x) + 1 =>
              Cardinality(References(x)') = Cardinality(References(x)) + 1
         /\ Refs(t, x) = Refs(t, x)' + 1 =>
              Cardinality(References(x)) = Cardinality(References(x)') + 1
<1>1. PICK f \in [Tasks -> 0..MaxRefs] : /\ References(x) = RefSet(f)
                                         /\ \A u \in Tasks : f[u] = Refs(u, x)
  <2> DEFINE f == [u \in Tasks |-> Refs(u, x)]
  <2>1. f \in [Tasks -> 0..MaxRefs] /\ \A u \in Tasks : f[u] = Refs(u, x)
    BY RefsBound
  <2>2. References(x) = RefSet(f)
    BY ReferencesSet
  <2> HIDE DEF f
  <2>. QED  BY <2>1, <2>2
<1>2. PICK g \in [Tasks -> 0..MaxRefs] : /\ References(x)' = RefSet(g)
                                         /\ \A u \in Tasks : g[u] = Refs(u, x)'
  <2>1. PICK G : G = [u \in Tasks |-> Refs(u, x)']
    OBVIOUS
  <2>2. ASSUME NEW u \in Tasks PROVE Refs(u, x)' \in 0..MaxRefs
    <3>1. 1 \in 0..MaxRefs /\ 0 \in 0..MaxRefs
      BY ParametersAssumption
    <3>2. call'[u].pc \in HasPcs => call'[u].n \in 0..MaxRefs
      <4>1. call'[u] \in Calls
        BY DEF TypeOK
      <4>2. call'[u].pc \in HasPcs => \E pc \in HasPcs, y \in Entries, n \in 0..MaxRefs,
                                         job \in Jobs : call'[u] = Has(pc, y, n, job)
        <5>1. Idle.pc \notin HasPcs
          BY DEF Idle, HasPcs
        <5>2. \A op \in Ops, i \in Inums : Making(op, i).pc \notin HasPcs
          BY DEF Making, HasPcs
        <5>3. \A op \in Ops, i \in Inums, y \in Entries : Asleep(op, i, y).pc \notin HasPcs
          BY DEF Asleep, HasPcs
        <5>4. \A op \in Ops, y \in Entries : Reading(op, y).pc \notin HasPcs
          BY DEF Reading, HasPcs
        <5>5. \A i \in Inums : Undoing(i).pc \notin HasPcs
          BY DEF Undoing, HasPcs
        <5>. QED  BY <4>1, <5>1, <5>2, <5>3, <5>4, <5>5 DEF Calls
      <4>. QED  BY <4>2, CallParts
    <3>. QED  BY <3>1, <3>2 DEF Refs
  <2>3. G \in [Tasks -> 0..MaxRefs] /\ \A u \in Tasks : G[u] = Refs(u, x)'
    BY <2>1, <2>2
  <2>4. References(x)' = RefSet(G)
    <3>1. \A r \in Tasks \X (1..MaxRefs) : r[1] \in Tasks
      OBVIOUS
    <3>2. \A r \in Tasks \X (1..MaxRefs) : G[r[1]] = Refs(r[1], x)'
      BY <2>3, <3>1
    <3>. QED  BY <3>2 DEF References, RefSet
  <2>. QED  BY <2>3, <2>4
<1>3. f[t] \in 0..MaxRefs /\ g[t] \in 0..MaxRefs /\ \A u \in Tasks \ {t} : g[u] = f[u]
  BY <1>1, <1>2
<1>4. ASSUME g[t] = f[t] PROVE Cardinality(RefSet(g)) = Cardinality(RefSet(f))
  <2>1. \A u \in Tasks : g[u] = f[u]
    BY <1>3, <1>4
  <2>2. g = f
    BY <2>1
  <2>. QED  BY <2>2
<1>5. ASSUME g[t] = f[t] + 1 PROVE Cardinality(RefSet(g)) = Cardinality(RefSet(f)) + 1
  BY <1>3, <1>5, RefSetMore
<1>6. ASSUME f[t] = g[t] + 1 PROVE Cardinality(RefSet(f)) = Cardinality(RefSet(g)) + 1
  <2>1. \A u \in Tasks \ {t} : f[u] = g[u]
    BY <1>3
  <2>. QED  BY <1>6, <2>1, RefSetMore
<1>. QED
  BY <1>1, <1>2, <1>4, <1>5, <1>6
LEMMA ReferencesNone ==
  ASSUME TypeOK, NEW x, \A u \in Tasks : Refs(u, x) = 0
  PROVE  Cardinality(References(x)) = 0
<1>1. \A r \in Tasks \X (1..MaxRefs) : r[1] \in Tasks /\ r[2] >= 1 /\ r[2] \in Nat
  BY ParametersAssumption
<1>2. References(x) = {}
  BY <1>1 DEF References
<1>. QED
  BY <1>2, FS_EmptySet

\* A task with references is counted; if it counts one, it is the only one.
LEMMA ReferencesOne ==
  ASSUME TypeOK, NEW x, NEW t \in Tasks, Refs(t, x) >= 1
  PROVE  /\ Cardinality(References(x)) >= 1
         /\ Cardinality(References(x)) = 1 =>
              Refs(t, x) = 1 /\ \A u \in Tasks \ {t} : Refs(u, x) = 0
<1>1. \A u \in Tasks : Refs(u, x) \in 0..MaxRefs
  BY RefsBound
<1>2. MaxRefs \in Nat /\ 1 \in 1..MaxRefs /\ 2 \in 1..MaxRefs
  BY ParametersAssumption
<1>3. \A u \in Tasks : Refs(u, x) >= 1 => <<u, 1>> \in References(x)
  BY <1>2 DEF References
<1>4. \A u \in Tasks : Refs(u, x) >= 2 => <<u, 2>> \in References(x)
  BY <1>2 DEF References
<1>5. IsFiniteSet(References(x)) /\ Cardinality(References(x)) \in Nat
  BY ReferencesFinite
<1>6. Cardinality(References(x)) # 0
  BY <1>3, <1>5, FS_EmptySet
<1>7. ASSUME Cardinality(References(x)) = 1
      PROVE  Refs(t, x) = 1 /\ \A u \in Tasks \ {t} : Refs(u, x) = 0
  <2>1. PICK z : References(x) = {z}
    BY <1>5, <1>7, FS_Singleton
  <2>2. z = <<t, 1>>
    BY <1>3, <2>1
  <2>3. ~(Refs(t, x) >= 2)
    <3>1. <<t, 2>> # <<t, 1>>
      OBVIOUS
    <3>. QED  BY <1>4, <2>1, <2>2, <3>1
  <2>4. ASSUME NEW u \in Tasks \ {t} PROVE ~(Refs(u, x) >= 1)
    <3>1. <<u, 1>> # <<t, 1>>
      BY <2>4
    <3>. QED  BY <1>3, <2>1, <2>2, <3>1
  <2>5. Refs(t, x) = 1
    <3>1. Refs(t, x) \in 0..MaxRefs
      BY <1>1
    <3>. QED  BY <1>2, <2>3, <3>1
  <2>6. ASSUME NEW u \in Tasks \ {t} PROVE Refs(u, x) = 0
    <3>1. Refs(u, x) \in 0..MaxRefs
      BY <1>1
    <3>2. ~(Refs(u, x) >= 1)
      BY <2>4
    <3>. QED  BY <1>2, <3>1, <3>2
  <2>. QED  BY <2>5, <2>6
<1>. QED
  BY <1>5, <1>6, <1>7

-----------------------------------------------------------------------------
(* What the steps do, part by part.                                         *)

\* Only t goes on; only x changes.
CallsBut(t) == call' \in [Tasks -> Calls] /\ \A u \in Tasks \ {t} : call'[u] = call[u]
CoreBut(x) == core' \in [Entries -> CoreInodes] /\ \A y \in Entries \ {x} : core'[y] = core[y]

\* t goes on with its inode, with the references it had; whom the lists and the
\* counts hold is as before.
Stays(t, pc, job) ==
    /\ call[t].pc \in HasPcs \ Closing /\ pc \in HasPcs \ Closing /\ job \in Jobs
    /\ CallsBut(t) /\ call'[t] = Has(pc, call[t].x, call[t].n, job)
    /\ CoreBut(call[t].x)
    /\ core'[call[t].x].inum = core[call[t].x].inum
    /\ core'[call[t].x].use_count = core[call[t].x].use_count
    /\ core'[call[t].x].locked = core[call[t].x].locked
    /\ UNCHANGED <<lists, dev_use_count>>

LEMMA GotoParts ==
  ASSUME TypeOK, NEW t \in Tasks, NEW c \in Calls, Goto(t, c)
  PROVE  CallsBut(t) /\ call'[t] = c
<1>1. call \in [Tasks -> Calls]
  BY DEF TypeOK
<1>. QED
  BY <1>1 DEF Goto, CallsBut

LEMMA CoreForm ==
  ASSUME TypeOK, NEW x \in Entries
  PROVE  /\ core[x] = [inum |-> core[x].inum, use_count |-> core[x].use_count,
                       locked |-> core[x].locked, dirty |-> core[x].dirty,
                       inode |-> core[x].inode]
         /\ core[x].inum \in Inums /\ core[x].use_count \in Nat
         /\ core[x].locked \in BOOLEAN /\ core[x].dirty \in BOOLEAN
         /\ core[x].inode \in Contents
<1>1. core[x] \in CoreInodes
  BY DEF TypeOK
<1>. QED
  BY <1>1 DEF CoreInodes

\* One inode in memory gets new fields.
LEMMA CoreParts ==
  ASSUME TypeOK, NEW x \in Entries, NEW c \in CoreInodes, core' = [core EXCEPT ![x] = c]
  PROVE  CoreBut(x) /\ core'[x] = c
<1>1. core \in [Entries -> CoreInodes]
  BY DEF TypeOK
<1>. QED
  BY <1>1 DEF CoreBut

\* A changed inode is stored; its flag is not yet set.
LEMMA ChangeDoes ==
  ASSUME TypeOK, NEW t \in Tasks, call[t].pc \in HasPcs \ Closing,
         NEW inode \in Contents, NEW job \in Jobs, Change(t, inode, job)
  PROVE  /\ Stays(t, "dirty", job)
         /\ core'[call[t].x].inode = inode /\ core'[call[t].x].dirty = core[call[t].x].dirty
         /\ UNCHANGED <<ondisk, clash, lost>>
<1> DEFINE x == call[t].x
<1>1. x \in Entries /\ call[t].n \in 0..MaxRefs
  BY CallForms
<1>2. "dirty" \in HasPcs \ Closing
  BY DEF HasPcs, Closing
<1>3. CallsBut(t) /\ call'[t] = Has("dirty", x, call[t].n, job)
  <2>1. Has("dirty", x, call[t].n, job) \in Calls
    BY <1>1, <1>2, CallParts
  <2>2. Goto(t, Has("dirty", x, call[t].n, job))
    BY DEF Change, GoOn
  <2>. QED  BY <2>1, <2>2, GotoParts
<1>4. /\ CoreBut(x) /\ core'[x].inode = inode /\ core'[x].dirty = core[x].dirty
      /\ core'[x].inum = core[x].inum /\ core'[x].use_count = core[x].use_count
      /\ core'[x].locked = core[x].locked
  <2>1. core' = [core EXCEPT ![x].inode = inode] /\ core \in [Entries -> CoreInodes]
    BY DEF Change, TypeOK
  <2> HIDE DEF x
  <2>2. /\ \A y \in Entries \ {x} : core'[y] = core[y]
        /\ core' \in [Entries -> CoreInodes]
    BY <1>1, <2>1 DEF CoreInodes
  <2>3. /\ core'[x].inode = inode /\ core'[x].dirty = core[x].dirty
        /\ core'[x].inum = core[x].inum /\ core'[x].use_count = core[x].use_count
        /\ core'[x].locked = core[x].locked
    BY <1>1, <2>1 DEF CoreInodes
  <2>. QED  BY <2>2, <2>3 DEF CoreBut
<1>5. UNCHANGED <<lists, dev_use_count, ondisk, clash, lost>>
  BY DEF Change
<1>. QED
  BY <1>1, <1>2, <1>3, <1>4, <1>5 DEF Stays, lists

\* A task goes on with its inode and changes no more than where it is.
LEMMA GoOnDoes ==
  ASSUME TypeOK, NEW t \in Tasks, call[t].pc \in HasPcs \ Closing,
         NEW pc \in HasPcs \ Closing, NEW job \in Jobs, GoOn(t, pc, call[t].n, job),
         UNCHANGED <<lists, dev_use_count, core>>
  PROVE  Stays(t, pc, job)
<1> DEFINE x == call[t].x
<1>1. x \in Entries /\ call[t].n \in 0..MaxRefs
  BY CallForms
<1>2. CallsBut(t) /\ call'[t] = Has(pc, x, call[t].n, job)
  <2>1. Has(pc, x, call[t].n, job) \in Calls
    BY <1>1, CallParts
  <2>2. Goto(t, Has(pc, x, call[t].n, job))
    BY DEF GoOn
  <2>. QED  BY <2>1, <2>2, GotoParts
<1>3. CoreBut(x)
  BY DEF CoreBut, TypeOK
<1>. QED
  BY <1>2, <1>3 DEF Stays

\* One number, or flag, of an inode in memory is set.
LEMMA CoreSet ==
  ASSUME TypeOK, NEW x \in Entries
  PROVE  /\ \A d \in BOOLEAN : core' = [core EXCEPT ![x].dirty = d] =>
              /\ CoreBut(x) /\ core'[x].dirty = d /\ core'[x].inode = core[x].inode
              /\ core'[x].inum = core[x].inum /\ core'[x].use_count = core[x].use_count
              /\ core'[x].locked = core[x].locked
         /\ \A n \in Nat : core' = [core EXCEPT ![x].use_count = n] =>
              /\ CoreBut(x) /\ core'[x].use_count = n /\ core'[x].inode = core[x].inode
              /\ core'[x].inum = core[x].inum /\ core'[x].dirty = core[x].dirty
              /\ core'[x].locked = core[x].locked
<1>1. core \in [Entries -> CoreInodes]
  BY DEF TypeOK
<1>2. ASSUME NEW d \in BOOLEAN, core' = [core EXCEPT ![x].dirty = d]
      PROVE  /\ CoreBut(x) /\ core'[x].dirty = d /\ core'[x].inode = core[x].inode
             /\ core'[x].inum = core[x].inum /\ core'[x].use_count = core[x].use_count
             /\ core'[x].locked = core[x].locked
  <2>1. /\ \A y \in Entries \ {x} : core'[y] = core[y]
        /\ core' \in [Entries -> CoreInodes]
    BY <1>1, <1>2 DEF CoreInodes
  <2>2. /\ core'[x].dirty = d /\ core'[x].inode = core[x].inode
        /\ core'[x].inum = core[x].inum /\ core'[x].use_count = core[x].use_count
        /\ core'[x].locked = core[x].locked
    BY <1>1, <1>2 DEF CoreInodes
  <2>. QED  BY <2>1, <2>2 DEF CoreBut
<1>3. ASSUME NEW n \in Nat, core' = [core EXCEPT ![x].use_count = n]
      PROVE  /\ CoreBut(x) /\ core'[x].use_count = n /\ core'[x].inode = core[x].inode
             /\ core'[x].inum = core[x].inum /\ core'[x].dirty = core[x].dirty
             /\ core'[x].locked = core[x].locked
  <2>1. /\ \A y \in Entries \ {x} : core'[y] = core[y]
        /\ core' \in [Entries -> CoreInodes]
    BY <1>1, <1>3 DEF CoreInodes
  <2>2. /\ core'[x].use_count = n /\ core'[x].inode = core[x].inode
        /\ core'[x].inum = core[x].inum /\ core'[x].dirty = core[x].dirty
        /\ core'[x].locked = core[x].locked
    BY <1>1, <1>3 DEF CoreInodes
  <2>. QED  BY <2>1, <2>2 DEF CoreBut
<1>. QED
  BY <1>2, <1>3
-----------------------------------------------------------------------------
(* The first layer is kept.                                                 *)

\* The steps of a task that keeps its inode and its references.
LEMMA StaysFirst ==
  ASSUME TypeOK, TypeOK', Layer1, NEW t \in Tasks, NEW pc, NEW job, Stays(t, pc, job),
         Fits(call'[t])
  PROVE  Layer1'
<1> DEFINE x == call[t].x
<1>1. /\ x \in Entries /\ call[t].n \in 0..MaxRefs /\ call[t].pc \in HasPcs \ Closing
      /\ pc \in HasPcs \ Closing /\ job \in Jobs
  BY CallForms DEF Stays
<1>2. call'[t].pc = pc /\ call'[t].x = x /\ call'[t].n = call[t].n
  BY <1>1, CallParts DEF Stays
<1>3. /\ \A u \in Tasks \ {t} : call'[u] = call[u]
      /\ \A y \in Entries : /\ core'[y].inum = core[y].inum
                            /\ core'[y].use_count = core[y].use_count
                            /\ core'[y].locked = core[y].locked
      /\ UNCHANGED <<inode_open_list, inode_free_list, dev_use_count>>
  BY DEF Stays, CallsBut, CoreBut, lists
<1>4. Opened' = Opened /\ Free' = Free /\ Opened \subseteq Entries
  BY <1>3 DEF Opened, Free, ToSet, TypeOK
<1>5. "read" \notin HasPcs /\ "asleep" \notin HasPcs
      /\ "free" \in Closing /\ "put" \in Closing /\ "unlink" \in Closing
  BY DEF HasPcs, Closing
<1> HIDE DEF x
<1>6. Leaving' = Leaving
  BY <1>1, <1>2, <1>3, <1>5 DEF Leaving
<1>7. Listed'
  <2>1. \A y, z \in Opened' : core'[y].inum = core'[z].inum => y = z
    BY <1>3, <1>4 DEF Layer1, Listed
  <2>2. \A u, v \in Tasks :
          call'[u].pc \in {"free", "put"} /\ call'[v].pc \in {"free", "put"}
          /\ call'[u].x = call'[v].x => u = v
    BY <1>1, <1>2, <1>3, <1>5 DEF Layer1, Listed
  <2>. QED  BY <1>3, <1>4, <1>6, <2>1, <2>2 DEF Layer1, Listed
<1>8. Counted'
  <2>1. ASSUME NEW y \in Opened PROVE Cardinality(References(y)') = Cardinality(References(y))
    <3>1. \A u \in Tasks : Refs(u, y)' = Refs(u, y)
      BY <1>1, <1>2, <1>3, <1>5 DEF Refs, x
    <3>. QED  BY <3>1, ReferencesMore
  <2>. QED  BY <1>3, <1>4, <2>1 DEF Layer1, Counted
<1>9. LocksHeld'
  <2>1. \A u \in Tasks, y \in Entries : Reads(u, y)' <=> Reads(u, y)
    BY <1>1, <1>2, <1>3, <1>5 DEF Reads
  <2>2. \A u \in Tasks : call'[u].pc = "read" => call'[u] = call[u]
    BY <1>1, <1>2, <1>3, <1>5
  <2>. QED  BY <1>3, <1>4, <2>1, <2>2 DEF Layer1, LocksHeld
<1>10. UsersHold'
  <2>1. \A u \in Tasks : call'[u].pc \in HasPcs \ Closing =>
          call'[u].n >= 1 /\ call'[u].x \in Opened' /\ ~core'[call'[u].x].locked
    BY <1>1, <1>2, <1>3, <1>4 DEF Layer1, UsersHold, x
  <2>2. \A u \in Tasks : call'[u].pc \in Closing => call'[u] = call[u]
    BY <1>1, <1>2, <1>3
  <2>3. ASSUME NEW u \in Tasks, call'[u].pc = "unlink"
        PROVE  /\ call'[u].x \in Opened' /\ ~core'[call'[u].x].locked
               /\ \A v \in Tasks : At(v, call[u].x)' => v = u
    <3>1. call'[u] = call[u] /\ call[u].pc = "unlink"
      BY <1>5, <2>2, <2>3
    <3>2. /\ call[u].x \in Opened /\ ~core[call[u].x].locked
          /\ \A v \in Tasks : At(v, call[u].x) => v = u
      BY <3>1 DEF Layer1, UsersHold
    <3>3. \A v \in Tasks : At(v, call[u].x)' => At(v, call[u].x)
      BY <1>1, <1>2, <1>3, <3>1 DEF At, x
    <3>. QED  BY <1>3, <1>4, <3>1, <3>2, <3>3
  <2>4. \A u \in Tasks : Fits(call'[u])
    BY <1>3 DEF Layer1, UsersHold
  <2>. QED  BY <2>1, <2>2, <2>3, <2>4 DEF Layer1, UsersHold
<1>11. SleepersSafe'
  <2>1. \A u \in Tasks : call'[u].pc \in {"asleep", "read"} => call'[u] = call[u]
    BY <1>1, <1>2, <1>3, <1>5
  <2>2. \A u \in Tasks : call[u].pc = "read" => call'[u] = call[u]
    BY <1>1, <1>3, <1>5
  <2>. QED  BY <2>1, <2>2 DEF Layer1, SleepersSafe, Reads
<1>. QED
  BY <1>7, <1>8, <1>9, <1>10, <1>11 DEF Layer1

\* The steps of a task that has no inode and gets none.
LEMMA OutsideFirst ==
  ASSUME TypeOK, TypeOK', Layer1, NEW t \in Tasks, CallsBut(t),
         call[t].pc \in {"idle", "make", "undo"}, call'[t].pc \in {"idle", "make", "asleep", "undo"},
         call'[t].pc = "asleep" => \E u \in Tasks : Reads(u, call'[t].x),
         UNCHANGED <<lists, dev_use_count, core>>
  PROVE  Layer1'
<1>1. \A u \in Tasks \ {t} : call'[u] = call[u]
  BY DEF CallsBut
<1>2. UNCHANGED <<inode_open_list, inode_free_list, dev_use_count, core>>
  BY DEF lists
<1>3. Opened' = Opened /\ Free' = Free /\ Opened \subseteq Entries
  BY <1>2 DEF Opened, Free, ToSet, TypeOK
<1>4. \A u \in Tasks : call'[u].pc \in HasPcs \cup {"read"} => call'[u] = call[u]
  BY <1>1 DEF HasPcs
<1>5. \A u \in Tasks : call[u].pc \in HasPcs \cup {"read"} => call'[u] = call[u]
  BY <1>1 DEF HasPcs
<1>6. "free" \in HasPcs /\ "put" \in HasPcs /\ Closing \subseteq HasPcs /\ "unlink" \in HasPcs
  BY DEF HasPcs, Closing
<1>7. Leaving' = Leaving
  BY <1>4, <1>5, <1>6 DEF Leaving
<1>8. Listed'
  <2>1. \A y, z \in Opened' : core'[y].inum = core'[z].inum => y = z
    BY <1>2, <1>3 DEF Layer1, Listed
  <2>2. \A u, v \in Tasks :
          call'[u].pc \in {"free", "put"} /\ call'[v].pc \in {"free", "put"}
          /\ call'[u].x = call'[v].x => u = v
    BY <1>4, <1>6 DEF Layer1, Listed
  <2>. QED  BY <1>2, <1>3, <1>7, <2>1, <2>2 DEF Layer1, Listed
<1>9. Counted'
  <2>1. ASSUME NEW y \in Opened PROVE Cardinality(References(y)') = Cardinality(References(y))
    <3>1. \A u \in Tasks : Refs(u, y)' = Refs(u, y)
      BY <1>4, <1>5 DEF Refs
    <3>. QED  BY <3>1, ReferencesMore
  <2>. QED  BY <1>2, <1>3, <2>1 DEF Layer1, Counted
<1>10. LocksHeld'
  <2>1. \A u \in Tasks, y \in Entries : Reads(u, y)' <=> Reads(u, y)
    BY <1>4, <1>5 DEF Reads
  <2>2. \A u \in Tasks : call'[u].pc = "read" => call'[u] = call[u]
    BY <1>4
  <2>. QED  BY <1>2, <1>3, <2>1, <2>2 DEF Layer1, LocksHeld
<1>11. UsersHold'
  <2>1. \A u \in Tasks : call'[u].pc \in HasPcs => call'[u] = call[u]
    BY <1>4
  <2>2. \A u \in Tasks : \A y \in Entries : At(u, y)' <=> At(u, y)
    BY <1>4, <1>5 DEF At
  <2>3. \A u \in Tasks : Fits(call'[u])
    <3>1. ASSUME NEW u \in Tasks, call'[u].pc \notin HasPcs PROVE Fits(call'[u])
      BY <3>1 DEF HasPcs, Fits
    <3>. QED  BY <2>1, <3>1 DEF Layer1, UsersHold
  <2>4. \A u \in Tasks : call'[u].pc \in HasPcs \ Closing =>
          call'[u].n >= 1 /\ call'[u].x \in Opened' /\ ~core'[call'[u].x].locked
    BY <1>2, <1>3, <2>1 DEF Layer1, UsersHold
  <2>5. \A u \in Tasks : call'[u].pc \in Closing => call'[u].n = 0
    BY <1>6, <2>1 DEF Layer1, UsersHold
  <2>6. ASSUME NEW u \in Tasks, call'[u].pc = "unlink"
        PROVE  /\ call'[u].x \in Opened' /\ ~core'[call'[u].x].locked
               /\ \A v \in Tasks : At(v, call[u].x)' => v = u
    <3>1. call'[u] = call[u] /\ call[u].pc = "unlink"
      BY <1>6, <2>1, <2>6
    <3>2. /\ call[u].x \in Opened /\ ~core[call[u].x].locked
          /\ \A v \in Tasks : At(v, call[u].x) => v = u
      BY <3>1 DEF Layer1, UsersHold
    <3>. QED  BY <1>2, <1>3, <2>2, <3>1, <3>2
  <2>7. \A u \in Tasks : call'[u].pc = "unlink" => call'[u].x = call[u].x
    BY <1>6, <2>1
  <2>. QED  BY <2>3, <2>4, <2>5, <2>6, <2>7 DEF UsersHold
<1>12. SleepersSafe'
  <2>1. ASSUME NEW u \in Tasks, call'[u].pc = "asleep"
        PROVE  \E v \in Tasks : Reads(v, call'[u].x)
    <3>1. CASE u = t
      BY <2>1, <3>1
    <3>2. CASE u # t
      BY <1>1, <2>1, <3>2 DEF Layer1, SleepersSafe
    <3>. QED  BY <3>1, <3>2
  <2>2. ASSUME NEW v \in Tasks, NEW y, Reads(v, y) PROVE Reads(v, y)'
    BY <1>5, <2>2 DEF Reads
  <2>3. ASSUME NEW u \in Tasks, call'[u].pc = "asleep"
        PROVE  \E v \in Tasks : call'[v].pc = "read" /\ call'[v].x = call'[u].x
    BY <1>5, <2>1, <2>3 DEF Reads
  <2>. QED  BY <2>3 DEF SleepersSafe, Reads
<1>. QED
  BY <1>8, <1>9, <1>10, <1>11, <1>12 DEF Layer1

\* t gets one more reference to x.
Gains(t, x, pc, n, job) ==
    /\ x \in Opened /\ ~core[x].locked /\ pc \in HasPcs \ Closing /\ job \in Jobs
    /\ n \in 1..MaxRefs
    /\ \/ call[t].pc = "make" /\ n = 1 /\ core[x].use_count # 0
       \/ call[t].pc \in HasPcs \ Closing /\ call[t].x = x /\ n = call[t].n + 1
    /\ CallsBut(t) /\ call'[t] = Has(pc, x, n, job)
    /\ CoreBut(x) /\ core'[x].inum = core[x].inum /\ core'[x].locked = core[x].locked
    /\ core'[x].use_count = core[x].use_count + 1
    /\ UNCHANGED <<lists, dev_use_count>>

\* A new reference is counted, and nobody else is taking the inode away.
LEMMA GainsFirst ==
  ASSUME TypeOK, TypeOK', Layer1, NEW t \in Tasks, NEW x, NEW pc, NEW n, NEW job,
         Gains(t, x, pc, n, job), Fits(call'[t])
  PROVE  Layer1'
<1>0. x \in Entries /\ Opened \subseteq Entries
  BY DEF Gains, Opened, ToSet, TypeOK
<1>1. /\ pc \in HasPcs \ Closing /\ n \in 1..MaxRefs /\ job \in Jobs
      /\ MaxRefs \in Nat
  BY ParametersAssumption DEF Gains
<1>2. call'[t].pc = pc /\ call'[t].x = x /\ call'[t].n = n
  <2>1. n \in 0..MaxRefs
    BY <1>1
  <2>. QED  BY <1>0, <1>1, <2>1, CallParts DEF Gains
<1>3. /\ \A u \in Tasks \ {t} : call'[u] = call[u]
      /\ \A y \in Entries : core'[y].inum = core[y].inum /\ core'[y].locked = core[y].locked
      /\ \A y \in Entries \ {x} : core'[y].use_count = core[y].use_count
      /\ core'[x].use_count = core[x].use_count + 1
      /\ UNCHANGED <<inode_open_list, inode_free_list, dev_use_count>>
  BY DEF Gains, CallsBut, CoreBut, lists
<1>4. Opened' = Opened /\ Free' = Free
  BY <1>3 DEF Opened, Free, ToSet
<1>5. "read" \notin HasPcs /\ "asleep" \notin HasPcs /\ "make" \notin HasPcs
      /\ "free" \in Closing /\ "put" \in Closing /\ "unlink" \in Closing
      /\ Closing \subseteq HasPcs
  BY DEF HasPcs, Closing
<1>6. call[t].pc = "make" \/ call[t].pc \in HasPcs \ Closing
  BY DEF Gains
<1>7. Leaving' = Leaving
  BY <1>1, <1>2, <1>3, <1>5, <1>6 DEF Leaving
<1>8. Listed'
  <2>1. \A y, z \in Opened' : core'[y].inum = core'[z].inum => y = z
    BY <1>0, <1>3, <1>4 DEF Layer1, Listed
  <2>2. \A u, v \in Tasks :
          call'[u].pc \in {"free", "put"} /\ call'[v].pc \in {"free", "put"}
          /\ call'[u].x = call'[v].x => u = v
    BY <1>1, <1>2, <1>3, <1>5 DEF Layer1, Listed
  <2>. QED  BY <1>3, <1>4, <1>7, <2>1, <2>2 DEF Layer1, Listed
<1>9. Counted'
  <2>1. ASSUME NEW y \in Opened \ {x}
        PROVE  Cardinality(References(y)') = Cardinality(References(y))
    <3>1. Refs(t, y)' = 0 /\ Refs(t, y) = 0
      BY <1>1, <1>2, <1>5, <1>6, <2>1 DEF Refs, Gains
    <3>2. \A u \in Tasks : Refs(u, y)' = Refs(u, y)
      BY <1>3, <3>1 DEF Refs
    <3>. QED  BY <3>2, ReferencesMore
  <2>2. Cardinality(References(x)') = Cardinality(References(x)) + 1
    <3>1. Refs(t, x)' = n
      BY <1>1, <1>2, <1>5 DEF Refs
    <3>2. Refs(t, x) + 1 = n
      <4>1. CASE call[t].pc = "make" /\ n = 1
        BY <1>5, <4>1 DEF Refs
      <4>2. CASE call[t].pc \in HasPcs \ Closing /\ call[t].x = x /\ n = call[t].n + 1
        BY <1>5, <4>2 DEF Refs
      <4>. QED  BY <4>1, <4>2 DEF Gains
    <3>3. \A u \in Tasks \ {t} : Refs(u, x)' = Refs(u, x)
      BY <1>3 DEF Refs
    <3>. QED  BY <3>1, <3>2, <3>3, ReferencesMore
  <2>3. \A y \in Opened : core'[y].use_count = Cardinality(References(y)')
    BY <1>0, <1>3, <2>1, <2>2 DEF Layer1, Counted
  <2>. QED  BY <1>4, <2>3 DEF Counted
<1>10. LocksHeld'
  <2>1. \A u \in Tasks, y \in Entries : Reads(u, y)' <=> Reads(u, y)
    BY <1>1, <1>2, <1>3, <1>5, <1>6 DEF Reads
  <2>2. \A u \in Tasks : call'[u].pc = "read" => call'[u] = call[u]
    BY <1>1, <1>2, <1>3, <1>5
  <2>. QED  BY <1>0, <1>3, <1>4, <2>1, <2>2 DEF Layer1, LocksHeld
<1>11. UsersHold'
  <2>0. n >= 1 /\ x \in Opened /\ ~core[x].locked
    BY <1>1 DEF Gains
  <2>1. \A u \in Tasks : call'[u].pc \in HasPcs \ Closing =>
          call'[u].n >= 1 /\ call'[u].x \in Opened' /\ ~core'[call'[u].x].locked
    BY <1>0, <1>2, <1>3, <1>4, <2>0 DEF Layer1, UsersHold
  <2>2. \A u \in Tasks : call'[u].pc \in Closing => call'[u] = call[u] /\ u # t
    BY <1>1, <1>2, <1>3
  <2>3. ASSUME NEW u \in Tasks, call'[u].pc = "unlink"
        PROVE  /\ call'[u].x \in Opened' /\ ~core'[call'[u].x].locked
               /\ \A v \in Tasks : At(v, call[u].x)' => v = u
    <3>1. call'[u] = call[u] /\ call[u].pc = "unlink" /\ u # t
      BY <1>5, <2>2, <2>3
    <3>2. /\ call[u].x \in Opened /\ ~core[call[u].x].locked /\ call[u].n = 0
          /\ \A v \in Tasks : At(v, call[u].x) => v = u
      BY <1>5, <3>1 DEF Layer1, UsersHold
    <3>3. call[u].x # x
      <4>1. SUFFICES ASSUME call[u].x = x PROVE FALSE
        OBVIOUS
      <4>2. ~At(t, x)
        BY <3>1, <3>2, <4>1
      <4>3. core[x].use_count # 0
        BY <4>2 DEF Gains, At
      <4>4. \A v \in Tasks : Refs(v, x) = 0
        <5>1. ASSUME NEW v \in Tasks PROVE ~(call[v].pc = "read" /\ call[v].x = x)
          BY <2>0 DEF Layer1, LocksHeld
        <5>2. ASSUME NEW v \in Tasks, At(v, x) PROVE call[v].n = 0
          BY <3>2, <4>1, <5>2
        <5>. QED  BY <5>1, <5>2 DEF Refs, At
      <4>5. Cardinality(References(x)) = 0
        BY <4>4, ReferencesNone
      <4>. QED  BY <2>0, <4>3, <4>5 DEF Layer1, Counted
    <3>4. \A v \in Tasks : At(v, call[u].x)' => At(v, call[u].x)
      BY <1>2, <1>3, <3>1, <3>3 DEF At
    <3>. QED  BY <1>0, <1>3, <1>4, <3>1, <3>2, <3>4
  <2>4. \A u \in Tasks : Fits(call'[u])
    BY <1>3 DEF Layer1, UsersHold
  <2>5. \A u \in Tasks : call'[u].pc = "unlink" => call'[u].x = call[u].x
    BY <1>5, <2>2
  <2>6. \A u \in Tasks : call'[u].pc \in Closing => call'[u].n = 0
    BY <2>2 DEF Layer1, UsersHold
  <2>. QED  BY <2>1, <2>3, <2>4, <2>5, <2>6 DEF UsersHold
<1>12. SleepersSafe'
  <2>1. \A u \in Tasks : call'[u].pc = "asleep" => call'[u] = call[u]
    BY <1>1, <1>2, <1>3, <1>5
  <2>2. \A u \in Tasks : call[u].pc = "read" => call'[u] = call[u]
    BY <1>3, <1>5, <1>6
  <2>. QED  BY <2>1, <2>2 DEF Layer1, SleepersSafe, Reads
<1>. QED
  BY <1>8, <1>9, <1>10, <1>11, <1>12 DEF Layer1
-----------------------------------------------------------------------------
(* What the steps do that move references or entries.                       *)

\* Where close_inode() leaves a task, and what the task is at until then.
LEMMA ClosedParts ==
  ASSUME TypeOK, NEW t \in Tasks, call[t].pc \in HasPcs
  PROVE  Closed(t) \in Calls /\ Closed(t).pc \in {"idle", "undo"} /\ Rest(t) \in Jobs
<1>1. core[call[t].x].inum \in Inums
  BY CallForms, CoreForm
<1>2. /\ Idle \in Calls /\ Idle.pc = "idle"
      /\ \A i \in Inums : Undoing(i) \in Calls /\ Undoing(i).pc = "undo"
  BY CallParts
<1>3. Closed(t) \in Calls /\ Closed(t).pc \in {"idle", "undo"}
  BY <1>1, <1>2 DEF Closed
<1>. QED
  BY <1>3 DEF Rest, Jobs

\* close_inode() gives one reference back.
LEMMA DropDoes ==
  ASSUME TypeOK, Layer1, NEW t \in Tasks, close_inode_drop(t), NEW x, x = call[t].x
  PROVE  /\ x \in Entries /\ x \in Opened /\ ~core[x].locked
         /\ call[t].pc = "drop" /\ call[t].n \in 1..MaxRefs
         /\ CallsBut(t) /\ CoreBut(x) /\ core'[x].inum = core[x].inum
         /\ core'[x].locked = core[x].locked /\ core'[x].dirty = core[x].dirty
         /\ core'[x].inode = core[x].inode
         /\ core[x].use_count \in Nat \ {0} /\ core'[x].use_count = core[x].use_count - 1
         /\ core[x].use_count = 1 =>
              /\ call[t].n = 1 /\ call'[t] = Has("unlink", x, 0, Rest(t))
              /\ \A u \in Tasks \ {t} : Refs(u, x) = 0
         /\ core[x].use_count # 1 /\ call[t].n = 1 => call'[t].pc \in {"idle", "undo"}
         /\ core[x].use_count # 1 /\ call[t].n # 1 =>
              call'[t] = Has(IF call[t].job = "make_file" THEN "entry" ELSE "have",
                             x, call[t].n - 1, "none")
         /\ call'[t] \in Calls /\ Rest(t) \in Jobs
         /\ UNCHANGED <<lists, dev_use_count, ondisk, clash, lost>>
<1> DEFINE c == IF core[x].use_count = 1 THEN Has("unlink", x, 0, Rest(t))
                ELSE IF call[t].n - 1 = 0 THEN Closed(t)
                ELSE Has(IF call[t].job = "make_file" THEN "entry" ELSE "have",
                         x, call[t].n - 1, "none")
<1>1. /\ call[t].pc = "drop" /\ core' = [core EXCEPT ![x].use_count = @ - 1] /\ Goto(t, c)
      /\ UNCHANGED <<lists, dev_use_count, ondisk, clash, lost>>
  BY DEF close_inode_drop
<1>2. "drop" \in HasPcs \ Closing /\ "drop" # "read"
  BY DEF HasPcs, Closing
<1>3. /\ call[t].n >= 1 /\ x \in Opened /\ ~core[x].locked
  BY <1>1, <1>2 DEF Layer1, UsersHold
<1>4. x \in Entries /\ call[t].n \in 1..MaxRefs /\ MaxRefs \in Nat
  <2>1. x \in Entries /\ call[t].n \in 0..MaxRefs
    BY <1>1, <1>2, CallForms
  <2>. QED  BY <1>3, <2>1, ParametersAssumption
<1>5. Refs(t, x) = call[t].n
  BY <1>1, <1>2 DEF Refs
<1>6. /\ core[x].use_count = Cardinality(References(x)) /\ core[x].use_count \in Nat \ {0}
  <2>1. Cardinality(References(x)) >= 1
    BY <1>3, <1>5, ReferencesOne
  <2>2. core[x].use_count = Cardinality(References(x))
    BY <1>3 DEF Layer1, Counted
  <2>3. core[x].use_count \in Nat
    BY <1>4, CoreForm
  <2>. QED  BY <2>1, <2>2, <2>3
<1>7. ASSUME core[x].use_count = 1
      PROVE  call[t].n = 1 /\ \A u \in Tasks \ {t} : Refs(u, x) = 0
  BY <1>3, <1>5, <1>6, <1>7, ReferencesOne
<1>8. /\ CoreBut(x) /\ core'[x].inum = core[x].inum
      /\ core'[x].locked = core[x].locked /\ core'[x].dirty = core[x].dirty
      /\ core'[x].inode = core[x].inode /\ core'[x].use_count = core[x].use_count - 1
  <2>1. PICK m \in Nat : m = core[x].use_count - 1
    BY <1>6
  <2>2. core' = [core EXCEPT ![x].use_count = m]
    BY <1>1, <2>1
  <2>. QED  BY <1>4, <2>1, <2>2, CoreSet
<1>9. c \in Calls
  <2>0. 0 \in 0..MaxRefs /\ call[t].n - 1 \in 0..MaxRefs
    BY <1>4
  <2>1. Has("unlink", x, 0, Rest(t)) \in Calls
    BY <1>1, <1>2, <1>4, <2>0, CallParts, ClosedParts DEF HasPcs
  <2>2. Closed(t) \in Calls
    BY <1>1, <1>2, ClosedParts
  <2>3. \A pc \in {"entry", "have"} : Has(pc, x, call[t].n - 1, "none") \in Calls
    <3>1. "entry" \in HasPcs /\ "have" \in HasPcs /\ "none" \in Jobs
      BY DEF HasPcs, Jobs
    <3>. QED  BY <1>4, <2>0, <3>1, CallParts
  <2>. QED  BY <2>1, <2>2, <2>3
<1>10. CallsBut(t) /\ call'[t] = c
  <2> HIDE DEF c
  <2>. QED  BY <1>1, <1>9, GotoParts
<1>11. /\ core[x].use_count = 1 => c = Has("unlink", x, 0, Rest(t))
       /\ core[x].use_count # 1 /\ call[t].n = 1 => c = Closed(t)
       /\ core[x].use_count # 1 /\ call[t].n # 1 =>
              c = Has(IF call[t].job = "make_file" THEN "entry" ELSE "have",
                      x, call[t].n - 1, "none")
  <2>1. call[t].n - 1 = 0 <=> call[t].n = 1
    BY <1>4
  <2>. QED  BY <2>1
<1>12. Closed(t).pc \in {"idle", "undo"} /\ Rest(t) \in Jobs
  BY <1>1, <1>2, ClosedParts
<1> HIDE DEF c
<1>. QED
  BY <1>1, <1>3, <1>4, <1>6, <1>7, <1>8, <1>9, <1>10, <1>11, <1>12

\* make_inode() takes a free entry, which nobody has.
LEMMA MissDoes ==
  ASSUME TypeOK, Layer1, NEW t \in Tasks, make_inode_miss(t),
         NEW x, x = Head(inode_free_list)
  PROVE  /\ x \in Entries /\ x \in Free /\ x \notin Opened /\ x \notin Leaving
         /\ call[t].pc = "make" /\ call[t].op \in Ops /\ call[t].inum \in Inums
         /\ open_inode(call[t].inum) = {}
         /\ CallsBut(t) /\ call'[t] = Reading(call[t].op, x) /\ call'[t] \in Calls
         /\ inode_open_list' \in Seq(Entries) /\ NoRepeats(inode_open_list')
         /\ ToSet(inode_open_list') = Opened \cup {x}
         /\ inode_free_list' \in Seq(Entries) /\ NoRepeats(inode_free_list')
         /\ ToSet(inode_free_list') = Free \ {x}
         /\ Len(inode_free_list') = Len(inode_free_list) - 1
         /\ dev_use_count' = dev_use_count + 1
         /\ CoreBut(x) /\ core'[x].inum = call[t].inum /\ core'[x].use_count = 1
         /\ core'[x].locked
         /\ clash' = IF Removed(t) THEN "removed" ELSE clash
         /\ UNCHANGED <<ondisk, lost>>
<1>1. /\ call[t].pc = "make" /\ open_inode(call[t].inum) = {} /\ inode_free_list # <<>>
      /\ inode_open_list' = <<x>> \o inode_open_list
      /\ core' = [core EXCEPT ![x].inum = call[t].inum, ![x].use_count = 1, ![x].locked = TRUE]
      /\ Goto(t, Reading(call[t].op, x))
      /\ inode_free_list' = Tail(inode_free_list) /\ dev_use_count' = dev_use_count + 1
      /\ clash' = IF Removed(t) THEN "removed" ELSE clash
      /\ UNCHANGED <<ondisk, lost>>
  BY DEF make_inode_miss, Clash
<1>2. /\ inode_open_list \in Seq(Entries) /\ inode_free_list \in Seq(Entries)
      /\ NoRepeats(inode_open_list) /\ NoRepeats(inode_free_list)
  BY DEF TypeOK, Layer1, Listed
<1>3. /\ inode_free_list' \in Seq(Entries) /\ NoRepeats(inode_free_list')
      /\ ToSet(inode_free_list') = Free \ {x} /\ x \in Free /\ x \in Entries
  BY <1>1, <1>2, TailNode DEF Free
<1>4. x \notin Opened /\ x \notin Leaving
  BY <1>3 DEF Layer1, Listed
<1>5. /\ inode_open_list' \in Seq(Entries) /\ NoRepeats(inode_open_list')
      /\ ToSet(inode_open_list') = Opened \cup {x}
  BY <1>1, <1>2, <1>3, <1>4, ConsNode DEF Opened
<1>6. Len(inode_free_list') = Len(inode_free_list) - 1
  BY <1>1, <1>2
<1>7. call[t].op \in Ops /\ call[t].inum \in Inums
  BY <1>1, CallForms
<1>8. CallsBut(t) /\ call'[t] = Reading(call[t].op, x) /\ call'[t] \in Calls
  BY <1>1, <1>3, <1>7, CallParts, GotoParts
<1>9. CoreBut(x) /\ core'[x].inum = call[t].inum /\ core'[x].use_count = 1 /\ core'[x].locked
  <2>1. core \in [Entries -> CoreInodes]
    BY DEF TypeOK
  <2>2. \A y \in Entries \ {x} : core'[y] = core[y]
    BY <1>1, <1>3, <2>1
  <2>3. /\ core'[x].inum = call[t].inum /\ core'[x].use_count = 1 /\ core'[x].locked
        /\ core' \in [Entries -> CoreInodes]
    <3> DEFINE i == call[t].inum
    <3>1. core' = [[[core EXCEPT ![x].inum = i] EXCEPT ![x].use_count = 1]
                                                EXCEPT ![x].locked = TRUE]
      BY <1>1, Zenon
    <3>2. i \in Inums
      BY <1>7
    <3> HIDE DEF i
    <3>3. PICK c : c = [core EXCEPT ![x].inum = i]
      OBVIOUS
    <3>4. c \in [Entries -> CoreInodes] /\ c[x].inum = i
      BY <1>3, <2>1, <3>2, <3>3 DEF CoreInodes
    <3>5. PICK d : d = [c EXCEPT ![x].use_count = 1]
      OBVIOUS
    <3>6. d \in [Entries -> CoreInodes] /\ d[x].inum = i /\ d[x].use_count = 1
      BY <1>3, <3>4, <3>5 DEF CoreInodes
    <3>7. core' = [d EXCEPT ![x].locked = TRUE]
      BY <3>1, <3>3, <3>5
    <3>8. /\ core' \in [Entries -> CoreInodes] /\ core'[x].inum = i
          /\ core'[x].use_count = 1 /\ core'[x].locked = TRUE
      BY <1>3, <3>6, <3>7 DEF CoreInodes
    <3>. QED  BY <3>8 DEF i
  <2>. QED  BY <2>2, <2>3 DEF CoreBut
<1>. QED
  BY <1>1, <1>3, <1>4, <1>5, <1>6, <1>7, <1>8, <1>9

\* Whoever sleeps on x looks for his inode again.
LEMMA WokenParts ==
  ASSUME TypeOK, NEW x, NEW t \in Tasks, NEW c \in Calls,
         call' = [Woken(x) EXCEPT ![t] = c]
  PROVE  /\ call' \in [Tasks -> Calls] /\ call'[t] = c
         /\ \A u \in Tasks \ {t} :
              /\ call[u].pc = "asleep" /\ call[u].x = x =>
                   /\ call[u].op \in Ops /\ call[u].inum \in Inums
                   /\ call'[u] = Making(call[u].op, call[u].inum)
                   /\ call'[u].pc = "make" /\ call'[u].op = call[u].op
                   /\ call'[u].inum = call[u].inum
              /\ ~(call[u].pc = "asleep" /\ call[u].x = x) => call'[u] = call[u]
<1>1. PICK w : w = Woken(x)
  OBVIOUS
<1>2. w = [u \in Tasks |-> IF call[u].pc = "asleep" /\ call[u].x = x
                           THEN Making(call[u].op, call[u].inum) ELSE call[u]]
  BY <1>1 DEF Woken
<1>3. ASSUME NEW u \in Tasks
      PROVE  /\ w[u] \in Calls
             /\ call[u].pc = "asleep" /\ call[u].x = x =>
                  /\ call[u].op \in Ops /\ call[u].inum \in Inums
                  /\ w[u] = Making(call[u].op, call[u].inum)
                  /\ w[u].pc = "make" /\ w[u].op = call[u].op
                  /\ w[u].inum = call[u].inum
             /\ ~(call[u].pc = "asleep" /\ call[u].x = x) => w[u] = call[u]
  <2>1. CASE call[u].pc = "asleep" /\ call[u].x = x
    <3>1. call[u].op \in Ops /\ call[u].inum \in Inums
      BY <2>1, CallForms
    <3>2. w[u] = Making(call[u].op, call[u].inum)
      BY <1>2, <2>1
    <3>. QED  BY <2>1, <3>1, <3>2, CallParts
  <2>2. CASE ~(call[u].pc = "asleep" /\ call[u].x = x)
    BY <1>2, <2>2 DEF TypeOK
  <2>. QED  BY <2>1, <2>2
<1>4. w \in [Tasks -> Calls]
  BY <1>2, <1>3
<1>5. call' = [w EXCEPT ![t] = c]
  BY <1>1
<1>6. call' \in [Tasks -> Calls] /\ call'[t] = c /\ \A u \in Tasks \ {t} : call'[u] = w[u]
  BY <1>4, <1>5
<1>. QED
  BY <1>3, <1>6

\* read_inode() has the inode's block.
LEMMA ReadDoes ==
  ASSUME TypeOK, Layer1, NEW t \in Tasks, read_inode(t), NEW x, x = call[t].x
  PROVE  /\ call[t].pc = "read" /\ call[t].op \in Ops
         /\ x \in Entries /\ x \in Opened /\ core[x].locked
         /\ call'[t] = Returned(call[t].op, x)
         /\ call' = [Woken(x) EXCEPT ![t] = Returned(call[t].op, x)]
         /\ CoreBut(x) /\ core'[x].inum = core[x].inum
         /\ core'[x].use_count = core[x].use_count /\ ~core'[x].locked
         /\ ~core'[x].dirty /\ core'[x].inode = dinode[core[x].inum]
         /\ UNCHANGED <<lists, dev_use_count, ondisk, clash, lost>>
<1>1. /\ call[t].pc = "read"
      /\ core' = [core EXCEPT ![x].inode = dinode[core[x].inum], ![x].dirty = FALSE,
                              ![x].locked = FALSE]
      /\ call' = [Woken(x) EXCEPT ![t] = Returned(call[t].op, x)]
      /\ UNCHANGED <<lists, dev_use_count, ondisk, clash, lost>>
  BY DEF read_inode
<1>2. call[t].op \in Ops /\ x \in Entries
  BY <1>1, CallForms
<1>3. x \in Opened /\ core[x].locked
  BY <1>1 DEF Layer1, LocksHeld
<1>4. call'[t] = Returned(call[t].op, x)
  <2>1. Returned(call[t].op, x) \in Calls
    BY <1>2, ReturnedParts
  <2>. QED  BY <1>1, <2>1, WokenParts
<1>5. /\ CoreBut(x) /\ core'[x].inum = core[x].inum
      /\ core'[x].use_count = core[x].use_count /\ ~core'[x].locked
      /\ ~core'[x].dirty /\ core'[x].inode = dinode[core[x].inum]
  <2>0. core \in [Entries -> CoreInodes]
    BY DEF TypeOK
  <2>1. PICK v \in Contents : v = dinode[core[x].inum]
    BY <1>2, CoreForm DEF TypeOK
  <2>2. core' = [[[core EXCEPT ![x].inode = v] EXCEPT ![x].dirty = FALSE]
                                               EXCEPT ![x].locked = FALSE]
    <3>1. core' = [core EXCEPT ![x].inode = v, ![x].dirty = FALSE, ![x].locked = FALSE]
      BY <1>1, <2>1
    <3>. QED  BY <3>1, Zenon
  <2>3. PICK c : c = [core EXCEPT ![x].inode = v]
    OBVIOUS
  <2>4. /\ c \in [Entries -> CoreInodes] /\ c[x].inode = v /\ c[x].inum = core[x].inum
        /\ c[x].use_count = core[x].use_count /\ \A y \in Entries \ {x} : c[y] = core[y]
    BY <1>2, <2>0, <2>3 DEF CoreInodes
  <2>5. PICK d : d = [c EXCEPT ![x].dirty = FALSE]
    OBVIOUS
  <2>6. /\ d \in [Entries -> CoreInodes] /\ d[x].inode = v /\ d[x].inum = c[x].inum
        /\ d[x].use_count = c[x].use_count /\ d[x].dirty = FALSE
        /\ \A y \in Entries \ {x} : d[y] = c[y]
    BY <1>2, <2>4, <2>5 DEF CoreInodes
  <2>7. core' = [d EXCEPT ![x].locked = FALSE]
    BY <2>2, <2>3, <2>5
  <2>8. /\ core' \in [Entries -> CoreInodes] /\ core'[x].inode = v
        /\ core'[x].inum = d[x].inum /\ core'[x].use_count = d[x].use_count
        /\ core'[x].dirty = FALSE /\ core'[x].locked = FALSE
        /\ \A y \in Entries \ {x} : core'[y] = d[y]
    BY <1>2, <2>6, <2>7 DEF CoreInodes
  <2>. QED  BY <2>1, <2>4, <2>6, <2>8 DEF CoreBut
<1>. QED
  BY <1>1, <1>2, <1>3, <1>4, <1>5

\* read_inode() fails, and the entry is free again.
LEMMA ReadFailsDoes ==
  ASSUME TypeOK, Layer1, NEW t \in Tasks, read_inode_fails(t), NEW x, x = call[t].x,
         NEW i, i = core[x].inum
  PROVE  /\ call[t].pc = "read" /\ call[t].op \in Ops
         /\ x \in Entries /\ x \in Opened /\ core[x].locked /\ i \in Inums
         /\ call'[t] = Idle /\ call' = [Woken(x) EXCEPT ![t] = Idle]
         /\ inode_open_list' \in Seq(Entries)
         /\ inode_free_list' \in Seq(Entries) /\ NoRepeats(inode_free_list')
         /\ ToSet(inode_free_list') = Free \cup {x}
         /\ Len(inode_free_list') = Len(inode_free_list) + 1
         /\ clash = "none" /\ clash' = "none" =>
              /\ NoRepeats(inode_open_list')
              /\ ToSet(inode_open_list') = Opened \ {x}
         /\ clash' \in {clash, "dropped"}
         /\ dev_use_count' = dev_use_count - 1
         /\ Unmade(t, call[t].op, i) /\ UNCHANGED core
<1> DEFINE p == SelectInSeq(inode_open_list, LAMBDA y : y = x)
<1>1. /\ call[t].pc = "read"
      /\ inode_open_list' = SubSeq(inode_open_list, p + 1, Len(inode_open_list))
      /\ inode_free_list' = <<x>> \o inode_free_list
      /\ clash' = (IF p = 1 THEN clash ELSE "dropped")
      /\ call' = [Woken(x) EXCEPT ![t] = Idle]
      /\ Unmade(t, call[t].op, core[x].inum)
      /\ dev_use_count' = dev_use_count - 1 /\ UNCHANGED core
  BY DEF read_inode_fails, Clash
<1>2. call[t].op \in Ops /\ x \in Entries /\ i \in Inums
  BY <1>1, CallForms, CoreForm
<1>3. x \in Opened /\ core[x].locked /\ x \notin Free
  BY <1>1 DEF Layer1, LocksHeld, Listed
<1>4. /\ inode_open_list \in Seq(Entries) /\ inode_free_list \in Seq(Entries)
      /\ NoRepeats(inode_open_list) /\ NoRepeats(inode_free_list)
  BY DEF TypeOK, Layer1, Listed
<1>5. call'[t] = Idle
  BY <1>1, CallParts, WokenParts
<1>6. /\ inode_free_list' \in Seq(Entries) /\ NoRepeats(inode_free_list')
      /\ ToSet(inode_free_list') = Free \cup {x}
      /\ Len(inode_free_list') = Len(inode_free_list) + 1
  <2>1. /\ <<x>> \o inode_free_list \in Seq(Entries) /\ NoRepeats(<<x>> \o inode_free_list)
        /\ ToSet(<<x>> \o inode_free_list) = Free \cup {x}
    BY <1>2, <1>3, <1>4, ConsNode DEF Free
  <2>2. Len(<<x>> \o inode_free_list) = Len(inode_free_list) + 1
    BY <1>2, <1>4
  <2>. QED  BY <1>1, <2>1, <2>2
<1>7. /\ inode_open_list' \in Seq(Entries)
      /\ p = 1 => inode_open_list # <<>> /\ x = Head(inode_open_list)
                  /\ inode_open_list' = Tail(inode_open_list)
  <2>1. x \in ToSet(inode_open_list)
    BY <1>3 DEF Opened
  <2>. QED  BY <1>1, <1>4, <2>1, Dropped
<1>8. ASSUME p = 1 PROVE NoRepeats(inode_open_list') /\ ToSet(inode_open_list') = Opened \ {x}
  BY <1>4, <1>7, <1>8, TailNode DEF Opened
<1> HIDE DEF p
<1>9. "dropped" # "none"
  OBVIOUS
<1>. QED
  BY <1>1, <1>2, <1>3, <1>5, <1>6, <1>7, <1>8, <1>9

\* The last user takes the inode off the list.
LEMMA UnlinkDoes ==
  ASSUME TypeOK, Layer1, NEW t \in Tasks, close_inode_unlink(t), NEW x, x = call[t].x
  PROVE  /\ call[t].pc = "unlink" /\ x \in Entries /\ x \in Opened /\ ~core[x].locked
         /\ \A u \in Tasks : At(u, x) => u = t
         /\ inode_open_list' \in Seq(Entries) /\ NoRepeats(inode_open_list')
         /\ ToSet(inode_open_list') = Opened \ {x}
         /\ CallsBut(t) /\ call'[t] \in Calls
         /\ call'[t] = Has(IF core[x].inode.nlinks = 0 THEN "free" ELSE "put", x, 0, Rest(t))
         /\ clash' = IF core[x].dirty /\ core[x].inum \in lost THEN "unwritten" ELSE clash
         /\ UNCHANGED <<inode_free_list, core, dev_use_count, ondisk, lost>>
<1>1. /\ call[t].pc = "unlink" /\ inode_open_list' = RemoveFirst(inode_open_list, x)
      /\ clash' = IF core[x].dirty /\ core[x].inum \in lost THEN "unwritten" ELSE clash
      /\ Goto(t, Has(IF core[x].inode.nlinks = 0 THEN "free" ELSE "put", x, 0, Rest(t)))
      /\ UNCHANGED <<inode_free_list, core, dev_use_count, ondisk, lost>>
  BY DEF close_inode_unlink, GoOn, Clash
<1>2. x \in Entries
  BY <1>1, CallForms DEF HasPcs
<1>3. x \in Opened /\ ~core[x].locked /\ \A u \in Tasks : At(u, x) => u = t
  BY <1>1 DEF Layer1, UsersHold
<1>4. /\ inode_open_list' \in Seq(Entries) /\ NoRepeats(inode_open_list')
      /\ ToSet(inode_open_list') = Opened \ {x}
  <2>1. inode_open_list \in Seq(Entries) /\ NoRepeats(inode_open_list)
    BY DEF TypeOK, Layer1, Listed
  <2>. QED  BY <1>1, <2>1, RemoveNode DEF Opened
<1>5. CallsBut(t) /\ call'[t] \in Calls
      /\ call'[t] = Has(IF core[x].inode.nlinks = 0 THEN "free" ELSE "put", x, 0, Rest(t))
  <2>1. 0 \in 0..MaxRefs /\ Rest(t) \in Jobs /\ "free" \in HasPcs /\ "put" \in HasPcs
    BY <1>1, ClosedParts, ParametersAssumption DEF HasPcs
  <2>2. PICK pc : pc = IF core[x].inode.nlinks = 0 THEN "free" ELSE "put"
    OBVIOUS
  <2>3. pc \in HasPcs
    BY <2>1, <2>2
  <2>4. Has(pc, x, 0, Rest(t)) \in Calls
    BY <1>2, <2>1, <2>3, CallParts
  <2>5. Goto(t, Has(pc, x, 0, Rest(t)))
    BY <1>1, <2>2
  <2>. QED  BY <2>2, <2>4, <2>5, GotoParts
<1>. QED
  BY <1>1, <1>2, <1>3, <1>4, <1>5

\* The inode is freed on disk.
LEMMA FreeDoes ==
  ASSUME TypeOK, NEW t \in Tasks, close_inode_free(t), NEW x, x = call[t].x
  PROVE  /\ call[t].pc = "free" /\ x \in Entries /\ bitmap' = bitmap \ {core[x].inum}
         /\ CallsBut(t) /\ call'[t] \in Calls /\ call'[t] = Has("put", x, 0, Rest(t))
         /\ UNCHANGED <<lists, core, dev_use_count, dinode, entries, clash, lost>>
<1>1. /\ call[t].pc = "free" /\ bitmap' = bitmap \ {core[x].inum}
      /\ Goto(t, Has("put", x, 0, Rest(t)))
      /\ UNCHANGED <<lists, core, dev_use_count, dinode, entries, clash, lost>>
  BY DEF close_inode_free, GoOn
<1>2. x \in Entries
  BY <1>1, CallForms DEF HasPcs
<1>3. Has("put", x, 0, Rest(t)) \in Calls
  <2>1. 0 \in 0..MaxRefs /\ Rest(t) \in Jobs /\ "put" \in HasPcs
    BY <1>1, ClosedParts, ParametersAssumption DEF HasPcs
  <2>. QED  BY <1>2, <2>1, CallParts
<1>. QED
  BY <1>1, <1>2, <1>3, GotoParts

\* The entry is free again.
LEMMA PutDoes ==
  ASSUME TypeOK, Layer1, NEW t \in Tasks, close_inode_put(t), NEW x, x = call[t].x
  PROVE  /\ call[t].pc = "put" /\ x \in Entries /\ x \in Leaving /\ x \notin Opened
         /\ inode_free_list' \in Seq(Entries) /\ NoRepeats(inode_free_list')
         /\ ToSet(inode_free_list') = Free \cup {x}
         /\ Len(inode_free_list') = Len(inode_free_list) + 1
         /\ CallsBut(t) /\ call'[t].pc \in {"idle", "undo"}
         /\ dev_use_count' = dev_use_count - 1
         /\ UNCHANGED <<inode_open_list, core, ondisk, clash, lost>>
<1>1. /\ call[t].pc = "put" /\ dev_use_count' = dev_use_count - 1
      /\ inode_free_list' = <<x>> \o inode_free_list /\ Goto(t, Closed(t))
      /\ UNCHANGED <<inode_open_list, core, ondisk, clash, lost>>
  BY DEF close_inode_put
<1>2. x \in Entries
  BY <1>1, CallForms DEF HasPcs
<1>3. x \in Leaving
  BY <1>1 DEF Leaving
<1>4. x \notin Opened /\ x \notin Free
  BY <1>3 DEF Layer1, Listed
<1>5. /\ inode_free_list' \in Seq(Entries) /\ NoRepeats(inode_free_list')
      /\ ToSet(inode_free_list') = Free \cup {x}
      /\ Len(inode_free_list') = Len(inode_free_list) + 1
  <2>1. inode_free_list \in Seq(Entries) /\ NoRepeats(inode_free_list)
    BY DEF TypeOK, Layer1, Listed
  <2>2. /\ <<x>> \o inode_free_list \in Seq(Entries) /\ NoRepeats(<<x>> \o inode_free_list)
        /\ ToSet(<<x>> \o inode_free_list) = Free \cup {x}
    BY <1>2, <1>4, <2>1, ConsNode DEF Free
  <2>3. Len(<<x>> \o inode_free_list) = Len(inode_free_list) + 1
    BY <1>2, <2>1
  <2>. QED  BY <1>1, <2>2, <2>3
<1>6. Closed(t) \in Calls /\ Closed(t).pc \in {"idle", "undo"}
  BY <1>1, ClosedParts DEF HasPcs
<1>. QED
  BY <1>1, <1>2, <1>3, <1>4, <1>5, <1>6, GotoParts

\* make_inode() finds the inode in memory.
LEMMA HitDoes ==
  ASSUME TypeOK, Layer1, NEW t \in Tasks, make_inode_hit(t), clash = "none"
  PROVE  \E x \in Opened, pc \in HasPcs \ Closing :
           /\ call[t].pc = "make" /\ call[t].op \in Ops
           /\ core[x].inum = call[t].inum /\ ~core[x].locked
           /\ pc = IF call[t].op = "open" THEN "have"
                   ELSE IF call[t].op = "create" THEN "init" ELSE "remove"
           /\ CallsBut(t) /\ call'[t] \in Calls /\ call'[t] = Has(pc, x, 1, "none")
           /\ clash' = "none" => Gains(t, x, pc, 1, "none")
           /\ CoreBut(x) /\ core'[x].inode = core[x].inode /\ core'[x].dirty = core[x].dirty
           /\ clash' \in Clashes
           /\ UNCHANGED <<lists, dev_use_count, ondisk, lost>>
<1>1. PICK x \in open_inode(call[t].inum) :
        /\ call[t].pc = "make" /\ ~core[x].locked
        /\ clash' = (IF core[x].use_count = 0 THEN "reused" ELSE clash)
        /\ core' = [core EXCEPT ![x].use_count = @ + 1]
        /\ Goto(t, Returned(call[t].op, x))
        /\ UNCHANGED <<lists, dev_use_count, ondisk, lost>>
  BY DEF make_inode_hit, Clash
<1>2. x \in Opened /\ core[x].inum = call[t].inum
  BY DEF open_inode, Opened
<1>3. x \in Entries /\ call[t].op \in Ops
  <2>1. x \in Entries
    BY <1>2 DEF Opened, ToSet, TypeOK
  <2>. QED  BY <1>1, <2>1, CallForms
<1>4. PICK pc \in HasPcs :
        /\ Returned(call[t].op, x) = Has(pc, x, 1, "none") /\ Returned(call[t].op, x) \in Calls
        /\ pc = IF call[t].op = "open" THEN "have"
                ELSE IF call[t].op = "create" THEN "init" ELSE "remove"
  BY <1>3, ReturnedParts
<1>5. pc \in HasPcs \ Closing
  BY <1>4 DEF Closing
<1>6. CallsBut(t) /\ call'[t] \in Calls /\ call'[t] = Has(pc, x, 1, "none")
  BY <1>1, <1>4, GotoParts
<1>7. /\ CoreBut(x) /\ core'[x].inum = core[x].inum /\ core'[x].locked = core[x].locked
      /\ core'[x].use_count = core[x].use_count + 1
      /\ core'[x].inode = core[x].inode /\ core'[x].dirty = core[x].dirty
  <2>0. core[x].use_count \in Nat
    BY <1>3, CoreForm
  <2>1. PICK m \in Nat : m = core[x].use_count + 1
    BY <2>0
  <2>2. core' = [core EXCEPT ![x].use_count = m]
    BY <1>1, <2>1
  <2>. QED  BY <1>3, <2>1, <2>2, CoreSet
<1>8. clash' = "none" => Gains(t, x, pc, 1, "none")
  <2>1. 1 \in 1..MaxRefs /\ "none" \in Jobs /\ "reused" # "none"
    BY ParametersAssumption DEF Jobs
  <2>. QED  BY <1>1, <1>2, <1>5, <1>6, <1>7, <2>1 DEF Gains
<1>9. clash' \in Clashes
  BY <1>1 DEF Clashes
<1>. QED
  BY <1>1, <1>2, <1>3, <1>4, <1>5, <1>6, <1>7, <1>8, <1>9

\* A task duplicates its inode.
LEMMA DupDoes ==
  ASSUME TypeOK, Layer1, NEW t \in Tasks, NEW x, x = call[t].x,
         call[t].pc \in HasPcs \ Closing, call[t].n < MaxRefs,
         NEW pc \in HasPcs \ Closing, GoOn(t, pc, call[t].n + 1, call[t].job),
         CoreBut(x), core'[x].inum = core[x].inum, core'[x].locked = core[x].locked,
         core'[x].use_count = core[x].use_count + 1, UNCHANGED <<lists, dev_use_count>>
  PROVE  Gains(t, x, pc, call[t].n + 1, call[t].job) /\ call'[t] \in Calls
<1>1. x \in Entries /\ call[t].n \in 0..MaxRefs /\ call[t].job \in Jobs
  BY CallForms
<1>2. x \in Opened /\ ~core[x].locked /\ call[t].n >= 1
  BY DEF Layer1, UsersHold
<1>3. call[t].n + 1 \in 1..MaxRefs /\ call[t].n + 1 \in 0..MaxRefs
  BY <1>1, <1>2, ParametersAssumption
<1>4. Has(pc, x, call[t].n + 1, call[t].job) \in Calls
  BY <1>1, <1>3, CallParts
<1>5. CallsBut(t) /\ call'[t] = Has(pc, x, call[t].n + 1, call[t].job)
  BY <1>4, GotoParts DEF GoOn
<1>. QED
  BY <1>1, <1>2, <1>3, <1>4, <1>5 DEF Gains
-----------------------------------------------------------------------------
(* The first layer, continued.                                              *)

\* Who has or reads an entry has it open or is taking it away.
LEMMA WhoHas ==
  ASSUME TypeOK, Layer1, NEW u \in Tasks
  PROVE  /\ call[u].pc \in HasPcs \ Closing => call[u].x \in Opened /\ call[u].n >= 1
         /\ call[u].pc \in {"unlink", "read"} => call[u].x \in Opened
         /\ call[u].pc \in {"free", "put"} => call[u].x \in Leaving
         /\ call[u].pc \in HasPcs \cup {"read"} => call[u].x \in Opened \cup Leaving
         /\ call[u].pc \in Closing => call[u].n = 0
         /\ call[u].pc \in Closing <=> call[u].pc \in {"unlink", "free", "put"}
<1>1. call[u].pc \in HasPcs \ Closing => call[u].x \in Opened /\ call[u].n >= 1
  BY DEF Layer1, UsersHold
<1>2. call[u].pc \in {"unlink", "read"} => call[u].x \in Opened
  BY DEF Layer1, UsersHold, LocksHeld
<1>3. call[u].pc \in {"free", "put"} => call[u].x \in Leaving
  BY DEF Leaving
<1>4. call[u].pc \in Closing => call[u].n = 0
  BY DEF Layer1, UsersHold
<1>5. call[u].pc \in Closing <=> call[u].pc \in {"unlink", "free", "put"}
  BY DEF Closing
<1>. QED
  BY <1>1, <1>2, <1>3, <1>4, <1>5

\* The last one to give a reference back is alone with the inode.
LEMMA DropFirst ==
  ASSUME TypeOK, TypeOK', Layer1, NEW t \in Tasks, close_inode_drop(t)
  PROVE  Layer1'
<1>1. PICK x : x = call[t].x
  OBVIOUS
<1>2. /\ x \in Entries /\ x \in Opened /\ ~core[x].locked
      /\ call[t].pc = "drop" /\ call[t].n \in 1..MaxRefs
      /\ CallsBut(t) /\ CoreBut(x) /\ core'[x].inum = core[x].inum
      /\ core'[x].locked = core[x].locked
      /\ core[x].use_count \in Nat \ {0} /\ core'[x].use_count = core[x].use_count - 1
      /\ core[x].use_count = 1 =>
           /\ call[t].n = 1 /\ call'[t] = Has("unlink", x, 0, Rest(t))
           /\ \A u \in Tasks \ {t} : Refs(u, x) = 0
      /\ core[x].use_count # 1 /\ call[t].n = 1 => call'[t].pc \in {"idle", "undo"}
      /\ core[x].use_count # 1 /\ call[t].n # 1 =>
           call'[t] = Has(IF call[t].job = "make_file" THEN "entry" ELSE "have",
                          x, call[t].n - 1, "none")
      /\ UNCHANGED <<lists, dev_use_count>>
  BY <1>1, DropDoes
<1>3. /\ \A u \in Tasks \ {t} : call'[u] = call[u]
      /\ \A y \in Entries : core'[y].inum = core[y].inum /\ core'[y].locked = core[y].locked
      /\ \A y \in Entries \ {x} : core'[y].use_count = core[y].use_count
      /\ UNCHANGED <<inode_open_list, inode_free_list, dev_use_count>>
  BY <1>2 DEF CallsBut, CoreBut, lists
<1>4. Opened' = Opened /\ Free' = Free /\ Opened \subseteq Entries
  BY <1>3 DEF Opened, Free, ToSet, TypeOK
<1>5. "read" \notin HasPcs /\ "asleep" \notin HasPcs /\ "idle" \notin HasPcs /\ "undo" \notin HasPcs
      /\ "free" \in Closing /\ "put" \in Closing /\ "unlink" \in Closing
      /\ Closing \subseteq HasPcs /\ "drop" \in HasPcs \ Closing
      /\ "entry" \in HasPcs \ Closing /\ "have" \in HasPcs \ Closing
  BY DEF HasPcs, Closing

\* Where t goes.
<1> DEFINE u0 == call'[t].pc = "unlink" /\ core[x].use_count = 1 /\ call[t].n = 1
           i0 == call'[t].pc \in {"idle", "undo"} /\ call[t].n = 1
           h0 == call'[t].pc \in {"entry", "have"} /\ call[t].n # 1
<1>6. /\ u0 \/ i0 \/ h0
      /\ call'[t].pc \in HasPcs => call'[t].x = x /\ call'[t].n = call[t].n - 1
      /\ Fits(call'[t])
  <2>0. call[t].n - 1 \in 0..MaxRefs /\ 0 \in 0..MaxRefs /\ {"none", Rest(t)} \subseteq Jobs
        /\ MaxRefs \in Nat
    BY <1>2, ParametersAssumption DEF Rest, Jobs
  <2>1. CASE core[x].use_count = 1
    <3>1. call'[t].pc = "unlink" /\ call'[t].x = x /\ call'[t].n = 0
      BY <1>2, <1>5, <2>0, <2>1, CallParts
    <3>. QED  BY <1>2, <2>1, <3>1 DEF Fits
  <2>2. CASE core[x].use_count # 1 /\ call[t].n = 1
    <3>1. call'[t].pc \in {"idle", "undo"}
      BY <1>2, <2>2
    <3>. QED  BY <1>5, <2>2, <3>1 DEF Fits
  <2>3. CASE core[x].use_count # 1 /\ call[t].n # 1
    <3>1. PICK pc \in {"entry", "have"} :
            pc = IF call[t].job = "make_file" THEN "entry" ELSE "have"
      OBVIOUS
    <3>2. call'[t].pc = pc /\ call'[t].x = x /\ call'[t].n = call[t].n - 1
      BY <1>2, <1>5, <2>0, <2>3, <3>1, CallParts
    <3>3. pc = "entry" => call[t].n = 2
      BY <1>2, <3>1 DEF Layer1, UsersHold, Fits
    <3>. QED  BY <2>0, <2>3, <3>2, <3>3 DEF Fits
  <2>. QED  BY <2>1, <2>2, <2>3
<1>7. call'[t].pc \notin {"read", "asleep", "free", "put"}
  BY <1>6
<1>8. Leaving' = Leaving
  BY <1>2, <1>3, <1>7 DEF Leaving
<1>9. Listed'
  <2>1. \A y, z \in Opened' : core'[y].inum = core'[z].inum => y = z
    BY <1>3, <1>4 DEF Layer1, Listed
  <2>2. \A u, v \in Tasks :
          call'[u].pc \in {"free", "put"} /\ call'[v].pc \in {"free", "put"}
          /\ call'[u].x = call'[v].x => u = v
    BY <1>3, <1>7 DEF Layer1, Listed
  <2>. QED  BY <1>3, <1>4, <1>8, <2>1, <2>2 DEF Layer1, Listed
<1>10. Counted'
  <2>1. ASSUME NEW y \in Opened \ {x}
        PROVE  Cardinality(References(y)') = Cardinality(References(y))
    <3>1. Refs(t, y)' = 0 /\ Refs(t, y) = 0
      BY <1>1, <1>2, <1>5, <1>6, <1>7, <2>1 DEF Refs
    <3>2. \A u \in Tasks : Refs(u, y)' = Refs(u, y)
      BY <1>3, <3>1 DEF Refs
    <3>. QED  BY <3>2, ReferencesMore
  <2>2. Cardinality(References(x)) = Cardinality(References(x)') + 1
    <3>1. Refs(t, x) = call[t].n
      BY <1>1, <1>2, <1>5 DEF Refs
    <3>2. Refs(t, x)' = call[t].n - 1
      <4>1. CASE call'[t].pc \in HasPcs
        BY <1>5, <1>6, <4>1 DEF Refs
      <4>2. CASE call'[t].pc \notin HasPcs
        <5>1. call[t].n = 1
          BY <1>5, <1>6, <4>2
        <5>. QED  BY <1>7, <4>2, <5>1 DEF Refs
      <4>. QED  BY <4>1, <4>2
    <3>3. \A u \in Tasks \ {t} : Refs(u, x)' = Refs(u, x)
      BY <1>3 DEF Refs
    <3>4. Refs(t, x) = Refs(t, x)' + 1
      BY <1>2, <3>1, <3>2, ParametersAssumption
    <3>. QED  BY <3>3, <3>4, ReferencesMore
  <2>3. Cardinality(References(x)') = core[x].use_count - 1
    <3>1. Cardinality(References(x)') \in Nat
      <4>1. References(x)' \in SUBSET (Tasks \X (1..MaxRefs))
        BY DEF References
      <4>2. IsFiniteSet(Tasks \X (1..MaxRefs))
        <5>1. IsFiniteSet(Tasks) /\ IsFiniteSet(1..MaxRefs)
          BY ParametersAssumption, FS_Interval
        <5>. QED  BY <5>1, FS_Product
      <4>. QED  BY <4>1, <4>2, FS_Subset, FS_CardinalityType
    <3>2. core[x].use_count = Cardinality(References(x))
      BY <1>2 DEF Layer1, Counted
    <3>. QED  BY <1>2, <2>2, <3>1, <3>2
  <2>4. \A y \in Opened : core'[y].use_count = Cardinality(References(y)')
    BY <1>2, <1>3, <1>4, <2>1, <2>3 DEF Layer1, Counted
  <2>. QED  BY <1>4, <2>4 DEF Counted
<1>11. LocksHeld'
  <2>1. \A u \in Tasks, y \in Entries : Reads(u, y)' <=> Reads(u, y)
    BY <1>2, <1>3, <1>7 DEF Reads
  <2>2. \A u \in Tasks : call'[u].pc = "read" => call'[u] = call[u]
    BY <1>3, <1>7
  <2>. QED  BY <1>3, <1>4, <2>1, <2>2 DEF Layer1, LocksHeld
<1>12. UsersHold'
  <2>1. ASSUME NEW u \in Tasks, call'[u].pc \in HasPcs \ Closing
        PROVE  call'[u].n >= 1 /\ call'[u].x \in Opened' /\ ~core'[call'[u].x].locked
    <3>1. CASE u = t
      <4>1. h0
        BY <1>5, <1>6, <2>1, <3>1
      <4>2. call'[t].x = x /\ call'[t].n = call[t].n - 1
        BY <1>6, <2>1, <3>1
      <4>3. call[t].n - 1 >= 1
        BY <1>2, <4>1, ParametersAssumption
      <4>. QED  BY <1>2, <1>3, <1>4, <3>1, <4>2, <4>3
    <3>2. CASE u # t
      BY <1>3, <1>4, <2>1, <3>2 DEF Layer1, UsersHold
    <3>. QED  BY <3>1, <3>2
  <2>2. ASSUME NEW u \in Tasks, call'[u].pc \in Closing PROVE call'[u].n = 0
    <3>1. CASE u = t
      <4>1. call'[t].pc \in HasPcs /\ u0
        BY <1>5, <1>6, <2>2, <3>1
      <4>. QED  BY <1>6, <3>1, <4>1
    <3>2. CASE u # t
      BY <1>3, <2>2, <3>2 DEF Layer1, UsersHold
    <3>. QED  BY <3>1, <3>2
  <2>3. ASSUME NEW u \in Tasks, NEW y, y = call'[u].x, call'[u].pc = "unlink"
        PROVE  /\ y \in Opened' /\ ~core'[y].locked
               /\ \A v \in Tasks : At(v, y)' => v = u
    <3>1. CASE u = t
      <4>1. y = x /\ core[x].use_count = 1
        BY <1>5, <1>6, <2>3, <3>1
      <4>2. ASSUME NEW v \in Tasks \ {t}, call[v].pc \in HasPcs, call[v].x = x PROVE FALSE
        <5>1. call[v].n = 0
          BY <1>2, <1>5, <4>1, <4>2 DEF Refs
        <5>2. call[v].pc \in Closing
          BY <4>2, <5>1, WhoHas
        <5>3. call[v].pc = "unlink"
          <6>1. x \notin Leaving
            BY <1>2 DEF Layer1, Listed
          <6>. QED  BY <4>2, <5>2, <6>1, WhoHas
        <5>4. At(t, x)
          BY <1>1, <1>2, <1>5 DEF At
        <5>. QED  BY <4>2, <5>3, <5>4 DEF Layer1, UsersHold
      <4>3. \A v \in Tasks : At(v, y)' => v = t
        BY <1>3, <4>1, <4>2 DEF At
      <4>. QED  BY <1>2, <1>3, <1>4, <3>1, <4>1, <4>3
    <3>2. CASE u # t
      <4>1. call[u].pc = "unlink" /\ call[u].x = y
        BY <1>3, <2>3, <3>2
      <4>2. /\ y \in Opened /\ ~core[y].locked
            /\ \A v \in Tasks : At(v, y) => v = u
        BY <4>1 DEF Layer1, UsersHold
      <4>3. \A v \in Tasks : At(v, y)' => At(v, y)
        BY <1>1, <1>2, <1>3, <1>5, <1>6 DEF At
      <4>. QED  BY <1>3, <1>4, <4>2, <4>3
    <3>. QED  BY <3>1, <3>2
  <2>4. \A u \in Tasks : Fits(call'[u])
    BY <1>3, <1>6 DEF Layer1, UsersHold
  <2>. QED  BY <2>1, <2>2, <2>3, <2>4 DEF UsersHold
<1>13. SleepersSafe'
  <2>1. \A u \in Tasks : call'[u].pc = "asleep" => call'[u] = call[u]
    BY <1>3, <1>7
  <2>2. \A u \in Tasks : call[u].pc = "read" => call'[u] = call[u]
    BY <1>2, <1>3
  <2>. QED  BY <2>1, <2>2 DEF Layer1, SleepersSafe, Reads
<1>. QED
  BY <1>9, <1>10, <1>11, <1>12, <1>13 DEF Layer1

\* A free entry gets a reader, and nobody else.
LEMMA MissFirst ==
  ASSUME TypeOK, TypeOK', Layer1, NEW t \in Tasks, make_inode_miss(t)
  PROVE  Layer1'
<1>1. PICK x : x = Head(inode_free_list)
  OBVIOUS
<1>2. /\ x \in Entries /\ x \in Free /\ x \notin Opened /\ x \notin Leaving
      /\ call[t].pc = "make" /\ call[t].op \in Ops /\ call[t].inum \in Inums
      /\ open_inode(call[t].inum) = {}
      /\ CallsBut(t) /\ call'[t] = Reading(call[t].op, x)
      /\ NoRepeats(inode_open_list') /\ ToSet(inode_open_list') = Opened \cup {x}
      /\ NoRepeats(inode_free_list') /\ ToSet(inode_free_list') = Free \ {x}
      /\ Len(inode_free_list') = Len(inode_free_list) - 1
      /\ dev_use_count' = dev_use_count + 1
      /\ CoreBut(x) /\ core'[x].inum = call[t].inum /\ core'[x].use_count = 1
      /\ core'[x].locked
  BY <1>1, MissDoes
<1>3. /\ \A u \in Tasks \ {t} : call'[u] = call[u]
      /\ \A y \in Entries \ {x} : core'[y] = core[y]
      /\ call'[t].pc = "read" /\ call'[t].x = x
  BY <1>2, CallParts DEF CallsBut, CoreBut
<1>4. Opened' = Opened \cup {x} /\ Free' = Free \ {x} /\ Opened \subseteq Entries
  <2>1. Opened' = Opened \cup {x} /\ Free' = Free \ {x}
    BY <1>2 DEF Opened, Free
  <2>2. Opened \subseteq Entries
    BY DEF Opened, ToSet, TypeOK
  <2>. QED  BY <2>1, <2>2
<1>5. "read" \notin HasPcs /\ "asleep" \notin HasPcs /\ "make" \notin HasPcs
      /\ "free" \in Closing /\ "put" \in Closing /\ "unlink" \in Closing
      /\ Closing \subseteq HasPcs
  BY DEF HasPcs, Closing

\* Nobody has the entry.
<1>6. ASSUME NEW u \in Tasks, call[u].pc \in HasPcs \cup {"read"} PROVE call[u].x # x
  BY <1>2, <1>6, WhoHas
<1>7. Leaving' = Leaving
  BY <1>2, <1>3, <1>5 DEF Leaving
<1>8. Listed'
  <2>1. \A y, z \in Opened' : core'[y].inum = core'[z].inum => y = z
    <3>1. \A y \in Opened : core[y].inum # call[t].inum
      BY <1>2 DEF open_inode, Opened
    <3>2. \A y \in Opened : y # x /\ core'[y].inum = core[y].inum
      BY <1>2, <1>3, <1>4
    <3>. QED  BY <1>2, <1>4, <3>1, <3>2 DEF Layer1, Listed
  <2>2. \A u, v \in Tasks :
          call'[u].pc \in {"free", "put"} /\ call'[v].pc \in {"free", "put"}
          /\ call'[u].x = call'[v].x => u = v
    BY <1>3 DEF Layer1, Listed
  <2>3. /\ Opened' \cup Free' \cup Leaving' = Entries
        /\ Opened' \cap (Free' \cup Leaving') = {} /\ Free' \cap Leaving' = {}
    BY <1>2, <1>4, <1>7 DEF Layer1, Listed
  <2>4. dev_use_count' = 1 + NR_INODES - Len(inode_free_list')
    <3>1. dev_use_count = 1 + NR_INODES - Len(inode_free_list) /\ NR_INODES \in Nat
      BY ParametersAssumption DEF Layer1, Listed
    <3>2. Len(inode_free_list) \in Nat
      BY DEF TypeOK
    <3>. QED  BY <1>2, <3>1, <3>2
  <2>. QED  BY <1>2, <2>1, <2>2, <2>3, <2>4 DEF Listed
<1>9. Counted'
  <2>1. ASSUME NEW y \in Opened PROVE Cardinality(References(y)') = Cardinality(References(y))
    <3>1. Refs(t, y)' = 0 /\ Refs(t, y) = 0
      BY <1>2, <1>3, <1>5, <2>1 DEF Refs
    <3>2. \A u \in Tasks : Refs(u, y)' = Refs(u, y)
      BY <1>3, <3>1 DEF Refs
    <3>. QED  BY <3>2, ReferencesMore
  <2>2. Cardinality(References(x)') = 1
    <3>1. \A u \in Tasks : Refs(u, x) = 0
      BY <1>6 DEF Refs
    <3>2. Cardinality(References(x)) = 0
      BY <3>1, ReferencesNone
    <3>3. Refs(t, x)' = Refs(t, x) + 1
      BY <1>3, <3>1 DEF Refs
    <3>4. \A u \in Tasks \ {t} : Refs(u, x)' = Refs(u, x)
      BY <1>3 DEF Refs
    <3>. QED  BY <3>2, <3>3, <3>4, ReferencesMore
  <2>3. \A y \in Opened : core'[y].use_count = Cardinality(References(y)')
    BY <1>2, <1>3, <1>4, <2>1 DEF Layer1, Counted
  <2>. QED  BY <1>2, <1>4, <2>2, <2>3 DEF Counted
<1>10. LocksHeld'
  <2>1. ASSUME NEW u \in Tasks, call'[u].pc = "read"
        PROVE  call'[u].x \in Opened' /\ core'[call'[u].x].locked
    <3>1. CASE u = t
      BY <1>2, <1>3, <1>4, <3>1
    <3>2. CASE u # t
      BY <1>2, <1>3, <1>4, <2>1, <3>2 DEF Layer1, LocksHeld
    <3>. QED  BY <3>1, <3>2
  <2>2. ASSUME NEW y \in Opened', core'[y].locked
        PROVE  \E u \in Tasks : call'[u].pc = "read" /\ call'[u].x = y
    <3>1. CASE y = x
      BY <1>3, <3>1
    <3>2. CASE y # x
      <4>1. PICK u \in Tasks : Reads(u, y)
        BY <1>3, <1>4, <2>2, <3>2 DEF Layer1, LocksHeld
      <4>2. call'[u] = call[u]
        BY <1>2, <1>3, <4>1 DEF Reads
      <4>. QED  BY <4>1, <4>2 DEF Reads
    <3>. QED  BY <3>1, <3>2
  <2>3. ASSUME NEW u \in Tasks, NEW v \in Tasks, NEW y \in Opened',
               call'[u].pc = "read", call'[u].x = y, call'[v].pc = "read", call'[v].x = y
        PROVE  u = v
    <3>1. CASE y = x
      BY <1>3, <1>6, <2>3, <3>1
    <3>2. CASE y # x
      BY <1>3, <1>4, <2>3, <3>2 DEF Layer1, LocksHeld, Reads
    <3>. QED  BY <3>1, <3>2
  <2>. QED  BY <2>1, <2>2, <2>3 DEF LocksHeld, Reads
<1>11. UsersHold'
  <2>1. \A u \in Tasks : call'[u].pc \in HasPcs => call'[u] = call[u] /\ call[u].x # x
    BY <1>3, <1>5, <1>6
  <2>2. \A u \in Tasks : call'[u].pc \in HasPcs \ Closing =>
          call'[u].n >= 1 /\ call'[u].x \in Opened' /\ ~core'[call'[u].x].locked
    BY <1>3, <1>4, <2>1 DEF Layer1, UsersHold
  <2>3. \A u \in Tasks : call'[u].pc \in Closing => call'[u].n = 0
    BY <1>5, <2>1 DEF Layer1, UsersHold
  <2>4. ASSUME NEW u \in Tasks, call'[u].pc = "unlink", NEW y, y = call'[u].x
        PROVE  /\ y \in Opened' /\ ~core'[y].locked
               /\ \A v \in Tasks : At(v, y)' => v = u
    <3>1. call[u].pc = "unlink" /\ call[u].x = y /\ y # x
      BY <1>5, <2>1, <2>4
    <3>2. /\ y \in Opened /\ ~core[y].locked
          /\ \A v \in Tasks : At(v, y) => v = u
      BY <3>1 DEF Layer1, UsersHold
    <3>3. \A v \in Tasks : At(v, y)' => At(v, y)
      BY <2>1 DEF At
    <3>. QED  BY <1>3, <1>4, <3>1, <3>2, <3>3
  <2>5. \A u \in Tasks : Fits(call'[u])
    <3>1. Fits(call'[t])
      BY <1>3 DEF Fits
    <3>. QED  BY <1>3, <3>1 DEF Layer1, UsersHold
  <2>. QED  BY <2>2, <2>3, <2>4, <2>5 DEF UsersHold
<1>12. SleepersSafe'
  <2>1. \A u \in Tasks : call'[u].pc = "asleep" => call'[u] = call[u]
    BY <1>3
  <2>2. \A u \in Tasks : call[u].pc = "read" => call'[u] = call[u]
    BY <1>2, <1>3
  <2>. QED  BY <2>1, <2>2 DEF Layer1, SleepersSafe, Reads
<1>. QED
  BY <1>8, <1>9, <1>10, <1>11, <1>12 DEF Layer1

\* Nobody sleeps on an inode that has been read.
LEMMA ReadFirst ==
  ASSUME TypeOK, TypeOK', Layer1, NEW t \in Tasks, read_inode(t)
  PROVE  Layer1'
<1>1. PICK x : x = call[t].x
  OBVIOUS
<1>2. /\ call[t].pc = "read" /\ call[t].op \in Ops
      /\ x \in Entries /\ x \in Opened /\ core[x].locked
      /\ call'[t] = Returned(call[t].op, x)
      /\ call' = [Woken(x) EXCEPT ![t] = Returned(call[t].op, x)]
      /\ CoreBut(x) /\ core'[x].inum = core[x].inum
      /\ core'[x].use_count = core[x].use_count /\ ~core'[x].locked
      /\ UNCHANGED <<lists, dev_use_count>>
  BY <1>1, ReadDoes
<1>3. PICK pc \in HasPcs :
        /\ Returned(call[t].op, x) = Has(pc, x, 1, "none") /\ Returned(call[t].op, x) \in Calls
        /\ pc = IF call[t].op = "open" THEN "have"
                ELSE IF call[t].op = "create" THEN "init" ELSE "remove"
  BY <1>2, ReturnedParts
<1>4. pc \in HasPcs \ Closing /\ call'[t].pc = pc /\ call'[t].x = x /\ call'[t].n = 1
  <2>1. 1 \in 0..MaxRefs /\ "none" \in Jobs
    BY ParametersAssumption DEF Jobs
  <2>. QED  BY <1>2, <1>3, <2>1, CallParts DEF Closing
<1>5. \A u \in Tasks \ {t} :
        /\ call[u].pc = "asleep" /\ call[u].x = x => call'[u].pc = "make"
        /\ ~(call[u].pc = "asleep" /\ call[u].x = x) => call'[u] = call[u]
  <2>1. PICK c \in Calls : c = Returned(call[t].op, x)
    BY <1>3
  <2>2. call' = [Woken(x) EXCEPT ![t] = c]
    BY <1>2, <2>1
  <2>. QED  BY <2>2, WokenParts
<1>6. "read" \notin HasPcs /\ "asleep" \notin HasPcs /\ "make" \notin HasPcs
      /\ "free" \in Closing /\ "put" \in Closing /\ "unlink" \in Closing
      /\ Closing \subseteq HasPcs
  BY DEF HasPcs, Closing
<1>7. \A u \in Tasks \ {t} :
        call'[u].pc \in HasPcs \cup {"read"} \/ call[u].pc \in HasPcs \cup {"read"}
        => call'[u] = call[u]
  BY <1>5, <1>6
<1>8. /\ \A y \in Entries : /\ core'[y].inum = core[y].inum
                            /\ core'[y].use_count = core[y].use_count
      /\ \A y \in Entries \ {x} : core'[y] = core[y]
      /\ UNCHANGED <<inode_open_list, inode_free_list, dev_use_count>>
  BY <1>2 DEF CoreBut, lists
<1>9. Opened' = Opened /\ Free' = Free /\ Opened \subseteq Entries
  BY <1>8 DEF Opened, Free, ToSet, TypeOK
<1>10. Leaving' = Leaving
  BY <1>2, <1>4, <1>6, <1>7 DEF Leaving

\* Nobody has the inode, and nobody else reads it.
<1>11. ASSUME NEW u \in Tasks \ {t}, call[u].pc \in HasPcs \cup {"read"} PROVE call[u].x # x
  <2>1. CASE call[u].pc = "read"
    BY <1>1, <1>2, <2>1, <1>11 DEF Layer1, LocksHeld, Reads
  <2>2. CASE call[u].pc \in HasPcs
    <3>1. SUFFICES ASSUME call[u].x = x PROVE FALSE
      OBVIOUS
    <3>2. x \notin Leaving
      BY <1>2 DEF Layer1, Listed
    <3>3. call[u].pc \in HasPcs \ Closing \/ call[u].pc = "unlink"
      BY <2>2, <3>1, <3>2, WhoHas
    <3>. QED  BY <1>2, <3>1, <3>3 DEF Layer1, UsersHold
  <2>. QED  BY <1>11, <2>1, <2>2
<1>12. Listed'
  <2>1. \A y, z \in Opened' : core'[y].inum = core'[z].inum => y = z
    BY <1>8, <1>9 DEF Layer1, Listed
  <2>2. \A u, v \in Tasks :
          call'[u].pc \in {"free", "put"} /\ call'[v].pc \in {"free", "put"}
          /\ call'[u].x = call'[v].x => u = v
    BY <1>4, <1>6, <1>7 DEF Layer1, Listed
  <2>. QED  BY <1>8, <1>9, <1>10, <2>1, <2>2 DEF Layer1, Listed
<1>13. Counted'
  <2>1. ASSUME NEW y \in Opened PROVE Cardinality(References(y)') = Cardinality(References(y))
    <3>1. Refs(t, y)' = Refs(t, y)
      BY <1>1, <1>2, <1>4, <1>6 DEF Refs
    <3>2. \A u \in Tasks \ {t} : Refs(u, y)' = Refs(u, y)
      BY <1>7 DEF Refs
    <3>. QED  BY <3>1, <3>2, ReferencesMore
  <2>. QED  BY <1>8, <1>9, <2>1 DEF Layer1, Counted
<1>14. LocksHeld'
  <2>1. \A u \in Tasks : call'[u].pc = "read" =>
          call'[u] = call[u] /\ u # t /\ call[u].x # x
    BY <1>4, <1>6, <1>7, <1>11
  <2>2. \A u \in Tasks : call'[u].pc = "read" =>
          call'[u].x \in Opened' /\ core'[call'[u].x].locked
    BY <1>8, <1>9, <2>1 DEF Layer1, LocksHeld
  <2>3. ASSUME NEW y \in Opened', core'[y].locked
        PROVE  \E u \in Tasks : call'[u].pc = "read" /\ call'[u].x = y
    <3>1. y # x /\ y \in Opened /\ core[y].locked
      BY <1>2, <1>8, <1>9, <2>3
    <3>2. PICK u \in Tasks : Reads(u, y)
      BY <3>1 DEF Layer1, LocksHeld
    <3>3. u # t
      BY <1>1, <3>1, <3>2 DEF Reads
    <3>. QED  BY <1>7, <3>2, <3>3 DEF Reads
  <2>4. \A u, v \in Tasks : \A y \in Opened' :
          call'[u].pc = "read" /\ call'[u].x = y /\ call'[v].pc = "read" /\ call'[v].x = y
          => u = v
    BY <1>9, <2>1 DEF Layer1, LocksHeld, Reads
  <2>. QED  BY <2>2, <2>3, <2>4 DEF LocksHeld, Reads
<1>15. UsersHold'
  <2>1. ASSUME NEW u \in Tasks, call'[u].pc \in HasPcs \ Closing
        PROVE  call'[u].n >= 1 /\ call'[u].x \in Opened' /\ ~core'[call'[u].x].locked
    <3>1. CASE u = t
      BY <1>2, <1>4, <1>9, <3>1
    <3>2. CASE u # t
      BY <1>7, <1>8, <1>9, <1>11, <2>1, <3>2 DEF Layer1, UsersHold
    <3>. QED  BY <3>1, <3>2
  <2>2. \A u \in Tasks : call'[u].pc \in Closing => call'[u] = call[u] /\ u # t
    BY <1>4, <1>6, <1>7
  <2>3. \A u \in Tasks : call'[u].pc \in Closing => call'[u].n = 0
    BY <2>2 DEF Layer1, UsersHold
  <2>4. ASSUME NEW u \in Tasks, call'[u].pc = "unlink", NEW y, y = call'[u].x
        PROVE  /\ y \in Opened' /\ ~core'[y].locked
               /\ \A v \in Tasks : At(v, y)' => v = u
    <3>1. call[u].pc = "unlink" /\ call[u].x = y /\ y # x
      BY <1>6, <1>11, <2>2, <2>4
    <3>2. /\ y \in Opened /\ ~core[y].locked
          /\ \A v \in Tasks : At(v, y) => v = u
      BY <3>1 DEF Layer1, UsersHold
    <3>3. \A v \in Tasks : At(v, y)' => At(v, y)
      BY <1>4, <1>7, <3>1 DEF At
    <3>. QED  BY <1>8, <1>9, <3>1, <3>2, <3>3
  <2>5. ASSUME NEW u \in Tasks PROVE Fits(call'[u])
    <3>1. CASE u = t
      <4>1. call'[t].pc \in {"have", "init", "remove"}
        BY <1>3, <1>4
      <4>. QED  BY <1>4, <3>1, <4>1 DEF Fits
    <3>2. CASE call'[u] = call[u]
      BY <3>2 DEF Layer1, UsersHold
    <3>3. CASE call'[u].pc = "make"
      BY <3>3 DEF Fits
    <3>. QED  BY <1>5, <3>1, <3>2, <3>3
  <2>. QED  BY <2>1, <2>3, <2>4, <2>5 DEF UsersHold
<1>16. SleepersSafe'
  <2>1. ASSUME NEW u \in Tasks, call'[u].pc = "asleep"
        PROVE  \E v \in Tasks : call'[v].pc = "read" /\ call'[v].x = call'[u].x
    <3>1. call'[u] = call[u] /\ call[u].x # x
      BY <1>4, <1>5, <1>6, <2>1
    <3>2. PICK v \in Tasks : Reads(v, call[u].x)
      BY <2>1, <3>1 DEF Layer1, SleepersSafe
    <3>3. v # t
      BY <1>1, <3>1, <3>2 DEF Reads
    <3>. QED  BY <1>7, <3>1, <3>2, <3>3 DEF Reads
  <2>. QED  BY <2>1 DEF SleepersSafe, Reads
<1>. QED
  BY <1>12, <1>13, <1>14, <1>15, <1>16 DEF Layer1

\* A reader that fails leaves nobody asleep on the entry, and the entry free.
LEMMA ReadFailsFirst ==
  ASSUME TypeOK, TypeOK', Layer1, clash = "none", clash' = "none",
         NEW t \in Tasks, read_inode_fails(t)
  PROVE  Layer1'
<1>1. PICK x : x = call[t].x
  OBVIOUS
<1>2. PICK i : i = core[x].inum
  OBVIOUS
<1>3. /\ call[t].pc = "read" /\ x \in Entries /\ x \in Opened /\ core[x].locked
      /\ call'[t] = Idle /\ call' = [Woken(x) EXCEPT ![t] = Idle]
      /\ NoRepeats(inode_free_list') /\ ToSet(inode_free_list') = Free \cup {x}
      /\ Len(inode_free_list') = Len(inode_free_list) + 1
      /\ NoRepeats(inode_open_list') /\ ToSet(inode_open_list') = Opened \ {x}
      /\ dev_use_count' = dev_use_count - 1 /\ UNCHANGED core
  BY <1>1, <1>2, ReadFailsDoes
<1>4. call'[t].pc = "idle"
  BY <1>3, CallParts
<1>5. \A u \in Tasks \ {t} :
        /\ call[u].pc = "asleep" /\ call[u].x = x => call'[u].pc = "make"
        /\ ~(call[u].pc = "asleep" /\ call[u].x = x) => call'[u] = call[u]
  <2>1. PICK c \in Calls : c = Idle
    BY CallParts
  <2>2. call' = [Woken(x) EXCEPT ![t] = c]
    BY <1>3, <2>1
  <2>. QED  BY <2>2, WokenParts
<1>6. "read" \notin HasPcs /\ "asleep" \notin HasPcs /\ "make" \notin HasPcs
      /\ "idle" \notin HasPcs /\ "undo" \notin HasPcs
      /\ "free" \in Closing /\ "put" \in Closing /\ "unlink" \in Closing
      /\ Closing \subseteq HasPcs
  BY DEF HasPcs, Closing
<1>7. \A u \in Tasks \ {t} :
        call'[u].pc \in HasPcs \cup {"read"} \/ call[u].pc \in HasPcs \cup {"read"}
        => call'[u] = call[u]
  BY <1>5, <1>6
<1>8. Opened' = Opened \ {x} /\ Free' = Free \cup {x}
  BY <1>3 DEF Opened, Free
<1>9. Opened \subseteq Entries /\ x \notin Leaving
  BY <1>3 DEF Layer1, Listed
<1>10. Leaving' = Leaving
  BY <1>3, <1>4, <1>6, <1>7 DEF Leaving

\* Nobody has the inode, and nobody else reads it.
<1>11. ASSUME NEW u \in Tasks \ {t}, call[u].pc \in HasPcs \cup {"read"} PROVE call[u].x # x
  <2>1. CASE call[u].pc = "read"
    BY <1>1, <1>3, <2>1, <1>11 DEF Layer1, LocksHeld, Reads
  <2>2. CASE call[u].pc \in HasPcs
    <3>1. SUFFICES ASSUME call[u].x = x PROVE FALSE
      OBVIOUS
    <3>2. call[u].pc \in HasPcs \ Closing \/ call[u].pc = "unlink"
      BY <1>9, <2>2, <3>1, WhoHas
    <3>. QED  BY <1>3, <3>1, <3>2 DEF Layer1, UsersHold
  <2>. QED  BY <1>11, <2>1, <2>2
<1>12. Listed'
  <2>1. \A y, z \in Opened' : core'[y].inum = core'[z].inum => y = z
    BY <1>3, <1>8 DEF Layer1, Listed
  <2>2. \A u, v \in Tasks :
          call'[u].pc \in {"free", "put"} /\ call'[v].pc \in {"free", "put"}
          /\ call'[u].x = call'[v].x => u = v
    BY <1>4, <1>6, <1>7 DEF Layer1, Listed
  <2>3. /\ Opened' \cup Free' \cup Leaving' = Entries
        /\ Opened' \cap (Free' \cup Leaving') = {} /\ Free' \cap Leaving' = {}
    BY <1>3, <1>8, <1>9, <1>10 DEF Layer1, Listed
  <2>4. dev_use_count' = 1 + NR_INODES - Len(inode_free_list')
    <3>1. dev_use_count = 1 + NR_INODES - Len(inode_free_list) /\ NR_INODES \in Nat
      BY ParametersAssumption DEF Layer1, Listed
    <3>2. Len(inode_free_list) \in Nat
      BY DEF TypeOK
    <3>. QED  BY <1>3, <3>1, <3>2
  <2>. QED  BY <1>3, <2>1, <2>2, <2>3, <2>4 DEF Listed
<1>13. Counted'
  <2>1. ASSUME NEW y \in Opened \ {x}
        PROVE  Cardinality(References(y)') = Cardinality(References(y))
    <3>1. Refs(t, y)' = Refs(t, y)
      BY <1>1, <1>3, <1>4, <1>6, <2>1 DEF Refs
    <3>2. \A u \in Tasks \ {t} : Refs(u, y)' = Refs(u, y)
      BY <1>7 DEF Refs
    <3>. QED  BY <3>1, <3>2, ReferencesMore
  <2>. QED  BY <1>3, <1>8, <2>1 DEF Layer1, Counted
<1>14. LocksHeld'
  <2>1. \A u \in Tasks : call'[u].pc = "read" =>
          call'[u] = call[u] /\ u # t /\ call[u].x # x
    BY <1>4, <1>6, <1>7, <1>11
  <2>2. \A u \in Tasks : call'[u].pc = "read" =>
          call'[u].x \in Opened' /\ core'[call'[u].x].locked
    BY <1>3, <1>8, <2>1 DEF Layer1, LocksHeld
  <2>3. ASSUME NEW y \in Opened', core'[y].locked
        PROVE  \E u \in Tasks : call'[u].pc = "read" /\ call'[u].x = y
    <3>1. y # x /\ y \in Opened /\ core[y].locked
      BY <1>3, <1>8, <2>3
    <3>2. PICK u \in Tasks : Reads(u, y)
      BY <3>1 DEF Layer1, LocksHeld
    <3>3. u # t
      BY <1>1, <3>1, <3>2 DEF Reads
    <3>. QED  BY <1>7, <3>2, <3>3 DEF Reads
  <2>4. \A u, v \in Tasks : \A y \in Opened' :
          call'[u].pc = "read" /\ call'[u].x = y /\ call'[v].pc = "read" /\ call'[v].x = y
          => u = v
    BY <1>8, <2>1 DEF Layer1, LocksHeld, Reads
  <2>. QED  BY <2>2, <2>3, <2>4 DEF LocksHeld, Reads
<1>15. UsersHold'
  <2>1. \A u \in Tasks : call'[u].pc \in HasPcs => call'[u] = call[u] /\ call[u].x # x
    BY <1>4, <1>6, <1>7, <1>11
  <2>2. \A u \in Tasks : call'[u].pc \in HasPcs \ Closing =>
          call'[u].n >= 1 /\ call'[u].x \in Opened' /\ ~core'[call'[u].x].locked
    BY <1>3, <1>8, <2>1 DEF Layer1, UsersHold
  <2>3. \A u \in Tasks : call'[u].pc \in Closing => call'[u].n = 0
    BY <1>6, <2>1 DEF Layer1, UsersHold
  <2>4. ASSUME NEW u \in Tasks, call'[u].pc = "unlink", NEW y, y = call'[u].x
        PROVE  /\ y \in Opened' /\ ~core'[y].locked
               /\ \A v \in Tasks : At(v, y)' => v = u
    <3>1. call[u].pc = "unlink" /\ call[u].x = y /\ y # x
      BY <1>6, <2>1, <2>4
    <3>2. /\ y \in Opened /\ ~core[y].locked
          /\ \A v \in Tasks : At(v, y) => v = u
      BY <3>1 DEF Layer1, UsersHold
    <3>3. \A v \in Tasks : At(v, y)' => At(v, y)
      BY <2>1 DEF At
    <3>. QED  BY <1>3, <1>8, <3>1, <3>2, <3>3
  <2>5. ASSUME NEW u \in Tasks PROVE Fits(call'[u])
    <3>1. CASE u = t
      BY <1>4, <3>1 DEF Fits
    <3>2. CASE call'[u] = call[u]
      BY <3>2 DEF Layer1, UsersHold
    <3>3. CASE call'[u].pc = "make"
      BY <3>3 DEF Fits
    <3>. QED  BY <1>5, <3>1, <3>2, <3>3
  <2>. QED  BY <2>2, <2>3, <2>4, <2>5 DEF UsersHold
<1>16. SleepersSafe'
  <2>1. ASSUME NEW u \in Tasks, call'[u].pc = "asleep"
        PROVE  \E v \in Tasks : call'[v].pc = "read" /\ call'[v].x = call'[u].x
    <3>1. call'[u] = call[u] /\ call[u].x # x
      BY <1>4, <1>5, <1>6, <2>1
    <3>2. PICK v \in Tasks : Reads(v, call[u].x)
      BY <2>1, <3>1 DEF Layer1, SleepersSafe
    <3>3. v # t
      BY <1>1, <3>1, <3>2 DEF Reads
    <3>. QED  BY <1>7, <3>1, <3>2, <3>3 DEF Reads
  <2>. QED  BY <2>1 DEF SleepersSafe, Reads
<1>. QED
  BY <1>12, <1>13, <1>14, <1>15, <1>16 DEF Layer1

\* An entry off the list is nobody's but its last user's.
LEMMA UnlinkFirst ==
  ASSUME TypeOK, TypeOK', Layer1, NEW t \in Tasks, close_inode_unlink(t)
  PROVE  Layer1'
<1>1. PICK x : x = call[t].x
  OBVIOUS
<1>2. /\ call[t].pc = "unlink" /\ x \in Entries /\ x \in Opened /\ ~core[x].locked
      /\ \A u \in Tasks : At(u, x) => u = t
      /\ NoRepeats(inode_open_list') /\ ToSet(inode_open_list') = Opened \ {x}
      /\ CallsBut(t)
      /\ call'[t] = Has(IF core[x].inode.nlinks = 0 THEN "free" ELSE "put", x, 0, Rest(t))
      /\ UNCHANGED <<inode_free_list, core, dev_use_count>>
  BY <1>1, UnlinkDoes
<1>3. /\ call'[t].pc \in {"free", "put"} /\ call'[t].x = x /\ call'[t].n = 0
      /\ \A u \in Tasks \ {t} : call'[u] = call[u]
  <2>1. 0 \in 0..MaxRefs /\ Rest(t) \in Jobs /\ {"free", "put"} \subseteq HasPcs
    BY ParametersAssumption DEF Rest, Jobs, HasPcs
  <2>2. PICK pc \in {"free", "put"} : pc = IF core[x].inode.nlinks = 0 THEN "free" ELSE "put"
    OBVIOUS
  <2>3. call'[t] = Has(pc, x, 0, Rest(t))
    BY <1>2, <2>2
  <2>. QED  BY <1>2, <2>1, <2>2, <2>3, CallParts DEF CallsBut
<1>4. Opened' = Opened \ {x} /\ Free' = Free
  BY <1>2 DEF Opened, Free
<1>5. Opened \subseteq Entries /\ x \notin Leaving
  BY <1>2 DEF Layer1, Listed
<1>6. "read" \notin HasPcs /\ "asleep" \notin HasPcs
      /\ "free" \in Closing /\ "put" \in Closing /\ "unlink" \in Closing
      /\ Closing \subseteq HasPcs
  BY DEF HasPcs, Closing
<1>7. Leaving' = Leaving \cup {x}
  BY <1>1, <1>2, <1>3 DEF Leaving
<1>8. \A u \in Tasks \ {t} : call[u].pc \in HasPcs \cup {"read"} => call[u].x # x
  BY <1>2 DEF Layer1, LocksHeld, At
<1>9. Listed'
  <2>1. \A y, z \in Opened' : core'[y].inum = core'[z].inum => y = z
    BY <1>2, <1>4 DEF Layer1, Listed
  <2>2. \A u, v \in Tasks :
          call'[u].pc \in {"free", "put"} /\ call'[v].pc \in {"free", "put"}
          /\ call'[u].x = call'[v].x => u = v
    BY <1>3, <1>6, <1>8 DEF Layer1, Listed
  <2>3. /\ Opened' \cup Free' \cup Leaving' = Entries
        /\ Opened' \cap (Free' \cup Leaving') = {} /\ Free' \cap Leaving' = {}
    BY <1>2, <1>4, <1>5, <1>7 DEF Layer1, Listed
  <2>. QED  BY <1>2, <2>1, <2>2, <2>3 DEF Layer1, Listed
<1>10. Counted'
  <2>1. ASSUME NEW y \in Opened \ {x}
        PROVE  Cardinality(References(y)') = Cardinality(References(y))
    <3>1. Refs(t, y)' = Refs(t, y)
      BY <1>1, <1>2, <1>3, <1>6, <2>1 DEF Refs
    <3>2. \A u \in Tasks \ {t} : Refs(u, y)' = Refs(u, y)
      BY <1>3 DEF Refs
    <3>. QED  BY <3>1, <3>2, ReferencesMore
  <2>. QED  BY <1>2, <1>4, <2>1 DEF Layer1, Counted
<1>11. LocksHeld'
  <2>1. \A u \in Tasks : call'[u].pc = "read" \/ call[u].pc = "read" =>
          call'[u] = call[u] /\ u # t /\ call[u].x # x
    BY <1>2, <1>3, <1>8
  <2>2. \A u \in Tasks : call'[u].pc = "read" =>
          call'[u].x \in Opened' /\ core'[call'[u].x].locked
    BY <1>2, <1>4, <2>1 DEF Layer1, LocksHeld
  <2>3. ASSUME NEW y \in Opened', core'[y].locked
        PROVE  \E u \in Tasks : call'[u].pc = "read" /\ call'[u].x = y
    <3>1. y \in Opened /\ core[y].locked
      BY <1>2, <1>4, <2>3
    <3>2. PICK u \in Tasks : Reads(u, y)
      BY <3>1 DEF Layer1, LocksHeld
    <3>. QED  BY <2>1, <3>2 DEF Reads
  <2>4. \A u, v \in Tasks : \A y \in Opened' :
          call'[u].pc = "read" /\ call'[u].x = y /\ call'[v].pc = "read" /\ call'[v].x = y
          => u = v
    BY <1>4, <2>1 DEF Layer1, LocksHeld, Reads
  <2>. QED  BY <2>2, <2>3, <2>4 DEF LocksHeld, Reads
<1>12. UsersHold'
  <2>1. \A u \in Tasks : call'[u].pc \in HasPcs /\ call'[u].pc \notin {"free", "put"} =>
          call'[u] = call[u] /\ call[u].x # x
    BY <1>3, <1>8
  <2>2. \A u \in Tasks : call'[u].pc \in HasPcs \ Closing =>
          call'[u].n >= 1 /\ call'[u].x \in Opened' /\ ~core'[call'[u].x].locked
    BY <1>2, <1>4, <1>6, <2>1 DEF Layer1, UsersHold
  <2>3. \A u \in Tasks : call'[u].pc \in Closing => call'[u].n = 0
    BY <1>3 DEF Layer1, UsersHold
  <2>4. ASSUME NEW u \in Tasks, call'[u].pc = "unlink", NEW y, y = call'[u].x
        PROVE  /\ y \in Opened' /\ ~core'[y].locked
               /\ \A v \in Tasks : At(v, y)' => v = u
    <3>1. call[u].pc = "unlink" /\ call[u].x = y /\ y # x
      BY <1>6, <2>1, <2>4
    <3>2. /\ y \in Opened /\ ~core[y].locked
          /\ \A v \in Tasks : At(v, y) => v = u
      BY <3>1 DEF Layer1, UsersHold
    <3>3. \A v \in Tasks : At(v, y)' => At(v, y)
      BY <1>3, <3>1 DEF At
    <3>. QED  BY <1>2, <1>4, <3>1, <3>2, <3>3
  <2>5. \A u \in Tasks : Fits(call'[u])
    <3>1. Fits(call'[t])
      BY <1>3 DEF Fits
    <3>. QED  BY <1>3, <3>1 DEF Layer1, UsersHold
  <2>. QED  BY <2>2, <2>3, <2>4, <2>5 DEF UsersHold
<1>13. SleepersSafe'
  <2>1. \A u \in Tasks : call'[u].pc = "asleep" => call'[u] = call[u]
    BY <1>3
  <2>2. \A u \in Tasks : call[u].pc = "read" => call'[u] = call[u]
    BY <1>2, <1>3
  <2>. QED  BY <2>1, <2>2 DEF Layer1, SleepersSafe, Reads
<1>. QED
  BY <1>9, <1>10, <1>11, <1>12, <1>13 DEF Layer1

\* An inode is freed on disk.
LEMMA FreeFirst ==
  ASSUME TypeOK, TypeOK', Layer1, NEW t \in Tasks, close_inode_free(t)
  PROVE  Layer1'
<1>1. PICK x : x = call[t].x
  OBVIOUS
<1>2. /\ call[t].pc = "free" /\ x \in Entries /\ CallsBut(t)
      /\ call'[t] = Has("put", x, 0, Rest(t))
      /\ UNCHANGED <<inode_open_list, inode_free_list, core, dev_use_count>>
  BY <1>1, FreeDoes DEF lists
<1>3. /\ call'[t].pc = "put" /\ call'[t].x = x /\ call'[t].n = 0
      /\ \A u \in Tasks \ {t} : call'[u] = call[u]
  <2>1. 0 \in 0..MaxRefs /\ Rest(t) \in Jobs /\ "put" \in HasPcs
    BY ParametersAssumption DEF Rest, Jobs, HasPcs
  <2>. QED  BY <1>2, <2>1, CallParts DEF CallsBut
<1>4. Opened' = Opened /\ Free' = Free
  BY <1>2 DEF Opened, Free
<1>5. "free" \in Closing /\ Closing \subseteq HasPcs
  BY DEF HasPcs, Closing
<1>6. Leaving' = Leaving
  BY <1>1, <1>2, <1>3 DEF Leaving
<1>7. Listed'
  <2>1. \A y, z \in Opened' : core'[y].inum = core'[z].inum => y = z
    BY <1>2, <1>4 DEF Layer1, Listed
  <2>2. \A u, v \in Tasks :
          call'[u].pc \in {"free", "put"} /\ call'[v].pc \in {"free", "put"}
          /\ call'[u].x = call'[v].x => u = v
    BY <1>1, <1>2, <1>3 DEF Layer1, Listed
  <2>. QED  BY <1>2, <1>4, <1>6, <2>1, <2>2 DEF Layer1, Listed
<1>8. Counted'
  <2>1. ASSUME NEW y \in Opened PROVE Cardinality(References(y)') = Cardinality(References(y))
    <3>1. Refs(t, y)' = 0
      BY <1>3 DEF Refs
    <3>2. Refs(t, y) = 0
      BY <1>2, <1>5, WhoHas DEF Refs
    <3>3. \A u \in Tasks \ {t} : Refs(u, y)' = Refs(u, y)
      BY <1>3 DEF Refs
    <3>. QED  BY <3>1, <3>2, <3>3, ReferencesMore
  <2>. QED  BY <1>2, <1>4, <2>1 DEF Layer1, Counted
<1>9. LocksHeld'
  <2>1. \A u \in Tasks, y \in Entries : Reads(u, y)' <=> Reads(u, y)
    BY <1>2, <1>3 DEF Reads
  <2>2. \A u \in Tasks : call'[u].pc = "read" => call'[u] = call[u]
    BY <1>3
  <2>3. Opened \subseteq Entries
    BY DEF Layer1, Listed
  <2>. QED  BY <1>2, <1>4, <2>1, <2>2, <2>3 DEF Layer1, LocksHeld
<1>10. UsersHold'
  <2>1. \A u \in Tasks : call'[u].pc \in HasPcs /\ call'[u].pc # "put" => call'[u] = call[u]
    BY <1>3
  <2>2. \A u \in Tasks : call'[u].pc \in HasPcs \ Closing =>
          call'[u].n >= 1 /\ call'[u].x \in Opened' /\ ~core'[call'[u].x].locked
    BY <1>2, <1>4, <2>1 DEF Layer1, UsersHold, Closing
  <2>3. \A u \in Tasks : call'[u].pc \in Closing => call'[u].n = 0
    BY <1>3 DEF Layer1, UsersHold
  <2>4. ASSUME NEW u \in Tasks, call'[u].pc = "unlink", NEW y, y = call'[u].x
        PROVE  /\ y \in Opened' /\ ~core'[y].locked
               /\ \A v \in Tasks : At(v, y)' => v = u
    <3>1. call[u].pc = "unlink" /\ call[u].x = y
      BY <1>3, <2>4
    <3>2. /\ y \in Opened /\ ~core[y].locked
          /\ \A v \in Tasks : At(v, y) => v = u
      BY <3>1 DEF Layer1, UsersHold
    <3>3. \A v \in Tasks : At(v, y)' => At(v, y)
      BY <1>1, <1>2, <1>3, <1>5 DEF At
    <3>. QED  BY <1>2, <1>4, <3>2, <3>3
  <2>5. \A u \in Tasks : Fits(call'[u])
    <3>1. Fits(call'[t])
      BY <1>3 DEF Fits
    <3>. QED  BY <1>3, <3>1 DEF Layer1, UsersHold
  <2>. QED  BY <2>2, <2>3, <2>4, <2>5 DEF UsersHold
<1>11. SleepersSafe'
  <2>1. \A u \in Tasks : call'[u].pc = "asleep" => call'[u] = call[u]
    BY <1>3
  <2>2. \A u \in Tasks : call[u].pc = "read" => call'[u] = call[u]
    BY <1>2, <1>3
  <2>. QED  BY <2>1, <2>2 DEF Layer1, SleepersSafe, Reads
<1>. QED
  BY <1>7, <1>8, <1>9, <1>10, <1>11 DEF Layer1

\* The entry goes on the other list.
LEMMA PutFirst ==
  ASSUME TypeOK, TypeOK', Layer1, NEW t \in Tasks, close_inode_put(t)
  PROVE  Layer1'
<1>1. PICK x : x = call[t].x
  OBVIOUS
<1>2. /\ call[t].pc = "put" /\ x \in Entries /\ x \in Leaving /\ x \notin Opened
      /\ NoRepeats(inode_free_list') /\ ToSet(inode_free_list') = Free \cup {x}
      /\ Len(inode_free_list') = Len(inode_free_list) + 1
      /\ CallsBut(t) /\ call'[t].pc \in {"idle", "undo"} /\ dev_use_count' = dev_use_count - 1
      /\ UNCHANGED <<inode_open_list, core>>
  BY <1>1, PutDoes
<1>3. call'[t].pc \in {"idle", "undo"} /\ \A u \in Tasks \ {t} : call'[u] = call[u]
  BY <1>2 DEF CallsBut
<1>4. Opened' = Opened /\ Free' = Free \cup {x}
  BY <1>2 DEF Opened, Free
<1>5. "put" \in Closing /\ Closing \subseteq HasPcs /\ "idle" \notin HasPcs /\ "undo" \notin HasPcs
  BY DEF HasPcs, Closing
<1>6. Leaving' = Leaving \ {x}
  <2>1. \A u \in Tasks \ {t} : call[u].pc \in {"free", "put"} => call[u].x # x
    BY <1>1, <1>2 DEF Layer1, Listed
  <2>2. \A y : y \in Leaving' <=> \E u \in Tasks \ {t} :
                 call[u].pc \in {"free", "put"} /\ call[u].x = y
    BY <1>3 DEF Leaving
  <2>3. \A y : y \in Leaving <=> y = x \/ \E u \in Tasks \ {t} :
                 call[u].pc \in {"free", "put"} /\ call[u].x = y
    BY <1>1, <1>2 DEF Leaving
  <2>. QED  BY <2>1, <2>2, <2>3
<1>7. Listed'
  <2>1. \A y, z \in Opened' : core'[y].inum = core'[z].inum => y = z
    BY <1>2, <1>4 DEF Layer1, Listed
  <2>2. \A u, v \in Tasks :
          call'[u].pc \in {"free", "put"} /\ call'[v].pc \in {"free", "put"}
          /\ call'[u].x = call'[v].x => u = v
    BY <1>3 DEF Layer1, Listed
  <2>3. /\ Opened' \cup Free' \cup Leaving' = Entries
        /\ Opened' \cap (Free' \cup Leaving') = {} /\ Free' \cap Leaving' = {}
    BY <1>2, <1>4, <1>6 DEF Layer1, Listed
  <2>4. dev_use_count' = 1 + NR_INODES - Len(inode_free_list')
    <3>1. dev_use_count = 1 + NR_INODES - Len(inode_free_list) /\ NR_INODES \in Nat
      BY ParametersAssumption DEF Layer1, Listed
    <3>2. Len(inode_free_list) \in Nat
      BY DEF TypeOK
    <3>. QED  BY <1>2, <3>1, <3>2
  <2>. QED  BY <1>2, <2>1, <2>2, <2>3, <2>4 DEF Layer1, Listed
<1>8. Counted'
  <2>1. ASSUME NEW y \in Opened PROVE Cardinality(References(y)') = Cardinality(References(y))
    <3>1. Refs(t, y)' = 0
      BY <1>3, <1>5 DEF Refs
    <3>2. Refs(t, y) = 0
      BY <1>2, <1>5, WhoHas DEF Refs
    <3>3. \A u \in Tasks \ {t} : Refs(u, y)' = Refs(u, y)
      BY <1>3 DEF Refs
    <3>. QED  BY <3>1, <3>2, <3>3, ReferencesMore
  <2>. QED  BY <1>2, <1>4, <2>1 DEF Layer1, Counted
<1>9. LocksHeld'
  <2>1. \A u \in Tasks, y \in Entries : Reads(u, y)' <=> Reads(u, y)
    BY <1>2, <1>3 DEF Reads
  <2>2. \A u \in Tasks : call'[u].pc = "read" => call'[u] = call[u]
    BY <1>3
  <2>3. Opened \subseteq Entries
    BY DEF Layer1, Listed
  <2>. QED  BY <1>2, <1>4, <2>1, <2>2, <2>3 DEF Layer1, LocksHeld
<1>10. UsersHold'
  <2>1. \A u \in Tasks : call'[u].pc \in HasPcs => call'[u] = call[u]
    BY <1>3, <1>5
  <2>2. \A u \in Tasks : call'[u].pc \in HasPcs \ Closing =>
          call'[u].n >= 1 /\ call'[u].x \in Opened' /\ ~core'[call'[u].x].locked
    BY <1>2, <1>4, <2>1 DEF Layer1, UsersHold
  <2>3. \A u \in Tasks : call'[u].pc \in Closing => call'[u].n = 0
    BY <1>5, <2>1 DEF Layer1, UsersHold
  <2>4. ASSUME NEW u \in Tasks, call'[u].pc = "unlink", NEW y, y = call'[u].x
        PROVE  /\ y \in Opened' /\ ~core'[y].locked
               /\ \A v \in Tasks : At(v, y)' => v = u
    <3>1. call[u].pc = "unlink" /\ call[u].x = y
      BY <1>3, <2>4
    <3>2. /\ y \in Opened /\ ~core[y].locked
          /\ \A v \in Tasks : At(v, y) => v = u
      BY <3>1 DEF Layer1, UsersHold
    <3>3. \A v \in Tasks : At(v, y)' => At(v, y)
      BY <2>1 DEF At
    <3>. QED  BY <1>2, <1>4, <3>2, <3>3
  <2>5. \A u \in Tasks : Fits(call'[u])
    <3>1. Fits(call'[t])
      BY <1>3 DEF Fits
    <3>. QED  BY <1>3, <3>1 DEF Layer1, UsersHold
  <2>. QED  BY <2>2, <2>3, <2>4, <2>5 DEF UsersHold
<1>11. SleepersSafe'
  <2>1. \A u \in Tasks : call'[u].pc = "asleep" => call'[u] = call[u]
    BY <1>3
  <2>2. \A u \in Tasks : call[u].pc = "read" => call'[u] = call[u]
    BY <1>2, <1>3
  <2>. QED  BY <2>1, <2>2 DEF Layer1, SleepersSafe, Reads
<1>. QED
  BY <1>7, <1>8, <1>9, <1>10, <1>11 DEF Layer1

-----------------------------------------------------------------------------
(* The second layer is kept.                                                *)

\* u's part in what becomes of its inode is as before, or over.
Follows(u) ==
    /\ Removing(u)' => Removing(u) /\ Inum(u)' = Inum(u)
    /\ Creating(u)' => Creating(u) /\ Inum(u)' = Inum(u)
    /\ Counting(u)' => Counting(u) /\ Inum(u)' = Inum(u)
    /\ call'[u].pc = "asleep" => call'[u].op # "create"
    /\ call'[u].pc = "make" /\ call'[u].op = "create" =>
         call[u].pc = "make" /\ call[u].op = "create"

\* Nobody is about to free another inode.
FreesFollow ==
    \A u \in Tasks : call'[u].pc = "free" =>
        call[u].pc = "free" /\ core'[call'[u].x].inum = core[call[u].x].inum

\* No inode is open that was not, or it is one that nobody creates or frees.
OpensFollow ==
    \A y \in Opened' :
        \/ \E z \in Opened : core[z].inum = core'[y].inum
        \/ \A u \in Tasks :
             /\ call[u].pc = "make" /\ call[u].op = "create" => call'[u].pc # "make"
                                                             \/ Inum(u) # core'[y].inum
             /\ call[u].pc = "free" => core[call[u].x].inum # core'[y].inum

\* A task that does nothing.
LEMMA OthersFollow ==
  ASSUME TypeOK, Claimed, NEW u \in Tasks, call'[u] = call[u],
         call[u].pc \in HasPcs \cup {"read"} =>
             core'[call[u].x].inum = core[call[u].x].inum
  PROVE  /\ Follows(u)
         /\ Removing(u)' <=> Removing(u)
         /\ Creating(u)' <=> Creating(u)
         /\ Counting(u)' <=> Counting(u)
         /\ Counting(u) \/ Removing(u) => Inum(u)' = Inum(u)
<1>1. /\ Removing(u)' <=> Removing(u)
      /\ Creating(u)' <=> Creating(u)
      /\ Counting(u)' <=> Counting(u)
  BY DEF Removing, Creating, Counting
<1>2. ASSUME Removing(u) \/ Creating(u) \/ Counting(u) PROVE Inum(u)' = Inum(u)
  <2>1. call[u].pc \in {"make", "asleep"} \/ call[u].pc \in HasPcs \cup {"read"}
    BY <1>2 DEF Removing, Creating, Counting, HasPcs
  <2>. QED  BY <2>1 DEF Inum
<1>3. call'[u].pc = "asleep" => call'[u].op # "create"
  BY DEF Claimed
<1>. QED
  BY <1>1, <1>2, <1>3 DEF Follows

\* A task that is woken goes on for the inode it waited for.
LEMMA WokenFollow ==
  ASSUME TypeOK, Claimed, NEW u \in Tasks, call[u].pc = "asleep", call'[u].pc = "make",
         call'[u].op = call[u].op, call'[u].inum = call[u].inum
  PROVE  /\ Follows(u)
         /\ ~Counting(u)' /\ ~Counting(u) /\ ~Creating(u)'
<1>1. call[u].op # "create"
  BY DEF Claimed
<1>2. Inum(u)' = Inum(u)
  BY DEF Inum
<1>3. Removing(u)' <=> Removing(u)
  BY DEF Removing
<1>4. ~Creating(u)' /\ ~Counting(u)' /\ ~Counting(u)
  BY <1>1 DEF Creating, Counting
<1>. QED
  BY <1>1, <1>2, <1>3, <1>4 DEF Follows

\* What is allocated stays claimed, if nothing is freed that is.
LEMMA ClaimedFollows ==
  ASSUME Claimed, \A u \in Tasks : Follows(u), entries' = entries, OpensFollow,
         \A i \in bitmap : i \in bitmap' \/
             /\ i \notin entries
             /\ \A u \in Tasks : Removing(u)' \/ Creating(u)' => Inum(u)' # i
  PROVE  Claimed'
<1>1. entries' \subseteq bitmap'
  BY DEF Claimed
<1>2. ASSUME NEW u \in Tasks, Removing(u)' \/ Creating(u)'
      PROVE  Inum(u)' \in bitmap' /\ Inum(u)' \notin entries'
  <2>1. (Removing(u) \/ Creating(u)) /\ Inum(u)' = Inum(u)
    BY <1>2 DEF Follows
  <2>2. Inum(u) \in bitmap \ entries
    BY <2>1 DEF Claimed
  <2>. QED  BY <1>2, <2>1, <2>2
<1>3. ASSUME NEW u \in Tasks, NEW v \in Tasks, Removing(u)' \/ Creating(u)',
             Removing(v)' \/ Creating(v)', Inum(u)' = Inum(v)'
      PROVE  u = v
  <2>1. (Removing(u) \/ Creating(u)) /\ Inum(u)' = Inum(u)
    BY <1>3 DEF Follows
  <2>2. (Removing(v) \/ Creating(v)) /\ Inum(v)' = Inum(v)
    BY <1>3 DEF Follows
  <2>. QED  BY <1>3, <2>1, <2>2 DEF Claimed
<1>4. ASSUME NEW u \in Tasks, NEW v \in Tasks, Counting(u)',
             Creating(v)' \/ Counting(v)', Inum(u)' = Inum(v)'
      PROVE  u = v
  <2>1. Counting(u) /\ Inum(u)' = Inum(u)
    BY <1>4 DEF Follows
  <2>2. (Creating(v) \/ Counting(v)) /\ Inum(v)' = Inum(v)
    BY <1>4 DEF Follows
  <2>. QED  BY <1>4, <2>1, <2>2 DEF Claimed
<1>5. \A u \in Tasks : ~(call'[u].pc = "asleep" /\ call'[u].op = "create")
  BY DEF Follows
<1>6. ASSUME NEW u \in Tasks, call'[u].pc = "make" /\ call'[u].op = "create",
             NEW y \in Opened', core'[y].inum = call'[u].inum
      PROVE  FALSE
  <2>1. call[u].pc = "make" /\ call[u].op = "create"
    BY <1>6 DEF Follows
  <2>2. Creating(u)'
    BY <1>6 DEF Creating
  <2>3. Inum(u)' = Inum(u) /\ Inum(u)' = call'[u].inum /\ Inum(u) = call[u].inum
    BY <1>6, <2>1, <2>2 DEF Follows, Inum
  <2>4. \A z \in Opened : core[z].inum # call[u].inum
    BY <2>1 DEF Claimed, open_inode, Opened
  <2>. QED  BY <1>6, <2>1, <2>3, <2>4 DEF OpensFollow
<1>7. \A u \in Tasks : call'[u].pc = "make" /\ call'[u].op = "create" =>
        {x \in Opened' : core'[x].inum = call'[u].inum} = {}
  BY <1>6
<1>. QED
  BY <1>1, <1>2, <1>3, <1>4, <1>5, <1>7 DEF Claimed, open_inode, Opened

\* What is about to be freed stays nobody's.
LEMMA AllocatedFollows ==
  ASSUME Allocated, \A u \in Tasks : Follows(u), entries' = entries, OpensFollow, FreesFollow,
         \A y \in Opened' : core'[y].inum \in bitmap',
         \A u \in Tasks : call'[u].pc = "free" => core'[call'[u].x].inum \in bitmap'
  PROVE  Allocated'
<1>1. ASSUME NEW t \in Tasks, call'[t].pc = "free", NEW i, i = core'[call'[t].x].inum
      PROVE  /\ i \in bitmap' /\ i \notin entries'
             /\ \A y \in Opened' : core'[y].inum # i
             /\ \A u \in Tasks : Removing(u)' \/ Creating(u)' => Inum(u)' # i
             /\ \A u \in Tasks : call'[u].pc = "free" /\ core'[call'[u].x].inum = i => u = t
  <2>1. call[t].pc = "free" /\ core[call[t].x].inum = i
    BY <1>1 DEF FreesFollow
  <2>2. /\ i \notin entries /\ \A z \in Opened : core[z].inum # i
        /\ \A u \in Tasks : Removing(u) \/ Creating(u) => Inum(u) # i
        /\ \A u \in Tasks : call[u].pc = "free" /\ core[call[u].x].inum = i => u = t
    BY <2>1 DEF Allocated, open_inode, Opened
  <2>3. \A y \in Opened' : core'[y].inum # i
    BY <2>1, <2>2 DEF OpensFollow
  <2>4. \A u \in Tasks : Removing(u)' \/ Creating(u)' => Inum(u)' # i
    BY <2>2 DEF Follows
  <2>5. \A u \in Tasks : call'[u].pc = "free" /\ core'[call'[u].x].inum = i => u = t
    BY <2>2 DEF FreesFollow
  <2>. QED  BY <1>1, <2>2, <2>3, <2>4, <2>5
<1>. QED
  BY <1>1 DEF Allocated, open_inode, Opened

\* Counts of links that go with the inode: from the disk to an entry that is
\* read, and from the last user to the disk.
LEMMA LinksFollow ==
  ASSUME LinksCounted, \A u \in Tasks : Follows(u), entries' = entries,
         \A u \in Tasks : Counting(u) => Counting(u)',
         \A y \in Opened' : ~core'[y].locked =>
             \/ /\ y \in Opened /\ ~core[y].locked /\ core'[y].inum = core[y].inum
                /\ core'[y].inode.nlinks = core[y].inode.nlinks
             \/ /\ core'[y].inum \in Inums /\ \A z \in open_inode(core'[y].inum) : core[z].locked
                /\ core'[y].inode.nlinks = dinode[core'[y].inum].nlinks
             \/ \A i : i = core'[y].inum => ~Linked(i)',
         \A i \in Inums : (\A z \in Opened' : core'[z].inum = i => core'[z].locked) =>
             \/ /\ \A z \in open_inode(i) : core[z].locked
                /\ dinode'[i].nlinks = dinode[i].nlinks
             \/ \E z \in open_inode(i) :
                  ~core[z].locked /\ dinode'[i].nlinks = core[z].inode.nlinks,
         \A u \in Tasks : Creating(u)' /\ call'[u].pc \notin {"make", "read", "init"} =>
             \/ core'[call'[u].x].inode.nlinks = 0
             \/ /\ call[u].pc \notin {"make", "read", "init"}
                /\ core'[call'[u].x].inode.nlinks = core[call[u].x].inode.nlinks
  PROVE  LinksCounted'
<1>1. ASSUME NEW i, Linked(i)' PROVE Linked(i) /\ Links(i)' = Links(i)
  <2>1. Linked(i)
    BY <1>1 DEF Linked, Follows
  <2>2. (\E u \in Tasks : Counting(u)' /\ Inum(u)' = i)
        <=> \E u \in Tasks : Counting(u) /\ Inum(u) = i
    BY DEF Follows
  <2>. QED  BY <2>1, <2>2 DEF Links
<1>2. ASSUME NEW y \in Opened', NEW i, i = core'[y].inum, Linked(i)', ~core'[y].locked
      PROVE  core'[y].inode.nlinks = Links(i)'
  <2>0. Linked(i) /\ Links(i)' = Links(i)
    BY <1>1, <1>2
  <2>1. CASE /\ y \in Opened /\ ~core[y].locked /\ core'[y].inum = core[y].inum
             /\ core'[y].inode.nlinks = core[y].inode.nlinks
    BY <1>2, <2>0, <2>1 DEF LinksCounted
  <2>2. CASE /\ core'[y].inum \in Inums /\ \A z \in open_inode(core'[y].inum) : core[z].locked
             /\ core'[y].inode.nlinks = dinode[core'[y].inum].nlinks
    BY <1>2, <2>0, <2>2 DEF LinksCounted
  <2>. QED  BY <1>2, <2>1, <2>2
<1>3. ASSUME NEW i \in Inums, Linked(i)', \A z \in Opened' : core'[z].inum = i => core'[z].locked
      PROVE  dinode'[i].nlinks = Links(i)'
  <2>0. Linked(i) /\ Links(i)' = Links(i)
    BY <1>1, <1>3
  <2>1. CASE /\ \A z \in open_inode(i) : core[z].locked
             /\ dinode'[i].nlinks = dinode[i].nlinks
    BY <2>0, <2>1 DEF LinksCounted
  <2>2. ASSUME NEW z \in open_inode(i), ~core[z].locked,
               dinode'[i].nlinks = core[z].inode.nlinks
        PROVE  dinode'[i].nlinks = Links(i)'
    <3>1. z \in Opened /\ core[z].inum = i
      BY DEF open_inode, Opened
    <3>. QED  BY <2>0, <2>2, <3>1 DEF LinksCounted
  <2>. QED  BY <1>3, <2>1, <2>2
<1>4. ASSUME NEW u \in Tasks, Creating(u)', call'[u].pc \notin {"make", "read", "init"}
      PROVE  core'[call'[u].x].inode.nlinks = 0
  BY <1>4 DEF LinksCounted, Follows
<1>5. (\A y \in Opened : Linked(core[y].inum) /\ ~core[y].locked =>
          core[y].inode.nlinks = Links(core[y].inum))'
  BY <1>2 DEF Linked, Links
<1>6. \A i \in Inums : Linked(i)' /\ (\A x \in open_inode(i)' : core'[x].locked) =>
        dinode'[i].nlinks = Links(i)'
  BY <1>3 DEF open_inode, Opened
<1>7. (\A u \in Tasks : Creating(u) /\ call[u].pc \notin {"make", "read", "init"} =>
          core[call[u].x].inode.nlinks = 0)'
  BY <1>4
<1>8. (\A i \in Inums : Linked(i) /\ (\A x \in open_inode(i) : core[x].locked) =>
          dinode[i].nlinks = Links(i))'
  BY <1>6
<1>. QED
  BY <1>5, <1>7, <1>8 DEF LinksCounted

\* Those who are not yet through with y, but for their last step, go on with it.
UsesFollow(y) ==
    \A u \in Tasks : Using(u, y) /\ call[u].pc # "drop" =>
        /\ Using(u, y)' /\ call'[u].pc # "drop"
        /\ call[u].pc = "dirty" => call'[u].pc = "dirty"

LEMMA UsersFollow ==
  ASSUME NEW t \in Tasks, NEW y, \A u \in Tasks \ {t} : call'[u] = call[u],
         Using(t, y) => \/ call[t].pc = "drop"
                        \/ Using(t, y)' /\ call'[t].pc # "drop" /\ call[t].pc # "dirty"
  PROVE  UsesFollow(y)
<1>1. \A u \in Tasks \ {t} : Using(u, y)' <=> Using(u, y)
  BY DEF Using
<1>. QED
  BY <1>1 DEF UsesFollow

\* What is kept stays kept, in memory or on disk.
LEMMA KeptFollows ==
  ASSUME Kept,
         \A y \in Opened' : ~core'[y].locked =>
             \/ KeptIn(y)'
             \/ /\ y \in Opened /\ ~core[y].locked /\ core'[y].inum = core[y].inum
                /\ core'[y].inode = core[y].inode /\ core'[y].dirty = core[y].dirty
                /\ dinode'[core[y].inum] = dinode[core[y].inum]
                /\ core[y].inum \in lost => core[y].inum \in lost'
                /\ UsesFollow(y)
  PROVE  Kept'
<1>1. ASSUME NEW y \in Opened, ~core[y].locked, core'[y].inum = core[y].inum,
             core'[y].inode = core[y].inode, core'[y].dirty = core[y].dirty,
             dinode'[core[y].inum] = dinode[core[y].inum],
             core[y].inum \in lost => core[y].inum \in lost', UsesFollow(y)
      PROVE  KeptIn(y)'
  <2>1. KeptIn(y)
    BY <1>1 DEF Kept
  <2>2. ASSUME \E u \in Tasks : Using(u, y) /\ call[u].pc = "dirty"
        PROVE  \E u \in Tasks : Using(u, y)' /\ call'[u].pc = "dirty"
    BY <1>1, <2>2 DEF UsesFollow
  <2>3. ASSUME \E u \in Tasks : Using(u, y) /\ call[u].pc # "drop"
        PROVE  \E u \in Tasks : Using(u, y)' /\ call'[u].pc # "drop"
    BY <1>1, <2>3 DEF UsesFollow
  <2>. QED  BY <1>1, <2>1, <2>2, <2>3 DEF KeptIn
<1>2. \A y \in Opened' : ~core'[y].locked => KeptIn(y)'
  BY <1>1
<1>. QED
  BY <1>2 DEF Kept

\* The step of a task that changes nobody's part, and no count of links.
LEMMA QuietSecond ==
  ASSUME TypeOK, TypeOK', Layer1, Layer2, NEW t \in Tasks,
         \A u \in Tasks \ {t} : call'[u] = call[u],
         UNCHANGED <<inode_open_list, bitmap, entries>>,
         \A y \in Entries : /\ core'[y].inum = core[y].inum
                            /\ core'[y].locked = core[y].locked
                            /\ core'[y].inode.nlinks = core[y].inode.nlinks,
         \A i \in Inums : dinode'[i] = dinode[i] \/ \E z \in open_inode(i) : ~core[z].locked,
         Follows(t), Counting(t) => Counting(t)', call'[t].pc # "free",
         Creating(t)' /\ call'[t].pc \notin {"make", "read", "init"} =>
             call[t].pc \notin {"make", "read", "init"} /\ call'[t].x = call[t].x,
         Kept'
  PROVE  Layer2'
<1>1. Claimed /\ Allocated /\ LinksCounted
  BY DEF Layer2
<1>2. Opened' = Opened /\ Opened \subseteq Entries
  BY DEF Opened, ToSet, TypeOK
<1>3. \A u \in Tasks : call[u].pc \in HasPcs \cup {"read"} => call[u].x \in Entries
  BY CallForms
<1>4. /\ \A u \in Tasks : Follows(u)
      /\ \A u \in Tasks : Counting(u) => Counting(u)'
  <2>1. ASSUME NEW u \in Tasks \ {t} PROVE Follows(u) /\ (Counting(u) => Counting(u)')
    BY <1>1, <1>3, OthersFollow
  <2>. QED  BY <2>1
<1>5. FreesFollow
  <2>1. "free" \in HasPcs
    BY DEF HasPcs
  <2>2. ASSUME NEW u \in Tasks, call'[u].pc = "free"
        PROVE  call[u].pc = "free" /\ core'[call'[u].x].inum = core[call[u].x].inum
    <3>1. call'[u] = call[u]
      BY <2>2
    <3>. QED  BY <1>3, <2>1, <2>2, <3>1
  <2>. QED  BY <2>2 DEF FreesFollow
<1>6. OpensFollow
  <2>1. \A y \in Opened' : \E z \in Opened : core[z].inum = core'[y].inum
    BY <1>2
  <2>. QED  BY <2>1 DEF OpensFollow
<1>7. Claimed'
  <2>1. \A i \in bitmap : i \in bitmap'
    OBVIOUS
  <2>2. entries' = entries
    OBVIOUS
  <2>. QED  BY <1>1, <1>4, <1>6, <2>1, <2>2, ClaimedFollows
<1>8. Allocated'
  <2>1. \A y \in Opened' : core'[y].inum \in bitmap'
    BY <1>1, <1>2 DEF Allocated
  <2>2. \A u \in Tasks : call'[u].pc = "free" => core'[call'[u].x].inum \in bitmap'
    BY <1>1, <1>5 DEF FreesFollow, Allocated
  <2>3. entries' = entries
    OBVIOUS
  <2>. QED  BY <1>1, <1>4, <1>5, <1>6, <2>1, <2>2, <2>3, AllocatedFollows
<1>9. LinksCounted'
  <2>1. \A y \in Opened' : ~core'[y].locked =>
          /\ y \in Opened /\ ~core[y].locked /\ core'[y].inum = core[y].inum
          /\ core'[y].inode.nlinks = core[y].inode.nlinks
    BY <1>2
  <2>2. ASSUME NEW i \in Inums, \A z \in Opened' : core'[z].inum = i => core'[z].locked
        PROVE  /\ \A z \in open_inode(i) : core[z].locked
               /\ dinode'[i].nlinks = dinode[i].nlinks
    <3>1. \A z \in open_inode(i) : core[z].locked
      BY <1>2, <2>2 DEF open_inode, Opened
    <3>. QED  BY <3>1
  <2>3. ASSUME NEW u \in Tasks, Creating(u)', call'[u].pc \notin {"make", "read", "init"}
        PROVE  /\ call[u].pc \notin {"make", "read", "init"}
               /\ core'[call'[u].x].inode.nlinks = core[call[u].x].inode.nlinks
    <3>1. call[u].pc \notin {"make", "read", "init"} /\ call'[u].x = call[u].x
      BY <2>3
    <3>2. Creating(u)
      BY <1>4, <2>3 DEF Follows
    <3>3. call[u].pc \in HasPcs
      BY <3>1, <3>2 DEF Creating, HasPcs
    <3>. QED  BY <1>3, <3>1, <3>3
  <2>4. entries' = entries
    OBVIOUS
  <2>. QED  BY <1>1, <1>4, <2>1, <2>2, <2>3, <2>4, LinksFollow
<1>. QED
  BY <1>7, <1>8, <1>9 DEF Layer2

-----------------------------------------------------------------------------
(* The steps.                                                               *)

\* The places of a create_file() in which it closes its inode.
Writing == {"test", "copy", "clear", "drop"}

\* A task goes on with its inode, but not to or from one of the steps that
\* change a part in what becomes of it.
LEMMA StaysSound ==
  ASSUME TypeOK, Layer1, Layer2, NEW t \in Tasks, NEW x, x = call[t].x, NEW pc, NEW job,
         Stays(t, pc, job),
         call[t].pc \notin {"init", "count"}, pc \notin {"init", "entry", "count", "remove"},
         job = "make_file" => pc \in Writing /\ call[t].pc \in Writing
                              /\ call[t].job = "make_file",
         UNCHANGED <<bitmap, entries>>, dinode' \in [Inums -> Contents],
         lost' \in SUBSET Inums, clash' \in Clashes,
         core'[x].inode.nlinks = core[x].inode.nlinks,
         \A i \in Inums : i # core[x].inum =>
             dinode'[i] = dinode[i] /\ (i \in lost => i \in lost'),
         clash' = "none" =>
             \/ KeptIn(x)'
             \/ /\ core'[x].inode = core[x].inode /\ core'[x].dirty = core[x].dirty
                /\ UNCHANGED <<dinode, lost>> /\ pc # "drop" /\ call[t].pc # "dirty"
  PROVE  IInv'
<1>1. /\ x \in Entries /\ call[t].n \in 0..MaxRefs /\ call[t].pc \in HasPcs \ Closing
      /\ call[t].job \in Jobs /\ pc \in HasPcs \ Closing /\ job \in Jobs
  BY CallForms DEF Stays
<1>2. call'[t].pc = pc /\ call'[t].x = x /\ call'[t].n = call[t].n /\ call'[t].job = job
  BY <1>1, CallParts DEF Stays
<1>3. /\ \A u \in Tasks \ {t} : call'[u] = call[u]
      /\ \A y \in Entries \ {x} : core'[y] = core[y]
      /\ core'[x].inum = core[x].inum /\ core'[x].locked = core[x].locked
      /\ UNCHANGED <<inode_open_list, inode_free_list, dev_use_count>>
  BY DEF Stays, CallsBut, CoreBut, lists
<1>4. x \in Opened /\ ~core[x].locked
  BY <1>1 DEF Layer1, UsersHold
<1>5. TypeOK'
  BY <1>3 DEF TypeOK, Stays, CallsBut, CoreBut
<1>6. Fits(call'[t])
  <2>1. Fits(call[t])
    BY DEF Layer1, UsersHold
  <2>. QED  BY <1>2, <2>1 DEF Fits, Writing
<1>7. Layer1'
  BY <1>5, <1>6, StaysFirst
<1>8. SUFFICES ASSUME clash' = "none" PROVE Layer2'
  BY <1>5, <1>7 DEF IInv
<1>9. Kept'
  <2>1. Opened' = Opened /\ Opened \subseteq Entries
    BY <1>3 DEF Opened, ToSet, TypeOK
  <2>2. ASSUME NEW y \in Opened', y # x
        PROVE  /\ core'[y] = core[y] /\ UsesFollow(y)
               /\ dinode'[core[y].inum] = dinode[core[y].inum]
               /\ core[y].inum \in lost => core[y].inum \in lost'
    <3>1. core[y].inum # core[x].inum
      BY <1>4, <2>1, <2>2 DEF Layer1, Listed
    <3>2. core[y].inum \in Inums
      BY <2>1, CoreForm
    <3>3. UsesFollow(y)
      <4>1. ~Using(t, y)
        BY <2>2 DEF Using
      <4>. QED  BY <1>3, <4>1, UsersFollow
    <3>. QED  BY <1>3, <2>1, <2>2, <3>1, <3>2, <3>3
  <2>3. KeptIn(x)' \/ /\ core'[x].inode = core[x].inode /\ core'[x].dirty = core[x].dirty
                      /\ UNCHANGED <<dinode, lost>> /\ UsesFollow(x)
    <3>1. SUFFICES ASSUME pc # "drop", call[t].pc # "dirty" PROVE UsesFollow(x)
      BY <1>8
    <3>2. Using(t, x)'
      BY <1>1, <1>2 DEF Using
    <3>. QED  BY <1>2, <1>3, <3>1, <3>2, UsersFollow
  <2>4. \A y \in Opened' : ~core'[y].locked =>
             \/ KeptIn(y)'
             \/ /\ y \in Opened /\ ~core[y].locked /\ core'[y].inum = core[y].inum
                /\ core'[y].inode = core[y].inode /\ core'[y].dirty = core[y].dirty
                /\ dinode'[core[y].inum] = dinode[core[y].inum]
                /\ core[y].inum \in lost => core[y].inum \in lost'
                /\ UsesFollow(y)
    <3>1. ASSUME NEW y \in Opened', y # x
          PROVE  ~core'[y].locked =>
                   /\ y \in Opened /\ ~core[y].locked /\ core'[y].inum = core[y].inum
                   /\ core'[y].inode = core[y].inode /\ core'[y].dirty = core[y].dirty
                   /\ dinode'[core[y].inum] = dinode[core[y].inum]
                   /\ core[y].inum \in lost => core[y].inum \in lost'
                   /\ UsesFollow(y)
      BY <2>1, <2>2, <3>1
    <3>. QED  BY <1>3, <1>4, <2>3, <3>1
  <2>. QED  BY <2>4, KeptFollows DEF Layer2
<1>10. Layer2'
  <2>1. \A y \in Entries : /\ core'[y].inum = core[y].inum
                            /\ core'[y].locked = core[y].locked
                            /\ core'[y].inode.nlinks = core[y].inode.nlinks
    BY <1>3
  <2>2. \A i \in Inums : dinode'[i] = dinode[i] \/ \E z \in open_inode(i) : ~core[z].locked
    <3>1. x \in open_inode(core[x].inum)
      BY <1>4 DEF open_inode, Opened
    <3>. QED  BY <1>4, <3>1
  <2>3. /\ Removing(t)' => FALSE
        /\ Creating(t)' => Creating(t) /\ call[t].pc \in Writing
        /\ Counting(t)' => FALSE
        /\ Counting(t) => FALSE
    BY <1>1, <1>2 DEF Removing, Creating, Counting, HasPcs, Writing
  <2>4. Inum(t)' = Inum(t)
    BY <1>1, <1>2, <1>3 DEF Inum, HasPcs
  <2>5. call'[t].pc # "asleep" /\ call'[t].pc # "make" /\ call'[t].pc # "free"
    BY <1>1, <1>2 DEF HasPcs, Closing
  <2>6. Follows(t)
    BY <2>3, <2>4, <2>5 DEF Follows
  <2>7. Creating(t)' /\ call'[t].pc \notin {"make", "read", "init"} =>
             call[t].pc \notin {"make", "read", "init"} /\ call'[t].x = call[t].x
    BY <1>2, <2>3 DEF Writing
  <2>. QED  BY <1>3, <1>5, <1>9, <2>1, <2>2, <2>3, <2>5, <2>6, <2>7, QuietSecond
<1>. QED
  BY <1>10

\* The inode is changed and kept.
LEMMA ModifySound ==
  ASSUME TypeOK, Layer1, Layer2, clash = "none", NEW t \in Tasks, NEW s \in Stamps, Modify(t, s)
  PROVE  IInv'
<1>1. PICK x : x = call[t].x
  OBVIOUS
<1>2. call[t].pc = "have" /\ "have" \in HasPcs \ Closing /\ "none" \in Jobs
  BY DEF Modify, HasPcs, Closing, Jobs
<1>3. x \in Entries /\ core[x].inode \in Contents
  BY <1>1, <1>2, CallForms, CoreForm
<1>4. PICK inode \in Contents :
        inode = [core[x].inode EXCEPT !.stamp = s] /\ inode.nlinks = core[x].inode.nlinks
  <2>1. PICK c \in Contents : c = core[x].inode
    BY <1>3
  <2>2. /\ [c EXCEPT !.stamp = s] \in Contents
        /\ [c EXCEPT !.stamp = s].nlinks = c.nlinks
    BY DEF Contents
  <2>. QED  BY <2>1, <2>2
<1>5. Change(t, inode, "none")
  BY <1>1, <1>4 DEF Modify
<1>6. /\ Stays(t, "dirty", "none")
      /\ core'[x].inode = inode /\ core'[x].dirty = core[x].dirty
      /\ UNCHANGED <<ondisk, clash, lost>>
  BY <1>1, <1>2, <1>5, ChangeDoes
<1>7. UNCHANGED <<dinode, bitmap, entries, clash, lost>>
  BY <1>6 DEF ondisk
<1>8. KeptIn(x)'
  <2>1. call'[t].pc = "dirty" /\ call'[t].x = x /\ "dirty" \in HasPcs \ Closing
    <3>1. call[t].n \in 0..MaxRefs /\ "dirty" \in HasPcs \ Closing
      BY <1>2, CallForms DEF HasPcs, Closing
    <3>. QED  BY <1>1, <1>2, <1>3, <1>6, <3>1, CallParts DEF Stays
  <2>2. Using(t, x)' /\ call'[t].pc = "dirty" /\ call'[t].pc # "drop"
    BY <2>1 DEF Using
  <2>. QED  BY <2>2 DEF KeptIn
<1>9. clash' \in Clashes /\ lost' \in SUBSET Inums /\ dinode' \in [Inums -> Contents]
  BY <1>7 DEF TypeOK
<1>10. \A i \in Inums : dinode'[i] = dinode[i] /\ (i \in lost => i \in lost')
  BY <1>7
<1>11. core'[x].inode.nlinks = core[x].inode.nlinks
  BY <1>4, <1>6
<1>. QED
  BY <1>1, <1>2, <1>11, <1>6, <1>7, <1>8, <1>9, <1>10, StaysSound

\* write_inode() is called.
LEMMA BeginSound ==
  ASSUME TypeOK, Layer1, Layer2, clash = "none", NEW t \in Tasks,
         NEW job \in {"write", "close"}, Begin(t, job)
  PROVE  IInv'
<1>1. PICK x : x = call[t].x
  OBVIOUS
<1>2. /\ call[t].pc = "have" /\ "have" \in HasPcs \ Closing /\ "test" \in HasPcs \ Closing
      /\ job \in Jobs /\ job # "make_file"
  BY DEF Begin, HasPcs, Closing, Jobs
<1>3. /\ GoOn(t, "test", call[t].n, job)
      /\ UNCHANGED <<lists, core, dev_use_count, dinode, bitmap, entries, clash, lost>>
  BY DEF Begin, ondisk
<1>4. Stays(t, "test", job)
  BY <1>2, <1>3, GoOnDoes
<1>5. clash' \in Clashes /\ lost' \in SUBSET Inums /\ dinode' \in [Inums -> Contents]
  BY <1>3 DEF TypeOK
<1>6. \A i \in Inums : dinode'[i] = dinode[i] /\ (i \in lost => i \in lost')
  BY <1>3
<1>. QED
  BY <1>1, <1>2, <1>3, <1>4, <1>5, <1>6, StaysSound

\* Where a task is after write_inode().
LEMMA WrittenParts ==
  ASSUME TypeOK, NEW t \in Tasks, call[t].pc \in {"test", "copy", "clear"}, Goto(t, Written(t))
  PROVE  \E pc \in {"have", "drop"}, job \in Jobs :
           /\ GoOn(t, pc, call[t].n, job)
           /\ job = "make_file" => pc = "drop" /\ call[t].job = "make_file"
<1>1. call[t].job \in Jobs
  BY CallForms DEF HasPcs
<1>2. CASE call[t].job = "write"
  <2>1. GoOn(t, "have", call[t].n, "none")
    BY <1>2 DEF Written, GoOn
  <2>. QED  BY <2>1 DEF Jobs
<1>3. CASE call[t].job # "write"
  <2>1. GoOn(t, "drop", call[t].n, call[t].job)
    BY <1>3 DEF Written, GoOn
  <2>. QED  BY <1>1, <2>1
<1>. QED
  BY <1>2, <1>3

\* write_inode() looks at the flag.
LEMMA TestSound ==
  ASSUME TypeOK, Layer1, Layer2, clash = "none", NEW t \in Tasks, write_inode_test(t)
  PROVE  IInv'
<1>1. PICK x : x = call[t].x
  OBVIOUS
<1>2. /\ call[t].pc = "test" /\ "test" \in HasPcs \ Closing /\ "copy" \in HasPcs \ Closing
      /\ {"have", "drop"} \subseteq HasPcs \ Closing
  BY DEF write_inode_test, HasPcs, Closing
<1>3. /\ UNCHANGED <<lists, core, dev_use_count, dinode, bitmap, entries, clash, lost>>
      /\ call[t].job \in Jobs
  BY <1>2, CallForms DEF write_inode_test, ondisk
<1>4. clash' \in Clashes /\ lost' \in SUBSET Inums /\ dinode' \in [Inums -> Contents]
  BY <1>3 DEF TypeOK
<1>5. \A i \in Inums : dinode'[i] = dinode[i] /\ (i \in lost => i \in lost')
  BY <1>3
<1>6. CASE core[x].dirty
  <2>1. GoOn(t, "copy", call[t].n, call[t].job)
    BY <1>1, <1>6 DEF write_inode_test
  <2>2. Stays(t, "copy", call[t].job)
    BY <1>2, <1>3, <2>1, GoOnDoes
  <2>. QED  BY <1>1, <1>2, <1>3, <1>4, <1>5, <2>2, StaysSound DEF Writing
<1>7. CASE ~core[x].dirty
  <2>1. Goto(t, Written(t))
    BY <1>1, <1>7 DEF write_inode_test
  <2>2. PICK pc \in {"have", "drop"}, job \in Jobs :
           /\ GoOn(t, pc, call[t].n, job)
           /\ job = "make_file" => pc = "drop" /\ call[t].job = "make_file"
    BY <1>2, <2>1, WrittenParts
  <2>3. Stays(t, pc, job)
    BY <1>2, <1>3, <2>2, GoOnDoes
  <2>4. KeptIn(x)'
    <3>1. KeptIn(x)
      BY <1>1, <1>2 DEF Layer1, UsersHold, Layer2, Kept
    <3>2. \A u \in Tasks : Using(u, x) /\ call[u].pc = "dirty" => call'[u] = call[u]
      BY <1>2, <2>3 DEF Stays, CallsBut
    <3>. QED  BY <1>3, <1>7, <3>1, <3>2 DEF KeptIn, Using
  <2>. QED  BY <1>1, <1>2, <1>3, <1>4, <1>5, <2>2, <2>3, <2>4, StaysSound DEF Writing
<1>. QED
  BY <1>6, <1>7

\* The inode's block is written.
LEMMA CopySound ==
  ASSUME TypeOK, Layer1, Layer2, clash = "none", NEW t \in Tasks, write_inode_copy(t)
  PROVE  IInv'
<1>1. PICK x : x = call[t].x
  OBVIOUS
<1>2. /\ call[t].pc = "copy" /\ "copy" \in HasPcs \ Closing /\ "clear" \in HasPcs \ Closing
  BY DEF write_inode_copy, HasPcs, Closing
<1>3. /\ UNCHANGED <<lists, core, dev_use_count, bitmap, entries, clash>>
      /\ dinode' = [dinode EXCEPT ![core[x].inum] = core[x].inode]
      /\ lost' = lost \ {core[x].inum} /\ GoOn(t, "clear", call[t].n, call[t].job)
  BY <1>1 DEF write_inode_copy
<1>4. x \in Entries /\ call[t].job \in Jobs /\ call[t].n \in 0..MaxRefs
  BY <1>1, <1>2, CallForms
<1>5. core[x].inum \in Inums /\ core[x].inode \in Contents
  BY <1>4, CoreForm
<1>6. /\ clash' \in Clashes /\ lost' \in SUBSET Inums /\ dinode' \in [Inums -> Contents]
      /\ dinode'[core[x].inum] = core[x].inode
      /\ \A i \in Inums : i # core[x].inum => dinode'[i] = dinode[i]
  BY <1>3, <1>5 DEF TypeOK
<1>7. \A i \in Inums : i # core[x].inum => (i \in lost => i \in lost')
  BY <1>3
<1>8. Stays(t, "clear", call[t].job)
  BY <1>2, <1>3, <1>4, GoOnDoes
<1>9. KeptIn(x)'
  <2>1. call'[t].pc = "clear" /\ call'[t].x = x
    BY <1>1, <1>2, <1>4, <1>8, CallParts DEF Stays
  <2>2. Using(t, x)' /\ call'[t].pc # "drop"
    BY <1>2, <2>1 DEF Using
  <2>. QED  BY <1>3, <1>6, <2>2 DEF KeptIn
<1>. QED
  BY <1>1, <1>2, <1>3, <1>6, <1>7, <1>8, <1>9, StaysSound DEF Writing

\* write_inode() finds no buffer.
LEMMA FailsSound ==
  ASSUME TypeOK, Layer1, Layer2, clash = "none", NEW t \in Tasks, write_inode_fails(t)
  PROVE  IInv'
<1>1. PICK x : x = call[t].x
  OBVIOUS
<1>2. /\ call[t].pc = "copy" /\ "copy" \in HasPcs \ Closing
      /\ {"have", "drop"} \subseteq HasPcs \ Closing
  BY DEF write_inode_fails, HasPcs, Closing
<1>3. /\ UNCHANGED <<lists, core, dev_use_count, dinode, bitmap, entries, clash>>
      /\ lost' = lost \cup {core[x].inum} /\ Goto(t, Written(t))
  BY <1>1 DEF write_inode_fails, ondisk
<1>4. x \in Entries /\ call[t].job \in Jobs
  BY <1>1, <1>2, CallForms
<1>5. core[x].inum \in Inums
  BY <1>4, CoreForm
<1>6. clash' \in Clashes /\ lost' \in SUBSET Inums /\ dinode' \in [Inums -> Contents]
  BY <1>3, <1>5 DEF TypeOK
<1>7. \A i \in Inums : dinode'[i] = dinode[i] /\ (i \in lost => i \in lost')
  BY <1>3
<1>8. PICK pc \in {"have", "drop"}, job \in Jobs :
         /\ GoOn(t, pc, call[t].n, job)
         /\ job = "make_file" => pc = "drop" /\ call[t].job = "make_file"
  BY <1>2, <1>3, WrittenParts
<1>9. Stays(t, pc, job)
  BY <1>2, <1>3, <1>8, GoOnDoes
<1>10. KeptIn(x)'
  <2>1. KeptIn(x)
    BY <1>1, <1>2 DEF Layer1, UsersHold, Layer2, Kept
  <2>2. \A u \in Tasks : Using(u, x) /\ call[u].pc = "dirty" => call'[u] = call[u]
    BY <1>2, <1>9 DEF Stays, CallsBut
  <2>. QED  BY <1>3, <2>1, <2>2 DEF KeptIn, Using
<1>. QED
  BY <1>1, <1>2, <1>3, <1>6, <1>7, <1>8, <1>9, <1>10, StaysSound DEF Writing

\* The flag is cleared; either nothing has changed since the block was written,
\* or who has changed it sets the flag again.
LEMMA ClearSound ==
  ASSUME TypeOK, Layer1, Layer2, clash = "none", NEW t \in Tasks, write_inode_clear(t)
  PROVE  IInv'
<1>1. PICK x : x = call[t].x
  OBVIOUS
<1>2. /\ call[t].pc = "clear" /\ "clear" \in HasPcs \ Closing /\ "dirty" \in HasPcs \ Closing
      /\ {"have", "drop"} \subseteq HasPcs \ Closing
  BY DEF write_inode_clear, HasPcs, Closing
<1>3. /\ UNCHANGED <<lists, dev_use_count, dinode, bitmap, entries, lost>>
      /\ core' = [core EXCEPT ![x].dirty = FALSE] /\ Goto(t, Written(t))
      /\ clash' = IF \/ core[x].inode = dinode[core[x].inum]
                     \/ \E u \in Tasks : call[u].pc = "dirty" /\ call[u].x = x
                  THEN clash ELSE "overwritten"
  BY <1>1 DEF write_inode_clear, ondisk, Clash
<1>4. x \in Entries /\ call[t].job \in Jobs /\ call[t].n \in 0..MaxRefs
  BY <1>1, <1>2, CallForms
<1>5. /\ CoreBut(x) /\ core'[x].dirty = FALSE /\ core'[x].inode = core[x].inode
      /\ core'[x].inum = core[x].inum /\ core'[x].use_count = core[x].use_count
      /\ core'[x].locked = core[x].locked
  BY <1>3, <1>4, CoreSet
<1>6. clash' \in Clashes /\ lost' \in SUBSET Inums /\ dinode' \in [Inums -> Contents]
  BY <1>3 DEF TypeOK, Clashes
<1>7. \A i \in Inums : dinode'[i] = dinode[i] /\ (i \in lost => i \in lost')
  BY <1>3
<1>8. PICK pc \in {"have", "drop"}, job \in Jobs :
         /\ GoOn(t, pc, call[t].n, job)
         /\ job = "make_file" => pc = "drop" /\ call[t].job = "make_file"
  BY <1>2, <1>3, WrittenParts
<1>9. Stays(t, pc, job)
  <2>1. Has(pc, x, call[t].n, job) \in Calls
    BY <1>2, <1>4, CallParts
  <2>2. CallsBut(t) /\ call'[t] = Has(pc, x, call[t].n, job)
    BY <1>1, <1>8, <2>1, GotoParts DEF GoOn
  <2>. QED  BY <1>1, <1>2, <1>3, <1>5, <2>2 DEF Stays
<1>10. clash' = "none" => KeptIn(x)'
  <2>1. SUFFICES ASSUME clash' = "none" PROVE KeptIn(x)'
    OBVIOUS
  <2>2. \/ core[x].inode = dinode[core[x].inum]
        \/ \E u \in Tasks : call[u].pc = "dirty" /\ call[u].x = x
    BY <1>3, <2>1
  <2>3. \A u \in Tasks : call[u].pc = "dirty" => call'[u] = call[u]
    BY <1>2, <1>9 DEF Stays, CallsBut
  <2>. QED  BY <1>2, <1>3, <1>5, <2>2, <2>3 DEF KeptIn, Using
<1>. QED
  BY <1>1, <1>2, <1>3, <1>5, <1>6, <1>7, <1>8, <1>9, <1>10, StaysSound DEF Writing

\* A task gets one reference more.
LEMMA GainsSound ==
  ASSUME TypeOK, Layer1, Layer2, NEW t \in Tasks, NEW x, NEW pc, NEW n, NEW job,
         Gains(t, x, pc, n, job), Fits(call'[t]), clash' = "none",
         UNCHANGED <<dinode, bitmap, entries, lost>>,
         core'[x].inode = core[x].inode, Follows(t), ~Counting(t),
         Creating(t)' => call[t].pc = "dirty",
         KeptIn(x)' \/ /\ core'[x].dirty = core[x].dirty
                       /\ pc # "drop" /\ call[t].pc # "dirty"
  PROVE  IInv'
<1>0. x \in Opened /\ ~core[x].locked /\ Opened \subseteq Entries /\ x \in Entries
  BY DEF Gains, Opened, ToSet, TypeOK
<1>1. pc \in HasPcs \ Closing /\ n \in 0..MaxRefs /\ job \in Jobs
  BY ParametersAssumption DEF Gains
<1>2. call'[t].pc = pc /\ call'[t].x = x
  BY <1>0, <1>1, CallParts DEF Gains
<1>3. /\ \A u \in Tasks \ {t} : call'[u] = call[u]
      /\ \A y \in Entries : /\ core'[y].inum = core[y].inum
                            /\ core'[y].locked = core[y].locked
                            /\ core'[y].inode = core[y].inode
      /\ \A y \in Entries \ {x} : core'[y] = core[y]
      /\ UNCHANGED <<inode_open_list, inode_free_list, dev_use_count>>
  BY DEF Gains, CallsBut, CoreBut, lists
<1>4. TypeOK'
  <2>1. clash' \in Clashes
    BY DEF Clashes
  <2>. QED  BY <1>3, <2>1 DEF TypeOK, Gains, CallsBut, CoreBut
<1>5. Layer1'
  BY <1>4, GainsFirst
<1>6. \A y : Using(t, y) => y = x
  BY DEF Gains, Using, HasPcs
<1>7. Kept'
  <2>1. Opened' = Opened
    BY <1>3 DEF Opened
  <2>2. ASSUME NEW y \in Opened', y # x PROVE UsesFollow(y)
    BY <1>3, <1>6, <2>2, UsersFollow
  <2>3. KeptIn(x)' \/ (core'[x].dirty = core[x].dirty /\ UsesFollow(x))
    <3>1. SUFFICES ASSUME pc # "drop", call[t].pc # "dirty" PROVE UsesFollow(x)
      OBVIOUS
    <3>2. Using(t, x)'
      BY <1>1, <1>2 DEF Using
    <3>. QED  BY <1>2, <1>3, <3>1, <3>2, UsersFollow
  <2>4. \A y \in Opened' : ~core'[y].locked =>
             \/ KeptIn(y)'
             \/ /\ y \in Opened /\ ~core[y].locked /\ core'[y].inum = core[y].inum
                /\ core'[y].inode = core[y].inode /\ core'[y].dirty = core[y].dirty
                /\ dinode'[core[y].inum] = dinode[core[y].inum]
                /\ core[y].inum \in lost => core[y].inum \in lost'
                /\ UsesFollow(y)
    <3>1. ASSUME NEW y \in Opened', y # x
          PROVE  ~core'[y].locked =>
                   /\ y \in Opened /\ ~core[y].locked /\ core'[y].inum = core[y].inum
                   /\ core'[y].inode = core[y].inode /\ core'[y].dirty = core[y].dirty
                   /\ dinode'[core[y].inum] = dinode[core[y].inum]
                   /\ core[y].inum \in lost => core[y].inum \in lost'
                   /\ UsesFollow(y)
      BY <1>0, <1>3, <2>1, <2>2, <3>1
    <3>2. KeptIn(x)' \/
            /\ x \in Opened /\ ~core[x].locked /\ core'[x].inum = core[x].inum
            /\ core'[x].inode = core[x].inode /\ core'[x].dirty = core[x].dirty
            /\ dinode'[core[x].inum] = dinode[core[x].inum]
            /\ core[x].inum \in lost => core[x].inum \in lost'
            /\ UsesFollow(x)
      BY <1>0, <1>3, <2>3
    <3>. QED  BY <3>1, <3>2
  <2>. QED  BY <2>4, KeptFollows DEF Layer2
<1>8. Layer2'
  <2>1. \A y \in Entries : /\ core'[y].inum = core[y].inum
                            /\ core'[y].locked = core[y].locked
                            /\ core'[y].inode.nlinks = core[y].inode.nlinks
    BY <1>3
  <2>2. \A i \in Inums : dinode'[i] = dinode[i] \/ \E z \in open_inode(i) : ~core[z].locked
    OBVIOUS
  <2>3. call'[t].pc # "free"
    BY <1>1, <1>2 DEF Closing
  <2>4. Creating(t)' /\ call'[t].pc \notin {"make", "read", "init"} =>
             call[t].pc \notin {"make", "read", "init"} /\ call'[t].x = call[t].x
    BY <1>2 DEF Gains
  <2>5. UNCHANGED <<inode_open_list, bitmap, entries>>
    BY <1>3
  <2>6. Counting(t) => Counting(t)'
    OBVIOUS
  <2>. QED  BY <1>3, <1>4, <1>7, <2>1, <2>2, <2>3, <2>4, <2>5, <2>6, QuietSecond
<1>. QED
  BY <1>4, <1>5, <1>8 DEF IInv

\* The inode is in memory.
LEMMA HitSound ==
  ASSUME TypeOK, Layer1, Layer2, clash = "none", NEW t \in Tasks, make_inode_hit(t)
  PROVE  IInv'
<1>1. PICK x \in Opened, pc \in HasPcs \ Closing :
           /\ call[t].pc = "make" /\ call[t].op \in Ops
           /\ core[x].inum = call[t].inum /\ ~core[x].locked
           /\ pc = IF call[t].op = "open" THEN "have"
                   ELSE IF call[t].op = "create" THEN "init" ELSE "remove"
           /\ CallsBut(t) /\ call'[t] \in Calls /\ call'[t] = Has(pc, x, 1, "none")
           /\ clash' = "none" => Gains(t, x, pc, 1, "none")
           /\ CoreBut(x) /\ core'[x].inode = core[x].inode /\ core'[x].dirty = core[x].dirty
           /\ clash' \in Clashes
           /\ UNCHANGED <<lists, dev_use_count, ondisk, lost>>
  BY HitDoes
<1>2. UNCHANGED <<inode_open_list, inode_free_list, dev_use_count,
                  dinode, bitmap, entries, lost>>
  BY <1>1 DEF lists, ondisk
<1>3. TypeOK'
  BY <1>1, <1>2 DEF TypeOK, CallsBut, CoreBut
<1>4. SUFFICES ASSUME clash' = "none" PROVE IInv'
  BY <1>3 DEF IInv
<1>5. Gains(t, x, pc, 1, "none")
  BY <1>1, <1>4
<1>6. x \in Entries
  BY <1>1 DEF Opened, ToSet, TypeOK
<1>7. call'[t].pc = pc /\ call'[t].x = x /\ call'[t].n = 1 /\ call'[t].job = "none"
  <2>1. 1 \in 0..MaxRefs /\ "none" \in Jobs
    BY ParametersAssumption DEF Jobs
  <2>. QED  BY <1>1, <1>6, <2>1, CallParts
<1>8. call[t].op # "create"
  <2>1. x \in open_inode(call[t].inum)
    BY <1>1 DEF open_inode, Opened
  <2>. QED  BY <1>1, <2>1 DEF Layer2, Claimed
<1>9. pc \in {"have", "remove"} /\ (pc = "remove" => call[t].op = "remove")
  BY <1>1, <1>8 DEF Ops
<1>10. Inum(t)' = Inum(t)
  <2>1. core'[x].inum = core[x].inum
    BY <1>5 DEF Gains
  <2>. QED  BY <1>1, <1>7, <1>9, <2>1 DEF Inum
<1>11. Follows(t) /\ ~Counting(t) /\ ~Creating(t)'
  <2>1. Removing(t)' => Removing(t)
    BY <1>1, <1>7, <1>9 DEF Removing
  <2>2. ~Creating(t)' /\ ~Counting(t)' /\ ~Counting(t)
    BY <1>1, <1>7, <1>9 DEF Creating, Counting
  <2>. QED  BY <1>7, <1>9, <1>10, <2>1, <2>2 DEF Follows
<1>12. Fits(call'[t])
  BY <1>7, <1>9 DEF Fits
<1>13. pc # "drop" /\ call[t].pc # "dirty"
  BY <1>1, <1>9
<1>. QED
  BY <1>1, <1>2, <1>4, <1>5, <1>11, <1>12, <1>13, GainsSound

\* The inode is duplicated.
LEMMA DupSound ==
  ASSUME TypeOK, Layer1, Layer2, clash = "none", NEW t \in Tasks, dup_inode(t)
  PROVE  IInv'
<1>1. PICK x : x = call[t].x
  OBVIOUS
<1>2. /\ call[t].pc = "have" /\ "have" \in HasPcs \ Closing /\ call[t].n < MaxRefs
      /\ core' = [core EXCEPT ![x].use_count = @ + 1]
      /\ GoOn(t, "have", call[t].n + 1, call[t].job)
      /\ UNCHANGED <<lists, dev_use_count, ondisk, clash, lost>>
  BY <1>1 DEF dup_inode, HasPcs, Closing
<1>3. UNCHANGED <<dinode, bitmap, entries, lost>> /\ clash' = "none"
  BY <1>2 DEF ondisk
<1>4. x \in Entries /\ call[t].job \in Jobs /\ call[t].n \in 0..MaxRefs
  BY <1>1, <1>2, CallForms
<1>5. /\ CoreBut(x) /\ core'[x].use_count = core[x].use_count + 1
      /\ core'[x].inode = core[x].inode /\ core'[x].dirty = core[x].dirty
      /\ core'[x].inum = core[x].inum /\ core'[x].locked = core[x].locked
  <2>0. core[x].use_count \in Nat
    BY <1>4, CoreForm
  <2>1. PICK m \in Nat : m = core[x].use_count + 1
    BY <2>0
  <2>2. core' = [core EXCEPT ![x].use_count = m]
    BY <1>2, <2>1
  <2>. QED  BY <1>4, <2>1, <2>2, CoreSet
<1>6. Gains(t, x, "have", call[t].n + 1, call[t].job) /\ call'[t] \in Calls
  BY <1>1, <1>2, <1>5, DupDoes
<1>7. call'[t].pc = "have"
  <2>1. call[t].n + 1 \in 0..MaxRefs
    BY <1>2, <1>4, ParametersAssumption
  <2>. QED  BY <1>2, <1>4, <1>6, <2>1, CallParts DEF Gains
<1>8. Follows(t) /\ ~Counting(t) /\ ~Creating(t)'
  <2>1. ~Removing(t)' /\ ~Creating(t)' /\ ~Counting(t)' /\ ~Counting(t)
    BY <1>2, <1>7 DEF Removing, Creating, Counting
  <2>. QED  BY <1>7, <2>1 DEF Follows
<1>9. Fits(call'[t])
  BY <1>7 DEF Fits
<1>. QED
  BY <1>2, <1>3, <1>5, <1>6, <1>8, <1>9, GainsSound

\* The flag is set.
LEMMA SetDirtySound ==
  ASSUME TypeOK, Layer1, Layer2, clash = "none", NEW t \in Tasks, SetDirty(t)
  PROVE  IInv'
<1>1. PICK x : x = call[t].x
  OBVIOUS
<1>2. PICK dup : dup = IF call[t].job = "make_file" THEN 1 ELSE 0
  OBVIOUS
<1>3. PICK pc : pc = IF call[t].job = "none" THEN "have" ELSE "test"
  OBVIOUS
<1>4. /\ call[t].pc = "dirty" /\ "dirty" \in HasPcs \ Closing /\ pc \in HasPcs \ Closing
      /\ pc \in {"have", "test"}
      /\ core' = [core EXCEPT ![x].dirty = TRUE, ![x].use_count = @ + dup]
      /\ GoOn(t, pc, call[t].n + dup, call[t].job)
      /\ UNCHANGED <<lists, dev_use_count, ondisk, clash, lost>>
  BY <1>1, <1>2, <1>3 DEF SetDirty, HasPcs, Closing
<1>5. x \in Entries /\ call[t].job \in Jobs /\ call[t].n \in 0..MaxRefs /\ dup \in {0, 1}
  BY <1>1, <1>2, <1>4, CallForms
<1>6. /\ CoreBut(x) /\ core'[x].use_count = core[x].use_count + dup
      /\ core'[x].inode = core[x].inode /\ core'[x].dirty = TRUE
      /\ core'[x].inum = core[x].inum /\ core'[x].locked = core[x].locked
  <2>0. core[x].use_count \in Nat /\ core \in [Entries -> CoreInodes]
    BY <1>5, CoreForm DEF TypeOK
  <2>1. PICK m \in Nat : m = core[x].use_count + dup
    BY <1>5, <2>0
  <2>2. core' = [[core EXCEPT ![x].dirty = TRUE] EXCEPT ![x].use_count = m]
    <3>1. core' = [[core EXCEPT ![x].dirty = TRUE] EXCEPT ![x].use_count = @ + dup]
      BY <1>4, Zenon
    <3>2. PICK c : c = [core EXCEPT ![x].dirty = TRUE]
      OBVIOUS
    <3>3. c[x].use_count = core[x].use_count
      BY <1>5, <2>0, <3>2 DEF CoreInodes
    <3>4. core' = [c EXCEPT ![x].use_count = @ + dup]
      BY <3>1, <3>2
    <3>5. core' = [c EXCEPT ![x].use_count = m]
      BY <2>1, <3>3, <3>4
    <3>. QED  BY <3>2, <3>5
  <2>3. PICK c : c = [core EXCEPT ![x].dirty = TRUE]
    OBVIOUS
  <2>4. /\ c \in [Entries -> CoreInodes] /\ c[x].inode = core[x].inode
        /\ c[x].inum = core[x].inum /\ c[x].dirty = TRUE /\ c[x].locked = core[x].locked
        /\ \A y \in Entries \ {x} : c[y] = core[y]
    BY <1>5, <2>0, <2>3 DEF CoreInodes
  <2>5. core' = [c EXCEPT ![x].use_count = m]
    BY <2>2, <2>3
  <2>6. /\ core' \in [Entries -> CoreInodes] /\ core'[x].inode = c[x].inode
        /\ core'[x].inum = c[x].inum /\ core'[x].dirty = c[x].dirty
        /\ core'[x].locked = c[x].locked /\ core'[x].use_count = m
        /\ \A y \in Entries \ {x} : core'[y] = c[y]
    BY <1>5, <2>4, <2>5 DEF CoreInodes
  <2>. QED  BY <2>1, <2>4, <2>6 DEF CoreBut
<1>7. UNCHANGED <<dinode, bitmap, entries, lost>> /\ clash' = "none"
  BY <1>4 DEF ondisk
<1>8. CASE call[t].job = "make_file"
  <2>1. dup = 1 /\ pc = "test"
    BY <1>2, <1>3, <1>8
  <2>2. call[t].n = 1 /\ 1 < MaxRefs /\ call[t].n + dup = 2 /\ 2 \in 0..MaxRefs
    <3>1. call[t].n = 1
      BY <1>4, <1>8 DEF Layer1, UsersHold, Fits
    <3>. QED  BY <2>1, <3>1, ParametersAssumption
  <2>3. Gains(t, x, pc, 2, "make_file") /\ call'[t] \in Calls
    <3>1. call[t].n < MaxRefs /\ GoOn(t, pc, call[t].n + 1, call[t].job)
          /\ core'[x].use_count = core[x].use_count + 1
          /\ call[t].pc \in HasPcs \ Closing /\ call[t].n + 1 = 2
      BY <1>4, <1>6, <2>1, <2>2
    <3>2. UNCHANGED <<lists, dev_use_count>>
      BY <1>4
    <3>3. Gains(t, x, pc, call[t].n + 1, call[t].job) /\ call'[t] \in Calls
      BY <1>1, <1>4, <1>6, <3>1, <3>2, DupDoes
    <3>. QED  BY <1>8, <3>1, <3>3
  <2>4. call'[t].pc = "test" /\ call'[t].x = x /\ call'[t].n = 2 /\ call'[t].job = "make_file"
    <3>1. call'[t] = Has(pc, x, 2, "make_file") /\ "make_file" \in Jobs
      BY <2>3 DEF Gains, Jobs
    <3>. QED  BY <1>4, <1>5, <2>1, <2>2, <3>1, CallParts
  <2>5. /\ ~Removing(t)' /\ ~Counting(t)' /\ ~Counting(t) /\ Creating(t)
        /\ Inum(t)' = Inum(t)
    BY <1>1, <1>4, <1>6, <1>8, <2>4 DEF Removing, Creating, Counting, Inum
  <2>6. Follows(t)
    BY <2>4, <2>5 DEF Follows
  <2>7. Fits(call'[t])
    BY <2>4 DEF Fits
  <2>8. KeptIn(x)'
    <3>1. Using(t, x)' /\ call'[t].pc # "drop"
      BY <1>4, <2>1, <2>4 DEF Using
    <3>. QED  BY <1>6, <3>1 DEF KeptIn
  <2>. QED  BY <1>4, <1>6, <1>7, <2>3, <2>5, <2>6, <2>7, <2>8, GainsSound
<1>9. CASE call[t].job # "make_file"
  <2>1. dup = 0 /\ call[t].n + dup = call[t].n
    BY <1>2, <1>5, <1>9
  <2>2. Has(pc, x, call[t].n, call[t].job) \in Calls
    BY <1>4, <1>5, CallParts
  <2>3. CallsBut(t) /\ call'[t] = Has(pc, x, call[t].n, call[t].job)
    BY <1>1, <1>4, <2>1, <2>2, GotoParts DEF GoOn
  <2>4. core'[x].use_count = core[x].use_count
    <3>1. core[x].use_count \in Nat
      BY <1>5, CoreForm
    <3>. QED  BY <1>6, <2>1, <3>1
  <2>5. Stays(t, pc, call[t].job)
    BY <1>1, <1>4, <1>5, <1>6, <2>3, <2>4 DEF Stays
  <2>6. KeptIn(x)'
    <3>1. call'[t].pc = pc /\ call'[t].x = x
      BY <1>4, <1>5, <2>3, CallParts
    <3>2. Using(t, x)' /\ call'[t].pc # "drop"
      BY <1>4, <3>1 DEF Using
    <3>. QED  BY <1>6, <3>2 DEF KeptIn
  <2>7. clash' \in Clashes /\ lost' \in SUBSET Inums /\ dinode' \in [Inums -> Contents]
    BY <1>7 DEF TypeOK, Clashes
  <2>8. \A i \in Inums : dinode'[i] = dinode[i] /\ (i \in lost => i \in lost')
    BY <1>7
  <2>. QED  BY <1>1, <1>4, <1>6, <1>7, <1>9, <2>5, <2>6, <2>7, <2>8, StaysSound
<1>. QED
  BY <1>8, <1>9

\* A reference is given back; whoever changes or writes the inode still has it.
LEMMA DropSound ==
  ASSUME TypeOK, Layer1, Layer2, clash = "none", NEW t \in Tasks, close_inode_drop(t)
  PROVE  IInv'
<1>1. PICK x : x = call[t].x
  OBVIOUS
<1>2. /\ x \in Entries /\ x \in Opened /\ call[t].pc = "drop" /\ call[t].n \in 1..MaxRefs
      /\ CallsBut(t) /\ CoreBut(x) /\ core'[x].inum = core[x].inum
      /\ core'[x].locked = core[x].locked /\ core'[x].dirty = core[x].dirty
      /\ core'[x].inode = core[x].inode
      /\ core[x].use_count = 1 =>
           call[t].n = 1 /\ call'[t] = Has("unlink", x, 0, Rest(t))
      /\ core[x].use_count # 1 /\ call[t].n = 1 => call'[t].pc \in {"idle", "undo"}
      /\ core[x].use_count # 1 /\ call[t].n # 1 =>
           call'[t] = Has(IF call[t].job = "make_file" THEN "entry" ELSE "have",
                          x, call[t].n - 1, "none")
      /\ UNCHANGED <<lists, dev_use_count, ondisk, clash, lost>>
  BY <1>1, DropDoes
<1>3. /\ \A u \in Tasks \ {t} : call'[u] = call[u]
      /\ \A y \in Entries : /\ core'[y].inum = core[y].inum
                            /\ core'[y].locked = core[y].locked
                            /\ core'[y].inode = core[y].inode
                            /\ core'[y].dirty = core[y].dirty
      /\ UNCHANGED <<inode_open_list, inode_free_list, dev_use_count,
                     dinode, bitmap, entries, clash, lost>>
  BY <1>2 DEF CallsBut, CoreBut, lists, ondisk
<1>4. TypeOK'
  BY <1>2, <1>3 DEF TypeOK, CallsBut, CoreBut
<1>5. Layer1'
  BY <1>4, DropFirst
<1>6. \/ call'[t].pc \in {"unlink", "idle", "undo", "have"}
      \/ call'[t].pc = "entry" /\ call[t].job = "make_file" /\ call'[t].x = x
  <2>0. call[t].n - 1 \in 0..MaxRefs /\ 0 \in 0..MaxRefs /\ {"none", Rest(t)} \subseteq Jobs
        /\ {"unlink", "entry", "have"} \subseteq HasPcs
    BY <1>2, ParametersAssumption DEF Rest, Jobs, HasPcs
  <2>1. CASE core[x].use_count = 1
    BY <1>2, <2>0, <2>1, CallParts
  <2>2. CASE core[x].use_count # 1 /\ call[t].n = 1
    BY <1>2, <2>2, CallParts
  <2>3. CASE core[x].use_count # 1 /\ call[t].n # 1
    <3>1. PICK pc \in {"entry", "have"} :
            pc = IF call[t].job = "make_file" THEN "entry" ELSE "have"
      OBVIOUS
    <3>2. call'[t] = Has(pc, x, call[t].n - 1, "none")
      BY <1>2, <2>3, <3>1
    <3>. QED  BY <1>2, <2>0, <3>1, <3>2, CallParts
  <2>. QED  BY <2>1, <2>2, <2>3
<1>7. Follows(t) /\ ~Counting(t) /\ ~Counting(t)'
  <2>1. ~Removing(t)' /\ ~Counting(t)' /\ ~Counting(t)
    BY <1>2, <1>6 DEF Removing, Counting
  <2>2. Creating(t)' => Creating(t) /\ Inum(t)' = Inum(t)
    BY <1>1, <1>2, <1>6 DEF Creating, Inum
  <2>3. call'[t].pc \notin {"make", "asleep"}
    BY <1>6
  <2>. QED  BY <2>1, <2>2, <2>3 DEF Follows
<1>8. Kept'
  <2>1. Opened' = Opened /\ Opened \subseteq Entries
    BY <1>3 DEF Opened, ToSet, TypeOK
  <2>2. \A y : UsesFollow(y)
    BY <1>2, <1>3, UsersFollow
  <2>. QED  BY <1>3, <2>1, <2>2, KeptFollows DEF Layer2
<1>9. Layer2'
  <2>1. \A y \in Entries : /\ core'[y].inum = core[y].inum
                            /\ core'[y].locked = core[y].locked
                            /\ core'[y].inode.nlinks = core[y].inode.nlinks
    BY <1>3
  <2>2. \A i \in Inums : dinode'[i] = dinode[i] \/ \E z \in open_inode(i) : ~core[z].locked
    BY <1>3
  <2>3. call'[t].pc # "free"
    BY <1>6
  <2>4. Creating(t)' /\ call'[t].pc \notin {"make", "read", "init"} =>
             call[t].pc \notin {"make", "read", "init"} /\ call'[t].x = call[t].x
    BY <1>1, <1>2, <1>6 DEF Creating
  <2>5. UNCHANGED <<inode_open_list, bitmap, entries>>
    BY <1>3
  <2>. QED  BY <1>3, <1>4, <1>7, <1>8, <2>1, <2>2, <2>3, <2>4, <2>5, QuietSecond
<1>. QED
  BY <1>4, <1>5, <1>9 DEF IInv

\* A task without an inode looks for one, or waits for it.
LEMMA OutsideSound ==
  ASSUME TypeOK, Layer1, Layer2, clash = "none", NEW t \in Tasks, CallsBut(t),
         call[t].pc \in {"idle", "make", "undo"}, call'[t].pc \in {"idle", "make", "asleep", "undo"},
         call'[t].pc = "asleep" => \E u \in Tasks : Reads(u, call'[t].x),
         Follows(t),
         UNCHANGED <<lists, dev_use_count, core, ondisk, clash, lost>>
  PROVE  IInv'
<1>1. UNCHANGED <<inode_open_list, inode_free_list, dev_use_count, core,
                  dinode, bitmap, entries, clash, lost>>
  BY DEF lists, ondisk
<1>2. TypeOK'
  BY <1>1 DEF TypeOK, CallsBut
<1>3. Layer1'
  BY <1>2, OutsideFirst
<1>4. \A u \in Tasks \ {t} : call'[u] = call[u]
  BY DEF CallsBut
<1>5. Kept'
  <2>1. Opened' = Opened
    BY <1>1 DEF Opened
  <2>2. \A y : UsesFollow(y)
    <3>1. \A y : ~Using(t, y)
      BY DEF Using, HasPcs
    <3>. QED  BY <1>4, <3>1, UsersFollow
  <2>. QED  BY <1>1, <2>1, <2>2, KeptFollows DEF Layer2
<1>6. Layer2'
  <2>1. ~Counting(t) /\ call'[t].pc # "free"
    BY DEF Counting
  <2>2. ~(Creating(t)' /\ call'[t].pc \notin {"make", "read", "init"})
    BY DEF Creating
  <2>. QED  BY <1>1, <1>2, <1>4, <1>5, <2>1, <2>2, QuietSecond
<1>. QED
  BY <1>2, <1>3, <1>6 DEF IInv

\* The inode is being read.
LEMMA SleepSound ==
  ASSUME TypeOK, Layer1, Layer2, clash = "none", NEW t \in Tasks, make_inode_sleep(t)
  PROVE  IInv'
<1>1. PICK x \in open_inode(call[t].inum) :
        /\ call[t].pc = "make" /\ core[x].locked
        /\ Goto(t, Asleep(call[t].op, call[t].inum, x))
        /\ UNCHANGED <<lists, core, dev_use_count, ondisk, clash, lost>>
  BY DEF make_inode_sleep
<1>2. x \in Opened /\ x \in Entries
  BY DEF open_inode, Opened, ToSet, TypeOK
<1>3. call[t].op \in Ops /\ call[t].inum \in Inums
  BY <1>1, CallForms
<1>4. /\ CallsBut(t) /\ call'[t].pc = "asleep" /\ call'[t].x = x
      /\ call'[t].op = call[t].op /\ call'[t].inum = call[t].inum
  BY <1>1, <1>2, <1>3, CallParts, GotoParts
<1>5. \E u \in Tasks : Reads(u, call'[t].x)
  BY <1>1, <1>2, <1>4 DEF Layer1, LocksHeld
<1>6. call[t].op # "create"
  BY <1>1 DEF Layer2, Claimed
<1>7. Follows(t)
  <2>1. Removing(t)' => Removing(t) /\ Inum(t)' = Inum(t)
    BY <1>1, <1>4 DEF Removing, Inum
  <2>2. ~Creating(t)' /\ ~Counting(t)'
    BY <1>4 DEF Creating, Counting
  <2>. QED  BY <1>4, <1>6, <2>1, <2>2 DEF Follows
<1>. QED
  BY <1>1, <1>4, <1>5, <1>7, OutsideSound

\* find_file_entry() has found the entry.
LEMMA OpenSound ==
  ASSUME TypeOK, Layer1, Layer2, clash = "none", NEW t \in Tasks, NEW i \in Inums, Open(t, i)
  PROVE  IInv'
<1>1. /\ call[t] = Idle /\ Goto(t, Making("open", i))
      /\ UNCHANGED <<lists, core, dev_use_count, ondisk, clash, lost>>
  BY DEF Open
<1>2. call[t].pc = "idle" /\ CallsBut(t) /\ call'[t].pc = "make" /\ call'[t].op = "open"
  <2>1. "open" \in Ops
    BY DEF Ops
  <2>. QED  BY <1>1, <2>1, CallParts, GotoParts
<1>3. Follows(t)
  <2>1. ~Removing(t)' /\ ~Creating(t)' /\ ~Counting(t)'
    BY <1>2 DEF Removing, Creating, Counting
  <2>. QED  BY <1>2, <2>1 DEF Follows
<1>. QED
  BY <1>1, <1>2, <1>3, OutsideSound

\* The device has one use less: there is one to give back.
LEMMA OneLess ==
  ASSUME TypeOK, Layer1, NEW s \in Seq(Entries), NoRepeats(s),
         Len(s) = Len(inode_free_list) + 1
  PROVE  dev_use_count - 1 \in Nat
<1>1. Len(s) <= NR_INODES
  BY ListBound
<1>2. dev_use_count = 1 + NR_INODES - Len(inode_free_list) /\ NR_INODES \in Nat
  BY ParametersAssumption DEF Layer1, Listed
<1>3. Len(inode_free_list) \in Nat
  BY DEF TypeOK
<1>. QED
  BY <1>1, <1>2, <1>3

\* The entry is free again.
LEMMA PutSound ==
  ASSUME TypeOK, Layer1, Layer2, clash = "none", NEW t \in Tasks, close_inode_put(t)
  PROVE  IInv'
<1>1. PICK x : x = call[t].x
  OBVIOUS
<1>2. /\ call[t].pc = "put" /\ inode_free_list' \in Seq(Entries) /\ NoRepeats(inode_free_list')
      /\ Len(inode_free_list') = Len(inode_free_list) + 1
      /\ CallsBut(t) /\ call'[t].pc \in {"idle", "undo"} /\ dev_use_count' = dev_use_count - 1
      /\ UNCHANGED <<inode_open_list, core, ondisk, clash, lost>>
  BY <1>1, PutDoes
<1>3. UNCHANGED <<inode_open_list, core, dinode, bitmap, entries, clash, lost>>
  BY <1>2 DEF ondisk
<1>4. dev_use_count' \in Nat
  BY <1>2, OneLess
<1>5. TypeOK'
  BY <1>2, <1>3, <1>4 DEF TypeOK, CallsBut
<1>6. Layer1'
  BY <1>5, PutFirst
<1>7. call'[t].pc \in {"idle", "undo"} /\ \A u \in Tasks \ {t} : call'[u] = call[u]
  BY <1>2 DEF CallsBut
<1>8. Kept'
  <2>1. Opened' = Opened
    BY <1>3 DEF Opened
  <2>2. \A y : UsesFollow(y)
    <3>1. \A y : ~Using(t, y)
      BY <1>2 DEF Using, Closing
    <3>. QED  BY <1>7, <3>1, UsersFollow
  <2>. QED  BY <1>3, <2>1, <2>2, KeptFollows DEF Layer2
<1>9. Layer2'
  <2>1. ~Counting(t) /\ call'[t].pc # "free" /\ Follows(t) /\ ~Creating(t)'
    BY <1>2, <1>7 DEF Counting, Creating, Removing, Follows
  <2>. QED  BY <1>3, <1>5, <1>7, <1>8, <2>1, QuietSecond
<1>. QED
  BY <1>5, <1>6, <1>9 DEF IInv

\* There is no free entry; what create_file() has allocated it frees.
LEMMA FullSound ==
  ASSUME TypeOK, Layer1, Layer2, clash = "none", NEW t \in Tasks, make_inode_full(t)
  PROVE  IInv'
<1>1. PICK i : i = call[t].inum
  OBVIOUS
<1>2. /\ call[t].pc = "make" /\ open_inode(i) = {} /\ Goto(t, Idle)
      /\ bitmap' = IF call[t].op = "create" THEN bitmap \ {i} ELSE bitmap
      /\ UNCHANGED <<lists, core, dev_use_count, dinode, entries, lost, clash>>
  BY <1>1 DEF make_inode_full, Unmade
<1>3. UNCHANGED <<inode_open_list, inode_free_list, dev_use_count, core,
                  dinode, entries, clash, lost>>
  BY <1>2 DEF lists
<1>4. CallsBut(t) /\ call'[t].pc = "idle"
  BY <1>2, CallParts, GotoParts
<1>5. \A u \in Tasks \ {t} : call'[u] = call[u]
  BY <1>4 DEF CallsBut
<1>6. TypeOK'
  BY <1>2, <1>3, <1>4 DEF TypeOK, CallsBut
<1>7. Layer1'
  BY <1>2, <1>4, <1>6, OutsideFirst
<1>8. Opened' = Opened /\ Claimed /\ Allocated /\ LinksCounted /\ Kept
  BY <1>3 DEF Opened, Layer2
<1>9. /\ \A u \in Tasks : Follows(u)
      /\ \A u \in Tasks : Counting(u) => Counting(u)'
      /\ ~Removing(t)' /\ ~Creating(t)'
  <2>1. ~Removing(t)' /\ ~Creating(t)' /\ ~Counting(t)' /\ ~Counting(t)
    BY <1>2, <1>4 DEF Removing, Creating, Counting
  <2>2. Follows(t)
    BY <1>4, <2>1 DEF Follows
  <2>3. ASSUME NEW u \in Tasks \ {t} PROVE Follows(u) /\ (Counting(u) => Counting(u)')
    BY <1>3, <1>5, <1>8, OthersFollow
  <2>. QED  BY <2>1, <2>2, <2>3
<1>10. FreesFollow
  BY <1>3, <1>4, <1>5 DEF FreesFollow
<1>11. OpensFollow
  BY <1>3, <1>8 DEF OpensFollow

\* What is freed was t's alone.
<1>12. ASSUME call[t].op = "create"
       PROVE  /\ i \notin entries
              /\ \A u \in Tasks : Removing(u)' \/ Creating(u)' => Inum(u)' # i
              /\ \A y \in Opened : core[y].inum # i
              /\ \A u \in Tasks : call[u].pc = "free" => core[call[u].x].inum # i
  <2>1. Creating(t) /\ Inum(t) = i
    BY <1>1, <1>2, <1>12 DEF Creating, Inum
  <2>2. \A u \in Tasks \ {t} : Removing(u) \/ Creating(u) => Inum(u) # i
    BY <1>8, <2>1 DEF Claimed
  <2>3. \A u \in Tasks : Removing(u)' \/ Creating(u)' => Inum(u)' # i
    BY <1>9, <2>2 DEF Follows
  <2>4. \A y \in Opened : core[y].inum # i
    BY <1>2 DEF open_inode, Opened
  <2>. QED  BY <1>8, <2>1, <2>3, <2>4 DEF Claimed, Allocated
<1>13. Claimed'
  <2>1. \A j \in bitmap : j \in bitmap' \/
             /\ j \notin entries
             /\ \A u \in Tasks : Removing(u)' \/ Creating(u)' => Inum(u)' # j
    BY <1>2, <1>12
  <2>. QED  BY <1>3, <1>8, <1>9, <1>11, <2>1, ClaimedFollows
<1>14. Allocated'
  <2>1. \A y \in Opened' : core'[y].inum \in bitmap'
    BY <1>2, <1>3, <1>8, <1>12 DEF Allocated
  <2>2. \A u \in Tasks : call'[u].pc = "free" => core'[call'[u].x].inum \in bitmap'
    BY <1>2, <1>3, <1>4, <1>5, <1>8, <1>12 DEF Allocated
  <2>. QED  BY <1>3, <1>8, <1>9, <1>10, <1>11, <2>1, <2>2, AllocatedFollows
<1>15. LinksCounted'
  <2>1. \A u \in Tasks : Creating(u)' /\ call'[u].pc \notin {"make", "read", "init"} =>
          /\ call[u].pc \notin {"make", "read", "init"}
          /\ core'[call'[u].x].inode.nlinks = core[call[u].x].inode.nlinks
    BY <1>3, <1>5, <1>9
  <2>2. \A j \in Inums : (\A z \in Opened' : core'[z].inum = j => core'[z].locked) =>
          /\ \A z \in open_inode(j) : core[z].locked
          /\ dinode'[j].nlinks = dinode[j].nlinks
    BY <1>3, <1>8 DEF open_inode, Opened
  <2>. QED  BY <1>3, <1>8, <1>9, <2>1, <2>2, LinksFollow
<1>16. Kept'
  <2>1. \A y : UsesFollow(y)
    <3>1. \A y : ~Using(t, y)
      BY <1>2 DEF Using, HasPcs
    <3>. QED  BY <1>5, <3>1, UsersFollow
  <2>. QED  BY <1>3, <1>8, <2>1, KeptFollows
<1>. QED
  BY <1>6, <1>7, <1>13, <1>14, <1>15, <1>16 DEF IInv, Layer2

\* free_inode(): the inode was nobody's.
LEMMA FreeSound ==
  ASSUME TypeOK, Layer1, Layer2, clash = "none", NEW t \in Tasks, close_inode_free(t)
  PROVE  IInv'
<1>1. PICK x : x = call[t].x
  OBVIOUS
<1>2. PICK i : i = core[x].inum
  OBVIOUS
<1>3. /\ call[t].pc = "free" /\ x \in Entries /\ bitmap' = bitmap \ {i}
      /\ CallsBut(t) /\ call'[t] = Has("put", x, 0, Rest(t))
      /\ UNCHANGED <<lists, core, dev_use_count, dinode, entries, clash, lost>>
  BY <1>1, <1>2, FreeDoes
<1>4. UNCHANGED <<inode_open_list, inode_free_list, dev_use_count, core,
                  dinode, entries, clash, lost>>
  BY <1>3 DEF lists
<1>5. call'[t].pc = "put" /\ \A u \in Tasks \ {t} : call'[u] = call[u]
  <2>1. 0 \in 0..MaxRefs /\ Rest(t) \in Jobs /\ "put" \in HasPcs
    BY ParametersAssumption DEF Rest, Jobs, HasPcs
  <2>. QED  BY <1>3, <2>1, CallParts DEF CallsBut
<1>6. TypeOK'
  BY <1>3, <1>4 DEF TypeOK, CallsBut
<1>7. Layer1'
  BY <1>6, FreeFirst
<1>8. Opened' = Opened /\ Claimed /\ Allocated /\ LinksCounted /\ Kept
  BY <1>4 DEF Opened, Layer2
<1>9. /\ \A u \in Tasks : Follows(u)
      /\ \A u \in Tasks : Counting(u) => Counting(u)'
      /\ ~Removing(t)' /\ ~Creating(t)'
  <2>1. ~Removing(t)' /\ ~Creating(t)' /\ ~Counting(t)' /\ ~Counting(t)
    BY <1>3, <1>5 DEF Removing, Creating, Counting
  <2>2. Follows(t)
    BY <1>5, <2>1 DEF Follows
  <2>3. ASSUME NEW u \in Tasks \ {t} PROVE Follows(u) /\ (Counting(u) => Counting(u)')
    BY <1>4, <1>5, <1>8, OthersFollow
  <2>. QED  BY <2>1, <2>2, <2>3
<1>10. FreesFollow
  BY <1>4, <1>5 DEF FreesFollow
<1>11. OpensFollow
  BY <1>4, <1>8 DEF OpensFollow
<1>12. /\ i \notin entries
       /\ \A u \in Tasks : Removing(u)' \/ Creating(u)' => Inum(u)' # i
       /\ \A y \in Opened : core[y].inum # i
       /\ \A u \in Tasks \ {t} : call[u].pc = "free" => core[call[u].x].inum # i
  <2>1. /\ i \notin entries /\ open_inode(i) = {}
        /\ \A u \in Tasks : Removing(u) \/ Creating(u) => Inum(u) # i
        /\ \A u \in Tasks : call[u].pc = "free" /\ core[call[u].x].inum = i => u = t
    BY <1>1, <1>2, <1>3, <1>8 DEF Allocated
  <2>2. \A y \in Opened : core[y].inum # i
    BY <2>1 DEF open_inode, Opened
  <2>3. \A u \in Tasks : Removing(u)' \/ Creating(u)' => Inum(u)' # i
    BY <1>9, <2>1 DEF Follows
  <2>. QED  BY <2>1, <2>2, <2>3
<1>13. Claimed'
  <2>1. \A j \in bitmap : j \in bitmap' \/
             /\ j \notin entries
             /\ \A u \in Tasks : Removing(u)' \/ Creating(u)' => Inum(u)' # j
    BY <1>3, <1>12
  <2>. QED  BY <1>4, <1>8, <1>9, <1>11, <2>1, ClaimedFollows
<1>14. Allocated'
  <2>1. \A y \in Opened' : core'[y].inum \in bitmap'
    BY <1>3, <1>4, <1>8, <1>12 DEF Allocated
  <2>2. \A u \in Tasks : call'[u].pc = "free" => core'[call'[u].x].inum \in bitmap'
    BY <1>3, <1>4, <1>5, <1>8, <1>12 DEF Allocated
  <2>. QED  BY <1>4, <1>8, <1>9, <1>10, <1>11, <2>1, <2>2, AllocatedFollows
<1>15. LinksCounted'
  <2>1. \A u \in Tasks : Creating(u)' /\ call'[u].pc \notin {"make", "read", "init"} =>
          /\ call[u].pc \notin {"make", "read", "init"}
          /\ core'[call'[u].x].inode.nlinks = core[call[u].x].inode.nlinks
    BY <1>4, <1>5, <1>9
  <2>2. \A j \in Inums : (\A z \in Opened' : core'[z].inum = j => core'[z].locked) =>
          /\ \A z \in open_inode(j) : core[z].locked
          /\ dinode'[j].nlinks = dinode[j].nlinks
    BY <1>4, <1>8 DEF open_inode, Opened
  <2>. QED  BY <1>4, <1>8, <1>9, <2>1, <2>2, LinksFollow
<1>16. Kept'
  <2>1. \A y : UsesFollow(y)
    <3>1. \A y : ~Using(t, y)
      BY <1>3 DEF Using, Closing
    <3>. QED  BY <1>5, <3>1, UsersFollow
  <2>. QED  BY <1>4, <1>8, <2>1, KeptFollows
<1>. QED
  BY <1>6, <1>7, <1>13, <1>14, <1>15, <1>16 DEF IInv, Layer2

\* Who slept on x goes on for it, and everybody else as before.
LEMMA WakesFollow ==
  ASSUME TypeOK, Claimed, NEW x, NEW t \in Tasks, NEW c \in Calls,
         call' = [Woken(x) EXCEPT ![t] = c],
         \A y \in Entries : core'[y].inum = core[y].inum
  PROVE  \A u \in Tasks \ {t} :
           /\ Follows(u) /\ (Counting(u) => Counting(u)')
           /\ call'[u] = call[u] \/ /\ call[u].pc = "asleep" /\ call'[u].pc = "make"
                                    /\ ~Creating(u)'
<1> SUFFICES ASSUME NEW u \in Tasks \ {t}
             PROVE  /\ Follows(u) /\ (Counting(u) => Counting(u)')
                    /\ call'[u] = call[u] \/ /\ call[u].pc = "asleep" /\ call'[u].pc = "make"
                                             /\ ~Creating(u)'
  OBVIOUS
<1>1. CASE call[u].pc = "asleep" /\ call[u].x = x
  <2>1. call'[u].pc = "make" /\ call'[u].op = call[u].op /\ call'[u].inum = call[u].inum
    BY <1>1, WokenParts
  <2>. QED  BY <1>1, <2>1, WokenFollow
<1>2. CASE ~(call[u].pc = "asleep" /\ call[u].x = x)
  <2>1. call'[u] = call[u]
    BY <1>2, WokenParts
  <2>2. call[u].pc \in HasPcs \cup {"read"} => call[u].x \in Entries
    BY CallForms
  <2>. QED  BY <2>1, <2>2, OthersFollow
<1>. QED
  BY <1>1, <1>2

\* The inode is in memory as it is on disk.
LEMMA ReadSound ==
  ASSUME TypeOK, Layer1, Layer2, clash = "none", NEW t \in Tasks, read_inode(t)
  PROVE  IInv'
<1>1. PICK x : x = call[t].x
  OBVIOUS
<1>2. /\ call[t].pc = "read" /\ call[t].op \in Ops
      /\ x \in Entries /\ x \in Opened /\ core[x].locked
      /\ call'[t] = Returned(call[t].op, x)
      /\ call' = [Woken(x) EXCEPT ![t] = Returned(call[t].op, x)]
      /\ CoreBut(x) /\ core'[x].inum = core[x].inum
      /\ core'[x].use_count = core[x].use_count /\ ~core'[x].locked
      /\ ~core'[x].dirty /\ core'[x].inode = dinode[core[x].inum]
      /\ UNCHANGED <<lists, dev_use_count, ondisk, clash, lost>>
  BY <1>1, ReadDoes
<1>3. /\ UNCHANGED <<inode_open_list, inode_free_list, dev_use_count,
                     dinode, bitmap, entries, clash, lost>>
      /\ \A y \in Entries : core'[y].inum = core[y].inum
      /\ \A y \in Entries \ {x} : core'[y] = core[y]
  BY <1>2 DEF lists, ondisk, CoreBut
<1>4. PICK pc \in HasPcs :
        /\ Returned(call[t].op, x) = Has(pc, x, 1, "none") /\ Returned(call[t].op, x) \in Calls
        /\ pc = IF call[t].op = "open" THEN "have"
                ELSE IF call[t].op = "create" THEN "init" ELSE "remove"
  BY <1>2, ReturnedParts
<1>5. call'[t].pc = pc /\ call'[t].x = x /\ call'[t].job = "none"
  <2>1. 1 \in 0..MaxRefs /\ "none" \in Jobs
    BY ParametersAssumption DEF Jobs
  <2>. QED  BY <1>2, <1>4, <2>1, CallParts
<1>6. PICK c \in Calls : call' = [Woken(x) EXCEPT ![t] = c]
  BY <1>2, <1>4
<1>7. TypeOK'
  <2>1. call' \in [Tasks -> Calls]
    BY <1>6, WokenParts
  <2>. QED  BY <1>2, <1>3, <2>1 DEF TypeOK, CoreBut
<1>8. Layer1'
  BY <1>7, ReadFirst
<1>9. Opened' = Opened /\ Opened \subseteq Entries
      /\ Claimed /\ Allocated /\ LinksCounted /\ Kept
  BY <1>3 DEF Opened, Layer2, ToSet, TypeOK
<1>10. \A u \in Tasks \ {t} :
         /\ Follows(u) /\ (Counting(u) => Counting(u)')
         /\ call'[u] = call[u] \/ /\ call[u].pc = "asleep" /\ call'[u].pc = "make"
                                  /\ ~Creating(u)'
  BY <1>3, <1>6, <1>9, WakesFollow
<1>11. Follows(t) /\ ~Counting(t) /\ (Creating(t)' => call'[t].pc = "init")
  <2>1. /\ Removing(t)' => Removing(t)
        /\ Creating(t)' => Creating(t) /\ call'[t].pc = "init"
        /\ ~Counting(t)' /\ ~Counting(t)
    BY <1>2, <1>4, <1>5 DEF Removing, Creating, Counting, Ops
  <2>2. Inum(t)' = Inum(t)
    BY <1>1, <1>2, <1>3, <1>4, <1>5 DEF Inum
  <2>3. call'[t].pc \notin {"make", "asleep"}
    BY <1>4, <1>5
  <2>. QED  BY <2>1, <2>2, <2>3 DEF Follows
<1>12. FreesFollow
  <2>1. \A u \in Tasks : call'[u].pc = "free" => call'[u] = call[u] /\ call[u].x \in Entries
    <3>1. "free" \in HasPcs
      BY DEF HasPcs
    <3>. QED  BY <1>4, <1>5, <1>10, <3>1, CallForms
  <2>. QED  BY <1>3, <2>1 DEF FreesFollow
<1>13. OpensFollow
  <2>1. \A y \in Opened' : \E z \in Opened : core[z].inum = core'[y].inum
    BY <1>3, <1>9
  <2>. QED  BY <2>1 DEF OpensFollow
<1>14. Claimed'
  <2>1. \A i \in bitmap : i \in bitmap'
    BY <1>3
  <2>. QED  BY <1>3, <1>9, <1>10, <1>11, <1>13, <2>1, ClaimedFollows
<1>15. Allocated'
  <2>1. \A y \in Opened' : core'[y].inum \in bitmap'
    BY <1>3, <1>9 DEF Allocated
  <2>2. \A u \in Tasks : call'[u].pc = "free" => core'[call'[u].x].inum \in bitmap'
    BY <1>3, <1>9, <1>12 DEF FreesFollow, Allocated
  <2>. QED  BY <1>3, <1>9, <1>10, <1>11, <1>12, <1>13, <2>1, <2>2, AllocatedFollows
<1>16. LinksCounted'
  <2>1. ASSUME NEW y \in Opened', ~core'[y].locked
        PROVE  \/ /\ y \in Opened /\ ~core[y].locked /\ core'[y].inum = core[y].inum
                  /\ core'[y].inode.nlinks = core[y].inode.nlinks
               \/ /\ core'[y].inum \in Inums
                  /\ \A z \in open_inode(core'[y].inum) : core[z].locked
                  /\ core'[y].inode.nlinks = dinode[core'[y].inum].nlinks
    <3>1. CASE y = x
      <4>1. core'[x].inum \in Inums
        BY <1>2, CoreForm
      <4>2. \A z \in open_inode(core[x].inum) : z = x
        BY <1>2 DEF open_inode, Layer1, Listed, Opened
      <4>. QED  BY <1>2, <3>1, <4>1, <4>2
    <3>2. CASE y # x
      BY <1>3, <1>9, <2>1, <3>2
    <3>. QED  BY <3>1, <3>2
  <2>2. ASSUME NEW i \in Inums, \A z \in Opened' : core'[z].inum = i => core'[z].locked
        PROVE  /\ \A z \in open_inode(i) : core[z].locked
               /\ dinode'[i].nlinks = dinode[i].nlinks
    <3>1. core[x].inum # i
      BY <1>2, <1>9, <2>2
    <3>2. \A z \in open_inode(i) : z \in Opened' /\ z \in Entries \ {x} /\ core[z].inum = i
      BY <1>9, <3>1 DEF open_inode, Opened
    <3>. QED  BY <1>3, <2>2, <3>2
  <2>3. ASSUME NEW u \in Tasks, Creating(u)', call'[u].pc \notin {"make", "read", "init"}
        PROVE  /\ call[u].pc \notin {"make", "read", "init"}
               /\ core'[call'[u].x].inode.nlinks = core[call[u].x].inode.nlinks
    <3>1. u # t /\ call'[u] = call[u]
      BY <1>10, <1>11, <2>3
    <3>2. call[u].pc \in HasPcs \ Closing
      BY <2>3, <3>1 DEF Creating, HasPcs, Closing
    <3>3. call[u].x \in Entries /\ ~core[call[u].x].locked
      BY <3>2, CallForms DEF Layer1, UsersHold
    <3>4. call[u].x # x
      BY <1>2, <3>3
    <3>. QED  BY <1>3, <2>3, <3>1, <3>3, <3>4
  <2>4. \A u \in Tasks : Follows(u) /\ (Counting(u) => Counting(u)')
    BY <1>10, <1>11
  <2>. QED  BY <1>3, <1>9, <2>1, <2>2, <2>3, <2>4, LinksFollow
<1>17. Kept'
  <2>1. KeptIn(x)'
    BY <1>2, <1>3 DEF KeptIn
  <2>2. \A y : UsesFollow(y)
    <3>1. \A u \in Tasks : call[u].pc \in HasPcs => call'[u] = call[u]
      BY <1>2, <1>10 DEF HasPcs
    <3>. QED  BY <3>1 DEF UsesFollow, Using
  <2>3. ASSUME NEW y \in Opened', ~core'[y].locked, y # x
        PROVE  /\ y \in Opened /\ ~core[y].locked /\ core'[y].inum = core[y].inum
               /\ core'[y].inode = core[y].inode /\ core'[y].dirty = core[y].dirty
               /\ dinode'[core[y].inum] = dinode[core[y].inum]
               /\ core[y].inum \in lost => core[y].inum \in lost'
    BY <1>3, <1>9, <2>3
  <2>. QED  BY <1>9, <2>1, <2>2, <2>3, KeptFollows
<1>. QED
  BY <1>7, <1>8, <1>14, <1>15, <1>16, <1>17 DEF IInv, Layer2

\* read_inode() fails; what create_file() has allocated it frees.
LEMMA ReadFailsSound ==
  ASSUME TypeOK, Layer1, Layer2, clash = "none", NEW t \in Tasks, read_inode_fails(t)
  PROVE  IInv'
<1>1. PICK x : x = call[t].x
  OBVIOUS
<1>2. PICK i : i = core[x].inum
  OBVIOUS
<1>3. /\ call[t].pc = "read" /\ call[t].op \in Ops
      /\ x \in Entries /\ x \in Opened /\ core[x].locked /\ i \in Inums
      /\ call'[t] = Idle /\ call' = [Woken(x) EXCEPT ![t] = Idle]
      /\ inode_open_list' \in Seq(Entries)
      /\ inode_free_list' \in Seq(Entries) /\ NoRepeats(inode_free_list')
      /\ Len(inode_free_list') = Len(inode_free_list) + 1
      /\ clash' = "none" => ToSet(inode_open_list') = Opened \ {x}
      /\ clash' \in {"none", "dropped"}
      /\ dev_use_count' = dev_use_count - 1
      /\ bitmap' = IF call[t].op = "create" THEN bitmap \ {i} ELSE bitmap
      /\ UNCHANGED <<dinode, entries, lost, core>>
  BY <1>1, <1>2, ReadFailsDoes DEF Unmade
<1>4. call'[t].pc = "idle"
  BY <1>3, CallParts
<1>5. PICK c \in Calls : call' = [Woken(x) EXCEPT ![t] = c]
  BY <1>3, CallParts
<1>6. TypeOK'
  <2>1. call' \in [Tasks -> Calls]
    BY <1>5, WokenParts
  <2>2. dev_use_count' \in Nat
    BY <1>3, OneLess
  <2>3. clash' \in Clashes /\ bitmap' \in SUBSET Inums
    BY <1>3 DEF Clashes, TypeOK
  <2>. QED  BY <1>3, <2>1, <2>2, <2>3 DEF TypeOK
<1>7. SUFFICES ASSUME clash' = "none" PROVE Layer1' /\ Layer2'
  BY <1>6 DEF IInv
<1>8. Layer1'
  BY <1>6, <1>7, ReadFailsFirst
<1>9. Opened' = Opened \ {x} /\ Opened \subseteq Entries
      /\ Claimed /\ Allocated /\ LinksCounted /\ Kept
  <2>1. Opened' = Opened \ {x}
    BY <1>3, <1>7 DEF Opened
  <2>2. Opened \subseteq Entries
    BY DEF Layer1, Listed
  <2>. QED  BY <2>1, <2>2 DEF Layer2
<1>10. \A u \in Tasks \ {t} :
         /\ Follows(u) /\ (Counting(u) => Counting(u)')
         /\ call'[u] = call[u] \/ /\ call[u].pc = "asleep" /\ call'[u].pc = "make"
                                  /\ ~Creating(u)'
  BY <1>3, <1>5, <1>9, WakesFollow
<1>11. Follows(t) /\ ~Counting(t) /\ ~Creating(t)' /\ ~Removing(t)'
  BY <1>3, <1>4 DEF Removing, Creating, Counting, Follows
<1>12. FreesFollow
  BY <1>3, <1>4, <1>10 DEF FreesFollow
<1>13. OpensFollow
  BY <1>3, <1>9 DEF OpensFollow
<1>14. ASSUME call[t].op = "create"
       PROVE  /\ i \notin entries
              /\ \A u \in Tasks : Removing(u)' \/ Creating(u)' => Inum(u)' # i
              /\ \A y \in Opened' : core[y].inum # i
              /\ \A u \in Tasks : call[u].pc = "free" => core[call[u].x].inum # i
  <2>1. Creating(t) /\ Inum(t) = i
    BY <1>1, <1>2, <1>3, <1>14 DEF Creating, Inum
  <2>2. \A u \in Tasks \ {t} : Removing(u) \/ Creating(u) => Inum(u) # i
    BY <1>9, <2>1 DEF Claimed
  <2>3. \A u \in Tasks : Removing(u)' \/ Creating(u)' => Inum(u)' # i
    BY <1>10, <1>11, <2>2 DEF Follows
  <2>4. \A y \in Opened' : core[y].inum # i
    BY <1>2, <1>3, <1>9 DEF Layer1, Listed
  <2>. QED  BY <1>9, <2>1, <2>3, <2>4 DEF Claimed, Allocated
<1>15. Claimed'
  <2>1. \A j \in bitmap : j \in bitmap' \/
             /\ j \notin entries
             /\ \A u \in Tasks : Removing(u)' \/ Creating(u)' => Inum(u)' # j
    BY <1>3, <1>14
  <2>. QED  BY <1>3, <1>9, <1>10, <1>11, <1>13, <2>1, ClaimedFollows
<1>16. Allocated'
  <2>1. \A y \in Opened' : core'[y].inum \in bitmap'
    BY <1>3, <1>9, <1>14 DEF Allocated
  <2>2. \A u \in Tasks : call'[u].pc = "free" => core'[call'[u].x].inum \in bitmap'
    <3>1. \A u \in Tasks : call'[u].pc = "free" => call'[u] = call[u] /\ call[u].pc = "free"
      BY <1>4, <1>10
    <3>. QED  BY <1>3, <1>9, <1>14, <3>1 DEF Allocated
  <2>. QED  BY <1>3, <1>9, <1>10, <1>11, <1>12, <1>13, <2>1, <2>2, AllocatedFollows
<1>17. LinksCounted'
  <2>1. \A u \in Tasks : Creating(u)' /\ call'[u].pc \notin {"make", "read", "init"} =>
          /\ call[u].pc \notin {"make", "read", "init"}
          /\ core'[call'[u].x].inode.nlinks = core[call[u].x].inode.nlinks
    BY <1>3, <1>10, <1>11
  <2>2. \A j \in Inums : (\A z \in Opened' : core'[z].inum = j => core'[z].locked) =>
          /\ \A z \in open_inode(j) : core[z].locked
          /\ dinode'[j].nlinks = dinode[j].nlinks
    BY <1>3, <1>9 DEF open_inode, Opened
  <2>3. \A u \in Tasks : Follows(u) /\ (Counting(u) => Counting(u)')
    BY <1>10, <1>11
  <2>. QED  BY <1>3, <1>9, <2>1, <2>2, <2>3, LinksFollow
<1>18. Kept'
  <2>1. \A y : UsesFollow(y)
    <3>1. \A u \in Tasks : call[u].pc \in HasPcs => call'[u] = call[u]
      BY <1>3, <1>10 DEF HasPcs
    <3>. QED  BY <3>1 DEF UsesFollow, Using
  <2>. QED  BY <1>3, <1>9, <2>1, KeptFollows
<1>. QED
  BY <1>8, <1>15, <1>16, <1>17, <1>18 DEF Layer2

\* The inode make_inode() is about to read is allocated, and nobody else's: t
\* has seen its entry, or has it from alloc_inode() or delete_file_entry().
LEMMA MissSound ==
  ASSUME TypeOK, Layer1, Layer2, clash = "none", NEW t \in Tasks, make_inode_miss(t)
  PROVE  IInv'
<1>1. PICK x : x = Head(inode_free_list)
  OBVIOUS
<1>2. PICK i : i = call[t].inum
  OBVIOUS
<1>3. /\ x \in Entries /\ x \in Free /\ x \notin Opened /\ x \notin Leaving
      /\ call[t].pc = "make" /\ call[t].op \in Ops /\ i \in Inums
      /\ open_inode(i) = {}
      /\ CallsBut(t) /\ call'[t] = Reading(call[t].op, x)
      /\ inode_open_list' \in Seq(Entries)
      /\ ToSet(inode_open_list') = Opened \cup {x}
      /\ inode_free_list' \in Seq(Entries)
      /\ dev_use_count' = dev_use_count + 1
      /\ CoreBut(x) /\ core'[x].inum = i /\ core'[x].locked
      /\ clash' = IF Removed(t) THEN "removed" ELSE clash
      /\ UNCHANGED <<ondisk, lost>>
  BY <1>1, <1>2, MissDoes
<1>4. /\ UNCHANGED <<dinode, bitmap, entries, lost>>
      /\ \A y \in Entries \ {x} : core'[y] = core[y]
      /\ \A u \in Tasks \ {t} : call'[u] = call[u]
      /\ call'[t].pc = "read" /\ call'[t].x = x /\ call'[t].op = call[t].op
  BY <1>3, CallParts DEF ondisk, CoreBut, CallsBut
<1>5. TypeOK'
  <2>1. clash' \in Clashes /\ dev_use_count' \in Nat
    BY <1>3 DEF Clashes, TypeOK
  <2>. QED  BY <1>3, <1>4, <2>1 DEF TypeOK, CallsBut, CoreBut
<1>6. Layer1'
  BY <1>5, MissFirst
<1>7. SUFFICES ASSUME clash' = "none" PROVE Layer2'
  BY <1>5, <1>6 DEF IInv
<1>8. Opened' = Opened \cup {x} /\ Opened \subseteq Entries
      /\ Claimed /\ Allocated /\ LinksCounted /\ Kept
  <2>1. Opened' = Opened \cup {x}
    BY <1>3 DEF Opened
  <2>2. Opened \subseteq Entries
    BY DEF Layer1, Listed
  <2>. QED  BY <2>1, <2>2 DEF Layer2
<1>9. \A u \in Tasks : call[u].pc \in HasPcs \cup {"read"} =>
        call[u].x \in Entries /\ call[u].x # x
  BY <1>3, WhoHas, CallForms
<1>10. /\ \A u \in Tasks : Follows(u)
       /\ \A u \in Tasks : Counting(u) => Counting(u)'
  <2>1. ~Counting(t) /\ ~Counting(t)'
    BY <1>3, <1>4 DEF Counting
  <2>2. Inum(t)' = Inum(t)
    BY <1>2, <1>3, <1>4 DEF Inum
  <2>3. (Removing(t)' => Removing(t)) /\ (Creating(t)' => Creating(t))
    BY <1>3, <1>4 DEF Removing, Creating
  <2>4. Follows(t)
    BY <1>4, <2>1, <2>2, <2>3 DEF Follows
  <2>5. ASSUME NEW u \in Tasks \ {t} PROVE Follows(u) /\ (Counting(u) => Counting(u)')
    BY <1>4, <1>8, <1>9, OthersFollow
  <2>. QED  BY <2>1, <2>4, <2>5

\* The inode has an entry, or t claims it.
<1>11. \/ i \in entries
       \/ (Removing(t) \/ Creating(t)) /\ Inum(t) = i
  <2>1. CASE call[t].op = "open"
    BY <1>2, <1>3, <1>7, <2>1 DEF Removed
  <2>2. CASE call[t].op # "open"
    BY <1>2, <1>3, <2>2 DEF Removing, Creating, Inum, Ops
  <2>. QED  BY <2>1, <2>2
<1>12. /\ i \in bitmap
       /\ \A u \in Tasks \ {t} : Removing(u) \/ Creating(u) => Inum(u) # i
       /\ \A u \in Tasks : call[u].pc = "free" => core[call[u].x].inum # i
  <2>1. CASE i \in entries
    BY <1>8, <2>1 DEF Claimed, Allocated
  <2>2. CASE (Removing(t) \/ Creating(t)) /\ Inum(t) = i
    BY <1>8, <2>2 DEF Claimed, Allocated
  <2>. QED  BY <1>11, <2>1, <2>2
<1>13. FreesFollow
  <2>1. "free" \in HasPcs
    BY DEF HasPcs
  <2>. QED  BY <1>4, <1>9, <2>1 DEF FreesFollow
<1>14. OpensFollow
  <2>1. \A y \in Opened : core'[y].inum = core[y].inum
    BY <1>3, <1>4, <1>8
  <2>2. ASSUME NEW u \in Tasks, call[u].pc = "make" /\ call[u].op = "create"
        PROVE  call'[u].pc # "make" \/ Inum(u) # core'[x].inum
    <3>1. CASE u = t
      BY <1>4, <3>1
    <3>2. CASE u # t
      <4>1. Creating(u)
        BY <2>2 DEF Creating
      <4>. QED  BY <1>3, <1>12, <3>2, <4>1
    <3>. QED  BY <3>1, <3>2
  <2>. QED  BY <1>3, <1>8, <1>12, <2>1, <2>2 DEF OpensFollow
<1>15. Claimed'
  <2>1. \A j \in bitmap : j \in bitmap'
    BY <1>4
  <2>. QED  BY <1>4, <1>8, <1>10, <1>14, <2>1, ClaimedFollows
<1>16. Allocated'
  <2>1. ASSUME NEW y \in Opened' PROVE core'[y].inum \in bitmap'
    <3>1. CASE y = x
      BY <1>3, <1>4, <1>12, <3>1
    <3>2. CASE y # x
      BY <1>4, <1>8, <3>2 DEF Allocated
    <3>. QED  BY <3>1, <3>2
  <2>2. \A u \in Tasks : call'[u].pc = "free" => core'[call'[u].x].inum \in bitmap'
    BY <1>4, <1>8, <1>13 DEF FreesFollow, Allocated
  <2>. QED  BY <1>4, <1>8, <1>10, <1>13, <1>14, <2>1, <2>2, AllocatedFollows
<1>17. LinksCounted'
  <2>1. \A y \in Opened' : ~core'[y].locked =>
          /\ y \in Opened /\ ~core[y].locked /\ core'[y].inum = core[y].inum
          /\ core'[y].inode.nlinks = core[y].inode.nlinks
    BY <1>3, <1>4, <1>8
  <2>2. ASSUME NEW j \in Inums, \A z \in Opened' : core'[z].inum = j => core'[z].locked
        PROVE  /\ \A z \in open_inode(j) : core[z].locked
               /\ dinode'[j].nlinks = dinode[j].nlinks
    <3>1. \A z \in open_inode(j) : z \in Opened' /\ z \in Entries \ {x} /\ core[z].inum = j
      BY <1>3, <1>8 DEF open_inode, Opened
    <3>. QED  BY <1>4, <2>2, <3>1
  <2>3. ASSUME NEW u \in Tasks, Creating(u)', call'[u].pc \notin {"make", "read", "init"}
        PROVE  /\ call[u].pc \notin {"make", "read", "init"}
               /\ core'[call'[u].x].inode.nlinks = core[call[u].x].inode.nlinks
    <3>1. call'[u] = call[u]
      BY <1>4, <2>3
    <3>2. call[u].pc \in HasPcs
      BY <2>3, <3>1 DEF Creating, HasPcs
    <3>. QED  BY <1>4, <1>9, <2>3, <3>1, <3>2
  <2>. QED  BY <1>4, <1>8, <1>10, <2>1, <2>2, <2>3, LinksFollow
<1>18. Kept'
  <2>1. \A y : UsesFollow(y)
    <3>1. \A y : ~Using(t, y)
      BY <1>3 DEF Using, HasPcs
    <3>. QED  BY <1>4, <3>1, UsersFollow
  <2>2. ASSUME NEW y \in Opened', ~core'[y].locked
        PROVE  /\ y \in Opened /\ ~core[y].locked /\ core'[y].inum = core[y].inum
               /\ core'[y].inode = core[y].inode /\ core'[y].dirty = core[y].dirty
               /\ dinode'[core[y].inum] = dinode[core[y].inum]
               /\ core[y].inum \in lost => core[y].inum \in lost'
    BY <1>3, <1>4, <1>8, <2>2
  <2>. QED  BY <1>8, <2>1, <2>2, KeptFollows
<1>. QED
  BY <1>15, <1>16, <1>17, <1>18 DEF Layer2

\* The last user is alone with the inode: it is on disk as it was in memory, and
\* if it has no links nobody is after it.
LEMMA UnlinkSound ==
  ASSUME TypeOK, Layer1, Layer2, clash = "none", NEW t \in Tasks, close_inode_unlink(t)
  PROVE  IInv'
<1>1. PICK x : x = call[t].x
  OBVIOUS
<1>2. PICK i : i = core[x].inum
  OBVIOUS
<1>3. /\ call[t].pc = "unlink" /\ x \in Entries /\ x \in Opened /\ ~core[x].locked
      /\ \A u \in Tasks : At(u, x) => u = t
      /\ inode_open_list' \in Seq(Entries)
      /\ ToSet(inode_open_list') = Opened \ {x}
      /\ CallsBut(t)
      /\ call'[t] = Has(IF core[x].inode.nlinks = 0 THEN "free" ELSE "put", x, 0, Rest(t))
      /\ clash' = IF core[x].dirty /\ core[x].inum \in lost THEN "unwritten" ELSE clash
      /\ UNCHANGED <<inode_free_list, core, dev_use_count, ondisk, lost>>
  BY <1>1, UnlinkDoes
<1>4. /\ UNCHANGED <<inode_free_list, core, dev_use_count, dinode, bitmap, entries, lost>>
      /\ \A u \in Tasks \ {t} : call'[u] = call[u]
  BY <1>3 DEF ondisk, CallsBut
<1>5. /\ call'[t].pc \in {"free", "put"} /\ call'[t].x = x
      /\ call'[t].pc = "free" => core[x].inode.nlinks = 0
  <2>1. 0 \in 0..MaxRefs /\ Rest(t) \in Jobs /\ {"free", "put"} \subseteq HasPcs
    BY ParametersAssumption DEF Rest, Jobs, HasPcs
  <2>2. PICK pc \in {"free", "put"} : pc = IF core[x].inode.nlinks = 0 THEN "free" ELSE "put"
    OBVIOUS
  <2>3. call'[t] = Has(pc, x, 0, Rest(t))
    BY <1>3, <2>2
  <2>. QED  BY <1>3, <2>1, <2>2, <2>3, CallParts
<1>6. TypeOK'
  <2>1. clash' \in Clashes
    BY <1>3 DEF Clashes
  <2>. QED  BY <1>3, <1>4, <2>1 DEF TypeOK, CallsBut
<1>7. Layer1'
  BY <1>6, UnlinkFirst
<1>8. SUFFICES ASSUME clash' = "none" PROVE Layer2'
  BY <1>6, <1>7 DEF IInv
<1>9. Opened' = Opened \ {x} /\ Opened \subseteq Entries
      /\ Claimed /\ Allocated /\ LinksCounted /\ Kept
  <2>1. Opened' = Opened \ {x}
    BY <1>3 DEF Opened
  <2>2. Opened \subseteq Entries
    BY DEF Layer1, Listed
  <2>. QED  BY <2>1, <2>2 DEF Layer2
<1>10. /\ \A u \in Tasks : Follows(u)
       /\ \A u \in Tasks : Counting(u) => Counting(u)'
  <2>1. ~Removing(t)' /\ ~Creating(t)' /\ ~Counting(t)' /\ ~Counting(t)
    BY <1>3, <1>5 DEF Removing, Creating, Counting
  <2>2. Follows(t)
    BY <1>5, <2>1 DEF Follows
  <2>3. ASSUME NEW u \in Tasks \ {t} PROVE Follows(u) /\ (Counting(u) => Counting(u)')
    BY <1>4, <1>9, OthersFollow
  <2>. QED  BY <2>1, <2>2, <2>3
<1>11. OpensFollow
  BY <1>4, <1>9 DEF OpensFollow
<1>12. Claimed'
  <2>1. \A j \in bitmap : j \in bitmap'
    BY <1>4
  <2>. QED  BY <1>4, <1>9, <1>10, <1>11, <2>1, ClaimedFollows

\* The only one with that number.
<1>13. \A z \in Opened : core[z].inum = i => z = x
  BY <1>2, <1>3 DEF Layer1, Listed

\* Nobody is after it.
<1>14. \A u \in Tasks \ {t} :
         /\ call[u].pc \in HasPcs \ Closing => core[call[u].x].inum # i
         /\ call[u].pc = "read" => core[call[u].x].inum # i
  <2>1. ASSUME NEW u \in Tasks \ {t}, call[u].pc \in HasPcs \ Closing
        PROVE  core[call[u].x].inum # i
    <3>1. call[u].x \in Opened
      BY <2>1, WhoHas
    <3>2. call[u].x # x
      BY <1>3, <2>1 DEF At
    <3>. QED  BY <1>13, <3>1, <3>2
  <2>2. ASSUME NEW u \in Tasks \ {t}, call[u].pc = "read"
        PROVE  core[call[u].x].inum # i
    <3>1. call[u].x \in Opened /\ core[call[u].x].locked
      BY <2>2 DEF Layer1, LocksHeld
    <3>. QED  BY <1>3, <1>13, <3>1
  <2>. QED  BY <2>1, <2>2
<1>15. ASSUME core[x].inode.nlinks = 0
       PROVE  /\ i \notin entries
              /\ \A u \in Tasks : Removing(u) \/ Creating(u) => Inum(u) # i
  <2>1. ~Linked(i)
    <3>1. \A u \in Tasks : ~(Counting(u) /\ Inum(u) = i)
      <4>1. \A u \in Tasks : Counting(u) => u # t /\ call[u].pc \in HasPcs \ Closing
                                            /\ Inum(u) = core[call[u].x].inum
        BY <1>3 DEF Counting, HasPcs, Closing, Inum
      <4>. QED  BY <1>14, <4>1
    <3>2. Links(i) = 1
      BY <3>1 DEF Links
    <3>. QED  BY <1>2, <1>3, <1>9, <1>15, <3>2 DEF LinksCounted
  <2>2. \A u \in Tasks : Removing(u) => Inum(u) # i
    BY <2>1 DEF Linked
  <2>3. ASSUME NEW u \in Tasks, Creating(u), Inum(u) = i PROVE FALSE
    <3>1. CASE call[u].pc = "make" /\ call[u].op = "create"
      <4>1. Inum(u) = call[u].inum /\ open_inode(call[u].inum) = {}
        BY <1>9, <3>1 DEF Claimed, Inum
      <4>. QED  BY <1>2, <1>3, <2>3, <4>1 DEF open_inode, Opened
    <3>2. CASE ~(call[u].pc = "make" /\ call[u].op = "create")
      <4>1. u # t /\ call[u].pc \in (HasPcs \ Closing) \cup {"read"}
        BY <1>3, <2>3, <3>2 DEF Creating, HasPcs, Closing
      <4>2. Inum(u) = core[call[u].x].inum
        BY <4>1 DEF Inum, HasPcs
      <4>. QED  BY <1>14, <2>3, <4>1, <4>2
    <3>. QED  BY <3>1, <3>2
  <2>. QED  BY <2>1, <2>2, <2>3 DEF Linked
<1>16. Allocated'
  <2>1. \A y \in Opened' : core'[y].inum \in bitmap'
    BY <1>4, <1>9 DEF Allocated
  <2>2. ASSUME NEW v \in Tasks, call'[v].pc = "free", NEW j, j = core'[call'[v].x].inum
        PROVE  /\ j \in bitmap' /\ j \notin entries'
               /\ \A y \in Opened' : core'[y].inum # j
               /\ \A u \in Tasks : Removing(u) \/ Creating(u) => Inum(u) # j
               /\ \A u \in Tasks : call'[u].pc = "free" /\ core'[call'[u].x].inum = j => u = v
    <3>0. \A u \in Tasks \ {t} : call[u].pc = "free" => core[call[u].x].inum # i
      BY <1>2, <1>3, <1>9 DEF Allocated, open_inode, Opened
    <3>1. CASE v = t
      <4>1. j = i /\ core[x].inode.nlinks = 0
        BY <1>2, <1>4, <1>5, <2>2, <3>1
      <4>2. i \in bitmap
        BY <1>2, <1>3, <1>9 DEF Allocated
      <4>. QED  BY <1>4, <1>9, <1>13, <1>15, <3>0, <3>1, <4>1, <4>2
    <3>2. CASE v # t
      <4>1. call[v].pc = "free" /\ core[call[v].x].inum = j
        BY <1>4, <2>2, <3>2
      <4>2. /\ j \in bitmap /\ j \notin entries /\ \A y \in Opened : core[y].inum # j
            /\ \A u \in Tasks : Removing(u) \/ Creating(u) => Inum(u) # j
            /\ \A u \in Tasks : call[u].pc = "free" /\ core[call[u].x].inum = j => u = v
        BY <1>9, <4>1 DEF Allocated, open_inode, Opened
      <4>3. core[x].inum # j
        BY <1>3, <4>2
      <4>. QED  BY <1>4, <1>5, <1>9, <4>2, <4>3
    <3>. QED  BY <3>1, <3>2
  <2>3. ASSUME NEW v \in Tasks, call'[v].pc = "free", NEW j, j = core'[call'[v].x].inum
        PROVE  \A u \in Tasks : Removing(u)' \/ Creating(u)' => Inum(u)' # j
    BY <1>10, <2>2, <2>3 DEF Follows
  <2>. QED  BY <2>1, <2>2, <2>3 DEF Allocated, open_inode, Opened

\* What is written is what it was.
<1>17. core[x].inode = dinode[i]
  <2>1. KeptIn(x)
    BY <1>3, <1>9 DEF Kept
  <2>2. \A u \in Tasks : ~Using(u, x)
    BY <1>3 DEF Using, At, Closing
  <2>. QED  BY <1>2, <1>3, <1>8, <2>1, <2>2 DEF KeptIn
<1>18. LinksCounted'
  <2>1. \A y \in Opened' : ~core'[y].locked =>
          /\ y \in Opened /\ ~core[y].locked /\ core'[y].inum = core[y].inum
          /\ core'[y].inode.nlinks = core[y].inode.nlinks
    BY <1>4, <1>9
  <2>2. ASSUME NEW j \in Inums, \A z \in Opened' : core'[z].inum = j => core'[z].locked
        PROVE  \/ /\ \A z \in open_inode(j) : core[z].locked
                  /\ dinode'[j].nlinks = dinode[j].nlinks
               \/ \E z \in open_inode(j) :
                    ~core[z].locked /\ dinode'[j].nlinks = core[z].inode.nlinks
    <3>1. CASE j = i
      <4>1. x \in open_inode(i)
        BY <1>2, <1>3 DEF open_inode, Opened
      <4>. QED  BY <1>3, <1>4, <1>17, <3>1, <4>1
    <3>2. CASE j # i
      <4>1. \A z \in open_inode(j) : z \in Opened' /\ core[z].inum = j
        BY <1>2, <1>9, <3>2 DEF open_inode, Opened
      <4>. QED  BY <1>4, <2>2, <4>1
    <3>. QED  BY <3>1, <3>2
  <2>3. \A u \in Tasks : Creating(u)' /\ call'[u].pc \notin {"make", "read", "init"} =>
          /\ call[u].pc \notin {"make", "read", "init"}
          /\ core'[call'[u].x].inode.nlinks = core[call[u].x].inode.nlinks
    <3>1. ~Creating(t)'
      BY <1>5 DEF Creating
    <3>. QED  BY <1>4, <3>1
  <2>. QED  BY <1>4, <1>9, <1>10, <2>1, <2>2, <2>3, LinksFollow
<1>19. Kept'
  <2>1. \A y : UsesFollow(y)
    <3>1. \A y : ~Using(t, y)
      BY <1>3 DEF Using, Closing
    <3>. QED  BY <1>4, <3>1, UsersFollow
  <2>. QED  BY <1>4, <1>9, <2>1, KeptFollows
<1>. QED
  BY <1>12, <1>16, <1>18, <1>19 DEF Layer2

\* What t goes on to when it makes or takes away a part in what becomes of its
\* inode: what is kept is kept, the others do what they did.
LEMMA PartDoes ==
  ASSUME TypeOK, Layer1, Layer2, NEW t \in Tasks, NEW x, x = call[t].x, NEW pc, NEW job,
         Stays(t, pc, job), Fits(call'[t]),
         UNCHANGED <<dinode, bitmap, clash, lost>>, entries' \in SUBSET Inums,
         \/ pc = "dirty"
         \/ pc # "drop" /\ call[t].pc # "dirty" /\ core' = core
  PROVE  /\ TypeOK' /\ Layer1' /\ Kept'
         /\ call'[t].pc = pc /\ call'[t].x = x /\ call'[t].job = job
         /\ x \in Opened /\ ~core[x].locked /\ x \in Entries /\ core[x].inum \in Inums
         /\ Inum(t) = core[x].inum /\ Inum(t)' = core[x].inum
         /\ Opened' = Opened /\ Opened \subseteq Entries
         /\ \A y \in Entries : core'[y].inum = core[y].inum /\ core'[y].locked = core[y].locked
         /\ \A y \in Entries \ {x} : core'[y] = core[y]
         /\ \A u \in Tasks \ {t} :
              /\ call'[u] = call[u] /\ Follows(u)
              /\ Removing(u)' <=> Removing(u)
              /\ Creating(u)' <=> Creating(u)
              /\ Counting(u)' <=> Counting(u)
              /\ Removing(u) \/ Creating(u) \/ Counting(u) => Inum(u)' = Inum(u)
         /\ FreesFollow /\ OpensFollow
<1>1. /\ x \in Entries /\ call[t].n \in 0..MaxRefs /\ call[t].pc \in HasPcs \ Closing
      /\ pc \in HasPcs \ Closing /\ job \in Jobs
  BY CallForms DEF Stays
<1>2. call'[t].pc = pc /\ call'[t].x = x /\ call'[t].job = job
  BY <1>1, CallParts DEF Stays
<1>3. /\ \A u \in Tasks \ {t} : call'[u] = call[u]
      /\ \A y \in Entries \ {x} : core'[y] = core[y]
      /\ core'[x].inum = core[x].inum /\ core'[x].locked = core[x].locked
      /\ UNCHANGED <<inode_open_list, inode_free_list, dev_use_count>>
  BY DEF Stays, CallsBut, CoreBut, lists
<1>4. x \in Opened /\ ~core[x].locked
  BY <1>1 DEF Layer1, UsersHold
<1>5. TypeOK'
  BY <1>3 DEF TypeOK, Stays, CallsBut, CoreBut
<1>6. Layer1'
  BY <1>5, StaysFirst
<1>7. Opened' = Opened /\ Opened \subseteq Entries
  BY <1>3 DEF Opened, ToSet, TypeOK
<1>8. Kept'
  <2>1. ASSUME NEW y \in Opened', y # x
        PROVE  core'[y] = core[y] /\ UsesFollow(y)
    <3>1. ~Using(t, y)
      BY <2>1 DEF Using
    <3>. QED  BY <1>3, <1>7, <2>1, <3>1, UsersFollow
  <2>2. Using(t, x)'
    BY <1>1, <1>2 DEF Using
  <2>3. \/ KeptIn(x)'
        \/ core'[x] = core[x] /\ UsesFollow(x)
    <3>1. CASE pc = "dirty"
      BY <1>2, <2>2, <3>1 DEF KeptIn
    <3>2. CASE pc # "drop" /\ call[t].pc # "dirty" /\ core' = core
      BY <1>2, <1>3, <2>2, <3>2, UsersFollow
    <3>. QED  BY <3>1, <3>2
  <2>. QED  BY <1>3, <1>4, <1>7, <2>1, <2>3, KeptFollows DEF Layer2
<1>9. Inum(t) = core[x].inum /\ Inum(t)' = core[x].inum
  BY <1>1, <1>2, <1>3 DEF Inum, HasPcs
<1>10. ASSUME NEW u \in Tasks \ {t}
       PROVE  /\ call'[u] = call[u] /\ Follows(u)
              /\ Removing(u)' <=> Removing(u)
              /\ Creating(u)' <=> Creating(u)
              /\ Counting(u)' <=> Counting(u)
              /\ Removing(u) \/ Creating(u) \/ Counting(u) => Inum(u)' = Inum(u)
  <2>1. call[u].pc \in HasPcs \cup {"read"} => call[u].x \in Entries
    BY CallForms
  <2>2. /\ Follows(u)
        /\ Removing(u)' <=> Removing(u)
        /\ Creating(u)' <=> Creating(u)
        /\ Counting(u)' <=> Counting(u)
    BY <1>3, <2>1, OthersFollow DEF Layer2
  <2>. QED  BY <1>3, <2>2 DEF Follows
<1>11. FreesFollow
  <2>1. ASSUME NEW u \in Tasks, call'[u].pc = "free"
        PROVE  call[u].pc = "free" /\ core'[call'[u].x].inum = core[call[u].x].inum
    <3>1. u # t
      BY <1>1, <1>2, <2>1 DEF Closing
    <3>2. call'[u] = call[u] /\ call[u].x \in Entries
      BY <1>3, <2>1, <3>1, CallForms DEF HasPcs
    <3>. QED  BY <1>3, <2>1, <3>2
  <2>. QED  BY <2>1 DEF FreesFollow
<1>12. OpensFollow
  <2>1. \A y \in Opened' : \E z \in Opened : core[z].inum = core'[y].inum
    BY <1>3, <1>7
  <2>. QED  BY <2>1 DEF OpensFollow
<1>13. core[x].inum \in Inums
  BY <1>1, CoreForm
<1>. QED
  BY <1>1, <1>2, <1>3, <1>4, <1>5, <1>6, <1>7, <1>8, <1>9, <1>10, <1>11, <1>12, <1>13

\* A part that goes on leaves what is allocated claimed.
LEMMA PartSecond ==
  ASSUME TypeOK, Layer2, NEW t \in Tasks, \A u \in Tasks : Follows(u), FreesFollow, OpensFollow,
         UNCHANGED <<bitmap, entries>>, Opened' = Opened,
         \A y \in Opened : core'[y].inum = core[y].inum
  PROVE  Claimed' /\ Allocated'
<1>1. Claimed /\ Allocated /\ entries' = entries
  BY DEF Layer2
<1>2. Claimed'
  <2>1. \A i \in bitmap : i \in bitmap'
    OBVIOUS
  <2>. QED  BY <1>1, <2>1, ClaimedFollows
<1>3. \A y \in Opened' : core'[y].inum \in bitmap'
  BY <1>1 DEF Allocated
<1>4. \A u \in Tasks : call'[u].pc = "free" => core'[call'[u].x].inum \in bitmap'
  BY <1>1 DEF FreesFollow, Allocated
<1>. QED
  BY <1>1, <1>2, <1>3, <1>4, AllocatedFollows

\* An inode that t alone creates or removes has links nobody counts on; t sets
\* them.
LEMMA UnlinkedSecond ==
  ASSUME TypeOK, Layer1, Layer2, NEW t \in Tasks, NEW x, x = call[t].x, NEW job,
         Stays(t, "dirty", job), Fits(call'[t]), UNCHANGED <<ondisk, clash, lost>>,
         Removing(t) \/ Creating(t), ~Removing(t)', ~Counting(t), Follows(t),
         Creating(t)' => core'[x].inode.nlinks = 0
  PROVE  IInv'
<1>0. UNCHANGED <<dinode, bitmap, entries>> /\ entries' \in SUBSET Inums
  BY DEF ondisk, TypeOK
<1>1. /\ TypeOK' /\ Layer1' /\ Kept'
      /\ call'[t].pc = "dirty" /\ call'[t].x = x
      /\ x \in Opened /\ ~core[x].locked /\ x \in Entries /\ core[x].inum \in Inums
      /\ Inum(t) = core[x].inum /\ Inum(t)' = core[x].inum
      /\ Opened' = Opened /\ Opened \subseteq Entries
      /\ \A y \in Entries : core'[y].inum = core[y].inum /\ core'[y].locked = core[y].locked
      /\ \A y \in Entries \ {x} : core'[y] = core[y]
      /\ \A u \in Tasks \ {t} :
           /\ call'[u] = call[u] /\ Follows(u)
           /\ Removing(u)' <=> Removing(u)
           /\ Creating(u)' <=> Creating(u)
           /\ Counting(u)' <=> Counting(u)
           /\ Removing(u) \/ Creating(u) \/ Counting(u) => Inum(u)' = Inum(u)
      /\ FreesFollow /\ OpensFollow
  BY <1>0, PartDoes
<1>2. Claimed' /\ Allocated'
  BY <1>0, <1>1, PartSecond

\* Nobody else has a part in it.
<1>3. \A u \in Tasks \ {t} : Removing(u) \/ Creating(u) => Inum(u) # core[x].inum
  BY <1>1 DEF Layer2, Claimed
<1>4. core[x].inum \notin entries
  BY <1>1 DEF Layer2, Claimed
<1>5. \A i : i = core[x].inum => ~Linked(i)'
  <2>1. ASSUME NEW i, i = core[x].inum, NEW u \in Tasks, Removing(u)', Inum(u)' = i PROVE FALSE
    <3>1. u # t
      BY <2>1
    <3>. QED  BY <1>1, <1>3, <2>1, <3>1
  <2>2. \A i : i = core[x].inum => i \notin entries'
    BY <1>0, <1>4
  <2>. QED  BY <2>1, <2>2 DEF Linked
<1>6. LinksCounted'
  <2>1. \A y \in Opened' : ~core'[y].locked =>
             \/ /\ y \in Opened /\ ~core[y].locked /\ core'[y].inum = core[y].inum
                /\ core'[y].inode.nlinks = core[y].inode.nlinks
             \/ \A i : i = core'[y].inum => ~Linked(i)'
    BY <1>1, <1>5
  <2>2. \A i \in Inums : (\A z \in Opened' : core'[z].inum = i => core'[z].locked) =>
             /\ \A z \in open_inode(i) : core[z].locked
             /\ dinode'[i].nlinks = dinode[i].nlinks
    BY <1>0, <1>1 DEF open_inode, Opened
  <2>3. ASSUME NEW u \in Tasks, Creating(u)', call'[u].pc \notin {"make", "read", "init"}
        PROVE  \/ core'[call'[u].x].inode.nlinks = 0
               \/ /\ call[u].pc \notin {"make", "read", "init"}
                  /\ core'[call'[u].x].inode.nlinks = core[call[u].x].inode.nlinks
    <3>1. CASE u = t
      BY <1>1, <2>3, <3>1
    <3>2. CASE u # t
      <4>1. call'[u] = call[u] /\ Creating(u)
        BY <1>1, <2>3, <3>2
      <4>2. call[u].pc \in HasPcs
        BY <2>3, <4>1 DEF Creating, HasPcs
      <4>3. Inum(u) = core[call[u].x].inum /\ call[u].x \in Entries
        BY <4>2, CallForms DEF Inum, HasPcs
      <4>4. call[u].x # x
        BY <1>3, <3>2, <4>1, <4>3
      <4>. QED  BY <1>1, <2>3, <4>1, <4>3, <4>4
    <3>. QED  BY <3>1, <3>2
  <2>4. /\ \A u \in Tasks : Follows(u)
        /\ \A u \in Tasks : Counting(u) => Counting(u)'
    BY <1>1
  <2>. QED  BY <1>0, <2>1, <2>2, <2>3, <2>4, LinksFollow DEF Layer2
<1>. QED
  BY <1>1, <1>2, <1>6 DEF IInv, Layer2

\* create_file() clears its inode.
LEMMA InitInodeSound ==
  ASSUME TypeOK, Layer1, Layer2, clash = "none", NEW t \in Tasks, NEW s \in Stamps,
         InitInode(t, s)
  PROVE  IInv'
<1>1. PICK x : x = call[t].x
  OBVIOUS
<1>2. /\ call[t].pc = "init" /\ "init" \in HasPcs \ Closing /\ "dirty" \in HasPcs \ Closing
      /\ "make_file" \in Jobs
  BY DEF InitInode, HasPcs, Closing, Jobs
<1>3. PICK inode \in Contents : inode = [nlinks |-> 0, stamp |-> s] /\ inode.nlinks = 0
  <2>1. 0 \in 0..(LinkWidth - 1)
    BY ParametersAssumption
  <2>2. [nlinks |-> 0, stamp |-> s] \in Contents
    BY <2>1 DEF Contents
  <2>3. [nlinks |-> 0, stamp |-> s].nlinks = 0
    OBVIOUS
  <2>. QED  BY <2>2, <2>3
<1>4. Change(t, inode, "make_file")
  BY <1>3 DEF InitInode
<1>5. /\ Stays(t, "dirty", "make_file") /\ core'[x].inode = inode
      /\ UNCHANGED <<ondisk, clash, lost>>
  BY <1>1, <1>2, <1>4, ChangeDoes
<1>6. /\ x \in Entries /\ call[t].n = 1 /\ call[t].n \in 0..MaxRefs
      /\ core'[x].inum = core[x].inum
  BY <1>1, <1>2, <1>5, CallForms DEF Layer1, UsersHold, Fits, Stays
<1>7. /\ call'[t].pc = "dirty" /\ call'[t].x = x /\ call'[t].n = 1
      /\ call'[t].job = "make_file"
  BY <1>1, <1>2, <1>5, <1>6, CallParts DEF Stays
<1>8. Fits(call'[t])
  BY <1>7 DEF Fits
<1>9. /\ Creating(t) /\ ~Removing(t)' /\ ~Counting(t)' /\ ~Counting(t)
      /\ Inum(t)' = Inum(t)
  BY <1>1, <1>2, <1>6, <1>7 DEF Creating, Removing, Counting, Inum
<1>10. Follows(t)
  BY <1>7, <1>9 DEF Follows
<1>. QED
  BY <1>1, <1>3, <1>5, <1>8, <1>9, <1>10, UnlinkedSecond

\* remove_link() takes the link away that its entry was.
LEMMA RemoveLinkSound ==
  ASSUME TypeOK, Layer1, Layer2, clash = "none", NEW t \in Tasks, RemoveLink(t)
  PROVE  IInv'
<1>1. PICK x : x = call[t].x
  OBVIOUS
<1>2. /\ call[t].pc = "remove" /\ "remove" \in HasPcs \ Closing /\ "dirty" \in HasPcs \ Closing
      /\ "close" \in Jobs
  BY DEF RemoveLink, HasPcs, Closing, Jobs
<1>3. x \in Entries /\ core[x].inode \in Contents /\ call[t].n \in 0..MaxRefs
  BY <1>1, <1>2, CallForms, CoreForm
<1>4. PICK inode \in Contents :
        inode = [core[x].inode EXCEPT !.nlinks = (@ + LinkWidth - 1) % LinkWidth]
  <2>1. PICK c \in Contents : c = core[x].inode
    BY <1>3
  <2>2. c.nlinks \in 0..(LinkWidth - 1) /\ LinkWidth \in Nat \ {0}
    BY ParametersAssumption DEF Contents
  <2>3. PICK n \in 0..(LinkWidth - 1) : n = (c.nlinks + LinkWidth - 1) % LinkWidth
    <3>1. (c.nlinks + LinkWidth - 1) % LinkWidth \in 0..(LinkWidth - 1)
      BY <2>2
    <3>. QED  BY <3>1
  <2>4. [c EXCEPT !.nlinks = n] \in Contents
    BY DEF Contents
  <2>. QED  BY <2>1, <2>3, <2>4
<1>5. Change(t, inode, "close")
  BY <1>1, <1>4 DEF RemoveLink
<1>6. Stays(t, "dirty", "close") /\ UNCHANGED <<ondisk, clash, lost>>
  BY <1>2, <1>5, ChangeDoes
<1>7. call'[t].pc = "dirty" /\ call'[t].x = x /\ call'[t].job = "close"
  BY <1>1, <1>2, <1>3, <1>6, CallParts DEF Stays
<1>8. Fits(call'[t])
  BY <1>7 DEF Fits
<1>9. Removing(t) /\ ~Removing(t)' /\ ~Creating(t)' /\ ~Counting(t)' /\ ~Counting(t)
  BY <1>2, <1>7 DEF Creating, Removing, Counting
<1>10. Follows(t)
  BY <1>7, <1>9 DEF Follows
<1>. QED
  BY <1>1, <1>6, <1>8, <1>9, <1>10, UnlinkedSecond

\* create_file() counts the entry it has made: the first link.
LEMMA CountLinkSound ==
  ASSUME TypeOK, Layer1, Layer2, clash = "none", NEW t \in Tasks, CountLink(t)
  PROVE  IInv'
<1>1. PICK x : x = call[t].x
  OBVIOUS
<1>2. /\ call[t].pc = "count" /\ "count" \in HasPcs \ Closing /\ "dirty" \in HasPcs \ Closing
      /\ "write" \in Jobs
  BY DEF CountLink, HasPcs, Closing, Jobs
<1>3. x \in Entries /\ core[x].inode \in Contents /\ call[t].n \in 0..MaxRefs
  BY <1>1, <1>2, CallForms, CoreForm
<1>4. PICK inode \in Contents :
        /\ inode = [core[x].inode EXCEPT !.nlinks = (@ + 1) % LinkWidth]
        /\ core[x].inode.nlinks = 0 => inode.nlinks = 1
  <2>1. PICK c \in Contents : c = core[x].inode
    BY <1>3
  <2>2. c.nlinks \in 0..(LinkWidth - 1) /\ LinkWidth \in Nat /\ LinkWidth >= 2
    BY ParametersAssumption DEF Contents
  <2>3. PICK n \in 0..(LinkWidth - 1) :
          n = (c.nlinks + 1) % LinkWidth /\ (c.nlinks = 0 => n = 1)
    <3>1. (c.nlinks + 1) % LinkWidth \in 0..(LinkWidth - 1)
      BY <2>2
    <3>2. c.nlinks = 0 => (c.nlinks + 1) % LinkWidth = 1
      BY <2>2
    <3>. QED  BY <3>1, <3>2
  <2>4. [c EXCEPT !.nlinks = n] \in Contents /\ [c EXCEPT !.nlinks = n].nlinks = n
    BY DEF Contents
  <2>. QED  BY <2>1, <2>3, <2>4
<1>5. Change(t, inode, "write")
  BY <1>1, <1>4 DEF CountLink
<1>6. /\ Stays(t, "dirty", "write") /\ core'[x].inode = inode
      /\ UNCHANGED <<ondisk, clash, lost>>
  BY <1>1, <1>2, <1>5, ChangeDoes
<1>7. call'[t].pc = "dirty" /\ call'[t].x = x /\ call'[t].job = "write"
  BY <1>1, <1>2, <1>3, <1>6, CallParts DEF Stays
<1>8. Fits(call'[t])
  BY <1>7 DEF Fits
<1>9. UNCHANGED <<dinode, bitmap, entries, clash, lost>> /\ entries' \in SUBSET Inums
  BY <1>6 DEF ondisk, TypeOK
<1>10. /\ TypeOK' /\ Layer1' /\ Kept'
       /\ x \in Opened /\ ~core[x].locked /\ core[x].inum \in Inums
       /\ Inum(t) = core[x].inum /\ Opened' = Opened /\ Opened \subseteq Entries
       /\ \A y \in Entries : core'[y].inum = core[y].inum /\ core'[y].locked = core[y].locked
       /\ \A y \in Entries \ {x} : core'[y] = core[y]
       /\ \A u \in Tasks \ {t} :
            /\ call'[u] = call[u] /\ Follows(u)
            /\ Removing(u)' <=> Removing(u)
            /\ Creating(u)' <=> Creating(u)
            /\ Counting(u)' <=> Counting(u)
            /\ Removing(u) \/ Creating(u) \/ Counting(u) => Inum(u)' = Inum(u)
       /\ FreesFollow /\ OpensFollow
  BY <1>1, <1>6, <1>8, <1>9, PartDoes
<1>11. Counting(t) /\ ~Removing(t)' /\ ~Creating(t)' /\ ~Counting(t)' /\ ~Removing(t)
  BY <1>2, <1>7 DEF Creating, Removing, Counting
<1>12. \A u \in Tasks : Follows(u)
  <2>1. Follows(t)
    BY <1>7, <1>11 DEF Follows
  <2>. QED  BY <1>10, <2>1
<1>13. Claimed' /\ Allocated'
  BY <1>9, <1>10, <1>12, PartSecond

\* No other task creates or counts it.
<1>14. \A u \in Tasks \ {t} : Creating(u) \/ Counting(u) => Inum(u) # core[x].inum
  BY <1>10, <1>11 DEF Layer2, Claimed
<1>15. ASSUME NEW j, Linked(j)'
       PROVE  /\ Linked(j)
              /\ j = core[x].inum => Links(j) = 0 /\ Links(j)' = 1
              /\ j # core[x].inum => Links(j)' = Links(j)
  <2>1. Linked(j)
    BY <1>9, <1>12, <1>15 DEF Linked, Follows
  <2>2. ASSUME j = core[x].inum PROVE Links(j) = 0 /\ Links(j)' = 1
    <3>1. Links(j) = 0
      BY <1>10, <1>11, <2>2 DEF Links
    <3>2. ASSUME NEW u \in Tasks, Counting(u)', Inum(u)' = j PROVE FALSE
      BY <1>10, <1>11, <1>14, <2>2, <3>2
    <3>3. Links(j)' = 1
      BY <3>2 DEF Links
    <3>. QED  BY <3>1, <3>3
  <2>3. ASSUME j # core[x].inum PROVE Links(j)' = Links(j)
    <3>1. \A u \in Tasks : (Counting(u)' /\ Inum(u)' = j) <=> (Counting(u) /\ Inum(u) = j)
      BY <1>10, <1>11, <2>3
    <3>. QED  BY <3>1 DEF Links
  <2>. QED  BY <2>1, <2>2, <2>3
<1>16. ASSUME NEW y \in Opened', NEW j, j = core'[y].inum, Linked(j)', ~core'[y].locked
       PROVE  core'[y].inode.nlinks = Links(j)'
  <2>1. core[y].inode.nlinks = Links(j) /\ j = core[y].inum /\ y \in Opened
    BY <1>10, <1>15, <1>16 DEF Layer2, LinksCounted
  <2>2. CASE y = x
    BY <1>4, <1>6, <1>15, <1>16, <2>1, <2>2
  <2>3. CASE y # x
    <3>1. j # core[x].inum
      BY <1>10, <2>1, <2>3 DEF Layer1, Listed
    <3>. QED  BY <1>10, <1>15, <1>16, <2>1, <2>3, <3>1
  <2>. QED  BY <2>2, <2>3
<1>17. ASSUME NEW j \in Inums, Linked(j)', \A z \in Opened' : core'[z].inum = j => core'[z].locked
       PROVE  dinode'[j].nlinks = Links(j)'
  <2>1. j # core[x].inum /\ \A z \in open_inode(j) : core[z].locked
    BY <1>10, <1>17 DEF open_inode, Opened
  <2>2. Linked(j) /\ Links(j)' = Links(j)
    BY <1>15, <1>17, <2>1
  <2>. QED  BY <1>9, <2>1, <2>2 DEF Layer2, LinksCounted
<1>18. ASSUME NEW u \in Tasks, Creating(u)', call'[u].pc \notin {"make", "read", "init"}
       PROVE  core'[call'[u].x].inode.nlinks = 0
  <2>1. u # t /\ call'[u] = call[u] /\ Creating(u)
    BY <1>10, <1>11, <1>18
  <2>2. call[u].pc \in HasPcs
    BY <1>18, <2>1 DEF Creating, HasPcs
  <2>3. Inum(u) = core[call[u].x].inum /\ call[u].x \in Entries
    BY <2>2, CallForms DEF Inum, HasPcs
  <2>4. call[u].x # x
    BY <1>14, <2>1, <2>3
  <2>5. core[call[u].x].inode.nlinks = 0
    BY <1>18, <2>1 DEF Layer2, LinksCounted
  <2>. QED  BY <1>10, <2>1, <2>3, <2>4, <2>5
<1>19. LinksCounted'
  <2>1. (\A y \in Opened : Linked(core[y].inum) /\ ~core[y].locked =>
          core[y].inode.nlinks = Links(core[y].inum))'
    BY <1>16 DEF Linked, Links
  <2>2. \A i \in Inums : Linked(i)' /\ (\A z \in open_inode(i)' : core'[z].locked) =>
          dinode'[i].nlinks = Links(i)'
    BY <1>17 DEF open_inode, Opened
  <2>3. (\A i \in Inums : Linked(i) /\ (\A z \in open_inode(i) : core[z].locked) =>
          dinode[i].nlinks = Links(i))'
    BY <2>2
  <2>4. (\A u \in Tasks : Creating(u) /\ call[u].pc \notin {"make", "read", "init"} =>
          core[call[u].x].inode.nlinks = 0)'
    BY <1>18
  <2>. QED  BY <2>1, <2>3, <2>4 DEF LinksCounted
<1>. QED
  BY <1>10, <1>13, <1>19 DEF IInv, Layer2

\* create_file() adds the entry, and has yet to count it.
LEMMA CreateEntrySound ==
  ASSUME TypeOK, Layer1, Layer2, clash = "none", NEW t \in Tasks, CreateEntry(t)
  PROVE  IInv'
<1>1. PICK x : x = call[t].x
  OBVIOUS
<1>2. /\ call[t].pc = "entry" /\ "entry" \in HasPcs \ Closing /\ "count" \in HasPcs \ Closing
      /\ entries' = entries \cup {core[x].inum}
      /\ GoOn(t, "count", call[t].n, call[t].job)
      /\ UNCHANGED <<lists, core, dev_use_count, dinode, bitmap, clash, lost>>
  BY <1>1 DEF CreateEntry, HasPcs, Closing
<1>3. /\ x \in Entries /\ core[x].inum \in Inums /\ call[t].n = 1
      /\ call[t].n \in 0..MaxRefs /\ call[t].job \in Jobs
  BY <1>1, <1>2, CallForms, CoreForm DEF Layer1, UsersHold, Fits
<1>4. Stays(t, "count", call[t].job)
  BY <1>2, <1>3, GoOnDoes
<1>5. call'[t].pc = "count" /\ call'[t].x = x /\ call'[t].n = 1
  BY <1>1, <1>2, <1>3, <1>4, CallParts DEF Stays
<1>6. Fits(call'[t])
  BY <1>5 DEF Fits
<1>7. entries' \in SUBSET Inums
  BY <1>2, <1>3 DEF TypeOK
<1>8. /\ TypeOK' /\ Layer1' /\ Kept'
      /\ x \in Opened /\ ~core[x].locked
      /\ Inum(t) = core[x].inum /\ Inum(t)' = core[x].inum
      /\ Opened' = Opened /\ Opened \subseteq Entries
      /\ \A u \in Tasks \ {t} :
           /\ call'[u] = call[u] /\ Follows(u)
           /\ Removing(u)' <=> Removing(u)
           /\ Creating(u)' <=> Creating(u)
           /\ Counting(u)' <=> Counting(u)
           /\ Removing(u) \/ Creating(u) \/ Counting(u) => Inum(u)' = Inum(u)
      /\ FreesFollow
  BY <1>1, <1>2, <1>4, <1>6, <1>7, PartDoes
<1>9. PICK i : i = core[x].inum
  OBVIOUS
<1>10. /\ Creating(t) /\ ~Counting(t) /\ ~Removing(t)' /\ ~Creating(t)' /\ Counting(t)'
       /\ ~Removing(t)
  BY <1>2, <1>5 DEF Creating, Removing, Counting

\* Nobody else has a part in it.
<1>11. \A u \in Tasks \ {t} : Removing(u) \/ Creating(u) \/ Counting(u) => Inum(u) # i
  BY <1>8, <1>9, <1>10 DEF Layer2, Claimed
<1>12. i \in bitmap /\ i \notin entries
  BY <1>8, <1>9, <1>10 DEF Layer2, Claimed
<1>13. Claimed'
  <2>1. entries' \subseteq bitmap'
    BY <1>2, <1>9, <1>12 DEF Layer2, Claimed
  <2>2. ASSUME NEW u \in Tasks, Removing(u)' \/ Creating(u)'
        PROVE  u # t /\ Inum(u)' = Inum(u) /\ Inum(u) \in bitmap \ entries /\ Inum(u) # i
               /\ (Removing(u) \/ Creating(u))
    <3>1. u # t
      BY <1>10, <2>2
    <3>2. (Removing(u) \/ Creating(u)) /\ Inum(u)' = Inum(u)
      BY <1>8, <2>2, <3>1
    <3>. QED  BY <1>11, <3>1, <3>2 DEF Layer2, Claimed
  <2>3. \A u \in Tasks : Removing(u)' \/ Creating(u)' => Inum(u)' \in bitmap' \ entries'
    BY <1>2, <1>9, <2>2
  <2>4. \A u, v \in Tasks :
          (Removing(u)' \/ Creating(u)') /\ (Removing(v)' \/ Creating(v)')
          /\ Inum(u)' = Inum(v)' => u = v
    BY <2>2 DEF Layer2, Claimed
  <2>5. ASSUME NEW u \in Tasks, NEW v \in Tasks, Counting(u)', Creating(v)' \/ Counting(v)',
               Inum(u)' = Inum(v)'
        PROVE  u = v
    <3>1. CASE u = t \/ v = t
      BY <1>8, <1>9, <1>10, <1>11, <2>5, <3>1
    <3>2. CASE u # t /\ v # t
      BY <1>8, <2>5, <3>2 DEF Layer2, Claimed
    <3>. QED  BY <3>1, <3>2
  <2>6. \A u \in Tasks : call'[u].pc \in {"make", "asleep"} => call'[u] = call[u]
    BY <1>5, <1>8
  <2>7. \A u \in Tasks : ~(call'[u].pc = "asleep" /\ call'[u].op = "create")
    BY <2>6 DEF Layer2, Claimed
  <2>8. \A u \in Tasks : call'[u].pc = "make" /\ call'[u].op = "create" =>
          \A y \in Opened' : core'[y].inum # call'[u].inum
    BY <1>2, <1>8, <2>6 DEF Layer2, Claimed, open_inode, Opened
  <2>9. (\A u \in Tasks : call[u].pc = "make" /\ call[u].op = "create" =>
          open_inode(call[u].inum) = {})'
    BY <2>8 DEF open_inode, Opened
  <2>. QED  BY <2>1, <2>3, <2>4, <2>5, <2>7, <2>9 DEF Claimed
<1>14. Allocated'
  <2>1. ASSUME NEW u \in Tasks, call'[u].pc = "free", NEW j, j = core'[call'[u].x].inum
        PROVE  /\ j \in bitmap' /\ j \notin entries'
               /\ \A y \in Opened' : core'[y].inum # j
               /\ \A v \in Tasks : Removing(v)' \/ Creating(v)' => Inum(v)' # j
               /\ \A v \in Tasks : call'[v].pc = "free" /\ core'[call'[v].x].inum = j => v = u
    <3>1. call[u].pc = "free" /\ core[call[u].x].inum = j
      BY <2>1, <1>8 DEF FreesFollow
    <3>2. /\ j \in bitmap /\ j \notin entries /\ \A y \in Opened : core[y].inum # j
          /\ \A v \in Tasks : Removing(v) \/ Creating(v) => Inum(v) # j
          /\ \A v \in Tasks : call[v].pc = "free" /\ core[call[v].x].inum = j => v = u
      BY <3>1 DEF Layer2, Allocated, open_inode, Opened
    <3>3. j # i
      BY <1>8, <1>9, <3>2
    <3>4. \A v \in Tasks : Removing(v)' \/ Creating(v)' => Inum(v)' # j
      BY <1>8, <1>10, <3>2
    <3>5. \A v \in Tasks : call'[v].pc = "free" /\ core'[call'[v].x].inum = j => v = u
      BY <1>8, <3>2 DEF FreesFollow
    <3>. QED  BY <1>2, <1>8, <1>9, <3>2, <3>3, <3>4, <3>5
  <2>2. \A y \in Opened' : core'[y].inum \in bitmap'
    BY <1>2, <1>8 DEF Layer2, Allocated
  <2>. QED  BY <2>1, <2>2 DEF Allocated, open_inode, Opened
<1>15. Links(i)' = 0
  BY <1>8, <1>9, <1>10 DEF Links
<1>16. ASSUME NEW j, j # i, Linked(j)' PROVE Linked(j) /\ Links(j)' = Links(j)
  <2>1. Linked(j)
    BY <1>2, <1>8, <1>9, <1>10, <1>16 DEF Linked
  <2>2. \A u \in Tasks : (Counting(u)' /\ Inum(u)' = j) <=> (Counting(u) /\ Inum(u) = j)
    BY <1>8, <1>9, <1>10, <1>16
  <2>. QED  BY <2>1, <2>2 DEF Links
<1>17. ASSUME NEW y \in Opened', NEW j, j = core'[y].inum, Linked(j)', ~core'[y].locked
       PROVE  core'[y].inode.nlinks = Links(j)'
  <2>1. CASE y = x
    <3>1. core[x].inode.nlinks = 0
      BY <1>1, <1>2, <1>10 DEF Layer2, LinksCounted
    <3>. QED  BY <1>2, <1>9, <1>15, <1>17, <2>1, <3>1
  <2>2. CASE y # x
    <3>1. j # i
      BY <1>2, <1>8, <1>9, <1>17, <2>2 DEF Layer1, Listed
    <3>. QED  BY <1>2, <1>8, <1>16, <1>17, <3>1 DEF Layer2, LinksCounted
  <2>. QED  BY <2>1, <2>2
<1>18. ASSUME NEW j \in Inums, Linked(j)', \A z \in Opened' : core'[z].inum = j => core'[z].locked
       PROVE  dinode'[j].nlinks = Links(j)'
  <2>1. j # i /\ \A z \in open_inode(j) : core[z].locked
    BY <1>2, <1>8, <1>9, <1>18 DEF open_inode, Opened
  <2>. QED  BY <1>2, <1>16, <1>18, <2>1 DEF Layer2, LinksCounted
<1>19. ASSUME NEW u \in Tasks, Creating(u)', call'[u].pc \notin {"make", "read", "init"}
       PROVE  core'[call'[u].x].inode.nlinks = 0
  <2>1. call'[u] = call[u] /\ Creating(u)
    BY <1>8, <1>10, <1>19
  <2>. QED  BY <1>2, <1>19, <2>1 DEF Layer2, LinksCounted
<1>20. LinksCounted'
  <2>1. (\A y \in Opened : Linked(core[y].inum) /\ ~core[y].locked =>
          core[y].inode.nlinks = Links(core[y].inum))'
    BY <1>17 DEF Linked, Links
  <2>2. \A j \in Inums : Linked(j)' /\ (\A z \in open_inode(j)' : core'[z].locked) =>
          dinode'[j].nlinks = Links(j)'
    BY <1>18 DEF open_inode, Opened
  <2>3. (\A j \in Inums : Linked(j) /\ (\A z \in open_inode(j) : core[z].locked) =>
          dinode[j].nlinks = Links(j))'
    BY <2>2
  <2>4. (\A u \in Tasks : Creating(u) /\ call[u].pc \notin {"make", "read", "init"} =>
          core[call[u].x].inode.nlinks = 0)'
    BY <1>19
  <2>. QED  BY <2>1, <2>3, <2>4 DEF LinksCounted
<1>. QED
  BY <1>8, <1>13, <1>14, <1>20 DEF IInv, Layer2

\* A task that starts to make or to remove an inode: what is kept is kept, the
\* others do what they did.
LEMMA StartDoes ==
  ASSUME TypeOK, Layer1, Layer2, NEW t \in Tasks, NEW op \in Ops, NEW i \in Inums,
         call[t] = Idle, Goto(t, Making(op, i)),
         UNCHANGED <<lists, core, dev_use_count, dinode, clash, lost>>,
         bitmap' \in SUBSET Inums, entries' \in SUBSET Inums
  PROVE  /\ TypeOK' /\ Layer1' /\ Kept'
         /\ call[t].pc = "idle"
         /\ call'[t].pc = "make" /\ call'[t].op = op /\ call'[t].inum = i /\ Inum(t)' = i
         /\ Opened' = Opened /\ Opened \subseteq Entries
         /\ ~Removing(t) /\ ~Creating(t) /\ ~Counting(t) /\ ~Counting(t)'
         /\ \A u \in Tasks \ {t} :
              /\ call'[u] = call[u]
              /\ Removing(u)' <=> Removing(u)
              /\ Creating(u)' <=> Creating(u)
              /\ Counting(u)' <=> Counting(u)
              /\ Removing(u) \/ Creating(u) \/ Counting(u) => Inum(u)' = Inum(u)
         /\ \A u \in Tasks : call'[u].pc = "free" => call'[u] = call[u]
<1>1. /\ call[t].pc = "idle" /\ CallsBut(t)
      /\ call'[t].pc = "make" /\ call'[t].op = op /\ call'[t].inum = i
  BY CallParts, GotoParts
<1>2. /\ \A u \in Tasks \ {t} : call'[u] = call[u]
      /\ UNCHANGED <<inode_open_list, inode_free_list, dev_use_count, core,
                     dinode, clash, lost>>
  BY <1>1 DEF CallsBut, lists
<1>3. TypeOK'
  BY <1>1, <1>2 DEF TypeOK, CallsBut
<1>4. Layer1'
  BY <1>1, <1>3, OutsideFirst
<1>5. Opened' = Opened /\ Opened \subseteq Entries
  BY <1>2 DEF Opened, ToSet, TypeOK
<1>6. Kept'
  <2>1. \A y : UsesFollow(y)
    <3>1. \A y : ~Using(t, y)
      BY <1>1 DEF Using, HasPcs
    <3>. QED  BY <1>2, <3>1, UsersFollow
  <2>. QED  BY <1>2, <1>5, <2>1, KeptFollows DEF Layer2
<1>7. ~Removing(t) /\ ~Creating(t) /\ ~Counting(t) /\ ~Counting(t)' /\ Inum(t)' = i
  BY <1>1 DEF Removing, Creating, Counting, Inum
<1>8. ASSUME NEW u \in Tasks \ {t}
      PROVE  /\ call'[u] = call[u]
             /\ Removing(u)' <=> Removing(u)
             /\ Creating(u)' <=> Creating(u)
             /\ Counting(u)' <=> Counting(u)
             /\ Removing(u) \/ Creating(u) \/ Counting(u) => Inum(u)' = Inum(u)
  <2>1. /\ Follows(u)
        /\ Removing(u)' <=> Removing(u)
        /\ Creating(u)' <=> Creating(u)
        /\ Counting(u)' <=> Counting(u)
    BY <1>2, OthersFollow DEF Layer2
  <2>. QED  BY <1>2, <2>1 DEF Follows
<1>9. \A u \in Tasks : call'[u].pc = "free" => call'[u] = call[u]
  BY <1>1, <1>2
<1>. QED
  BY <1>1, <1>3, <1>4, <1>5, <1>6, <1>7, <1>8, <1>9

\* The counts of links stay, if what has a link is what had one.
LEMMA StartLinks ==
  ASSUME LinksCounted, NEW t \in Tasks, call'[t].pc = "make",
         UNCHANGED <<core, dinode>>, Opened' = Opened, ~Counting(t), ~Counting(t)',
         \A u \in Tasks \ {t} :
              /\ call'[u] = call[u]
              /\ Creating(u)' <=> Creating(u)
              /\ Counting(u)' <=> Counting(u)
              /\ Counting(u) => Inum(u)' = Inum(u),
         \A j : Linked(j)' => Linked(j)
  PROVE  LinksCounted'
<1>1. ASSUME NEW j PROVE Links(j)' = Links(j)
  <2>1. \A u \in Tasks : (Counting(u)' /\ Inum(u)' = j) <=> (Counting(u) /\ Inum(u) = j)
    OBVIOUS
  <2>. QED  BY <2>1 DEF Links
<1>2. ASSUME NEW y \in Opened', NEW j, j = core'[y].inum, Linked(j)', ~core'[y].locked
      PROVE  core'[y].inode.nlinks = Links(j)'
  BY <1>1, <1>2 DEF LinksCounted
<1>3. (\A y \in Opened : Linked(core[y].inum) /\ ~core[y].locked =>
          core[y].inode.nlinks = Links(core[y].inum))'
  BY <1>2 DEF Linked, Links
<1>4. \A j \in Inums : Linked(j)' /\ (\A z \in open_inode(j)' : core'[z].locked) =>
          dinode'[j].nlinks = Links(j)'
  BY <1>1 DEF LinksCounted, open_inode, Opened
<1>5. (\A j \in Inums : Linked(j) /\ (\A z \in open_inode(j) : core[z].locked) =>
          dinode[j].nlinks = Links(j))'
  BY <1>4
<1>6. \A u \in Tasks : Creating(u)' /\ call'[u].pc \notin {"make", "read", "init"} =>
          core'[call'[u].x].inode.nlinks = 0
  BY DEF LinksCounted
<1>7. (\A u \in Tasks : Creating(u) /\ call[u].pc \notin {"make", "read", "init"} =>
          core[call[u].x].inode.nlinks = 0)'
  BY <1>6
<1>. QED
  BY <1>3, <1>5, <1>7 DEF LinksCounted

\* delete_file_entry() takes the entry; its inode is t's to remove.
LEMMA RemoveLinkEntrySound ==
  ASSUME TypeOK, Layer1, Layer2, clash = "none", NEW t \in Tasks, NEW i \in Inums,
         Remove_link(t, i)
  PROVE  IInv'
<1>1. /\ call[t] = Idle /\ i \in entries /\ entries' = entries \ {i}
      /\ Goto(t, Making("remove", i)) /\ "remove" \in Ops
      /\ UNCHANGED <<lists, core, dev_use_count, dinode, bitmap, clash, lost>>
  BY DEF Remove_link, Ops
<1>2. bitmap' \in SUBSET Inums /\ entries' \in SUBSET Inums
  BY <1>1 DEF TypeOK
<1>3. /\ TypeOK' /\ Layer1' /\ Kept'
      /\ call[t].pc = "idle"
      /\ call'[t].pc = "make" /\ call'[t].op = "remove" /\ Inum(t)' = i
      /\ Opened' = Opened /\ Opened \subseteq Entries
      /\ ~Removing(t) /\ ~Creating(t) /\ ~Counting(t) /\ ~Counting(t)'
      /\ \A u \in Tasks \ {t} :
           /\ call'[u] = call[u]
           /\ Removing(u)' <=> Removing(u)
           /\ Creating(u)' <=> Creating(u)
           /\ Counting(u)' <=> Counting(u)
           /\ Removing(u) \/ Creating(u) \/ Counting(u) => Inum(u)' = Inum(u)
      /\ \A u \in Tasks : call'[u].pc = "free" => call'[u] = call[u]
  BY <1>1, <1>2, StartDoes
<1>4. Removing(t)' /\ ~Creating(t)'
  BY <1>3 DEF Removing, Creating
<1>5. entries \subseteq bitmap
  BY DEF Layer2, Claimed
<1>6. \A u \in Tasks \ {t} : Removing(u)' \/ Creating(u)' =>
        /\ Removing(u) \/ Creating(u)
        /\ Inum(u)' = Inum(u) /\ Inum(u) \in bitmap \ entries /\ Inum(u) # i
  BY <1>1, <1>3 DEF Layer2, Claimed
<1>7. Claimed'
  <2>1. entries' \subseteq bitmap'
    BY <1>1, <1>5
  <2>2. \A u \in Tasks : Removing(u)' \/ Creating(u)' => Inum(u)' \in bitmap' \ entries'
    BY <1>1, <1>3, <1>5, <1>6
  <2>3. \A u, v \in Tasks :
          (Removing(u)' \/ Creating(u)') /\ (Removing(v)' \/ Creating(v)')
          /\ Inum(u)' = Inum(v)' => u = v
    BY <1>3, <1>6 DEF Layer2, Claimed
  <2>4. \A u, v \in Tasks :
          Counting(u)' /\ (Creating(v)' \/ Counting(v)') /\ Inum(u)' = Inum(v)' => u = v
    BY <1>3, <1>4 DEF Layer2, Claimed
  <2>5. \A u \in Tasks : ~(call'[u].pc = "asleep" /\ call'[u].op = "create")
    BY <1>3 DEF Layer2, Claimed
  <2>6. \A u \in Tasks : call'[u].pc = "make" /\ call'[u].op = "create" =>
          \A y \in Opened' : core'[y].inum # call'[u].inum
    BY <1>1, <1>3 DEF Layer2, Claimed, open_inode, Opened
  <2>7. (\A u \in Tasks : call[u].pc = "make" /\ call[u].op = "create" =>
          open_inode(call[u].inum) = {})'
    BY <2>6 DEF open_inode, Opened
  <2>. QED  BY <2>1, <2>2, <2>3, <2>4, <2>5, <2>7 DEF Claimed
<1>8. Allocated'
  <2>1. ASSUME NEW u \in Tasks, call'[u].pc = "free", NEW j, j = core'[call'[u].x].inum
        PROVE  /\ j \in bitmap' /\ j \notin entries'
               /\ \A y \in Opened' : core'[y].inum # j
               /\ \A v \in Tasks : Removing(v)' \/ Creating(v)' => Inum(v)' # j
               /\ \A v \in Tasks : call'[v].pc = "free" /\ core'[call'[v].x].inum = j => v = u
    <3>1. call[u].pc = "free" /\ core[call[u].x].inum = j
      BY <1>1, <1>3, <2>1
    <3>2. /\ j \in bitmap /\ j \notin entries /\ \A y \in Opened : core[y].inum # j
          /\ \A v \in Tasks : Removing(v) \/ Creating(v) => Inum(v) # j
          /\ \A v \in Tasks : call[v].pc = "free" /\ core[call[v].x].inum = j => v = u
      BY <3>1 DEF Layer2, Allocated, open_inode, Opened
    <3>3. \A v \in Tasks : Removing(v)' \/ Creating(v)' => Inum(v)' # j
      BY <1>1, <1>3, <1>6, <3>2
    <3>4. \A v \in Tasks : call'[v].pc = "free" /\ core'[call'[v].x].inum = j => v = u
      BY <1>1, <1>3, <3>2
    <3>. QED  BY <1>1, <1>3, <3>2, <3>3, <3>4
  <2>2. \A y \in Opened' : core'[y].inum \in bitmap'
    BY <1>1, <1>3 DEF Layer2, Allocated
  <2>. QED  BY <2>1, <2>2 DEF Allocated, open_inode, Opened
<1>9. \A j : Linked(j)' => Linked(j)
  BY <1>1, <1>3 DEF Linked
<1>10. LinksCounted'
  BY <1>1, <1>3, <1>9, StartLinks DEF Layer2
<1>. QED
  BY <1>3, <1>7, <1>8, <1>10 DEF IInv, Layer2

\* alloc_inode() has found an inode that nobody has.
LEMMA CreateSound ==
  ASSUME TypeOK, Layer1, Layer2, clash = "none", NEW t \in Tasks, NEW i \in Inums, Create(t, i)
  PROVE  IInv'
<1>1. /\ call[t] = Idle /\ i \notin bitmap /\ bitmap' = bitmap \cup {i}
      /\ Goto(t, Making("create", i)) /\ "create" \in Ops
      /\ UNCHANGED <<lists, core, dev_use_count, dinode, entries, clash, lost>>
  BY DEF Create, Ops
<1>2. bitmap' \in SUBSET Inums /\ entries' \in SUBSET Inums
  BY <1>1 DEF TypeOK
<1>3. /\ TypeOK' /\ Layer1' /\ Kept'
      /\ call[t].pc = "idle"
      /\ call'[t].pc = "make" /\ call'[t].op = "create" /\ call'[t].inum = i /\ Inum(t)' = i
      /\ Opened' = Opened /\ Opened \subseteq Entries
      /\ ~Removing(t) /\ ~Creating(t) /\ ~Counting(t) /\ ~Counting(t)'
      /\ \A u \in Tasks \ {t} :
           /\ call'[u] = call[u]
           /\ Removing(u)' <=> Removing(u)
           /\ Creating(u)' <=> Creating(u)
           /\ Counting(u)' <=> Counting(u)
           /\ Removing(u) \/ Creating(u) \/ Counting(u) => Inum(u)' = Inum(u)
      /\ \A u \in Tasks : call'[u].pc = "free" => call'[u] = call[u]
  BY <1>1, <1>2, StartDoes
<1>4. ~Removing(t)' /\ Creating(t)'
  BY <1>3 DEF Removing, Creating
<1>5. entries \subseteq bitmap /\ \A y \in Opened : core[y].inum \in bitmap
  BY DEF Layer2, Claimed, Allocated
<1>6. \A u \in Tasks \ {t} : Removing(u)' \/ Creating(u)' =>
        /\ Removing(u) \/ Creating(u)
        /\ Inum(u)' = Inum(u) /\ Inum(u) \in bitmap \ entries /\ Inum(u) # i
  BY <1>1, <1>3 DEF Layer2, Claimed
<1>7. \A u \in Tasks \ {t} : Counting(u)' => Inum(u)' # i
  <2>1. ASSUME NEW u \in Tasks \ {t}, Counting(u)' PROVE Inum(u)' # i
    <3>1. call[u].pc = "count" /\ Inum(u)' = Inum(u)
      BY <1>3, <2>1 DEF Counting
    <3>2. call[u].pc \in HasPcs \ Closing
      BY <3>1 DEF HasPcs, Closing
    <3>3. call[u].x \in Opened /\ Inum(u) = core[call[u].x].inum
      BY <3>1, <3>2 DEF Layer1, UsersHold, Inum
    <3>. QED  BY <1>1, <1>5, <3>1, <3>3
  <2>. QED  BY <2>1
<1>8. Claimed'
  <2>1. entries' \subseteq bitmap'
    BY <1>1, <1>5
  <2>2. \A u \in Tasks : Removing(u)' \/ Creating(u)' => Inum(u)' \in bitmap' \ entries'
    BY <1>1, <1>3, <1>5, <1>6
  <2>3. \A u, v \in Tasks :
          (Removing(u)' \/ Creating(u)') /\ (Removing(v)' \/ Creating(v)')
          /\ Inum(u)' = Inum(v)' => u = v
    BY <1>3, <1>6 DEF Layer2, Claimed
  <2>4. ASSUME NEW u \in Tasks, NEW v \in Tasks, Counting(u)', Creating(v)' \/ Counting(v)',
               Inum(u)' = Inum(v)'
        PROVE  u = v
    <3>1. CASE v = t
      BY <1>3, <1>7, <2>4, <3>1
    <3>2. CASE v # t
      BY <1>3, <2>4, <3>2 DEF Layer2, Claimed
    <3>. QED  BY <3>1, <3>2
  <2>5. \A u \in Tasks : ~(call'[u].pc = "asleep" /\ call'[u].op = "create")
    BY <1>3 DEF Layer2, Claimed
  <2>6. \A u \in Tasks : call'[u].pc = "make" /\ call'[u].op = "create" =>
          \A y \in Opened' : core'[y].inum # call'[u].inum
    <3>1. \A u \in Tasks \ {t} : call[u].pc = "make" /\ call[u].op = "create" =>
            \A y \in Opened : core[y].inum # call[u].inum
      BY DEF Layer2, Claimed, open_inode, Opened
    <3>. QED  BY <1>1, <1>3, <1>5, <3>1
  <2>7. (\A u \in Tasks : call[u].pc = "make" /\ call[u].op = "create" =>
          open_inode(call[u].inum) = {})'
    BY <2>6 DEF open_inode, Opened
  <2>. QED  BY <2>1, <2>2, <2>3, <2>4, <2>5, <2>7 DEF Claimed
<1>9. Allocated'
  <2>1. ASSUME NEW u \in Tasks, call'[u].pc = "free", NEW j, j = core'[call'[u].x].inum
        PROVE  /\ j \in bitmap' /\ j \notin entries'
               /\ \A y \in Opened' : core'[y].inum # j
               /\ \A v \in Tasks : Removing(v)' \/ Creating(v)' => Inum(v)' # j
               /\ \A v \in Tasks : call'[v].pc = "free" /\ core'[call'[v].x].inum = j => v = u
    <3>1. call[u].pc = "free" /\ core[call[u].x].inum = j
      BY <1>1, <1>3, <2>1
    <3>2. /\ j \in bitmap /\ j \notin entries /\ \A y \in Opened : core[y].inum # j
          /\ \A v \in Tasks : Removing(v) \/ Creating(v) => Inum(v) # j
          /\ \A v \in Tasks : call[v].pc = "free" /\ core[call[v].x].inum = j => v = u
      BY <3>1 DEF Layer2, Allocated, open_inode, Opened
    <3>3. \A v \in Tasks : Removing(v)' \/ Creating(v)' => Inum(v)' # j
      BY <1>1, <1>3, <1>6, <3>2
    <3>4. \A v \in Tasks : call'[v].pc = "free" /\ core'[call'[v].x].inum = j => v = u
      BY <1>1, <1>3, <3>2
    <3>. QED  BY <1>1, <1>3, <3>2, <3>3, <3>4
  <2>2. \A y \in Opened' : core'[y].inum \in bitmap'
    BY <1>1, <1>3, <1>5
  <2>. QED  BY <2>1, <2>2 DEF Allocated, open_inode, Opened
<1>10. \A j : Linked(j)' => Linked(j)
  BY <1>1, <1>3, <1>4 DEF Linked
<1>11. LinksCounted'
  BY <1>1, <1>3, <1>10, StartLinks DEF Layer2
<1>. QED
  BY <1>3, <1>8, <1>9, <1>11 DEF IInv, Layer2

\* make_file() has failed: the flag is set as it would have been.
LEMMA MakeFileFailsSound ==
  ASSUME TypeOK, Layer1, Layer2, clash = "none", NEW t \in Tasks, MakeFileFails(t)
  PROVE  IInv'
<1>1. PICK x : x = call[t].x
  OBVIOUS
<1>2. /\ call[t].pc = "dirty" /\ core' = [core EXCEPT ![x].dirty = TRUE]
      /\ GoOn(t, "test", call[t].n, "undo")
      /\ UNCHANGED <<lists, dev_use_count, dinode, bitmap, entries, clash, lost>>
  BY <1>1 DEF MakeFileFails, ondisk
<1>3. "dirty" \in HasPcs \ Closing /\ "test" \in HasPcs \ Closing /\ "undo" \in Jobs
  BY DEF HasPcs, Closing, Jobs
<1>4. x \in Entries /\ call[t].n \in 0..MaxRefs
  BY <1>1, <1>2, <1>3, CallForms
<1>5. /\ CoreBut(x) /\ core'[x].dirty = TRUE /\ core'[x].inode = core[x].inode
      /\ core'[x].inum = core[x].inum /\ core'[x].use_count = core[x].use_count
      /\ core'[x].locked = core[x].locked
  BY <1>2, <1>4, CoreSet
<1>6. CallsBut(t) /\ call'[t] = Has("test", x, call[t].n, "undo")
  <2>1. Has("test", x, call[t].n, "undo") \in Calls
    BY <1>3, <1>4, CallParts
  <2>. QED  BY <1>1, <1>2, <2>1, GotoParts DEF GoOn
<1>7. Stays(t, "test", "undo")
  BY <1>1, <1>2, <1>3, <1>4, <1>5, <1>6 DEF Stays
<1>8. KeptIn(x)'
  <2>1. call'[t].pc = "test" /\ call'[t].x = x
    BY <1>3, <1>4, <1>6, CallParts
  <2>2. Using(t, x)' /\ call'[t].pc # "drop"
    BY <1>3, <2>1 DEF Using
  <2>. QED  BY <1>5, <2>2 DEF KeptIn
<1>9. clash' \in Clashes /\ lost' \in SUBSET Inums /\ dinode' \in [Inums -> Contents]
  BY <1>2 DEF TypeOK, Clashes
<1>10. \A i \in Inums : dinode'[i] = dinode[i] /\ (i \in lost => i \in lost')
  BY <1>2
<1>. QED
  BY <1>1, <1>2, <1>5, <1>7, <1>8, <1>9, <1>10, StaysSound

\* create_file() frees the inode again: nothing changes, or it is the error.
LEMMA FreeAgainSound ==
  ASSUME TypeOK, Layer1, Layer2, clash = "none", NEW t \in Tasks, FreeAgain(t)
  PROVE  IInv'
<1>1. /\ call[t].pc = "undo" /\ bitmap' = bitmap \ {call[t].inum}
      /\ clash' = IF call[t].inum \in bitmap THEN "refreed" ELSE clash
      /\ Goto(t, Idle)
      /\ UNCHANGED <<lists, core, dev_use_count, dinode, entries, lost>>
  BY DEF FreeAgain, Clash
<1>2. CallsBut(t) /\ call'[t].pc = "idle" /\ call'[t] \in Calls
  BY <1>1, CallParts, GotoParts
<1>3. CASE call[t].inum \in bitmap
  <2>1. TypeOK'
    BY <1>1, <1>2, <1>3 DEF TypeOK, CallsBut, Clashes, lists
  <2>. QED  BY <1>1, <1>3, <2>1 DEF IInv
<1>4. CASE call[t].inum \notin bitmap
  <2>1. UNCHANGED <<lists, dev_use_count, core, ondisk, clash, lost>>
    BY <1>1, <1>4 DEF ondisk
  <2>2. Follows(t)
    <3>1. ~Removing(t)' /\ ~Creating(t)' /\ ~Counting(t)'
      BY <1>2 DEF Removing, Creating, Counting
    <3>. QED  BY <1>2, <3>1 DEF Follows
  <2>. QED  BY <1>1, <1>2, <2>1, <2>2, OutsideSound
<1>. QED
  BY <1>3, <1>4

\* The entry cannot be made: create_file() returns a closed file, the error.
LEMMA CreateEntryFailsSound ==
  ASSUME TypeOK, NEW t \in Tasks, CreateEntryFails(t)
  PROVE  IInv'
<1>1. clash' = "returned" /\ UNCHANGED <<lists, core, dev_use_count, ondisk, call, lost>>
  BY DEF CreateEntryFails, Clash
<1>2. TypeOK'
  BY <1>1 DEF TypeOK, Clashes, lists, ondisk
<1>. QED
  BY <1>1, <1>2 DEF IInv

-----------------------------------------------------------------------------
(* The invariant, and what it is for.                                       *)

\* At the start all entries are free, and who has an entry has one link.
LEMMA InitSound == Init => IInv
<1> SUFFICES ASSUME Init PROVE IInv
  OBVIOUS
<1>1. /\ NR_INODES \in Nat /\ MaxRefs \in Nat /\ LinkWidth \in Nat /\ LinkWidth >= 2
  BY ParametersAssumption
<1>2. /\ inode_open_list = <<>> /\ inode_free_list \in Seq(Entries)
      /\ Len(inode_free_list) = NR_INODES /\ \A n \in Entries : inode_free_list[n] = n
  <2>1. inode_open_list = <<>> /\ inode_free_list = [n \in 1..NR_INODES |-> n]
    BY DEF Init, Entries
  <2>2. inode_free_list \in [1..NR_INODES -> Entries]
    BY <2>1 DEF Entries
  <2>3. inode_free_list \in Seq(Entries)
    BY <1>1, <2>2
  <2>4. Len(inode_free_list) = NR_INODES
    BY <1>1, <2>1
  <2>. QED  BY <2>1, <2>3, <2>4 DEF Entries
<1>3. /\ core \in [Entries -> CoreInodes]
  <2>1. PICK s \in Stamps, i \in Inums :
          core = [x \in Entries |-> [inum |-> i, use_count |-> 0, locked |-> FALSE,
                                     dirty |-> FALSE, inode |-> [nlinks |-> 0, stamp |-> s]]]
    BY DEF Init
  <2>2. 0 \in 0..(LinkWidth - 1) /\ 0 \in Nat
    BY <1>1
  <2>3. PICK c \in Contents : c = [nlinks |-> 0, stamp |-> s]
    <3>1. [nlinks |-> 0, stamp |-> s] \in Contents
      BY <2>2 DEF Contents
    <3>. QED  BY <3>1
  <2>4. [inum |-> i, use_count |-> 0, locked |-> FALSE, dirty |-> FALSE, inode |-> c]
        \in CoreInodes
    BY <2>2 DEF CoreInodes
  <2>. QED  BY <2>1, <2>3, <2>4
<1>4. /\ dinode \in [Inums -> Contents] /\ \A i \in entries : dinode[i].nlinks = 1
  <2>1. PICK s \in [Inums -> Stamps] :
          dinode = [i \in Inums |-> [nlinks |-> IF i \in entries THEN 1 ELSE 0, stamp |-> s[i]]]
    BY DEF Init
  <2>2. 0 \in 0..(LinkWidth - 1) /\ 1 \in 0..(LinkWidth - 1)
    BY <1>1
  <2>3. ASSUME NEW i \in Inums
        PROVE  dinode[i] \in Contents /\ (i \in entries => dinode[i].nlinks = 1)
    <3>1. PICK n \in 0..(LinkWidth - 1) : n = IF i \in entries THEN 1 ELSE 0
      BY <2>2
    <3>2. dinode[i] = [nlinks |-> n, stamp |-> s[i]] /\ s[i] \in Stamps
      BY <2>1, <3>1
    <3>3. dinode[i] \in Contents /\ dinode[i].nlinks = n
      BY <3>2 DEF Contents
    <3>. QED  BY <3>1, <3>3
  <2>4. entries \subseteq Inums
    BY DEF Init
  <2>. QED  BY <2>1, <2>3, <2>4
<1>5. /\ dev_use_count = 1 /\ entries \in SUBSET Inums /\ bitmap = entries
      /\ clash = "none" /\ lost = {}
      /\ call = [t \in Tasks |-> Idle] /\ \A t \in Tasks : call[t].pc = "idle"
  BY CallParts DEF Init
<1>6. TypeOK
  <2>1. call \in [Tasks -> Calls]
    BY <1>5, CallParts
  <2>. QED  BY <1>2, <1>3, <1>4, <1>5, <2>1 DEF TypeOK, Clashes
<1>7. Opened = {} /\ Free = Entries /\ Leaving = {}
  <2>1. Leaving = {}
    BY <1>5 DEF Leaving
  <2>2. Free = Entries
    BY <1>1, <1>2 DEF Free, ToSet, Entries
  <2>. QED  BY <1>2, <2>1, <2>2 DEF Opened, ToSet
<1>8. \A t \in Tasks : call[t].pc \notin HasPcs /\ ~Removing(t) /\ ~Creating(t) /\ ~Counting(t)
  BY <1>5 DEF HasPcs, Removing, Creating, Counting
<1>9. Layer1
  <2>1. Listed
    <3>1. NoRepeats(inode_open_list) /\ NoRepeats(inode_free_list)
      BY <1>1, <1>2 DEF NoRepeats, Entries
    <3>2. dev_use_count = 1 + NR_INODES - Len(inode_free_list)
      BY <1>1, <1>2, <1>5
    <3>. QED  BY <1>5, <1>7, <3>1, <3>2 DEF Listed
  <2>2. Counted /\ LocksHeld /\ SleepersSafe
    BY <1>5, <1>7 DEF Counted, LocksHeld, SleepersSafe
  <2>3. UsersHold
    BY <1>5, <1>8 DEF UsersHold, Fits, Closing, HasPcs
  <2>. QED  BY <2>1, <2>2, <2>3 DEF Layer1
<1>10. Layer2
  <2>1. Claimed
    BY <1>5, <1>8 DEF Claimed
  <2>2. Allocated /\ Kept
    BY <1>5, <1>7 DEF Allocated, Kept
  <2>3. ASSUME NEW i \in Inums, Linked(i) PROVE dinode[i].nlinks = Links(i)
    <3>1. i \in entries /\ Links(i) = 1
      BY <1>8, <2>3 DEF Linked, Links
    <3>. QED  BY <1>4, <3>1
  <2>4. LinksCounted
    BY <1>7, <1>8, <2>3 DEF LinksCounted
  <2>. QED  BY <2>1, <2>2, <2>4 DEF Layer2
<1>. QED
  BY <1>6, <1>9, <1>10 DEF IInv

\* The steps keep the invariant, and a corrupted cache stays as it is.
LEMMA NextSound == IInv /\ [Next]_vars => IInv'
<1> SUFFICES ASSUME IInv, [Next]_vars PROVE IInv'
  OBVIOUS
<1>1. ASSUME UNCHANGED vars PROVE IInv'
  <2>1. UNCHANGED <<inode_open_list, inode_free_list, core, dev_use_count, dinode, bitmap,
                    entries, call, clash, lost>>
    BY <1>1 DEF vars, lists, ondisk
  <2>2. TypeOK'
    BY <2>1 DEF IInv, TypeOK
  <2>3. ASSUME clash = "none" PROVE Layer1' /\ Layer2'
    <3>1. Layer1 /\ Layer2
      BY <2>3 DEF IInv
    <3>2. Opened' = Opened /\ Free' = Free /\ Leaving' = Leaving
      BY <2>1 DEF Opened, Free, Leaving
    <3>3. Listed'
      BY <2>1, <3>1, <3>2 DEF Layer1, Listed
    <3>4. Counted'
      BY <2>1, <3>1, <3>2 DEF Layer1, Counted, References, Refs
    <3>5. LocksHeld' /\ UsersHold' /\ SleepersSafe'
      BY <2>1, <3>1, <3>2
      DEF Layer1, LocksHeld, UsersHold, SleepersSafe, Reads, At
    <3>6. Claimed' /\ Allocated'
      BY <2>1, <3>1, <3>2
      DEF Layer2, Claimed, Allocated, Removing, Creating, Counting, Inum, open_inode
    <3>7. Kept'
      BY <2>1, <3>1, <3>2 DEF Layer2, Kept, KeptIn, Using
    <3>8. LinksCounted'
      BY <2>1, <3>1, <3>2
      DEF Layer2, LinksCounted, Linked, Links, Removing, Creating, Counting, Inum, open_inode
    <3>. QED  BY <3>3, <3>4, <3>5, <3>6, <3>7, <3>8 DEF Layer1, Layer2
  <2>. QED  BY <2>1, <2>2, <2>3 DEF IInv
<1>2. ASSUME NEW t \in Tasks, Step(t), clash = "none" PROVE IInv'
  <2>1. TypeOK /\ Layer1 /\ Layer2
    BY <1>2 DEF IInv
  <2>2. CASE make_inode(t)
    BY <1>2, <2>1, <2>2, SleepSound, HitSound, MissSound, FullSound, ReadSound, ReadFailsSound
    DEF make_inode
  <2>3. CASE write_inode(t)
    BY <1>2, <2>1, <2>3, TestSound, CopySound, FailsSound, ClearSound DEF write_inode
  <2>4. CASE close_inode(t)
    BY <1>2, <2>1, <2>4, DropSound, UnlinkSound, FreeSound, PutSound DEF close_inode
  <2>5. CASE User(t)
    <3>1. CASE \E i \in Inums : Open(t, i) \/ Remove_link(t, i) \/ Create(t, i)
      BY <1>2, <2>1, <3>1, OpenSound, RemoveLinkEntrySound, CreateSound
    <3>2. CASE \E s \in Stamps : Modify(t, s) \/ InitInode(t, s)
      BY <1>2, <2>1, <3>2, ModifySound, InitInodeSound
    <3>3. CASE CreateEntry(t) \/ CountLink(t) \/ RemoveLink(t) \/ SetDirty(t) \/ dup_inode(t)
      BY <1>2, <2>1, <3>3, CreateEntrySound, CountLinkSound, RemoveLinkSound, SetDirtySound,
         DupSound
    <3>4. CASE \E job \in {"write", "close"} : Begin(t, job)
      BY <1>2, <2>1, <3>4, BeginSound
    <3>5. CASE CreateEntryFails(t) \/ MakeFileFails(t) \/ FreeAgain(t)
      BY <1>2, <2>1, <3>5, CreateEntryFailsSound, MakeFileFailsSound, FreeAgainSound
    <3>. QED  BY <2>5, <3>1, <3>2, <3>3, <3>4, <3>5 DEF User
  <2>. QED  BY <1>2, <2>2, <2>3, <2>4, <2>5 DEF Step
<1>. QED
  BY <1>1, <1>2 DEF Next

\* What the invariant says of the inodes.
LEMMA InvariantSound == IInv => InodesSound
<1> SUFFICES ASSUME IInv PROVE InodesSound
  OBVIOUS
<1>1. TypeOK
  BY DEF IInv
<1>2. ASSUME clash = "none"
      PROVE  /\ IsInjective(inode_open_list) /\ IsInjective(inode_free_list)
             /\ Opened \cup Free \cup Leaving = Entries
             /\ Opened \cap (Free \cup Leaving) = {}
             /\ \A x, y \in Opened : core[x].inum = core[y].inum => x = y
             /\ \A x \in Opened : core[x].use_count = Cardinality(References(x))
             /\ dev_use_count = 1 + NR_INODES - Len(inode_free_list)
  <2>1. Layer1
    BY <1>2 DEF IInv
  <2>2. /\ inode_open_list \in Seq(Entries) /\ inode_free_list \in Seq(Entries)
        /\ NoRepeats(inode_open_list) /\ NoRepeats(inode_free_list)
    BY <1>1, <2>1 DEF TypeOK, Layer1, Listed
  <2>3. IsInjective(inode_open_list) /\ IsInjective(inode_free_list)
    BY <2>2, NoRepeatsInjective
  <2>. QED  BY <2>1, <2>3 DEF Layer1, Listed, Counted
<1>3. InodesConsistent
  BY <1>2 DEF InodesConsistent, Opened, Free
<1>4. SleepersAreWoken
  BY DEF IInv, Layer1, SleepersSafe, SleepersAreWoken, Reads
<1>5. ASSUME clash = "none", NEW i \in Inums \ bitmap
      PROVE  /\ i \notin entries
             /\ \A t \in Tasks : call[t].pc \in HasPcs /\ call[t].n > 0 =>
                  core[call[t].x].inum # i
  <2>1. Layer1 /\ Layer2
    BY <1>5 DEF IInv
  <2>2. i \notin entries
    BY <1>5, <2>1 DEF Layer2, Claimed
  <2>3. ASSUME NEW t \in Tasks, call[t].pc \in HasPcs, call[t].n > 0
        PROVE  core[call[t].x].inum # i
    <3>1. call[t].pc \notin Closing
      BY <2>1, <2>3 DEF Layer1, UsersHold
    <3>2. call[t].x \in Opened
      BY <2>1, <2>3, <3>1 DEF Layer1, UsersHold
    <3>. QED  BY <1>5, <2>1, <3>2 DEF Layer2, Allocated
  <2>. QED  BY <2>2, <2>3
<1>6. FreeIsUnused
  BY <1>5 DEF FreeIsUnused
<1>. QED
  BY <1>1, <1>3, <1>4, <1>6 DEF InodesSound

\* The inodes in memory stay sound, however many tasks open, create, write,
\* close and remove them, and whether create_file() gets its structure or not:
\* until a named race, the ignored error or one of the two exits of
\* create_file() corrupts the cache, an entry is on one list only, an inode is
\* in memory once, use_count counts its users, nobody sleeps for ever, and an
\* inode is freed on disk only when nobody has it open (make_inode, write_inode,
\* close_inode, create_file, remove_link).
THEOREM InodesSafe == Spec => []InodesSound
<1>. QED
  BY InitSound, NextSound, InvariantSound, PTL DEF Spec

-----------------------------------------------------------------------------
(* The inodes are a store.                                                  *)

\* What an inode holds is in memory, or on disk while it is not open or being read.
ContentRight ==
    /\ content \in [Inums -> Contents]
    /\ \A x \in Opened : ~core[x].locked => content[core[x].inum] = core[x].inode
    /\ \A i \in Inums : (\A x \in open_inode(i) : core[x].locked) => content[i] = dinode[i]

LEMMA ContentForms == TypeOK /\ Layer1 => ContentRight
<1> SUFFICES ASSUME TypeOK, Layer1 PROVE ContentRight
  OBVIOUS
<1>1. \A i : \A x : x \in open_inode(i) <=> x \in Opened /\ core[x].inum = i
  BY DEF open_inode, Opened
<1>2. Opened \subseteq Entries /\ dinode \in [Inums -> Contents]
  BY DEF Layer1, Listed, TypeOK
<1>3. \A x \in Opened : core[x].inum \in Inums /\ core[x].inode \in Contents
  BY <1>2, CoreForm
<1>4. ASSUME NEW x \in Opened, ~core[x].locked PROVE content[core[x].inum] = core[x].inode
  <2>1. PICK i \in Inums : i = core[x].inum
    BY <1>3
  <2>2. x \in open_inode(i) /\ \A y \in open_inode(i) : y = x
    BY <1>1, <2>1 DEF Layer1, Listed
  <2>3. (CHOOSE y \in open_inode(i) : ~core[y].locked) = x
    BY <1>4, <2>2
  <2>4. content[i] = core[CHOOSE y \in open_inode(i) : ~core[y].locked].inode
    BY <1>4, <2>2 DEF content
  <2>. QED  BY <2>1, <2>3, <2>4
<1>5. ASSUME NEW i \in Inums, \A x \in open_inode(i) : core[x].locked
      PROVE  content[i] = dinode[i]
  BY <1>5 DEF content
<1>6. ASSUME NEW i \in Inums PROVE content[i] \in Contents
  <2>1. CASE \A x \in open_inode(i) : core[x].locked
    BY <1>2, <1>5, <2>1
  <2>2. ASSUME NEW x \in open_inode(i), ~core[x].locked PROVE content[i] \in Contents
    <3>1. x \in Opened /\ core[x].inum = i
      BY <1>1
    <3>. QED  BY <1>3, <1>4, <2>2, <3>1
  <2>. QED  BY <2>1, <2>2
<1>7. content = [i \in Inums |-> content[i]]
  BY DEF content
<1>. QED
  BY <1>4, <1>5, <1>6, <1>7 DEF ContentRight

\* What a task does, as the users of inodes see it, by its place.
AccessRight ==
    \A t \in Tasks :
        /\ access[t] \in Store!Accesses
        /\ call[t].pc \notin HasPcs \ Closing => access[t] = Store!Idle
        /\ call[t].pc = "dirty" => access[t] = Store!Wrote(core[call[t].x].inum)
        /\ call[t].pc \in HasPcs \ Closing /\ call[t].pc # "dirty" =>
             access[t] = Store!Has(core[call[t].x].inum)

LEMMA AccessForms == TypeOK => AccessRight
<1> SUFFICES ASSUME TypeOK, NEW t \in Tasks
             PROVE  /\ access[t] \in Store!Accesses
                    /\ call[t].pc \notin HasPcs \ Closing => access[t] = Store!Idle
                    /\ call[t].pc = "dirty" => access[t] = Store!Wrote(core[call[t].x].inum)
                    /\ call[t].pc \in HasPcs \ Closing /\ call[t].pc # "dirty" =>
                         access[t] = Store!Has(core[call[t].x].inum)
  BY DEF AccessRight
<1>1. CASE call[t].pc \notin HasPcs \ Closing
  <2>1. access[t] = [op |-> "idle"]
    BY <1>1 DEF access, Closing
  <2>2. call[t].pc # "dirty"
    BY <1>1 DEF HasPcs, Closing
  <2>. QED  BY <1>1, <2>1, <2>2 DEF Store!Idle, Store!Accesses
<1>2. CASE call[t].pc \in HasPcs \ Closing
  <2>1. core[call[t].x].inum \in Inums
    BY <1>2, CallForms, CoreForm
  <2>2. access[t] = [op |-> IF call[t].pc = "dirty" THEN "wrote" ELSE "has",
                     blk |-> core[call[t].x].inum]
    BY <1>2 DEF access, Closing
  <2>3. CASE call[t].pc = "dirty"
    <3>1. access[t] = Store!Wrote(core[call[t].x].inum)
      BY <2>2, <2>3 DEF Store!Wrote
    <3>. QED  BY <1>2, <2>1, <2>3, <3>1 DEF Store!Accesses
  <2>4. CASE call[t].pc # "dirty"
    <3>1. access[t] = Store!Has(core[call[t].x].inum)
      BY <2>2, <2>4 DEF Store!Has
    <3>. QED  BY <1>2, <2>1, <2>4, <3>1 DEF Store!Accesses
  <2>. QED  BY <2>3, <2>4
<1>. QED
  BY <1>1, <1>2

\* The others keep what they have, or are woken.
OthersGoOn(t) ==
    \A u \in Tasks \ {t} :
        \/ /\ call'[u] = call[u]
           /\ call[u].pc \in HasPcs \ Closing =>
                core'[call[u].x].inum = core[call[u].x].inum
        \/ call[u].pc = "asleep" /\ call'[u].pc = "make"

LEMMA OthersAccess ==
  ASSUME TypeOK, TypeOK', NEW t \in Tasks, OthersGoOn(t)
  PROVE  /\ access' = [access EXCEPT ![t] = access'[t]]
         /\ access'[t] \in Store!Accesses
<1>1. AccessRight /\ AccessRight'
  BY AccessForms, PTL
<1>2. ASSUME NEW u \in Tasks \ {t} PROVE access'[u] = access[u]
  <2>1. CASE /\ call'[u] = call[u]
             /\ call[u].pc \in HasPcs \ Closing =>
                  core'[call[u].x].inum = core[call[u].x].inum
    <3>1. CASE call[u].pc \in HasPcs \ Closing
      BY <2>1, <3>1 DEF access
    <3>2. CASE call[u].pc \notin HasPcs \ Closing
      BY <1>1, <2>1, <3>2 DEF AccessRight, Store!Idle
    <3>. QED  BY <3>1, <3>2
  <2>2. CASE call[u].pc = "asleep" /\ call'[u].pc = "make"
    <3>1. "asleep" \notin HasPcs /\ "make" \notin HasPcs
      BY DEF HasPcs
    <3>. QED  BY <1>1, <2>2, <3>1 DEF AccessRight, Store!Idle
  <2>. QED  BY <2>1, <2>2 DEF OthersGoOn
<1>3. access = [u \in Tasks |-> access[u]] /\ access' = [u \in Tasks |-> access'[u]]
  BY DEF access
<1>. QED
  BY <1>1, <1>2, <1>3 DEF AccessRight

\* What inodes hold, but for those of B: what is open stays, is read from the
\* disk, or goes there.
LEMMA SameContent ==
  ASSUME TypeOK, Layer1, TypeOK', Layer1', NEW B,
         \A y \in Opened' : ~core'[y].locked /\ core'[y].inum \notin B =>
             \/ /\ y \in Opened /\ ~core[y].locked /\ core'[y].inum = core[y].inum
                /\ core'[y].inode = core[y].inode
             \/ /\ \A z \in open_inode(core'[y].inum) : core[z].locked
                /\ core'[y].inode = dinode[core'[y].inum],
         \A i \in Inums \ B : (\A z \in Opened' : core'[z].inum = i => core'[z].locked) =>
             \/ /\ \A z \in open_inode(i) : core[z].locked
                /\ dinode'[i] = dinode[i]
             \/ \E z \in open_inode(i) : ~core[z].locked /\ dinode'[i] = core[z].inode
  PROVE  \A i \in Inums \ B : content'[i] = content[i]
<1>1. ContentRight /\ ContentRight'
  BY ContentForms, PTL
<1> SUFFICES ASSUME NEW i \in Inums \ B PROVE content'[i] = content[i]
  OBVIOUS
<1>2. \A x : x \in open_inode(i) => x \in Opened /\ core[x].inum = i
  BY DEF open_inode, Opened
<1>3. CASE \A z \in Opened' : core'[z].inum = i => core'[z].locked
  <2>1. content'[i] = dinode'[i]
    <3>1. \A z \in open_inode(i)' : core'[z].locked
      BY <1>3 DEF open_inode, Opened
    <3>. QED  BY <1>1, <3>1 DEF ContentRight
  <2>2. CASE /\ \A z \in open_inode(i) : core[z].locked
             /\ dinode'[i] = dinode[i]
    BY <1>1, <2>1, <2>2 DEF ContentRight
  <2>3. ASSUME NEW z \in open_inode(i), ~core[z].locked, dinode'[i] = core[z].inode
        PROVE  content'[i] = content[i]
    BY <1>1, <1>2, <2>1, <2>3 DEF ContentRight
  <2>. QED  BY <1>3, <2>2, <2>3
<1>4. ASSUME NEW y \in Opened', core'[y].inum = i, ~core'[y].locked
      PROVE  content'[i] = content[i]
  <2>1. content'[i] = core'[y].inode
    BY <1>1, <1>4 DEF ContentRight
  <2>2. CASE /\ y \in Opened /\ ~core[y].locked /\ core'[y].inum = core[y].inum
             /\ core'[y].inode = core[y].inode
    BY <1>1, <1>4, <2>1, <2>2 DEF ContentRight
  <2>3. CASE /\ \A z \in open_inode(core'[y].inum) : core[z].locked
             /\ core'[y].inode = dinode[core'[y].inum]
    BY <1>1, <1>4, <2>1, <2>3 DEF ContentRight
  <2>. QED  BY <1>4, <2>2, <2>3
<1>. QED
  BY <1>3, <1>4

\* A task gets an inode, keeps it, or lets go of it.
LEMMA MoveStep ==
  ASSUME TypeOK, Layer1, TypeOK', Layer1', NEW t \in Tasks, OthersGoOn(t),
         call'[t].pc # "dirty", \A i \in Inums : content'[i] = content[i]
  PROVE  Store!Move(t)
<1>1. access' = [access EXCEPT ![t] = access'[t]] /\ access'[t] \in Store!Accesses
  BY OthersAccess
<1>2. AccessRight' /\ ContentRight'
  BY AccessForms, ContentForms, PTL
<1>3. access'[t].op # "wrote"
  <2>1. CASE call'[t].pc \notin HasPcs \ Closing
    <3>1. access'[t] = [op |-> "idle"]
      BY <1>2, <2>1 DEF AccessRight, Store!Idle
    <3>. QED  BY <3>1
  <2>2. CASE call'[t].pc \in HasPcs \ Closing
    <3>1. access'[t] = [op |-> "has", blk |-> core'[call'[t].x].inum]
      BY <1>2, <2>2 DEF AccessRight, Store!Has
    <3>. QED  BY <3>1
  <2>. QED  BY <2>1, <2>2
<1>4. \A i \in Inums : access'[t] # Store!Wrote(i)
  BY <1>3 DEF Store!Wrote
<1>5. Store!Kept({})
  BY <1>2 DEF Store!Kept, ContentRight
<1>. QED
  BY <1>1, <1>4, <1>5 DEF Store!Move

\* A task changes the inode i, which it has.
LEMMA WriteStep ==
  ASSUME TypeOK, Layer1, TypeOK', Layer1', NEW t \in Tasks, OthersGoOn(t),
         NEW i \in Inums, NEW inode \in Contents,
         call[t].pc \in HasPcs \ Closing, call[t].pc # "dirty", core[call[t].x].inum = i,
         call'[t].pc = "dirty", core'[call'[t].x].inum = i,
         content'[i] = inode, \A j \in Inums \ {i} : content'[j] = content[j]
  PROVE  Store!Write(t, i, inode)
<1>1. access' = [access EXCEPT ![t] = access'[t]]
  BY OthersAccess
<1>2. AccessRight /\ AccessRight' /\ ContentRight'
  BY AccessForms, ContentForms, PTL
<1>3. access'[t] = Store!Wrote(i)
  BY <1>2 DEF AccessRight, Store!Wrote
<1>4. access[t] = Store!Has(i)
  BY <1>2 DEF AccessRight
<1>5. Store!Kept({i})
  BY <1>2 DEF Store!Kept, ContentRight
<1>. QED
  BY <1>1, <1>3, <1>4, <1>5 DEF Store!Write

\* The steps of a task that leave the open inodes what they were.
LEMMA QuietMove ==
  ASSUME TypeOK, Layer1, TypeOK', Layer1', NEW t \in Tasks,
         \A u \in Tasks \ {t} : call'[u] = call[u], call'[t].pc # "dirty",
         inode_open_list' = inode_open_list,
         \A y \in Entries : /\ core'[y].inum = core[y].inum
                            /\ core'[y].locked = core[y].locked
                            /\ core'[y].inode = core[y].inode,
         \A i \in Inums : dinode'[i] = dinode[i] \/
             \E z \in open_inode(i) : ~core[z].locked /\ dinode'[i] = core[z].inode
  PROVE  Store!Move(t)
<1>1. Opened' = Opened /\ Opened \subseteq Entries
  BY DEF Opened, ToSet, TypeOK
<1>2. OthersGoOn(t)
  <2>1. \A u \in Tasks : call[u].pc \in HasPcs \ Closing => call[u].x \in Entries
    BY CallForms
  <2>. QED  BY <2>1 DEF OthersGoOn
<1>3. \A y \in Opened' : ~core'[y].locked =>
        /\ y \in Opened /\ ~core[y].locked /\ core'[y].inum = core[y].inum
        /\ core'[y].inode = core[y].inode
  BY <1>1
<1>4. ASSUME NEW i \in Inums, \A z \in Opened' : core'[z].inum = i => core'[z].locked
      PROVE  /\ \A z \in open_inode(i) : core[z].locked
             /\ dinode'[i] = dinode[i]
  <2>1. \A z \in open_inode(i) : core[z].locked
    BY <1>1, <1>4 DEF open_inode, Opened
  <2>. QED  BY <2>1
<1>5. \A i \in Inums \ {} : content'[i] = content[i]
  BY <1>3, <1>4, SameContent
<1>. QED
  BY <1>2, <1>5, MoveStep

\* A step by Goto moves t alone.
LEMMA GotoOthers ==
  ASSUME TypeOK, NEW t \in Tasks, NEW c, Goto(t, c)
  PROVE  call'[t] = c /\ \A u \in Tasks \ {t} : call'[u] = call[u]
BY DEF Goto, TypeOK

\* The steps that change no inode in memory, nor which are open.
LEMMA AloneMoves ==
  ASSUME TypeOK, Layer1, TypeOK', Layer1', NEW t \in Tasks,
         \/ make_inode_sleep(t) \/ make_inode_full(t) \/ FreeAgain(t)
         \/ \E i \in Inums : Open(t, i) \/ Remove_link(t, i) \/ Create(t, i)
         \/ CreateEntry(t) \/ \E job \in {"write", "close"} : Begin(t, job)
         \/ write_inode_test(t) \/ write_inode_copy(t) \/ write_inode_fails(t)
         \/ close_inode_free(t) \/ close_inode_put(t)
  PROVE  Store!Move(t)
<1>1. core' = core /\ inode_open_list' = inode_open_list
  BY DEF make_inode_sleep, make_inode_full, FreeAgain, Open, Remove_link, Create, CreateEntry,
     Begin, write_inode_test, write_inode_copy, write_inode_fails, close_inode_free, close_inode_put,
     lists
<1>2. \E c : Goto(t, c) /\ c.pc # "dirty"
  <2>1. CASE make_inode_sleep(t) \/ make_inode_full(t) \/ FreeAgain(t) \/ close_inode_put(t)
    <3>1. \A op, i, x : Asleep(op, i, x).pc # "dirty"
      BY DEF Asleep
    <3>2. Idle.pc # "dirty" /\ Closed(t).pc # "dirty"
      BY DEF Closed, Undoing, Idle
    <3>. QED
      BY <2>1, <3>1, <3>2 DEF make_inode_sleep, make_inode_full, FreeAgain, close_inode_put
  <2>2. CASE \E i \in Inums : Open(t, i) \/ Remove_link(t, i) \/ Create(t, i)
    BY <2>2 DEF Open, Remove_link, Create, Making
  <2>3. CASE \/ CreateEntry(t) \/ close_inode_free(t)
             \/ \E job \in {"write", "close"} : Begin(t, job)
    BY <2>3 DEF CreateEntry, close_inode_free, Begin, GoOn, Has
  <2>4. CASE write_inode_test(t) \/ write_inode_copy(t) \/ write_inode_fails(t)
    BY <2>4 DEF write_inode_test, write_inode_copy, write_inode_fails, GoOn, Written, Has
  <2>. QED  BY <2>1, <2>2, <2>3, <2>4
<1>3. call'[t].pc # "dirty" /\ \A u \in Tasks \ {t} : call'[u] = call[u]
  BY <1>2, GotoOthers
<1>4. ASSUME NEW i \in Inums
      PROVE  dinode'[i] = dinode[i] \/
               \E z \in open_inode(i) : ~core[z].locked /\ dinode'[i] = core[z].inode
  <2>1. CASE write_inode_copy(t)
    <3>1. PICK x : x = call[t].x
      OBVIOUS
    <3>2. call[t].pc = "copy" /\ dinode' = [dinode EXCEPT ![core[x].inum] = core[x].inode]
      BY <2>1, <3>1 DEF write_inode_copy
    <3>3. "copy" \in HasPcs \ Closing
      BY DEF HasPcs, Closing
    <3>4. x \in Opened /\ ~core[x].locked
      BY <3>1, <3>2, <3>3 DEF Layer1, UsersHold
    <3>5. x \in open_inode(core[x].inum)
      BY <3>4 DEF open_inode, Opened
    <3>6. dinode \in [Inums -> Contents]
      BY DEF TypeOK
    <3>. QED  BY <3>2, <3>4, <3>5, <3>6
  <2>2. CASE ~write_inode_copy(t)
    <3>1. dinode' = dinode
      BY <2>2
      DEF make_inode_sleep, make_inode_full, Unmade, FreeAgain, Open, Remove_link, Create,
          CreateEntry, Begin, write_inode_test, write_inode_fails, close_inode_free, close_inode_put, ondisk
    <3>. QED  BY <3>1
  <2>. QED  BY <2>1, <2>2
<1>. QED
  BY <1>1, <1>3, <1>4, QuietMove

\* The steps that set a flag or a count of the inode that t has or gets.
LEMMA CountMoves ==
  ASSUME TypeOK, Layer1, TypeOK', Layer1', NEW t \in Tasks, clash = "none",
         \/ make_inode_hit(t) \/ SetDirty(t) \/ MakeFileFails(t) \/ dup_inode(t)
         \/ write_inode_clear(t) \/ close_inode_drop(t)
  PROVE  Store!Move(t)
<1>1. inode_open_list' = inode_open_list /\ dinode' = dinode
  BY DEF make_inode_hit, SetDirty, MakeFileFails, dup_inode, write_inode_clear,
     close_inode_drop, lists, ondisk
<1>2. \E c : Goto(t, c) /\ c.pc # "dirty"
  <2>1. CASE make_inode_hit(t)
    <3>1. PICK x : Goto(t, Returned(call[t].op, x))
      BY <2>1 DEF make_inode_hit
    <3>2. Returned(call[t].op, x).pc \in {"have", "init", "remove"}
      BY DEF Returned, Has
    <3>. QED  BY <3>1, <3>2
  <2>2. CASE SetDirty(t) \/ MakeFileFails(t) \/ dup_inode(t)
    BY <2>2 DEF SetDirty, MakeFileFails, dup_inode, GoOn, Has
  <2>3. CASE write_inode_clear(t)
    BY <2>3 DEF write_inode_clear, Written, Has
  <2>4. CASE close_inode_drop(t)
    <3>1. Closed(t).pc # "dirty"
      BY DEF Closed, Undoing, Idle
    <3>. QED  BY <2>4, <3>1 DEF close_inode_drop, Has
  <2>. QED  BY <2>1, <2>2, <2>3, <2>4
<1>3. call'[t].pc # "dirty" /\ \A u \in Tasks \ {t} : call'[u] = call[u]
  BY <1>2, GotoOthers
<1>4. ASSUME NEW y \in Entries
      PROVE  /\ core'[y].inum = core[y].inum /\ core'[y].locked = core[y].locked
             /\ core'[y].inode = core[y].inode
  <2>0. core \in [Entries -> CoreInodes] /\ core[y] \in CoreInodes
    BY DEF TypeOK
  <2>1. CASE make_inode_hit(t)
    <3>1. PICK x : core' = [core EXCEPT ![x].use_count = @ + 1]
      BY <2>1 DEF make_inode_hit
    <3>. QED  BY <2>0, <3>1 DEF CoreInodes
  <2>2. CASE SetDirty(t)
    <3>1. PICK x, dup : core' = [core EXCEPT ![x].dirty = TRUE, ![x].use_count = @ + dup]
      BY <2>2 DEF SetDirty
    <3>2. PICK c : c = [core EXCEPT ![x].dirty = TRUE]
      OBVIOUS
    <3>3. core' = [c EXCEPT ![x].use_count = @ + dup]
      <4>1. core' = [[core EXCEPT ![x].dirty = TRUE] EXCEPT ![x].use_count = @ + dup]
        BY <3>1, Zenon
      <4>. QED  BY <3>2, <4>1
    <3>4. /\ c[y].inum = core[y].inum /\ c[y].locked = core[y].locked
          /\ c[y].inode = core[y].inode /\ c \in [Entries -> CoreInodes]
      BY <2>0, <3>2 DEF CoreInodes
    <3>5. c[y] \in CoreInodes
      BY <3>4
    <3>. QED  BY <3>3, <3>4, <3>5 DEF CoreInodes
  <2>3. CASE dup_inode(t)
    <3>1. PICK x : core' = [core EXCEPT ![x].use_count = @ + 1]
      BY <2>3 DEF dup_inode
    <3>. QED  BY <2>0, <3>1 DEF CoreInodes
  <2>4. CASE write_inode_clear(t)
    <3>1. PICK x : core' = [core EXCEPT ![x].dirty = FALSE]
      BY <2>4 DEF write_inode_clear
    <3>. QED  BY <2>0, <3>1 DEF CoreInodes
  <2>5. CASE close_inode_drop(t)
    <3>1. PICK x : core' = [core EXCEPT ![x].use_count = @ - 1]
      BY <2>5 DEF close_inode_drop
    <3>. QED  BY <2>0, <3>1 DEF CoreInodes
  <2>6. CASE MakeFileFails(t)
    <3>1. PICK x : core' = [core EXCEPT ![x].dirty = TRUE]
      BY <2>6 DEF MakeFileFails
    <3>. QED  BY <2>0, <3>1 DEF CoreInodes
  <2>. QED  BY <2>1, <2>2, <2>3, <2>4, <2>5, <2>6
<1>. QED
  BY <1>1, <1>3, <1>4, QuietMove

\* A task changes what its inode holds.
LEMMA ChangeWrites ==
  ASSUME TypeOK, Layer1, TypeOK', Layer1', NEW t \in Tasks,
         call[t].pc \in {"have", "init", "count", "remove"},
         NEW inode, NEW job \in Jobs, Change(t, inode, job)
  PROVE  \E i \in Inums, v \in Contents : Store!Write(t, i, v)
<1>1. PICK x : x = call[t].x
  OBVIOUS
<1>2. call[t].pc \in HasPcs \ Closing /\ call[t].pc # "dirty"
  BY DEF HasPcs, Closing
<1>3. x \in Entries /\ x \in Opened /\ ~core[x].locked
  BY <1>1, <1>2, CallForms DEF Layer1, UsersHold
<1>4. inode \in Contents
  <2>1. core' = [core EXCEPT ![x].inode = inode]
    BY <1>1 DEF Change
  <2>2. core \in [Entries -> CoreInodes] /\ core'[x] \in CoreInodes
    BY <1>3 DEF TypeOK
  <2>3. core'[x].inode = inode
    BY <1>3, <2>1, <2>2 DEF CoreInodes
  <2>. QED  BY <2>2, <2>3 DEF CoreInodes
<1>5. /\ Stays(t, "dirty", job) /\ core'[x].inode = inode
      /\ UNCHANGED <<ondisk, clash, lost>>
  BY <1>1, <1>2, <1>4, ChangeDoes
<1>6. /\ \A u \in Tasks \ {t} : call'[u] = call[u]
      /\ \A y \in Entries \ {x} : core'[y] = core[y]
      /\ core'[x].inum = core[x].inum /\ core'[x].locked = core[x].locked
      /\ inode_open_list' = inode_open_list /\ dinode' = dinode
  BY <1>1, <1>5 DEF Stays, CallsBut, CoreBut, lists, ondisk
<1>7. call'[t].pc = "dirty" /\ call'[t].x = x
  <2>1. "dirty" \in HasPcs /\ call[t].n \in 0..MaxRefs
    BY <1>2, CallForms DEF HasPcs
  <2>. QED  BY <1>1, <1>3, <1>5, <2>1, CallParts DEF Stays
<1>8. Opened' = Opened /\ Opened \subseteq Entries
  BY <1>6 DEF Opened, ToSet, TypeOK
<1>9. PICK i \in Inums : i = core[x].inum
  BY <1>3, CoreForm
<1>10. OthersGoOn(t)
  <2>1. \A u \in Tasks : call[u].pc \in HasPcs \ Closing => call[u].x \in Entries
    BY CallForms
  <2>. QED  BY <1>6, <2>1 DEF OthersGoOn
<1>11. content'[i] = inode
  <2>1. ContentRight'
    BY ContentForms, PTL
  <2>. QED  BY <1>3, <1>5, <1>6, <1>8, <1>9, <2>1 DEF ContentRight
<1>12. \A j \in Inums \ {i} : content'[j] = content[j]
  <2>1. \A y \in Opened' : ~core'[y].locked /\ core'[y].inum \notin {i} =>
          /\ y \in Opened /\ ~core[y].locked /\ core'[y].inum = core[y].inum
          /\ core'[y].inode = core[y].inode
    BY <1>6, <1>8, <1>9
  <2>2. ASSUME NEW j \in Inums \ {i}, \A z \in Opened' : core'[z].inum = j => core'[z].locked
        PROVE  /\ \A z \in open_inode(j) : core[z].locked
               /\ dinode'[j] = dinode[j]
    <3>1. \A z \in open_inode(j) : core[z].locked
      BY <1>6, <1>8, <1>9, <2>2 DEF open_inode, Opened
    <3>. QED  BY <1>6, <3>1
  <2>. QED  BY <2>1, <2>2, SameContent
<1>13. Store!Write(t, i, inode)
  BY <1>1, <1>2, <1>4, <1>6, <1>7, <1>9, <1>10, <1>11, <1>12, WriteStep
<1>. QED
  BY <1>4, <1>13

\* The changes of an inode.
LEMMA ChangesWrite ==
  ASSUME TypeOK, Layer1, TypeOK', Layer1', NEW t \in Tasks,
         \/ \E s \in Stamps : Modify(t, s) \/ InitInode(t, s)
         \/ CountLink(t) \/ RemoveLink(t)
  PROVE  \E i \in Inums, v \in Contents : Store!Write(t, i, v)
<1>1. call[t].pc \in {"have", "init", "count", "remove"}
  BY DEF Modify, InitInode, CountLink, RemoveLink
<1>2. \E inode, job : job \in Jobs /\ Change(t, inode, job)
  BY DEF Modify, InitInode, CountLink, RemoveLink, Jobs
<1>. QED
  BY <1>1, <1>2, ChangeWrites

\* An entry is taken for an inode that is still on disk.
LEMMA MissMoves ==
  ASSUME TypeOK, Layer1, TypeOK', Layer1', NEW t \in Tasks, make_inode_miss(t)
  PROVE  Store!Move(t)
<1>1. PICK x : x = Head(inode_free_list)
  OBVIOUS
<1>2. /\ x \notin Opened /\ CallsBut(t) /\ call'[t] = Reading(call[t].op, x)
      /\ ToSet(inode_open_list') = Opened \cup {x}
      /\ CoreBut(x) /\ core'[x].locked /\ UNCHANGED <<ondisk, lost>>
  BY <1>1, MissDoes
<1>3. /\ \A u \in Tasks \ {t} : call'[u] = call[u]
      /\ \A y \in Entries \ {x} : core'[y] = core[y]
      /\ dinode' = dinode
  BY <1>2 DEF CallsBut, CoreBut, ondisk
<1>4. Opened' = Opened \cup {x} /\ Opened \subseteq Entries \ {x}
  <2>1. Opened' = Opened \cup {x}
    BY <1>2 DEF Opened
  <2>2. Opened \subseteq Entries
    BY DEF Layer1, Listed
  <2>. QED
    BY <1>2, <2>1, <2>2
<1>5. call'[t].pc # "dirty"
  BY <1>2 DEF Reading
<1>6. OthersGoOn(t)
  <2>1. \A u \in Tasks : call[u].pc \in HasPcs \ Closing => call[u].x \in Opened
    BY WhoHas
  <2>. QED  BY <1>3, <1>4, <2>1 DEF OthersGoOn
<1>7. \A i \in Inums \ {} : content'[i] = content[i]
  <2>1. \A y \in Opened' : ~core'[y].locked =>
          /\ y \in Opened /\ ~core[y].locked /\ core'[y].inum = core[y].inum
          /\ core'[y].inode = core[y].inode
    BY <1>2, <1>3, <1>4
  <2>2. ASSUME NEW i \in Inums, \A z \in Opened' : core'[z].inum = i => core'[z].locked
        PROVE  /\ \A z \in open_inode(i) : core[z].locked
               /\ dinode'[i] = dinode[i]
    <3>1. \A z \in open_inode(i) : core[z].locked
      BY <1>3, <1>4, <2>2 DEF open_inode, Opened
    <3>. QED  BY <1>3, <3>1
  <2>. QED  BY <2>1, <2>2, SameContent
<1>. QED
  BY <1>5, <1>6, <1>7, MoveStep

\* An inode has been read: it holds what it held on disk.
LEMMA ReadMoves ==
  ASSUME TypeOK, Layer1, TypeOK', Layer1', NEW t \in Tasks, read_inode(t)
  PROVE  Store!Move(t)
<1>1. PICK x : x = call[t].x
  OBVIOUS
<1>2. /\ call[t].op \in Ops /\ x \in Entries /\ x \in Opened /\ core[x].locked
      /\ call' = [Woken(x) EXCEPT ![t] = Returned(call[t].op, x)]
      /\ CoreBut(x) /\ core'[x].inum = core[x].inum /\ ~core'[x].locked
      /\ core'[x].inode = dinode[core[x].inum]
      /\ UNCHANGED <<lists, dev_use_count, ondisk, clash, lost>>
  BY <1>1, ReadDoes
<1>3. /\ \A y \in Entries \ {x} : core'[y] = core[y]
      /\ inode_open_list' = inode_open_list /\ dinode' = dinode
  BY <1>2 DEF CoreBut, lists, ondisk
<1>4. Opened' = Opened /\ Opened \subseteq Entries
  BY <1>3 DEF Opened, ToSet, TypeOK
<1>5. PICK c \in Calls : c = Returned(call[t].op, x) /\ c.pc # "dirty"
  <2>1. Returned(call[t].op, x) \in Calls
    BY <1>2, ReturnedParts
  <2>2. Returned(call[t].op, x).pc # "dirty"
    BY DEF Returned, Has
  <2>. QED  BY <2>1, <2>2
<1>6. /\ call'[t] = c
      /\ \A u \in Tasks \ {t} :
           call'[u] = call[u] \/ (call[u].pc = "asleep" /\ call'[u].pc = "make")
  <2>1. call' = [Woken(x) EXCEPT ![t] = c]
    BY <1>2, <1>5
  <2>. QED  BY <2>1, WokenParts
<1>7. OthersGoOn(t)
  <2>1. \A u \in Tasks : call[u].pc \in HasPcs \ Closing => call[u].x \in Entries
    BY CallForms
  <2>2. \A y \in Entries : core'[y].inum = core[y].inum
    BY <1>2, <1>3
  <2>. QED  BY <1>6, <2>1, <2>2 DEF OthersGoOn
<1>8. \A i \in Inums \ {} : content'[i] = content[i]
  <2>1. \A z \in open_inode(core[x].inum) : core[z].locked
    BY <1>2 DEF open_inode, Opened, Layer1, Listed
  <2>2. \A y \in Opened' : ~core'[y].locked =>
             \/ /\ y \in Opened /\ ~core[y].locked /\ core'[y].inum = core[y].inum
                /\ core'[y].inode = core[y].inode
             \/ /\ \A z \in open_inode(core'[y].inum) : core[z].locked
                /\ core'[y].inode = dinode[core'[y].inum]
    BY <1>2, <1>3, <1>4, <2>1
  <2>3. ASSUME NEW i \in Inums, \A z \in Opened' : core'[z].inum = i => core'[z].locked
        PROVE  /\ \A z \in open_inode(i) : core[z].locked
               /\ dinode'[i] = dinode[i]
    <3>1. \A z \in open_inode(i) : core[z].locked
      BY <1>2, <1>3, <1>4, <2>3 DEF open_inode, Opened
    <3>. QED  BY <1>3, <3>1
  <2>. QED  BY <2>2, <2>3, SameContent
<1>. QED
  BY <1>5, <1>6, <1>7, <1>8, MoveStep

\* An inode could not be read: it was on disk all the time.
LEMMA ReadFailsMoves ==
  ASSUME TypeOK, Layer1, TypeOK', Layer1', NEW t \in Tasks, read_inode_fails(t),
         clash = "none", clash' = "none"
  PROVE  Store!Move(t)
<1>1. PICK x : x = call[t].x
  OBVIOUS
<1>2. /\ x \in Opened /\ core[x].locked
      /\ call' = [Woken(x) EXCEPT ![t] = Idle]
      /\ ToSet(inode_open_list') = Opened \ {x}
      /\ core' = core
  BY <1>1, ReadFailsDoes
<1>3. dinode' = dinode
  BY DEF read_inode_fails, Unmade
<1>4. Opened' = Opened \ {x}
  BY <1>2 DEF Opened
<1>5. PICK c \in Calls : c = Idle /\ c.pc # "dirty"
  BY CallParts
<1>6. /\ call'[t] = c
      /\ \A u \in Tasks \ {t} :
           call'[u] = call[u] \/ (call[u].pc = "asleep" /\ call'[u].pc = "make")
  <2>1. call' = [Woken(x) EXCEPT ![t] = c]
    BY <1>2, <1>5
  <2>. QED  BY <2>1, WokenParts
<1>7. OthersGoOn(t)
  BY <1>2, <1>6 DEF OthersGoOn
<1>8. \A i \in Inums \ {} : content'[i] = content[i]
  <2>1. \A y \in Opened' : ~core'[y].locked =>
          /\ y \in Opened /\ ~core[y].locked /\ core'[y].inum = core[y].inum
          /\ core'[y].inode = core[y].inode
    BY <1>2, <1>4
  <2>2. ASSUME NEW i \in Inums, \A z \in Opened' : core'[z].inum = i => core'[z].locked
        PROVE  /\ \A z \in open_inode(i) : core[z].locked
               /\ dinode'[i] = dinode[i]
    <3>1. \A z \in open_inode(i) : core[z].locked
      BY <1>2, <1>4, <2>2 DEF open_inode, Opened
    <3>. QED  BY <1>3, <3>1
  <2>. QED  BY <2>1, <2>2, SameContent
<1>. QED
  BY <1>5, <1>6, <1>7, <1>8, MoveStep

\* The last user of an inode leaves it: what it holds has been written.
LEMMA UnlinkMoves ==
  ASSUME TypeOK, Layer1, Layer2, TypeOK', Layer1', NEW t \in Tasks, close_inode_unlink(t),
         clash' = "none"
  PROVE  Store!Move(t)
<1>1. PICK x : x = call[t].x
  OBVIOUS
<1>2. /\ call[t].pc = "unlink" /\ x \in Entries /\ x \in Opened /\ ~core[x].locked
      /\ \A u \in Tasks : At(u, x) => u = t
      /\ ToSet(inode_open_list') = Opened \ {x} /\ CallsBut(t)
      /\ call'[t] = Has(IF core[x].inode.nlinks = 0 THEN "free" ELSE "put", x, 0, Rest(t))
      /\ clash' = IF core[x].dirty /\ core[x].inum \in lost THEN "unwritten" ELSE clash
      /\ UNCHANGED <<inode_free_list, core, dev_use_count, ondisk, lost>>
  BY <1>1, UnlinkDoes
<1>3. /\ \A u \in Tasks \ {t} : call'[u] = call[u]
      /\ core' = core /\ dinode' = dinode
  BY <1>2 DEF CallsBut, ondisk
<1>4. Opened' = Opened \ {x}
  BY <1>2 DEF Opened
<1>5. call'[t].pc # "dirty"
  BY <1>2 DEF Has
<1>6. OthersGoOn(t)
  BY <1>3 DEF OthersGoOn

\* Nobody is left who has changed it.
<1>7. core[x].inode = dinode[core[x].inum]
  <2>1. KeptIn(x)
    BY <1>2 DEF Layer2, Kept
  <2>2. \A u \in Tasks : ~Using(u, x)
    BY <1>2 DEF Using, At, Closing
  <2>3. ~core[x].dirty
    BY <1>2, <2>1, <2>2 DEF KeptIn
  <2>. QED  BY <2>1, <2>2, <2>3 DEF KeptIn
<1>8. \A i \in Inums \ {} : content'[i] = content[i]
  <2>1. \A y \in Opened' : ~core'[y].locked =>
          /\ y \in Opened /\ ~core[y].locked /\ core'[y].inum = core[y].inum
          /\ core'[y].inode = core[y].inode
    BY <1>3, <1>4
  <2>2. ASSUME NEW i \in Inums, \A z \in Opened' : core'[z].inum = i => core'[z].locked
        PROVE  \/ /\ \A z \in open_inode(i) : core[z].locked
                  /\ dinode'[i] = dinode[i]
               \/ \E z \in open_inode(i) : ~core[z].locked /\ dinode'[i] = core[z].inode
    <3>1. CASE core[x].inum = i
      <4>1. x \in open_inode(i)
        BY <1>2, <3>1 DEF open_inode, Opened
      <4>. QED  BY <1>2, <1>3, <1>7, <3>1, <4>1
    <3>2. CASE core[x].inum # i
      <4>1. \A z \in open_inode(i) : core[z].locked
        BY <1>3, <1>4, <2>2, <3>2 DEF open_inode, Opened
      <4>. QED  BY <1>3, <4>1
    <3>. QED  BY <3>1, <3>2
  <2>. QED  BY <2>1, <2>2, SameContent
<1>. QED
  BY <1>5, <1>6, <1>8, MoveStep

\* Each step of the code is a step of the store, or corrupts the cache.
LEMMA NextKeeps ==
  IInv /\ IInv' /\ [Next]_vars =>
      [clash' = "none" => Store!Next \/ UNCHANGED Store!vars]_vars
<1> SUFFICES ASSUME IInv, IInv', Next, clash' = "none", ~UNCHANGED vars
             PROVE  Store!Next \/ UNCHANGED Store!vars
  OBVIOUS
<1>1. PICK t \in Tasks : Step(t) /\ clash = "none"
  BY DEF Next
<1>2. TypeOK /\ Layer1 /\ Layer2 /\ TypeOK' /\ Layer1'
  BY <1>1 DEF IInv
<1>3. Store!Move(t) \/ \E i \in Inums, v \in Contents : Store!Write(t, i, v)
  <2>1. CASE make_inode(t)
    BY <1>1, <1>2, <2>1, AloneMoves, CountMoves, MissMoves, ReadMoves, ReadFailsMoves
    DEF make_inode
  <2>2. CASE write_inode(t)
    BY <1>1, <1>2, <2>2, AloneMoves, CountMoves DEF write_inode
  <2>3. CASE close_inode(t)
    BY <1>1, <1>2, <2>3, AloneMoves, CountMoves, UnlinkMoves DEF close_inode
  <2>4. CASE User(t)
    <3>1. CASE \E i \in Inums : Open(t, i) \/ Remove_link(t, i) \/ Create(t, i)
      BY <1>2, <3>1, AloneMoves
    <3>2. CASE \/ CreateEntry(t) \/ FreeAgain(t)
               \/ \E job \in {"write", "close"} : Begin(t, job)
      BY <1>2, <3>2, AloneMoves
    <3>3. CASE SetDirty(t) \/ MakeFileFails(t) \/ dup_inode(t)
      BY <1>1, <1>2, <3>3, CountMoves
    <3>4. CASE \/ \E s \in Stamps : Modify(t, s) \/ InitInode(t, s)
               \/ CountLink(t) \/ RemoveLink(t)
      BY <1>2, <3>4, ChangesWrite
    <3>5. ~CreateEntryFails(t)
      BY DEF CreateEntryFails, Clash
    <3>. QED  BY <2>4, <3>1, <3>2, <3>3, <3>4, <3>5 DEF User
  <2>. QED  BY <1>1, <2>1, <2>2, <2>3, <2>4 DEF Step
<1>. QED
  BY <1>3 DEF Store!Next

\* At the start no inode is in memory: the store holds what the disk holds.
LEMMA InitKeeps == Init => Store!Init
<1> SUFFICES ASSUME Init PROVE Store!Init
  OBVIOUS
<1>1. TypeOK /\ Layer1
  BY InitSound DEF IInv, Init
<1>2. content \in [Inums -> Contents]
  BY <1>1, ContentForms DEF ContentRight
<1>3. \A t \in Tasks : call[t].pc = "idle"
  BY CallParts DEF Init
<1>4. \A t \in Tasks : access[t] = Store!Idle
  BY <1>1, <1>3, AccessForms DEF AccessRight, HasPcs
<1>5. access = [t \in Tasks |-> access[t]]
  BY DEF access
<1>. QED
  BY <1>2, <1>4, <1>5 DEF Store!Init

\* The inodes implement a store: until a named race, the ignored error or one
\* of the two exits of create_file() corrupts the cache, what a task writes into an inode all tasks see, and it is
\* still there when the inode has been closed and is opened again, for any
\* tasks, inodes and entries (read_inode, write_inode, close_inode).
THEOREM InodesStored == Spec => InodesKept
<1>1. Spec => []IInv
  BY InitSound, NextSound, PTL DEF Spec
<1>. QED
  BY <1>1, InitKeeps, NextKeeps, PTL DEF Spec, InodesKept
=============================================================================
