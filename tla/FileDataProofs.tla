---------------------------- MODULE FileDataProofs ----------------------------
(***************************************************************************)
(* Every block of the device has one owner, for any files, tasks and       *)
(* sizes of blocks and any number of pointers in an inode: the tree of     *)
(* blocks below an inode, whose root and inner nodes tasks walk and extend *)
(* at the same time, stays a tree, and trees stay apart. Then, that files  *)
(* are what module FlatFiles says, however the walks through those trees   *)
(* interleave.                                                             *)
(***************************************************************************)
EXTENDS FileData, ListLemmas

\* How many blocks lie between a pointer of an inode and the data.
Depth(k) == IF k < SINGLE_INDIRECT THEN 0 ELSE k - SINGLE_INDIRECT + 1

(* The blocks below the pointers d of an inode, when blocks hold m and those  *)
(* of Z are not cleared: the blocks of data, and the indirect blocks with     *)
(* one, two and three pointers between them and the data.                    *)
Sons(b, m, Z) == IF b \in Z THEN {} ELSE {m[b][o] : o \in Offsets} \ {0}
Under(B, m, Z) == UNION {Sons(b, m, Z) : b \in B \cap Blocks}
AtDepth(n, d) == {d[k] : k \in {i \in Pointers : Depth(i) = n}} \ {0}

Level3(d) == AtDepth(3, d)
Level2(d, m, Z) == AtDepth(2, d) \cup Under(Level3(d), m, Z)
Level1(d, m, Z) == AtDepth(1, d) \cup Under(Level2(d, m, Z), m, Z)
Level0(d, m, Z) == AtDepth(0, d) \cup Under(Level1(d, m, Z), m, Z)
Level(n, d, m, Z) ==
    IF n = 3 THEN Level3(d) ELSE IF n = 2 THEN Level2(d, m, Z)
    ELSE IF n = 1 THEN Level1(d, m, Z) ELSE Level0(d, m, Z)

\* Those of a file, as it is.
On(f, n) == Level(n, inode[f].data, blk, Uncleared)

-----------------------------------------------------------------------------
(* The inductive invariant.                                                 *)

Calls ==
    {Idle}
    \cup [pc : {"loop", "chunk", "end", "set"}, op : {"read", "write"}, len : Nat]
    \cup [pc : Walking, op : {"read", "write"}, len : Nat, n : Nat, holder : Nat, path : Seq(Nat)]
    \cup [pc : {"given"}, op : {"read"}, len : Nat, words : Seq(Nat)]
    \cup [pc : {"truncate"}, op : {"truncate"}, len : {0}, path : Seq(Nat)]
    \cup [pc : {"failed"}, op : {"failed"}, len : {0}]

TypeOK ==
    /\ bitmap \in SUBSET Blocks /\ lost \in SUBSET Blocks /\ garbled \in SUBSET Blocks
    /\ blk \in [Blocks -> [Offsets -> Nat]]
    /\ inode \in [Files -> [size : Nat, data : [Pointers -> Nat]]]
    /\ file \in [Tasks -> Files] /\ pos \in [Tasks -> Nat]
    /\ call \in [Tasks -> Calls]

\* The pointers of path lead from holder, the inode of f (0) or an indirect block
\* as deep as path is long, to the data.
Leads(f, holder, path) ==
    \/ /\ holder = 0 /\ path # <<>> /\ path[1] \in Pointers
       /\ Len(path) = Depth(path[1]) + 1
       /\ \A i \in 2..Len(path) : path[i] \in Offsets
    \/ /\ holder \in Blocks /\ Len(path) \in 1..3 /\ holder \in On(f, Len(path))
       /\ \A i \in 1..Len(path) : path[i] \in Offsets

\* The pointers of p lead from the inode to an indirect block that is cleared.
Descended(f, p) ==
    \/ p = <<>>
    \/ /\ p[1] \in Pointers /\ Len(p) \in 1..Depth(p[1])
       /\ \A i \in 2..Len(p) : p[i] \in Offsets
       /\ block_of(f, p) # 0 /\ block_of(f, p) \notin Uncleared

\* A task on its way is inside the tree of its file; nobody else clears the block
\* that it has allocated, and none that is found in a pointer is cleared again.
OnWay(f, c) ==
    /\ c.pc = "walk" => (c.holder = 0 /\ c.path = <<>>) \/ Leads(f, c.holder, c.path)
    /\ c.pc = "alloc" => Leads(f, c.holder, c.path) /\ c.holder \notin Uncleared
    /\ c.pc = "clear" => Leads(f, c.holder, c.path) /\ c.holder # 0
    /\ c.pc = "copy" => c.holder \in On(f, 0)
    /\ c.pc = "truncate" => Descended(f, c.path)
    /\ c.pc \in Walking => c.n <= c.len
OnTheWay(t) == OnWay(file[t], call[t])
ClearOnce ==
    \A t, u \in Tasks : call[t].pc = "clear" /\ call[u].pc = "clear" /\ t # u
        => call[t].holder # call[u].holder

\* No other task is on its way in a file that is being truncated.
Alone ==
    \A t, u \in Tasks : t # u /\ file[t] = file[u] /\ Truncates(t)
        => call[u].pc \notin Walking /\ ~Truncates(u)

FInv == clash = "none" =>
    TypeOK /\ BlocksOwned /\ (\A t \in Tasks : OnTheWay(t)) /\ ClearOnce /\ Alone

-----------------------------------------------------------------------------
(* Arithmetic.                                                              *)

\* The numbers of the pointers.
LEMMA Numbers ==
  /\ FS_BLKSIZ \in Nat \ {0} /\ SINGLE_INDIRECT \in Nat \ {0} /\ NR_BLOCKS \in Nat \ {0}
  /\ DOUBLE_INDIRECT = SINGLE_INDIRECT + 1 /\ TRIPLE_INDIRECT = SINGLE_INDIRECT + 2
  /\ Pointers = 0..(SINGLE_INDIRECT + 2) /\ Offsets = 0..(FS_BLKSIZ - 1)
  /\ Blocks \subseteq Nat \ {0} /\ ROOT_BLK \in Blocks
  BY ParametersAssumption
     DEF DOUBLE_INDIRECT, TRIPLE_INDIRECT, Pointers, Offsets, Blocks, ROOT_BLK

\* The depth of each pointer.
LEMMA Depths ==
  /\ \A k \in Pointers : Depth(k) \in 0..3
  /\ \A k \in Pointers : Depth(k) = 0 <=> k \in 0..(SINGLE_INDIRECT - 1)
  /\ \A k \in Pointers : Depth(k) = 1 <=> k = SINGLE_INDIRECT
  /\ \A k \in Pointers : Depth(k) = 2 <=> k = DOUBLE_INDIRECT
  /\ \A k \in Pointers : Depth(k) = 3 <=> k = TRIPLE_INDIRECT
  /\ SINGLE_INDIRECT \in Pointers /\ DOUBLE_INDIRECT \in Pointers
  /\ TRIPLE_INDIRECT \in Pointers /\ 0..(SINGLE_INDIRECT - 1) \subseteq Pointers
  BY Numbers DEF Depth

\* A quotient is small.
LEMMA DivSmall ==
  ASSUME NEW P \in Nat \ {0}, NEW Q \in Nat, NEW x \in Nat, x < P * Q
  PROVE  x \div P \in 0..(Q - 1)
<1>1. x \div P \in Nat /\ P * (x \div P) <= x
  OBVIOUS
<1>2. (x \div P) >= Q => P * (x \div P) >= P * Q
  OBVIOUS
<1>. QED
  BY <1>1, <1>2

\* get_data_blkno() finds each pointer inside the inode or an indirect block.
LEMMA PathForm ==
  ASSUME NEW n \in Nat
  PROVE  \/ Path(n) = <<>>
         \/ \E k \in Pointers : Depth(k) = 0 /\ Path(n) = <<k>>
         \/ \E k \in Pointers, a \in Offsets : Depth(k) = 1 /\ Path(n) = <<k, a>>
         \/ \E k \in Pointers, a, b \in Offsets : Depth(k) = 2 /\ Path(n) = <<k, a, b>>
         \/ \E k \in Pointers, a, b, c \in Offsets : Depth(k) = 3 /\ Path(n) = <<k, a, b, c>>
<1> DEFINE P == FS_BLKSIZ
           s == n - SINGLE_INDIRECT
           d == s - P
           t == d - P * P
<1>1. P \in Nat \ {0} /\ s \in Int /\ d \in Int /\ P * P \in Nat \ {0} /\ t \in Int
      /\ P * P * P \in Nat /\ P * P * P = (P * P) * P /\ SINGLE_INDIRECT \in Nat
  BY Numbers
<1>2. Path(n) = CASE n < SINGLE_INDIRECT -> <<n>>
                  [] s \in 0..(P - 1) -> <<SINGLE_INDIRECT, s>>
                  [] d \in 0..(P * P - 1) -> <<DOUBLE_INDIRECT, d \div P, d % P>>
                  [] t \in 0..(P * P * P - 1) ->
                        <<TRIPLE_INDIRECT, t \div (P * P), (t \div P) % P, t % P>>
                  [] OTHER -> <<>>
  BY DEF Path, PTRS_PER_INDIRECT
<1>3. Offsets = 0..(P - 1) /\ \A x \in Nat : x % P \in Offsets
  BY <1>1, Numbers
<1>0. n < SINGLE_INDIRECT \/ s \in Nat
  BY <1>1
<1>s. s = n - SINGLE_INDIRECT /\ d = s - P /\ t = d - P * P
  OBVIOUS
<1> DEFINE PP == P * P
           PPP == P * P * P
<1>p. PP \in Nat \ {0} /\ PPP \in Nat
  BY <1>1
<1>4. CASE n < SINGLE_INDIRECT
  <2>1. s < 0 /\ d < 0 /\ t < 0
    <3> HIDE DEF s, d, t, PP
    <3>1. t = d - PP
      BY <1>s DEF PP
    <3>. QED
      BY <1>1, <1>p, <1>s, <1>4, <3>1
  <2>2. Path(n) = <<n>>
    <3> HIDE DEF s, d, t
    <3>. QED
      BY <1>1, <1>2, <1>4, <2>1
  <2>. QED
    BY <1>1, <1>4, <2>2, Numbers, Depths
<1>5. CASE s \in 0..(P - 1)
  <2>1. ~(n < SINGLE_INDIRECT) /\ d \notin 0..(P * P - 1) /\ t \notin 0..(P * P * P - 1)
    <3> HIDE DEF s, d, t, PP
    <3>1. t = d - PP
      BY <1>s DEF PP
    <3>. QED
      BY <1>1, <1>p, <1>s, <1>5, <3>1
  <2>2. Path(n) = <<SINGLE_INDIRECT, s>>
    <3> HIDE DEF s, d, t
    <3>. QED
      BY <1>1, <1>2, <1>5, <2>1
  <2>. QED
    BY <1>3, <1>5, <2>2, Depths
<1>6. CASE d \in 0..(P * P - 1)
  <2>1. /\ ~(n < SINGLE_INDIRECT) /\ s \notin 0..(P - 1) /\ d \in Nat /\ d < P * P
        /\ t \notin 0..(P * P * P - 1)
    <3> HIDE DEF s, d, t, PP
    <3>1. t = d - PP /\ d \in 0..(PP - 1)
      BY <1>s, <1>6 DEF PP
    <3>2. d < PP
      BY <1>p, <3>1
    <3>. QED
      BY <1>1, <1>p, <1>s, <3>1, <3>2 DEF PP
  <2>2. Path(n) = <<DOUBLE_INDIRECT, d \div P, d % P>>
    <3> HIDE DEF s, d, t
    <3>. QED
      BY <1>1, <1>2, <1>6, <2>1
  <2>3. d \div P \in Offsets /\ d % P \in Offsets
    <3> HIDE DEF s, d, t
    <3>. QED
      BY <1>1, <1>3, <2>1, DivSmall
  <2>. QED
    BY <2>2, <2>3, Depths
<1>7. CASE t \in 0..(P * P * P - 1)
  <2>1. /\ ~(n < SINGLE_INDIRECT) /\ s \notin 0..(P - 1) /\ d \notin 0..(P * P - 1)
        /\ t \in Nat /\ t < (P * P) * P
    <3> HIDE DEF s, d, t, PP, PPP
    <3>1. t = d - PP /\ t \in 0..(PPP - 1) /\ PPP = (P * P) * P
      BY <1>1, <1>s, <1>7 DEF PP, PPP
    <3>2. t \in Nat /\ t < PPP /\ d \notin 0..(PP - 1)
      BY <1>1, <1>p, <3>1
    <3>3. ~(n < SINGLE_INDIRECT) /\ s \notin 0..(P - 1)
      BY <1>1, <1>p, <1>s, <3>1, <3>2
    <3>. QED
      BY <3>1, <3>2, <3>3 DEF PP
  <2>2. Path(n) = <<TRIPLE_INDIRECT, t \div (P * P), (t \div P) % P, t % P>>
    <3> HIDE DEF s, d, t
    <3>. QED
      BY <1>1, <1>2, <1>7, <2>1
  <2>3. t \div (P * P) \in Offsets
    <3> HIDE DEF s, d, t
    <3>. QED
      BY <1>1, <1>3, <2>1, DivSmall
  <2>4. (t \div P) \in Nat /\ (t \div P) % P \in Offsets /\ t % P \in Offsets
    <3>1. t \div P \in Nat
      <4> HIDE DEF s, d, t
      <4>. QED
        BY <1>1, <2>1
    <3> HIDE DEF s, d, t
    <3>. QED
      BY <1>3, <2>1, <3>1
  <2>. QED
    BY <2>2, <2>3, <2>4, Depths
<1>8. CASE ~(n < SINGLE_INDIRECT) /\ s \notin 0..(P - 1) /\ d \notin 0..(P * P - 1)
           /\ t \notin 0..(P * P * P - 1)
  <2> HIDE DEF s, d, t
  <2>. QED
    BY <1>2, <1>8
<1>. QED
  BY <1>4, <1>5, <1>6, <1>7, <1>8

-----------------------------------------------------------------------------
(* Levels.                                                                  *)

\* Each level is what the inode and the level above point to.
LEMMA LevelAbove ==
  ASSUME NEW d, NEW m, NEW Z
  PROVE  /\ Level(3, d, m, Z) = AtDepth(3, d)
         /\ \A n \in 0..2 :
              Level(n, d, m, Z) = AtDepth(n, d) \cup Under(Level(n + 1, d, m, Z), m, Z)
<1>1. /\ Level(3, d, m, Z) = Level3(d) /\ Level(2, d, m, Z) = Level2(d, m, Z)
      /\ Level(1, d, m, Z) = Level1(d, m, Z) /\ Level(0, d, m, Z) = Level0(d, m, Z)
  BY DEF Level
<1>2. ASSUME NEW n \in 0..2
      PROVE  Level(n, d, m, Z) = AtDepth(n, d) \cup Under(Level(n + 1, d, m, Z), m, Z)
  <2>1. n = 0 \/ n = 1 \/ n = 2
    OBVIOUS
  <2>. QED
    BY <1>1, <2>1 DEF Level0, Level1, Level2
<1>. QED
  BY <1>1, <1>2 DEF Level3

\* What points to a block.
LEMMA UnderMember ==
  ASSUME NEW B, NEW m, NEW Z, NEW y
  PROVE  y \in Under(B, m, Z) <=> \E b \in B \cap Blocks : y \in Sons(b, m, Z)
  BY DEF Under

\* A level does not change when no pointer to it does.
LEMMA SameLevels ==
  ASSUME NEW d, NEW m, NEW Z, NEW e, NEW l, NEW Y,
         \A n \in 0..3 : AtDepth(n, e) = AtDepth(n, d),
         \A n \in 1..3 : \A b \in Level(n, d, m, Z) \cap Blocks : Sons(b, l, Y) = Sons(b, m, Z)
  PROVE  \A n \in 0..3 : Level(n, e, l, Y) = Level(n, d, m, Z)
<1>1. Level(3, e, l, Y) = Level(3, d, m, Z)
  BY LevelAbove
<1>2. ASSUME NEW n \in 0..2, Level(n + 1, e, l, Y) = Level(n + 1, d, m, Z)
      PROVE  Level(n, e, l, Y) = Level(n, d, m, Z)
  <2>1. n + 1 \in 1..3 /\ n \in 0..3
    OBVIOUS
  <2>2. Under(Level(n + 1, e, l, Y), l, Y) = Under(Level(n + 1, d, m, Z), m, Z)
    BY <1>2, <2>1 DEF Under
  <2>3. Level(n, d, m, Z) = AtDepth(n, d) \cup Under(Level(n + 1, d, m, Z), m, Z)
    BY LevelAbove
  <2>4. Level(n, e, l, Y) = AtDepth(n, e) \cup Under(Level(n + 1, e, l, Y), l, Y)
    BY LevelAbove
  <2>. QED
    BY <2>1, <2>2, <2>3, <2>4
<1>3. Level(2, e, l, Y) = Level(2, d, m, Z)
  BY <1>1, <1>2
<1>4. Level(1, e, l, Y) = Level(1, d, m, Z)
  BY <1>2, <1>3
<1>5. Level(0, e, l, Y) = Level(0, d, m, Z)
  BY <1>2, <1>4
<1>. QED
  BY <1>1, <1>3, <1>4, <1>5

\* A new block a of depth j, to which one pointer leads, is the only new one.
Grown(d, m, Z, e, l, Y, j, a) ==
    \A n \in 0..3 : Level(n, e, l, Y) = Level(n, d, m, Z) \cup (IF n = j THEN {a} ELSE {})

\* The pointer is in the inode: pointer k of d, which was 0, is a in e.
TopSet(d, e, k, a) == d[k] = 0 /\ e[k] = a /\ \A i \in Pointers \ {k} : e[i] = d[i]
SameSons(d, m, Z, l, Y) ==
    \A n \in 1..3 : \A b \in Level(n, d, m, Z) \cap Blocks : Sons(b, l, Y) = Sons(b, m, Z)

\* A pointer of an inode to a new block adds that block, and nothing else, to
\* the blocks below the inode.
LEMMA GrowTop ==
  ASSUME NEW d \in [Pointers -> Nat], NEW m, NEW Z, NEW l, NEW Y,
         NEW k \in Pointers, NEW a \in Nat \ {0}, NEW e \in [Pointers -> Nat],
         TopSet(d, e, k, a), SameSons(d, m, Z, l, Y),
         Depth(k) > 0 => Sons(a, l, Y) = {}
  PROVE  Grown(d, m, Z, e, l, Y, Depth(k), a)
<1> DEFINE new(n) == IF n = Depth(k) THEN {a} ELSE {}
<1>1. ASSUME NEW n \in 0..3 PROVE AtDepth(n, e) = AtDepth(n, d) \cup new(n)
  <2>1. /\ \A i \in Pointers : e[i] = IF i = k THEN a ELSE d[i]
        /\ d[k] = 0 /\ a # 0
    BY DEF TopSet
  <2>. QED
    BY <2>1 DEF AtDepth
<1>2. Level(3, e, l, Y) = Level(3, d, m, Z) \cup new(3)
  <2> HIDE DEF new
  <2>1. 3 \in 0..3
    OBVIOUS
  <2>2. AtDepth(3, e) = AtDepth(3, d) \cup new(3)
    BY <1>1, <2>1
  <2>. QED
    BY <2>2, LevelAbove
<1>3. ASSUME NEW n \in 0..2, Level(n + 1, e, l, Y) = Level(n + 1, d, m, Z) \cup new(n + 1)
      PROVE  Level(n, e, l, Y) = Level(n, d, m, Z) \cup new(n)
  <2>1. n + 1 \in 1..3 /\ n \in 0..3
    OBVIOUS
  <2>2. \A b \in new(n + 1) : Sons(b, l, Y) = {}
    BY <2>1
  <2> HIDE DEF new
  <2>3. Under(Level(n + 1, e, l, Y), l, Y) = Under(Level(n + 1, d, m, Z), m, Z)
    BY <1>3, <2>1, <2>2 DEF Under, SameSons
  <2>. QED
    BY <1>1, <2>1, <2>3, LevelAbove
<1> HIDE DEF new
<1>4. Level(2, e, l, Y) = Level(2, d, m, Z) \cup new(2)
  BY <1>2, <1>3
<1>5. Level(1, e, l, Y) = Level(1, d, m, Z) \cup new(1)
  BY <1>3, <1>4
<1>6. Level(0, e, l, Y) = Level(0, d, m, Z) \cup new(0)
  BY <1>3, <1>5
<1>7. \A n \in 0..3 : Level(n, e, l, Y) = Level(n, d, m, Z) \cup new(n)
  <2>1. \A n \in 0..3 : n = 0 \/ n = 1 \/ n = 2 \/ n = 3
    OBVIOUS
  <2>. QED
    BY <1>2, <1>4, <1>5, <1>6, <2>1
<1>. QED
  BY <1>7 DEF Grown, new

\* The pointer is in the indirect block h.
LEMMA GrowBelow ==
  ASSUME NEW d, NEW m, NEW Z, NEW l, NEW Y, NEW j \in 0..2, NEW h \in Blocks, NEW a,
         h \in Level(j + 1, d, m, Z), \A n \in 1..3 : h \in Level(n, d, m, Z) => n = j + 1,
         \A n \in 1..3 : \A b \in (Level(n, d, m, Z) \cap Blocks) \ {h} :
             Sons(b, l, Y) = Sons(b, m, Z),
         Sons(h, l, Y) = Sons(h, m, Z) \cup {a},
         j > 0 => Sons(a, l, Y) = {}
  PROVE  Grown(d, m, Z, d, l, Y, j, a)
<1> DEFINE new(n) == IF n = j THEN {a} ELSE {}
<1>2. Level(3, d, l, Y) = Level(3, d, m, Z) \cup new(3)
  BY LevelAbove
<1>3. ASSUME NEW n \in 0..2, Level(n + 1, d, l, Y) = Level(n + 1, d, m, Z) \cup new(n + 1)
      PROVE  Level(n, d, l, Y) = Level(n, d, m, Z) \cup new(n)
  <2>1. n + 1 \in 1..3 /\ n \in 0..3
    OBVIOUS
  <2>2. \A b \in new(n + 1) : Sons(b, l, Y) = {}
    BY <2>1
  <2>3. h \in Level(n + 1, d, m, Z) <=> n = j
    BY <2>1
  <2>4. ASSUME NEW y
        PROVE  y \in Under(Level(n + 1, d, l, Y), l, Y) <=>
                 y \in Under(Level(n + 1, d, m, Z), m, Z) \cup new(n)
    <3>1. y \in Under(Level(n + 1, d, l, Y), l, Y) <=>
            \E b \in Level(n + 1, d, m, Z) \cap Blocks : y \in Sons(b, l, Y)
      <4> HIDE DEF new
      <4>. QED
        BY <1>3, <2>2, UnderMember
    <3>2. CASE n = j
      BY <2>1, <2>3, <3>1, <3>2, UnderMember
    <3>3. CASE n # j
      BY <2>1, <2>3, <3>1, <3>3, UnderMember
    <3>. QED
      BY <3>2, <3>3
  <2>5. Under(Level(n + 1, d, l, Y), l, Y) = Under(Level(n + 1, d, m, Z), m, Z) \cup new(n)
    BY <2>4
  <2> HIDE DEF new
  <2>. QED
    BY <2>1, <2>5, LevelAbove
<1> HIDE DEF new
<1>4. Level(2, d, l, Y) = Level(2, d, m, Z) \cup new(2)
  BY <1>2, <1>3
<1>5. Level(1, d, l, Y) = Level(1, d, m, Z) \cup new(1)
  BY <1>3, <1>4
<1>6. Level(0, d, l, Y) = Level(0, d, m, Z) \cup new(0)
  BY <1>3, <1>5
<1>. QED
  BY <1>2, <1>4, <1>5, <1>6 DEF Grown, new

-----------------------------------------------------------------------------
(* Owners.                                                                  *)

(* The pointers D of all inodes, and what points where when blocks hold m and  *)
(* those of Z are not cleared.                                               *)
Data == [f \in Files |-> inode[f].data]
Inner(d, m, Z) == Level(1, d, m, Z) \cup Level(2, d, m, Z) \cup Level(3, d, m, Z)
Target(r, D, m) == IF r[2] = 0 THEN D[r[1]][r[3]] ELSE m[r[2]][r[3]]
Refs(D, m, Z) ==
    {r \in References : /\ r[2] = 0 \/ r[2] \in Inner(D[r[1]], m, Z) \ Z
                        /\ Target(r, D, m) # 0}

\* BlocksOwned, for the bitmap B and the lost blocks L.
Owned(D, m, Z, B, L) ==
    /\ \A r, s \in Refs(D, m, Z) : Target(r, D, m) = Target(s, D, m) => r = s
    /\ B = {Target(r, D, m) : r \in Refs(D, m, Z)} \cup L \cup {ROOT_BLK}
    /\ \A r \in Refs(D, m, Z) : Target(r, D, m) \in Blocks \ (L \cup {ROOT_BLK})

Inodes == [Files -> [Pointers -> Nat]]
Words == [Blocks -> [Offsets -> Nat]]

\* The two kinds of pointers.
LEMMA RefForm ==
  ASSUME NEW D, NEW m, NEW Z
  PROVE  /\ \A f, k : <<f, 0, k>> \in Refs(D, m, Z) <=>
                       f \in Files /\ k \in Pointers /\ D[f][k] # 0
         /\ \A f, o : \A b \in Blocks : <<f, b, o>> \in Refs(D, m, Z) <=>
                       f \in Files /\ o \in Offsets /\ b \in Inner(D[f], m, Z) \ Z
                       /\ m[b][o] # 0
         /\ \A r \in Refs(D, m, Z) :
              \/ \E f \in Files, k \in Pointers : r = <<f, 0, k>>
              \/ \E f \in Files, b \in Blocks, o \in Offsets : r = <<f, b, o>>
<1>1. 0 \notin Blocks
  BY Numbers
<1>2. ASSUME NEW f, NEW k
      PROVE  /\ <<f, 0, k>> \in References <=> f \in Files /\ k \in Pointers
             /\ Target(<<f, 0, k>>, D, m) = D[f][k]
  BY <1>1 DEF References, Target
<1>3. ASSUME NEW f, NEW o, NEW b \in Blocks
      PROVE  /\ <<f, b, o>> \in References <=> f \in Files /\ o \in Offsets
             /\ Target(<<f, b, o>>, D, m) = m[b][o]
  BY <1>1 DEF References, Target
<1>4. ASSUME NEW f, NEW k
      PROVE  <<f, 0, k>> \in Refs(D, m, Z) <=>
               f \in Files /\ k \in Pointers /\ D[f][k] # 0
  BY <1>2 DEF Refs
<1>5. ASSUME NEW f, NEW o, NEW b \in Blocks
      PROVE  <<f, b, o>> \in Refs(D, m, Z) <=>
               f \in Files /\ o \in Offsets /\ b \in Inner(D[f], m, Z) \ Z /\ m[b][o] # 0
  BY <1>1, <1>3 DEF Refs
<1>6. \A r \in Refs(D, m, Z) :
        \/ \E f \in Files, k \in Pointers : r = <<f, 0, k>>
        \/ \E f \in Files, b \in Blocks, o \in Offsets : r = <<f, b, o>>
  BY DEF Refs, References
<1>. QED
  BY <1>4, <1>5, <1>6

\* Where they lead.
LEMMA TargetForm ==
  ASSUME NEW D, NEW m
  PROVE  /\ \A f, k : Target(<<f, 0, k>>, D, m) = D[f][k]
         /\ \A f, o : \A b \in Blocks : Target(<<f, b, o>>, D, m) = m[b][o]
<1>1. 0 \notin Blocks
  BY Numbers
<1>. QED
  BY <1>1 DEF Target

\* A block in a level has a pointer to it, in the inode or in the level above.
LEMMA Pointed ==
  ASSUME NEW D \in Inodes, NEW m \in Words, NEW Z, NEW f \in Files, NEW n \in 0..3,
         NEW y \in Level(n, D[f], m, Z)
  PROVE  \/ \E k \in Pointers : /\ Depth(k) = n /\ D[f][k] = y
                                /\ <<f, 0, k>> \in Refs(D, m, Z)
         \/ /\ n < 3
            /\ \E b \in Blocks, o \in Offsets :
                 /\ b \in Level(n + 1, D[f], m, Z) /\ m[b][o] = y
                 /\ <<f, b, o>> \in Refs(D, m, Z)
<1>1. \/ y \in AtDepth(n, D[f])
      \/ n < 3 /\ y \in Under(Level(n + 1, D[f], m, Z), m, Z)
  <2>1. n = 3 \/ (n \in 0..2 /\ n < 3)
    OBVIOUS
  <2>. QED
    BY <2>1, LevelAbove
<1>2. CASE y \in AtDepth(n, D[f])
  BY <1>2, RefForm DEF AtDepth
<1>3. CASE n < 3 /\ y \in Under(Level(n + 1, D[f], m, Z), m, Z)
  <2>1. PICK b \in Level(n + 1, D[f], m, Z) \cap Blocks : y \in Sons(b, m, Z)
    BY <1>3, UnderMember
  <2>2. b \notin Z /\ \E o \in Offsets : m[b][o] = y /\ y # 0
    BY <2>1 DEF Sons
  <2>3. b \in Inner(D[f], m, Z)
    <3>1. n + 1 = 1 \/ n + 1 = 2 \/ n + 1 = 3
      BY <1>3
    <3>. QED
      BY <2>1, <3>1 DEF Inner
  <2>. QED
    BY <1>3, <2>1, <2>2, <2>3, RefForm
<1>. QED
  BY <1>1, <1>2, <1>3

\* What a pointer leads to is in a level of its file.
LEMMA TargetLevel ==
  ASSUME NEW D \in Inodes, NEW m \in Words, NEW Z
  PROVE  /\ \A f \in Files, k \in Pointers : <<f, 0, k>> \in Refs(D, m, Z)
               => D[f][k] \in Level(Depth(k), D[f], m, Z)
         /\ \A f \in Files, b \in Blocks, o \in Offsets, n \in 0..2 :
               /\ <<f, b, o>> \in Refs(D, m, Z) /\ b \in Level(n + 1, D[f], m, Z)
               => m[b][o] \in Level(n, D[f], m, Z)
<1>1. ASSUME NEW f \in Files, NEW k \in Pointers, <<f, 0, k>> \in Refs(D, m, Z)
      PROVE  D[f][k] \in Level(Depth(k), D[f], m, Z)
  <2>1. D[f][k] \in AtDepth(Depth(k), D[f])
    BY <1>1, RefForm DEF AtDepth
  <2>2. Depth(k) = 3 \/ Depth(k) \in 0..2
    BY Depths
  <2>. QED
    BY <2>1, <2>2, LevelAbove
<1>2. ASSUME NEW f \in Files, NEW b \in Blocks, NEW o \in Offsets, NEW n \in 0..2,
             <<f, b, o>> \in Refs(D, m, Z), b \in Level(n + 1, D[f], m, Z)
      PROVE  m[b][o] \in Level(n, D[f], m, Z)
  <2>1. m[b][o] \in Sons(b, m, Z)
    BY <1>2, RefForm DEF Sons
  <2>2. m[b][o] \in Under(Level(n + 1, D[f], m, Z), m, Z)
    BY <1>2, <2>1, UnderMember
  <2>. QED
    BY <2>2, LevelAbove
<1>. QED
  BY <1>1, <1>2

\* Every tree is the targets of its file's pointers.
LEMMA TreeTargets ==
  ASSUME NEW D \in Inodes, NEW m \in Words, NEW Z
  PROVE  {Target(r, D, m) : r \in Refs(D, m, Z)}
           = UNION {Level(n, D[f], m, Z) : f \in Files, n \in 0..3}
<1>1. ASSUME NEW r \in Refs(D, m, Z)
      PROVE  \E f \in Files, n \in 0..3 : Target(r, D, m) \in Level(n, D[f], m, Z)
  <2>1. CASE \E f \in Files, k \in Pointers : r = <<f, 0, k>>
    <3>1. PICK f \in Files, k \in Pointers : r = <<f, 0, k>>
      BY <2>1
    <3>2. Target(r, D, m) = D[f][k] /\ D[f][k] \in Level(Depth(k), D[f], m, Z)
      <4>1. Target(r, D, m) = D[f][k] /\ <<f, 0, k>> \in Refs(D, m, Z)
        <5>1. Target(<<f, 0, k>>, D, m) = D[f][k]
          BY DEF Target
        <5>. QED
          BY <3>1, <5>1
      <4>2. D[f][k] \in Level(Depth(k), D[f], m, Z)
        BY <4>1, TargetLevel
      <4>. QED
        BY <4>1, <4>2
    <3>. QED
      BY <3>2, Depths
  <2>2. CASE \E f \in Files, b \in Blocks, o \in Offsets : r = <<f, b, o>>
    <3>1. PICK f \in Files, b \in Blocks, o \in Offsets : r = <<f, b, o>>
      BY <2>2
    <3>2. Target(r, D, m) = m[b][o] /\ b \in Inner(D[f], m, Z)
      BY <3>1, TargetForm, RefForm
    <3>3. PICK n \in 0..2 : b \in Level(n + 1, D[f], m, Z)
      <4>1. /\ b \in Level(0 + 1, D[f], m, Z) \/ b \in Level(1 + 1, D[f], m, Z)
               \/ b \in Level(2 + 1, D[f], m, Z)
            /\ 0 \in 0..2 /\ 1 \in 0..2 /\ 2 \in 0..2
        BY <3>2 DEF Inner
      <4>. QED
        BY <4>1
    <3>4. m[b][o] \in Level(n, D[f], m, Z) /\ n \in 0..3
      BY <3>1, <3>3, TargetLevel
    <3>. QED
      BY <3>2, <3>4
  <2>. QED
    BY <2>1, <2>2, RefForm
<1>2. ASSUME NEW f \in Files, NEW n \in 0..3, NEW y \in Level(n, D[f], m, Z)
      PROVE  \E r \in Refs(D, m, Z) : Target(r, D, m) = y
  <2>1. \/ \E k \in Pointers : D[f][k] = y /\ <<f, 0, k>> \in Refs(D, m, Z)
        \/ \E b \in Blocks, o \in Offsets : m[b][o] = y /\ <<f, b, o>> \in Refs(D, m, Z)
    BY Pointed, Zenon
  <2>2. \A k : Target(<<f, 0, k>>, D, m) = D[f][k]
    BY Numbers DEF Target
  <2>3. \A b \in Blocks : \A o : Target(<<f, b, o>>, D, m) = m[b][o]
    BY TargetForm
  <2>. QED
    BY <2>1, <2>2, <2>3
<1>. QED
  BY <1>1, <1>2

\* No block is in two levels, nor in the trees of two files.
LEMMA LevelsApart ==
  ASSUME NEW D \in Inodes, NEW m \in Words, NEW Z, NEW B, NEW L, Owned(D, m, Z, B, L)
  PROVE  \A f, g \in Files : \A i, j \in 0..3 : \A y :
           y \in Level(i, D[f], m, Z) /\ y \in Level(j, D[g], m, Z) => f = g /\ i = j
<1> DEFINE Apart(i, j) == \A f, g \in Files : \A y :
             y \in Level(i, D[f], m, Z) /\ y \in Level(j, D[g], m, Z) => f = g /\ i = j
<1>1. ASSUME NEW i \in 0..3, NEW j \in 0..3, i < 3 /\ j < 3 => Apart(i + 1, j + 1)
      PROVE  Apart(i, j)
  <2>1. SUFFICES ASSUME NEW f \in Files, NEW g \in Files, NEW y,
                        y \in Level(i, D[f], m, Z), y \in Level(j, D[g], m, Z)
                 PROVE  f = g /\ i = j
    OBVIOUS
  <2>2. \A r, s \in Refs(D, m, Z) : Target(r, D, m) = Target(s, D, m) => r = s
    BY DEF Owned
  <2>3. 0 \notin Blocks
    BY Numbers
  <2>4. CASE \E k \in Pointers : Depth(k) = i /\ D[f][k] = y /\ <<f, 0, k>> \in Refs(D, m, Z)
    <3>1. PICK k \in Pointers : Depth(k) = i /\ D[f][k] = y /\ <<f, 0, k>> \in Refs(D, m, Z)
      BY <2>4
    <3>2. \/ \E l \in Pointers : Depth(l) = j /\ D[g][l] = y /\ <<g, 0, l>> \in Refs(D, m, Z)
          \/ \E b \in Blocks, o \in Offsets : m[b][o] = y /\ <<g, b, o>> \in Refs(D, m, Z)
      <4>1. \/ \E l \in Pointers : /\ Depth(l) = j /\ D[g][l] = y
                                  /\ <<g, 0, l>> \in Refs(D, m, Z)
            \/ /\ j < 3
               /\ \E b \in Blocks, o \in Offsets :
                    /\ b \in Level(j + 1, D[g], m, Z) /\ m[b][o] = y
                    /\ <<g, b, o>> \in Refs(D, m, Z)
        BY <2>1, Pointed
      <4>. QED
        BY <4>1, Zenon
    <3>3. CASE \E b \in Blocks, o \in Offsets : m[b][o] = y /\ <<g, b, o>> \in Refs(D, m, Z)
      BY <2>2, <2>3, <3>1, <3>3, TargetForm
    <3>4. CASE \E l \in Pointers : Depth(l) = j /\ D[g][l] = y /\ <<g, 0, l>> \in Refs(D, m, Z)
      <4>1. PICK l \in Pointers : Depth(l) = j /\ D[g][l] = y /\ <<g, 0, l>> \in Refs(D, m, Z)
        BY <3>4
      <4>2. <<f, 0, k>> = <<g, 0, l>>
        <5>1. Target(<<f, 0, k>>, D, m) = y /\ Target(<<g, 0, l>>, D, m) = y
          BY <3>1, <4>1 DEF Target
        <5>. QED
          BY <2>2, <3>1, <4>1, <5>1
      <4>. QED
        BY <3>1, <4>1, <4>2
    <3>. QED
      BY <3>2, <3>3, <3>4
  <2>5. CASE /\ i < 3
             /\ \E b \in Blocks, o \in Offsets :
                  /\ b \in Level(i + 1, D[f], m, Z) /\ m[b][o] = y
                  /\ <<f, b, o>> \in Refs(D, m, Z)
    <3>1. PICK b \in Blocks, o \in Offsets :
                  /\ b \in Level(i + 1, D[f], m, Z) /\ m[b][o] = y
                  /\ <<f, b, o>> \in Refs(D, m, Z)
      BY <2>5
    <3>2. \/ \E l \in Pointers : D[g][l] = y /\ <<g, 0, l>> \in Refs(D, m, Z)
          \/ /\ j < 3
             /\ \E c \in Blocks, p \in Offsets :
                  /\ c \in Level(j + 1, D[g], m, Z) /\ m[c][p] = y
                  /\ <<g, c, p>> \in Refs(D, m, Z)
      BY <2>1, Pointed
    <3>3. CASE \E l \in Pointers : D[g][l] = y /\ <<g, 0, l>> \in Refs(D, m, Z)
      BY <2>2, <2>3, <3>1, <3>3, TargetForm
    <3>4. CASE /\ j < 3
               /\ \E c \in Blocks, p \in Offsets :
                    /\ c \in Level(j + 1, D[g], m, Z) /\ m[c][p] = y
                    /\ <<g, c, p>> \in Refs(D, m, Z)
      <4>1. PICK c \in Blocks, p \in Offsets :
                    /\ c \in Level(j + 1, D[g], m, Z) /\ m[c][p] = y
                    /\ <<g, c, p>> \in Refs(D, m, Z)
        BY <3>4
      <4>2. <<f, b, o>> = <<g, c, p>>
        BY <2>2, <3>1, <4>1, TargetForm
      <4>3. f = g /\ i + 1 = j + 1
        BY <1>1, <2>5, <3>1, <3>4, <4>1, <4>2
      <4>. QED
        BY <4>3
    <3>. QED
      BY <3>2, <3>3, <3>4
  <2>. QED
    BY <2>1, <2>4, <2>5, Pointed
<1>2. \A i, j \in 0..3 : i = 3 \/ j = 3 => Apart(i, j)
  <2> HIDE DEF Apart
  <2>. QED
    BY <1>1
<1>3. \A i, j \in 0..3 : i = 2 \/ j = 2 => Apart(i, j)
  <2>1. \A i, j \in 0..3 : i < 3 /\ j < 3 /\ (i = 2 \/ j = 2)
          => i + 1 \in 0..3 /\ j + 1 \in 0..3 /\ (i + 1 = 3 \/ j + 1 = 3)
    OBVIOUS
  <2> HIDE DEF Apart
  <2>. QED
    BY <1>1, <1>2, <2>1
<1>4. \A i, j \in 0..3 : i = 1 \/ j = 1 => Apart(i, j)
  <2>1. \A i, j \in 0..3 : i < 3 /\ j < 3 /\ (i = 1 \/ j = 1)
          => i + 1 \in 0..3 /\ j + 1 \in 0..3 /\ (i + 1 = 2 \/ j + 1 = 2)
    OBVIOUS
  <2> HIDE DEF Apart
  <2>. QED
    BY <1>1, <1>3, <2>1
<1>5. \A i, j \in 0..3 : Apart(i, j)
  <2>1. \A i, j \in 0..3 : i < 3 /\ j < 3 /\ ~(i = 1 \/ j = 1) /\ ~(i = 2 \/ j = 2)
          => i + 1 \in 0..3 /\ j + 1 \in 0..3 /\ (i + 1 = 1 \/ j + 1 = 1)
    OBVIOUS
  <2> HIDE DEF Apart
  <2>. QED
    BY <1>1, <1>2, <1>3, <1>4, <2>1
<1>. QED
  BY <1>5

\* A tree has no lost block and not the root directory's, and all is allocated.
LEMMA TreeAllocated ==
  ASSUME NEW D \in Inodes, NEW m \in Words, NEW Z, NEW B, NEW L, Owned(D, m, Z, B, L)
  PROVE  \A f \in Files, n \in 0..3 : \A y \in Level(n, D[f], m, Z) :
           y \in B /\ y \in Blocks \ (L \cup {ROOT_BLK})
<1>1. \A f \in Files, n \in 0..3 : \A y \in Level(n, D[f], m, Z) :
        \E r \in Refs(D, m, Z) : y = Target(r, D, m)
  BY TreeTargets
<1>. QED
  BY <1>1 DEF Owned

\* No pointer changes: a block whose pointers are about to be cleared, or are
\* all 0, has none.
Unmoved(D, m, Z, l, Y) ==
    \A f \in Files : \A b \in Inner(D[f], m, Z) \cap Blocks :
        \/ (b \in Z <=> b \in Y) /\ l[b] = m[b]
        \/ b \in Z /\ \A o \in Offsets : l[b][o] = 0

\* Nothing is owned by anybody else then.
LEMMA SameOwners ==
  ASSUME NEW D \in Inodes, NEW m \in Words, NEW l \in Words, NEW Z, NEW Y, NEW B, NEW L,
         Owned(D, m, Z, B, L),
         Unmoved(D, m, Z, l, Y)
  PROVE  /\ Owned(D, l, Y, B, L)
         /\ \A f \in Files, n \in 0..3 : Level(n, D[f], l, Y) = Level(n, D[f], m, Z)
<1>1. ASSUME NEW f \in Files
      PROVE  \A n \in 0..3 : Level(n, D[f], l, Y) = Level(n, D[f], m, Z)
  <2>1. ASSUME NEW n \in 1..3, NEW b \in Level(n, D[f], m, Z) \cap Blocks
        PROVE  Sons(b, l, Y) = Sons(b, m, Z)
    <3>1. b \in Inner(D[f], m, Z)
      <4>1. n = 1 \/ n = 2 \/ n = 3
        OBVIOUS
      <4>. QED
        BY <4>1 DEF Inner
    <3>2. CASE (b \in Z <=> b \in Y) /\ l[b] = m[b]
      BY <3>2 DEF Sons
    <3>3. CASE b \in Z /\ \A o \in Offsets : l[b][o] = 0
      BY <3>3 DEF Sons
    <3>. QED
      BY <3>1, <3>2, <3>3 DEF Unmoved
  <2>. QED
    BY <2>1, SameLevels
<1>2. \A f \in Files : Inner(D[f], l, Y) = Inner(D[f], m, Z)
  <2>1. 1 \in 0..3 /\ 2 \in 0..3 /\ 3 \in 0..3
    OBVIOUS
  <2>. QED
    BY <1>1, <2>1 DEF Inner
<1>3. ASSUME NEW r
      PROVE  /\ r \in Refs(D, l, Y) <=> r \in Refs(D, m, Z)
             /\ r \in Refs(D, m, Z) => Target(r, D, l) = Target(r, D, m)
  <2>1. CASE r \in References /\ r[2] = 0
    BY <2>1 DEF Refs, Target
  <2>2. CASE r \in References /\ r[2] # 0
    <3>1. /\ r[1] \in Files /\ r[2] \in Blocks /\ r[3] \in Offsets
          /\ Target(r, D, l) = l[r[2]][r[3]] /\ Target(r, D, m) = m[r[2]][r[3]]
      BY <2>2 DEF References, Target
    <3>. QED
      BY <1>2, <2>2, <3>1 DEF Refs, Unmoved
  <2>. QED
    BY <2>1, <2>2 DEF Refs
<1>4. Refs(D, l, Y) = Refs(D, m, Z)
  BY <1>3
<1>5. Owned(D, l, Y, B, L)
  BY <1>3, <1>4 DEF Owned
<1>. QED
  BY <1>1, <1>5

(* Pointer q, which was 0 and is not in a block that is to be cleared, is a,   *)
(* and what it adds is block a to level j of file f.                         *)
NewPointer(D, m, Z, E, l, q, a) ==
    /\ q \in References /\ (q[2] = 0 \/ q[2] \in Inner(D[q[1]], m, Z) \ Z)
    /\ Target(q, D, m) = 0 /\ Target(q, E, l) = a
    /\ \A r \in References \ {q} :
        r[2] = 0 \/ r[2] \in Inner(D[r[1]], m, Z) \ Z => Target(r, E, l) = Target(r, D, m)
Added(D, m, Z, E, l, Y, f, j, a) ==
    \A g \in Files, n \in 0..3 :
        Level(n, E[g], l, Y) = Level(n, D[g], m, Z) \cup (IF g = f /\ n = j THEN {a} ELSE {})
\* It is to be cleared if it is an indirect block.
Unready(Z, Y, j, a) == Y = Z \cup (IF j > 0 THEN {a} ELSE {})

\* A new pointer owns the new block to which it leads.
LEMMA NewOwner ==
  ASSUME NEW D \in Inodes, NEW m \in Words, NEW Z, NEW E \in Inodes, NEW l \in Words, NEW Y,
         NEW B, NEW L, Owned(D, m, Z, B, L),
         NEW f \in Files, NEW j \in 0..3, NEW a \in Blocks \ B, NEW q,
         NewPointer(D, m, Z, E, l, q, a), Added(D, m, Z, E, l, Y, f, j, a), Unready(Z, Y, j, a)
  PROVE  Owned(E, l, Y, B \cup {a}, L)
<1>1. ASSUME NEW g \in Files, NEW b \in Blocks
      PROVE  b \in Inner(E[g], l, Y) \ Y <=> b \in Inner(D[g], m, Z) \ Z
  <2>1. /\ Level(1, E[g], l, Y) = Level(1, D[g], m, Z) \cup (IF g = f /\ 1 = j THEN {a} ELSE {})
        /\ Level(2, E[g], l, Y) = Level(2, D[g], m, Z) \cup (IF g = f /\ 2 = j THEN {a} ELSE {})
        /\ Level(3, E[g], l, Y) = Level(3, D[g], m, Z) \cup (IF g = f /\ 3 = j THEN {a} ELSE {})
    <3>1. 1 \in 0..3 /\ 2 \in 0..3 /\ 3 \in 0..3
      OBVIOUS
    <3>. QED
      BY <3>1 DEF Added
  <2>2. a \notin Inner(D[g], m, Z)
    <3>1. 1 \in 0..3 /\ 2 \in 0..3 /\ 3 \in 0..3
      OBVIOUS
    <3>. QED
      BY <3>1, TreeAllocated DEF Inner
  <2>3. CASE j = 0
    BY <2>1, <2>3 DEF Inner, Unready
  <2>4. CASE j > 0
    <3>1. Y = Z \cup {a}
      BY <2>4 DEF Unready
    <3>2. b # a => (b \in Inner(E[g], l, Y) <=> b \in Inner(D[g], m, Z))
      <4>1. ASSUME NEW n \in 1..3, b # a
            PROVE  b \in Level(n, E[g], l, Y) <=> b \in Level(n, D[g], m, Z)
        <5>1. n \in 0..3
          OBVIOUS
        <5>2. Level(n, E[g], l, Y) = Level(n, D[g], m, Z) \cup
                                     (IF g = f /\ n = j THEN {a} ELSE {})
          BY <5>1 DEF Added
        <5>. QED
          BY <4>1, <5>2
      <4>2. 1 \in 1..3 /\ 2 \in 1..3 /\ 3 \in 1..3
        OBVIOUS
      <4>. QED
        BY <4>1, <4>2 DEF Inner
    <3>. QED
      BY <2>2, <3>1, <3>2
  <2>. QED
    BY <2>3, <2>4
<1>2. ASSUME NEW r
      PROVE  r \in Refs(E, l, Y) <=> r \in Refs(D, m, Z) \/ r = q
  <2>1. 0 # a
    BY Numbers
  <2>2. ASSUME NEW s \in References
        PROVE  s[2] = 0 \/ s[2] \in Inner(E[s[1]], l, Y) \ Y
                 <=> s[2] = 0 \/ s[2] \in Inner(D[s[1]], m, Z) \ Z
    <3>1. s[1] \in Files /\ (s[2] = 0 \/ s[2] \in Blocks)
      BY DEF References
    <3>. QED
      BY <1>1, <3>1
  <2>3. CASE r = q
    BY <2>1, <2>2, <2>3 DEF Refs, NewPointer
  <2>4. CASE r # q
    BY <2>2, <2>4 DEF Refs, NewPointer
  <2>. QED
    BY <2>3, <2>4
<1>3. /\ q \notin Refs(D, m, Z) /\ Refs(D, m, Z) \subseteq References /\ Target(q, E, l) = a
  BY DEF Refs, NewPointer
<1>4. \A r \in Refs(D, m, Z) : Target(r, E, l) = Target(r, D, m) /\ Target(r, D, m) \in B
  BY <1>3 DEF Owned, Refs, NewPointer
<1>5. \A r, s \in Refs(E, l, Y) : Target(r, E, l) = Target(s, E, l) => r = s
  <2>1. \A r, s \in Refs(D, m, Z) : Target(r, D, m) = Target(s, D, m) => r = s
    BY DEF Owned
  <2>. QED
    BY <1>2, <1>3, <1>4, <2>1
<1>6. B \cup {a} = {Target(r, E, l) : r \in Refs(E, l, Y)} \cup L \cup {ROOT_BLK}
  <2>1. B = {Target(r, D, m) : r \in Refs(D, m, Z)} \cup L \cup {ROOT_BLK}
    BY DEF Owned
  <2>2. ASSUME NEW y
        PROVE  y \in {Target(r, E, l) : r \in Refs(E, l, Y)}
                 <=> y \in {Target(r, D, m) : r \in Refs(D, m, Z)} \/ y = a
    BY <1>2, <1>3, <1>4
  <2>. QED
    BY <2>1, <2>2
<1>7. \A r \in Refs(E, l, Y) : Target(r, E, l) \in Blocks \ (L \cup {ROOT_BLK})
  <2>1. /\ \A r \in Refs(D, m, Z) : Target(r, D, m) \in Blocks \ (L \cup {ROOT_BLK})
        /\ a \notin L \cup {ROOT_BLK}
    BY DEF Owned
  <2>. QED
    BY <1>2, <1>3, <1>4, <2>1
<1>. QED
  BY <1>5, <1>6, <1>7 DEF Owned

(* Pointer q is set to 0, and S is q's target with all blocks to which only    *)
(* pointers in blocks of S lead.                                             *)
CutOff(D, m, Z, E, l, q, S) ==
    /\ q \in Refs(D, m, Z) /\ Target(q, E, l) = 0
    /\ \A r \in References : Target(r, E, l) \in {Target(r, D, m), 0}
    /\ \A r \in Refs(D, m, Z) \ {q} : Target(r, E, l) = Target(r, D, m)
    /\ S \subseteq {Target(r, D, m) : r \in Refs(D, m, Z)}
    /\ \A r \in Refs(D, m, Z) : Target(r, D, m) \in S <=> r = q \/ r[2] \in S
Without(D, m, Z, E, l, S) ==
    \A g \in Files, n \in 0..3 : Level(n, E[g], l, Z) = Level(n, D[g], m, Z) \ S

\* What is in a level.
LEMMA InLevel ==
  ASSUME NEW D \in Inodes, NEW m \in Words, NEW Z, NEW f \in Files, NEW n \in 0..3, NEW y
  PROVE  y \in Level(n, D[f], m, Z) <=>
           \/ \E k \in Pointers : /\ Depth(k) = n /\ D[f][k] = y
                                  /\ <<f, 0, k>> \in Refs(D, m, Z)
           \/ /\ n < 3
              /\ \E b \in Blocks, o \in Offsets :
                   /\ b \in Level(n + 1, D[f], m, Z) /\ m[b][o] = y
                   /\ <<f, b, o>> \in Refs(D, m, Z)
<1>1. ASSUME NEW k \in Pointers, Depth(k) = n, D[f][k] = y, <<f, 0, k>> \in Refs(D, m, Z)
      PROVE  y \in Level(n, D[f], m, Z)
  BY <1>1, TargetLevel
<1>2. ASSUME n < 3, NEW b \in Blocks, NEW o \in Offsets, b \in Level(n + 1, D[f], m, Z),
             m[b][o] = y, <<f, b, o>> \in Refs(D, m, Z)
      PROVE  y \in Level(n, D[f], m, Z)
  <2>1. n \in 0..2
    BY <1>2
  <2>. QED
    BY <1>2, <2>1, TargetLevel
<1>. QED
  BY <1>1, <1>2, Pointed

\* A pointer that is set to 0 takes from every level what only it led to.
LEMMA CutLevels ==
  ASSUME NEW D \in Inodes, NEW m \in Words, NEW Z, NEW E \in Inodes, NEW l \in Words, NEW q, NEW S,
         CutOff(D, m, Z, E, l, q, S), S \subseteq Blocks
  PROVE  Without(D, m, Z, E, l, S)
<1>0. 0 \notin S
  BY Numbers
<1>1. ASSUME NEW g \in Files, NEW n \in 0..3,
             n < 3 => Level(n + 1, E[g], l, Z) = Level(n + 1, D[g], m, Z) \ S
      PROVE  Level(n, E[g], l, Z) = Level(n, D[g], m, Z) \ S
  <2>1. ASSUME NEW y, y \in Level(n, E[g], l, Z) PROVE y \in Level(n, D[g], m, Z) \ S
    <3>1. CASE \E k \in Pointers : Depth(k) = n /\ E[g][k] = y /\ <<g, 0, k>> \in Refs(E, l, Z)
      <4>1. PICK k \in Pointers : Depth(k) = n /\ E[g][k] = y /\ <<g, 0, k>> \in Refs(E, l, Z)
        BY <3>1
      <4> DEFINE r == <<g, 0, k>>
      <4>2. /\ r \in References /\ r[2] = 0
            /\ Target(r, E, l) = y /\ Target(r, D, m) = D[g][k] /\ y # 0
        <5>1. r \in References /\ r[2] = 0
          BY DEF References
        <5>2. y # 0
          BY <4>1, RefForm
        <5>3. Target(r, E, l) = E[g][k] /\ Target(r, D, m) = D[g][k]
          BY DEF Target
        <5>. QED
          BY <4>1, <5>1, <5>2, <5>3
      <4> HIDE DEF r
      <4>3. r # q
        BY <4>2 DEF CutOff
      <4>4. D[g][k] = y /\ Target(r, D, m) = y
        BY <4>2, <4>3 DEF CutOff
      <4>5. r \in Refs(D, m, Z)
        BY <4>1, <4>2, <4>4, RefForm DEF r
      <4>6. y \notin S
        BY <1>0, <4>2, <4>3, <4>4, <4>5 DEF CutOff
      <4>. QED
        BY <4>1, <4>4, <4>5, <4>6, InLevel DEF r
    <3>2. CASE /\ n < 3
               /\ \E b \in Blocks, o \in Offsets :
                    /\ b \in Level(n + 1, E[g], l, Z) /\ l[b][o] = y
                    /\ <<g, b, o>> \in Refs(E, l, Z)
      <4>1. PICK b \in Blocks, o \in Offsets :
                    /\ b \in Level(n + 1, E[g], l, Z) /\ l[b][o] = y
                    /\ <<g, b, o>> \in Refs(E, l, Z)
        BY <3>2
      <4> DEFINE r == <<g, b, o>>
      <4>2. /\ r \in References /\ r[2] = b /\ Target(r, E, l) = y
            /\ Target(r, D, m) = m[b][o] /\ y # 0 /\ b \notin Z
        <5>1. r \in References /\ r[2] = b
          BY DEF References
        <5>2. y # 0 /\ b \notin Z
          BY <4>1, RefForm
        <5>3. Target(r, E, l) = l[b][o] /\ Target(r, D, m) = m[b][o]
          BY Numbers DEF Target
        <5>. QED
          BY <4>1, <5>1, <5>2, <5>3
      <4>3. b \in Level(n + 1, D[g], m, Z) /\ b \notin S
        BY <1>1, <3>2, <4>1
      <4> HIDE DEF r
      <4>4. r # q
        BY <4>2 DEF CutOff
      <4>5. m[b][o] = y /\ Target(r, D, m) = y
        BY <4>2, <4>4 DEF CutOff
      <4>6. b \in Inner(D[g], m, Z)
        <5>1. n + 1 = 1 \/ n + 1 = 2 \/ n + 1 = 3
          BY <3>2
        <5>. QED
          BY <4>3, <5>1 DEF Inner
      <4>7. r \in Refs(D, m, Z)
        BY <4>2, <4>5, <4>6, RefForm DEF r
      <4>8. y \notin S
        BY <4>2, <4>3, <4>4, <4>5, <4>7 DEF CutOff
      <4>. QED
        BY <3>2, <4>3, <4>5, <4>7, <4>8, InLevel DEF r
    <3>. QED
      BY <2>1, <3>1, <3>2, InLevel
  <2>2. ASSUME NEW y, y \in Level(n, D[g], m, Z), y \notin S PROVE y \in Level(n, E[g], l, Z)
    <3>0. \/ \E k \in Pointers : Depth(k) = n /\ D[g][k] = y /\ <<g, 0, k>> \in Refs(D, m, Z)
          \/ /\ n < 3
             /\ \E b \in Blocks, o \in Offsets :
                  /\ b \in Level(n + 1, D[g], m, Z) /\ m[b][o] = y
                  /\ <<g, b, o>> \in Refs(D, m, Z)
      BY <2>2, InLevel
    <3>1. CASE \E k \in Pointers : Depth(k) = n /\ D[g][k] = y /\ <<g, 0, k>> \in Refs(D, m, Z)
      <4>1. PICK k \in Pointers : Depth(k) = n /\ D[g][k] = y /\ <<g, 0, k>> \in Refs(D, m, Z)
        BY <3>1
      <4> DEFINE r == <<g, 0, k>>
      <4>2. r \in References /\ Target(r, D, m) = y /\ Target(r, E, l) = E[g][k] /\ y # 0
        <5>1. r \in References
          BY DEF References
        <5>2. y # 0
          BY <4>1, RefForm
        <5>3. Target(r, E, l) = E[g][k] /\ Target(r, D, m) = D[g][k]
          BY DEF Target
        <5>. QED
          BY <4>1, <5>1, <5>2, <5>3
      <4> HIDE DEF r
      <4>3. r \in Refs(D, m, Z)
        BY <4>1 DEF r
      <4>4. r # q
        BY <2>2, <4>2, <4>3 DEF CutOff
      <4>5. E[g][k] = y
        BY <4>2, <4>3, <4>4 DEF CutOff
      <4>6. r \in Refs(E, l, Z)
        BY <4>1, <4>2, <4>5, RefForm DEF r
      <4>. QED
        BY <4>1, <4>5, <4>6, InLevel DEF r
    <3>2. CASE /\ n < 3
               /\ \E b \in Blocks, o \in Offsets :
                    /\ b \in Level(n + 1, D[g], m, Z) /\ m[b][o] = y
                    /\ <<g, b, o>> \in Refs(D, m, Z)
      <4>1. PICK b \in Blocks, o \in Offsets :
                    /\ b \in Level(n + 1, D[g], m, Z) /\ m[b][o] = y
                    /\ <<g, b, o>> \in Refs(D, m, Z)
        BY <3>2
      <4> DEFINE r == <<g, b, o>>
      <4>2. /\ r \in References /\ r[2] = b /\ Target(r, E, l) = l[b][o]
            /\ Target(r, D, m) = y /\ y # 0 /\ b \notin Z
        <5>1. r \in References /\ r[2] = b
          BY DEF References
        <5>2. y # 0 /\ b \notin Z
          BY <4>1, RefForm
        <5>3. Target(r, E, l) = l[b][o] /\ Target(r, D, m) = m[b][o]
          BY Numbers DEF Target
        <5>. QED
          BY <4>1, <5>1, <5>2, <5>3
      <4> HIDE DEF r
      <4>3. r \in Refs(D, m, Z)
        BY <4>1 DEF r
      <4>4. r # q /\ b \notin S
        BY <2>2, <4>2, <4>3 DEF CutOff
      <4>5. l[b][o] = y
        BY <4>2, <4>3, <4>4 DEF CutOff
      <4>6. b \in Level(n + 1, E[g], l, Z)
        BY <1>1, <3>2, <4>1, <4>4
      <4>7. b \in Inner(E[g], l, Z)
        <5>1. n + 1 = 1 \/ n + 1 = 2 \/ n + 1 = 3
          BY <3>2
        <5>. QED
          BY <4>6, <5>1 DEF Inner
      <4>8. r \in Refs(E, l, Z)
        BY <4>2, <4>5, <4>7, RefForm DEF r
      <4>. QED
        BY <3>2, <4>5, <4>6, <4>8, InLevel DEF r
    <3>. QED
      BY <3>0, <3>1, <3>2
  <2>. QED
    BY <2>1, <2>2
<1> DEFINE Same(n) == \A g \in Files : Level(n, E[g], l, Z) = Level(n, D[g], m, Z) \ S
<1>2. Same(3)
  BY <1>1, 3 \in 0..3
<1>3. Same(2)
  BY <1>1, <1>2, 2 \in 0..3, 2 + 1 = 3
<1>4. Same(1)
  BY <1>1, <1>3, 1 \in 0..3, 1 + 1 = 2
<1>5. Same(0)
  BY <1>1, <1>4, 0 \in 0..3, 0 + 1 = 1
<1>6. \A n \in 0..3 : n = 0 \/ n = 1 \/ n = 2 \/ n = 3
  OBVIOUS
<1>. QED
  BY <1>2, <1>3, <1>4, <1>5, <1>6 DEF Without

\* Of the blocks to which it led, those of F are free and the others lost.
LEMMA CutOwner ==
  ASSUME NEW D \in Inodes, NEW m \in Words, NEW Z, NEW E \in Inodes, NEW l \in Words, NEW q, NEW S,
         NEW B, NEW L, Owned(D, m, Z, B, L),
         CutOff(D, m, Z, E, l, q, S), S \subseteq Blocks, NEW F \in SUBSET S
  PROVE  Owned(E, l, Z, B \ F, L \cup (S \ F))
<1>0. 0 \notin S
  BY Numbers
<1>1. ASSUME NEW g \in Files PROVE Inner(E[g], l, Z) = Inner(D[g], m, Z) \ S
  <2>1. \A n \in 0..3 : Level(n, E[g], l, Z) = Level(n, D[g], m, Z) \ S
    <3>1. Without(D, m, Z, E, l, S)
      BY CutLevels
    <3>. QED
      BY <3>1 DEF Without
  <2>2. /\ Level(1, E[g], l, Z) = Level(1, D[g], m, Z) \ S
        /\ Level(2, E[g], l, Z) = Level(2, D[g], m, Z) \ S
        /\ Level(3, E[g], l, Z) = Level(3, D[g], m, Z) \ S
    BY <2>1, 1 \in 0..3, 2 \in 0..3, 3 \in 0..3
  <2>. QED
    BY <2>2 DEF Inner
<1>2. ASSUME NEW r
      PROVE  r \in Refs(E, l, Z) <=> r \in Refs(D, m, Z) /\ Target(r, D, m) \notin S
  <2>1. CASE r = q
    BY <2>1 DEF CutOff, Refs
  <2>2. CASE r \in References \ {q}
    <3>1. /\ r[1] \in Files
          /\ r \in Refs(D, m, Z) \/ Target(r, E, l) # 0 => Target(r, E, l) = Target(r, D, m)
      BY <2>2 DEF References, CutOff
    <3>2. r \in Refs(D, m, Z) => (Target(r, D, m) \in S <=> r[2] \in S)
      BY <2>2 DEF CutOff
    <3>. QED
      BY <1>0, <1>1, <2>2, <3>1, <3>2 DEF Refs
  <2>. QED
    BY <2>1, <2>2 DEF Refs
<1>3. \A r \in Refs(E, l, Z) : Target(r, E, l) = Target(r, D, m)
  <2>1. \A r \in Refs(E, l, Z) : r \in References /\ Target(r, E, l) # 0
    BY DEF Refs
  <2>. QED
    BY <2>1 DEF CutOff
<1>4. /\ \A r, s \in Refs(D, m, Z) : Target(r, D, m) = Target(s, D, m) => r = s
      /\ B = {Target(r, D, m) : r \in Refs(D, m, Z)} \cup L \cup {ROOT_BLK}
      /\ \A r \in Refs(D, m, Z) : Target(r, D, m) \in Blocks \ (L \cup {ROOT_BLK})
  BY DEF Owned
<1>5. S \subseteq {Target(r, D, m) : r \in Refs(D, m, Z)}
  BY DEF CutOff
<1>6. {Target(r, E, l) : r \in Refs(E, l, Z)} = {Target(r, D, m) : r \in Refs(D, m, Z)} \ S
  BY <1>2, <1>3
<1>7. \A r, s \in Refs(E, l, Z) : Target(r, E, l) = Target(s, E, l) => r = s
  BY <1>2, <1>3, <1>4
<1>8. B \ F = {Target(r, E, l) : r \in Refs(E, l, Z)} \cup (L \cup (S \ F)) \cup {ROOT_BLK}
  <2>1. \A y \in S : y \notin L /\ y # ROOT_BLK
    BY <1>4, <1>5
  <2> HIDE DEF Refs
  <2>2. ASSUME NEW T, T = {Target(r, D, m) : r \in Refs(D, m, Z)}
        PROVE  B \ F = (T \ S) \cup (L \cup (S \ F)) \cup {ROOT_BLK}
    BY <1>4, <1>5, <2>1, <2>2
  <2>. QED
    BY <1>6, <2>2
<1>9. \A r \in Refs(E, l, Z) :
        Target(r, E, l) \in Blocks \ ((L \cup (S \ F)) \cup {ROOT_BLK})
  BY <1>2, <1>3, <1>4
<1>. QED
  BY <1>7, <1>8, <1>9 DEF Owned

-----------------------------------------------------------------------------
(* The module's own words for all this.                                     *)

Owner == Owned(Data, blk, Uncleared, bitmap, lost)
Good == TypeOK /\ Owner /\ (\A t \in Tasks : OnTheWay(t)) /\ ClearOnce /\ Alone

\* What Below says of blocks.
LEMMA BelowIs ==
  ASSUME NEW m \in Words, NEW Z, NEW B
  PROVE  (UNION {ToSet(m[b]) : b \in (B \cap Blocks) \ Z}) \ {0} = Under(B, m, Z)
<1>1. \A b \in Blocks : ToSet(m[b]) = {m[b][o] : o \in Offsets}
  BY DEF ToSet, Words
<1>2. ASSUME NEW y
      PROVE  y \in (UNION {ToSet(m[b]) : b \in (B \cap Blocks) \ Z}) \ {0}
               <=> y \in Under(B, m, Z)
  <2>1. y \in Under(B, m, Z) <=> \E b \in B \cap Blocks : y \in Sons(b, m, Z)
    BY UnderMember
  <2>2. \A b \in Blocks : y \in Sons(b, m, Z) <=> b \notin Z /\ y \in ToSet(m[b]) /\ y # 0
    BY <1>1 DEF Sons
  <2>. QED
    BY <2>1, <2>2
<1>. QED
  BY <1>2

\* The sons of two sets of blocks are those of the one and those of the other.
LEMMA UnderUnion ==
  ASSUME NEW m, NEW Z, NEW A, NEW B
  PROVE  Under(A \cup B, m, Z) = Under(A, m, Z) \cup Under(B, m, Z)
  BY DEF Under

\* The levels, pointer by pointer.
LEMMA LevelsAre ==
  ASSUME NEW d, NEW m, NEW Z
  PROVE  LET U(B) == Under(B, m, Z)
             A(n) == AtDepth(n, d)
         IN  /\ A(0) \cup U(A(1)) \cup U(U(A(2))) \cup U(U(U(A(3)))) = Level(0, d, m, Z)
             /\ A(1) \cup A(2) \cup A(3) \cup U(A(2) \cup A(3)) \cup U(U(A(3))) = Inner(d, m, Z)
<1> DEFINE U(B) == Under(B, m, Z)
           A(n) == AtDepth(n, d)
<1>1. ASSUME NEW B, NEW C PROVE U(B \cup C) = U(B) \cup U(C)
  BY UnderUnion
<1>2. /\ Level(3, d, m, Z) = A(3)
      /\ Level(2, d, m, Z) = A(2) \cup U(Level(3, d, m, Z))
      /\ Level(1, d, m, Z) = A(1) \cup U(Level(2, d, m, Z))
      /\ Level(0, d, m, Z) = A(0) \cup U(Level(1, d, m, Z))
  <2>1. \A n \in 0..2 : Level(n, d, m, Z) = AtDepth(n, d) \cup Under(Level(n + 1, d, m, Z), m, Z)
    BY LevelAbove
  <2>2. 0 \in 0..2 /\ 1 \in 0..2 /\ 2 \in 0..2 /\ 0 + 1 = 1 /\ 1 + 1 = 2 /\ 2 + 1 = 3
    OBVIOUS
  <2>. QED
    BY <2>1, <2>2, LevelAbove
<1> HIDE DEF U, A
<1>3. U(Level(2, d, m, Z)) = U(A(2)) \cup U(U(A(3)))
  BY <1>1, <1>2
<1>4. U(Level(1, d, m, Z)) = U(A(1)) \cup U(U(A(2))) \cup U(U(U(A(3))))
  <2>1. U(Level(1, d, m, Z)) = U(A(1)) \cup U(U(Level(2, d, m, Z)))
    BY <1>1, <1>2
  <2>2. U(U(A(2)) \cup U(U(A(3)))) = U(U(A(2))) \cup U(U(U(A(3))))
    BY <1>1
  <2>3. U(U(Level(2, d, m, Z))) = U(U(A(2)) \cup U(U(A(3))))
    BY <1>3
  <2>. QED
    BY <2>1, <2>2, <2>3
<1>5. A(0) \cup U(A(1)) \cup U(U(A(2))) \cup U(U(U(A(3)))) = Level(0, d, m, Z)
  BY <1>2, <1>4
<1>6. A(1) \cup A(2) \cup A(3) \cup U(A(2) \cup A(3)) \cup U(U(A(3))) = Inner(d, m, Z)
  <2>1. U(A(2) \cup A(3)) = U(A(2)) \cup U(A(3))
    BY <1>1
  <2>. QED
    BY <1>2, <1>3, <2>1 DEF Inner
<1>. QED
  BY <1>5, <1>6 DEF U, A

\* What the pointers of one inode lead to.
LEMMA DepthsAre ==
  ASSUME NEW d
  PROVE  LET T(k) == {d[k]} \ {0}
         IN  /\ AtDepth(0, d) = UNION {T(k) : k \in 0..(SINGLE_INDIRECT - 1)}
             /\ AtDepth(1, d) = T(SINGLE_INDIRECT)
             /\ AtDepth(2, d) = T(DOUBLE_INDIRECT)
             /\ AtDepth(3, d) = T(TRIPLE_INDIRECT)
             /\ AtDepth(1, d) \cup AtDepth(2, d) \cup AtDepth(3, d)
                  = UNION {T(k) : k \in SINGLE_INDIRECT..TRIPLE_INDIRECT}
<1> DEFINE T(k) == {d[k]} \ {0}
<1>1. AtDepth(0, d) = UNION {T(k) : k \in 0..(SINGLE_INDIRECT - 1)}
  <2>1. {k \in Pointers : Depth(k) = 0} = 0..(SINGLE_INDIRECT - 1)
    BY Depths
  <2>. QED
    BY <2>1 DEF AtDepth
<1>2. /\ {k \in Pointers : Depth(k) = 1} = {SINGLE_INDIRECT}
      /\ {k \in Pointers : Depth(k) = 2} = {DOUBLE_INDIRECT}
      /\ {k \in Pointers : Depth(k) = 3} = {TRIPLE_INDIRECT}
  BY Depths
<1>3. /\ AtDepth(1, d) = T(SINGLE_INDIRECT) /\ AtDepth(2, d) = T(DOUBLE_INDIRECT)
      /\ AtDepth(3, d) = T(TRIPLE_INDIRECT)
  BY <1>2 DEF AtDepth
<1>4. ASSUME NEW k
      PROVE  k \in SINGLE_INDIRECT..TRIPLE_INDIRECT <=>
               k = SINGLE_INDIRECT \/ k = DOUBLE_INDIRECT \/ k = TRIPLE_INDIRECT
  BY Numbers
<1>5. AtDepth(1, d) \cup AtDepth(2, d) \cup AtDepth(3, d)
        = UNION {T(k) : k \in SINGLE_INDIRECT..TRIPLE_INDIRECT}
  BY <1>3, <1>4
<1>. QED
  BY <1>1, <1>3, <1>5

\* What indirect_blocks() says, and so BlocksOwned.
TreesRead ==
    /\ \A f \in Files : indirect_blocks(f) = Inner(Data[f], blk, Uncleared)
    /\ BlocksOwned <=> (clash = "none" => Owner)

\* With numbers in all blocks, that file's data and blk are read as the levels
\* say.
LEMMA TreesAreRead == TypeOK => TreesRead
<1>1. SUFFICES ASSUME TypeOK PROVE TreesRead
  OBVIOUS
<1>2. blk \in Words /\ Data \in Inodes /\ \A f \in Files : Data[f] = inode[f].data
  BY <1>1 DEF TypeOK, Words, Inodes, Data
<1>3. ASSUME NEW B PROVE Below(B) = Under(B, blk, Uncleared)
  BY <1>2, BelowIs DEF Below
<1>4. ASSUME NEW f \in Files
      PROVE  indirect_blocks(f) = Inner(inode[f].data, blk, Uncleared)
  <2> DEFINE d == inode[f].data
             U(B) == Under(B, blk, Uncleared)
             A(n) == AtDepth(n, d)
  <2>1. /\ Top(f, SINGLE_INDIRECT) = A(1) /\ Top(f, DOUBLE_INDIRECT) = A(2)
        /\ Top(f, TRIPLE_INDIRECT) = A(3)
        /\ A(1) \cup A(2) \cup A(3) = UNION {Top(f, k) : k \in SINGLE_INDIRECT..TRIPLE_INDIRECT}
    BY DepthsAre DEF Top
  <2>2. A(1) \cup A(2) \cup A(3) \cup U(A(2) \cup A(3)) \cup U(U(A(3)))
             = Inner(d, blk, Uncleared)
    BY LevelsAre
  <2> HIDE DEF d, A
  <2>3. Below(Below(A(3))) = U(U(A(3))) /\ Below(A(2) \cup A(3)) = U(A(2) \cup A(3))
    BY <1>3
  <2> HIDE DEF U
  <2>4. indirect_blocks(f) = Inner(d, blk, Uncleared)
    BY <2>1, <2>2, <2>3 DEF indirect_blocks
  <2>. QED
    BY <2>4 DEF d
<1>5. ASSUME NEW r \in References
      PROVE  /\ Pointer(r[1], r[2], r[3]) = Target(r, Data, blk)
             /\ \A f \in Files : r \in Live(f) <=> r \in Refs(Data, blk, Uncleared) /\ r[1] = f
  <2>1. r[1] \in Files
    BY DEF References
  <2>2. Pointer(r[1], r[2], r[3]) = Target(r, Data, blk)
    BY <1>2, <2>1 DEF Pointer, Target
  <2>. QED
    BY <1>2, <1>4, <2>1, <2>2 DEF Live, Refs
<1>6. UNION {Live(f) : f \in Files} = Refs(Data, blk, Uncleared)
  <2>1. ASSUME NEW r
        PROVE  (\E f \in Files : r \in Live(f)) <=> r \in Refs(Data, blk, Uncleared)
    <3>1. (\E f \in Files : r \in Live(f)) => r \in References
      BY DEF Live
    <3>2. r \in Refs(Data, blk, Uncleared) => r \in References /\ r[1] \in Files
      BY DEF Refs, References
    <3>. QED
      BY <1>5, <3>1, <3>2
  <2>. QED
    BY <2>1
<1>7. BlocksOwned <=> (clash = "none" => Owner)
  <2> DEFINE live == UNION {Live(f) : f \in Files}
             target(r) == Pointer(r[1], r[2], r[3])
  <2>1. live = Refs(Data, blk, Uncleared) /\ \A r \in live : target(r) = Target(r, Data, blk)
    BY <1>5, <1>6 DEF Refs
  <2>2. BlocksOwned <=> (clash = "none" =>
          /\ \A r, s \in live : target(r) = target(s) => r = s
          /\ bitmap = {target(r) : r \in live} \cup lost \cup {ROOT_BLK}
          /\ \A r \in live : target(r) \in Blocks \ (lost \cup {ROOT_BLK}))
    BY DEF BlocksOwned
  <2> HIDE DEF live, target
  <2>3. {target(r) : r \in live} = {Target(r, Data, blk) : r \in live}
    BY <2>1
  <2>. QED
    BY <2>1, <2>2, <2>3 DEF Owner, Owned
<1>. QED
  BY <1>2, <1>4, <1>7 DEF TreesRead

\* The same after a step.
LEMMA TreesAreReadNext == TypeOK' => TreesRead'
  BY TreesAreRead, PTL

\* So this is the invariant.
LEMMA Meaning == FInv <=> (clash = "none" => Good)
  BY TreesAreRead DEF FInv, Good, TreesRead

\* The invariant in the other form after a step, as Meaning has it before.
LEMMA MeaningNext == FInv' <=> (clash' = "none" => Good')
<1>1. (FInv <=> (clash = "none" => Good))'
  BY Meaning, PTL
<1>. QED
  BY <1>1

-----------------------------------------------------------------------------
(* Calls.                                                                   *)

WalkCalls == [pc : Walking, op : {"read", "write"}, len : Nat, n : Nat, holder : Nat, path : Seq(Nat)]
AtCalls == [pc : {"loop", "chunk", "end", "set"}, op : {"read", "write"}, len : Nat]
GivenCalls == [pc : {"given"}, op : {"read"}, len : Nat, words : Seq(Nat)]
TruncateCalls == [pc : {"truncate"}, op : {"truncate"}, len : {0}, path : Seq(Nat)]
FailedCalls == [pc : {"failed"}, op : {"failed"}, len : {0}]

\* Which call is what.
LEMMA CallForms ==
  ASSUME NEW c \in Calls
  PROVE  /\ c.pc \in {"idle", "loop", "chunk", "end", "set", "given", "truncate", "failed"}
                    \cup Walking
         /\ c.pc \in Walking => c \in WalkCalls
         /\ c.pc \in {"loop", "chunk", "end", "set"} => c \in AtCalls
         /\ c.pc = "given" => c \in GivenCalls
         /\ c.pc = "idle" => c = Idle
         /\ c.pc = "truncate" => c \in TruncateCalls
         /\ c.pc = "failed" => c \in FailedCalls
<1>1. \/ c = Idle \/ c \in AtCalls \/ c \in WalkCalls \/ c \in GivenCalls
      \/ c \in TruncateCalls \/ c \in FailedCalls
  BY DEF Calls, AtCalls, WalkCalls, GivenCalls, TruncateCalls, FailedCalls
<1>2. CASE c = Idle
  BY <1>2 DEF Idle, Walking
<1>3. CASE c \in AtCalls
  BY <1>3 DEF AtCalls, Walking
<1>4. CASE c \in WalkCalls
  BY <1>4 DEF WalkCalls, Walking
<1>5. CASE c \in GivenCalls
  BY <1>5 DEF GivenCalls, Walking
<1>6. CASE c \in TruncateCalls
  BY <1>6 DEF TruncateCalls, Walking
<1>7. CASE c \in FailedCalls
  BY <1>7 DEF FailedCalls, Walking
<1>. QED
  BY <1>1, <1>2, <1>3, <1>4, <1>5, <1>6, <1>7

\* The calls that the actions make are calls.
LEMMA CallsMade ==
  /\ Idle \in Calls
  /\ \A pc \in {"loop", "chunk", "end", "set"}, op \in {"read", "write"}, len \in Nat :
       At(pc, op, len) \in Calls
  /\ \A c \in WalkCalls : c \in Calls
  /\ \A pc \in Walking, op \in {"read", "write"}, len \in Nat, n \in Nat, h \in Nat,
       path \in Seq(Nat) : Walk(pc, op, len, n, h, path) \in WalkCalls
  /\ \A len \in Nat, words \in Seq(Nat) : Given(len, words) \in Calls
  /\ \A path \in Seq(Nat) : Truncating(path) \in Calls
  /\ At("failed", "failed", 0) \in Calls
<1>1. /\ Idle \in Calls
      /\ \A pc \in {"loop", "chunk", "end", "set"}, op \in {"read", "write"}, len \in Nat :
           At(pc, op, len) \in Calls
      /\ \A len \in Nat, words \in Seq(Nat) : Given(len, words) \in Calls
  BY DEF Calls, At, Given
<1>2. \A c \in WalkCalls : c \in Calls
  BY DEF Calls, WalkCalls
<1>3. \A pc \in Walking, op \in {"read", "write"}, len \in Nat, n \in Nat, h \in Nat,
       path \in Seq(Nat) : Walk(pc, op, len, n, h, path) \in WalkCalls
  BY DEF WalkCalls, Walk
<1>4. /\ \A path \in Seq(Nat) : Truncating(path) \in Calls
      /\ At("failed", "failed", 0) \in Calls
  BY DEF Calls, Truncating, At
<1>. QED
  BY <1>1, <1>2, <1>3, <1>4

\* this_read and this_write are no more than there is to do.
LEMMA Smaller ==
  ASSUME NEW x \in Nat, NEW y \in Nat
  PROVE  Min({x, y}) \in Nat /\ Min({x, y}) <= x /\ Min({x, y}) <= y
<1>1. {x, y} \in SUBSET Nat /\ {x, y} # {}
  OBVIOUS
<1>2. Min({x, y}) \in {x, y} /\ \A z \in {x, y} : Min({x, y}) <= z
  BY <1>1, MinInSet
<1>. QED
  BY <1>2

\* A position is in a block, with a place there and some words up to the
\* block's end.
LEMMA InBlock ==
  ASSUME NEW p \in Nat
  PROVE  p \div FS_BLKSIZ \in Nat /\ FS_BLKSIZ - (p % FS_BLKSIZ) \in Nat
         /\ p % FS_BLKSIZ \in Offsets
<1>1. FS_BLKSIZ \in Nat \ {0}
  BY Numbers
<1>2. p % FS_BLKSIZ \in 0..(FS_BLKSIZ - 1) /\ p \div FS_BLKSIZ \in Nat
  BY <1>1
<1>. QED
  BY <1>1, <1>2 DEF Offsets

\* A path that begins in the inode.
LEMMA PathLeads ==
  ASSUME NEW n \in Nat, NEW f
  PROVE  Path(n) \in Seq(Nat) /\ (Path(n) = <<>> \/ Leads(f, 0, Path(n)))
<1>0. Pointers \subseteq Nat /\ Offsets \subseteq Nat
  BY Numbers
<1>1. CASE Path(n) = <<>>
  BY <1>1
<1>2. CASE \E k \in Pointers : Depth(k) = 0 /\ Path(n) = <<k>>
  BY <1>0, <1>2 DEF Leads
<1>3. CASE \E k \in Pointers, a \in Offsets : Depth(k) = 1 /\ Path(n) = <<k, a>>
  BY <1>0, <1>3 DEF Leads
<1>4. CASE \E k \in Pointers, a, b \in Offsets : Depth(k) = 2 /\ Path(n) = <<k, a, b>>
  BY <1>0, <1>4 DEF Leads
<1>5. CASE \E k \in Pointers, a, b, c \in Offsets : Depth(k) = 3 /\ Path(n) = <<k, a, b, c>>
  <2>1. PICK k \in Pointers, a, b, c \in Offsets : Depth(k) = 3 /\ Path(n) = <<k, a, b, c>>
    BY <1>5
  <2>. QED
    BY <1>0, <2>1 DEF Leads
<1>. QED
  BY <1>1, <1>2, <1>3, <1>4, <1>5, PathForm

\* A round that begins.
LEMMA Begun ==
  ASSUME NEW f, NEW op \in {"read", "write"}, NEW len \in Nat, NEW n \in Nat, n <= len, NEW p \in Nat
  PROVE  LET c == Walk("walk", op, len, n, 0, Path(p \div FS_BLKSIZ))
         IN  c \in Calls /\ c.pc = "walk" /\ OnWay(f, c)
<1> DEFINE c == Walk("walk", op, len, n, 0, Path(p \div FS_BLKSIZ))
<1>1. /\ Path(p \div FS_BLKSIZ) \in Seq(Nat)
      /\ Path(p \div FS_BLKSIZ) = <<>> \/ Leads(f, 0, Path(p \div FS_BLKSIZ))
  BY InBlock, PathLeads
<1>2. "walk" \in Walking
  BY DEF Walking
<1>3. c \in Calls
  BY <1>1, <1>2, CallsMade
<1>4. /\ c.pc = "walk" /\ c.holder = 0 /\ c.path = Path(p \div FS_BLKSIZ) /\ c.n <= c.len
  BY DEF Walk
<1>5. OnWay(f, c)
  <2> HIDE DEF c
  <2>. QED
    BY <1>1, <1>4 DEF OnWay
<1>. QED
  BY <1>3, <1>4, <1>5

-----------------------------------------------------------------------------
(* Steps.                                                                   *)

\* What TypeOK says of the trees.
LEMMA Typed ==
  ASSUME TypeOK
  PROVE  /\ Data \in Inodes /\ blk \in Words /\ bitmap \subseteq Blocks /\ lost \subseteq Blocks
         /\ \A f \in Files, n \in 0..3 : On(f, n) = Level(n, Data[f], blk, Uncleared)
  BY DEF TypeOK, Data, Inodes, Words, On

\* A level has blocks of the device in it, of one file only.
LEMMA OnApart ==
  ASSUME Good
  PROVE  /\ \A f \in Files, n \in 0..3 : \A y \in On(f, n) :
              y \in bitmap /\ y \in Blocks /\ y \notin lost /\ y # 0 /\ y \in Nat
         /\ \A f, g \in Files : \A i, j \in 0..3 : \A y :
              y \in On(f, i) /\ y \in On(g, j) => f = g /\ i = j
<1>1. TypeOK /\ Owned(Data, blk, Uncleared, bitmap, lost)
  BY DEF Good, Owner
<1>2. /\ Data \in Inodes /\ blk \in Words
      /\ \A f \in Files, n \in 0..3 : On(f, n) = Level(n, Data[f], blk, Uncleared)
  BY <1>1, Typed
<1>3. \A f \in Files, n \in 0..3 : \A y \in Level(n, Data[f], blk, Uncleared) :
        y \in bitmap /\ y \in Blocks \ (lost \cup {ROOT_BLK})
  BY <1>1, <1>2, TreeAllocated
<1>4. \A f, g \in Files : \A i, j \in 0..3 : \A y :
        y \in Level(i, Data[f], blk, Uncleared) /\ y \in Level(j, Data[g], blk, Uncleared)
        => f = g /\ i = j
  BY <1>1, <1>2, LevelsApart
<1>5. Blocks \subseteq Nat \ {0}
  BY Numbers
<1>6. ASSUME NEW f \in Files, NEW g \in Files, NEW i \in 0..3, NEW j \in 0..3, NEW y,
             y \in On(f, i), y \in On(g, j)
      PROVE  f = g /\ i = j
  <2>1. y \in Level(i, Data[f], blk, Uncleared) /\ y \in Level(j, Data[g], blk, Uncleared)
    BY <1>2, <1>6
  <2>. QED
    BY <1>4, <2>1
<1>7. \A f \in Files, n \in 0..3 : \A y \in On(f, n) :
              y \in bitmap /\ y \in Blocks /\ y \notin lost /\ y # 0 /\ y \in Nat
  BY <1>2, <1>3, <1>5
<1>. QED
  BY <1>6, <1>7

\* The form of a task on its way.
LEMMA WayForm ==
  ASSUME Good, NEW t \in Tasks, call[t].pc \in Walking
  PROVE  /\ call[t] \in WalkCalls /\ file[t] \in Files /\ pos[t] \in Nat
         /\ call[t].holder \in Nat /\ call[t].path \in Seq(Nat) /\ call[t].n <= call[t].len
         /\ call[t].n \in Nat /\ call[t].len \in Nat /\ call[t].len - call[t].n \in Nat
         /\ call[t].op \in {"read", "write"} /\ OnWay(file[t], call[t])
<1>1. call[t] \in WalkCalls
  BY CallForms DEF Good, TypeOK
<1>2. OnWay(file[t], call[t])
  BY DEF Good, OnTheWay
<1>3. call[t].n <= call[t].len
  BY <1>2 DEF OnWay
<1>. QED
  BY <1>1, <1>2, <1>3 DEF WalkCalls, Good, TypeOK

\* What a pointer of an inode, and of an indirect block, leads to.
LEMMA LedTo ==
  ASSUME TypeOK, NEW f \in Files
  PROVE  /\ \A k \in Pointers : inode[f].data[k] # 0
               => inode[f].data[k] \in On(f, Depth(k)) /\ <<f, 0, k>> \in Refs(Data, blk, Uncleared)
         /\ \A n \in 0..2, h \in Blocks, o \in Offsets :
               h \in On(f, n + 1) /\ h \notin Uncleared /\ blk[h][o] # 0
               => blk[h][o] \in On(f, n) /\ <<f, h, o>> \in Refs(Data, blk, Uncleared)
<1>1. /\ Data \in Inodes /\ blk \in Words /\ Data[f] = inode[f].data
      /\ \A n \in 0..3 : On(f, n) = Level(n, Data[f], blk, Uncleared)
  BY Typed DEF Data
<1>2. ASSUME NEW k \in Pointers, inode[f].data[k] # 0
      PROVE  /\ inode[f].data[k] \in On(f, Depth(k))
             /\ <<f, 0, k>> \in Refs(Data, blk, Uncleared)
  <2>1. <<f, 0, k>> \in Refs(Data, blk, Uncleared)
    BY <1>1, <1>2, RefForm
  <2>. QED
    BY <1>1, <2>1, TargetLevel, Depths
<1>3. ASSUME NEW n \in 0..2, NEW h \in Blocks, NEW o \in Offsets, h \in On(f, n + 1),
             h \notin Uncleared, blk[h][o] # 0
      PROVE  blk[h][o] \in On(f, n) /\ <<f, h, o>> \in Refs(Data, blk, Uncleared)
  <2>1. n + 1 \in 0..3 /\ n \in 0..3 /\ (n + 1 = 1 \/ n + 1 = 2 \/ n + 1 = 3)
    OBVIOUS
  <2>2. h \in Level(n + 1, Data[f], blk, Uncleared)
    BY <1>1, <1>3, <2>1
  <2>3. h \in Inner(Data[f], blk, Uncleared)
    BY <2>1, <2>2 DEF Inner
  <2>4. <<f, h, o>> \in Refs(Data, blk, Uncleared)
    BY <1>1, <1>3, <2>3, RefForm
  <2>. QED
    BY <1>1, <2>1, <2>2, <2>4, TargetLevel
<1>. QED
  BY <1>2, <1>3

\* The blocks on the way to an indirect block, which is deep enough in its tree.
Chain1(f, p, d) == \E k \in Pointers :
    /\ p = <<k>> /\ Depth(k) \in 1..3
    /\ block_of(f, p) = d[k] /\ d[k] \in On(f, Depth(k))
Chain2(f, p, d) == \E k \in Pointers, a \in Offsets :
    /\ p = <<k, a>> /\ Depth(k) \in 2..3
    /\ d[k] \in On(f, Depth(k)) \ Uncleared
    /\ block_of(f, p) = blk[d[k]][a] /\ blk[d[k]][a] \in On(f, Depth(k) - 1)
Chain3(f, p, d) == \E k \in Pointers, a, b \in Offsets :
    /\ p = <<k, a, b>> /\ Depth(k) = 3
    /\ d[k] \in On(f, 3) \ Uncleared /\ blk[d[k]][a] \in On(f, 2) \ Uncleared
    /\ block_of(f, p) = blk[blk[d[k]][a]][b] /\ blk[blk[d[k]][a]][b] \in On(f, 1)
Chain(f, p) == LET d == inode[f].data IN Chain1(f, p, d) \/ Chain2(f, p, d) \/ Chain3(f, p, d)

\* block_of(), pointer by pointer.
LEMMA ChainOf ==
  ASSUME Good, NEW f \in Files, NEW p \in Seq(Nat), p # <<>>, Descended(f, p)
  PROVE  Chain(f, p) /\ block_of(f, p) # 0 /\ block_of(f, p) \notin Uncleared
<1> DEFINE d == inode[f].data
<1>1. /\ p[1] \in Pointers /\ Len(p) \in 1..Depth(p[1]) /\ \A i \in 2..Len(p) : p[i] \in Offsets
      /\ block_of(f, p) # 0 /\ block_of(f, p) \notin Uncleared /\ TypeOK
  BY DEF Descended, Good
<1>2. Depth(p[1]) \in 1..3 /\ Len(p) \in 1..3
  <2>1. Depth(p[1]) \in 0..3
    BY <1>1, Depths
  <2>2. ASSUME NEW x, NEW n, x \in 0..3, n \in 1..x PROVE x \in 1..3 /\ n \in 1..3
    BY <2>2
  <2>. QED
    BY <1>1, <2>1, <2>2
<1>3. CASE Len(p) = 1
  <2>1. p = <<p[1]>> /\ block_of(f, p) = d[p[1]]
    BY <1>3 DEF block_of
  <2>2. d[p[1]] \in On(f, Depth(p[1]))
    BY <1>1, <2>1, LedTo
  <2>. QED
    BY <1>1, <1>2, <2>1, <2>2 DEF Chain, Chain1
<1>4. CASE Len(p) = 2
  <2>1. p = <<p[1], p[2]>> /\ block_of(f, p) = Step(d[p[1]], p[2]) /\ p[2] \in Offsets
    BY <1>1, <1>4 DEF block_of
  <2>2. d[p[1]] # 0 /\ d[p[1]] \notin Uncleared /\ block_of(f, p) = blk[d[p[1]]][p[2]]
    BY <1>1, <2>1 DEF Step
  <2>3. /\ Depth(p[1]) \in 2..3 /\ Depth(p[1]) \in 0..3
        /\ Depth(p[1]) - 1 \in 0..2 /\ (Depth(p[1]) - 1) + 1 = Depth(p[1])
    BY <1>1, <1>2, <1>4
  <2>4. d[p[1]] \in On(f, Depth(p[1]))
    BY <1>1, <2>2, LedTo
  <2>5. d[p[1]] \in Blocks
    BY <2>3, <2>4, OnApart
  <2>6. blk[d[p[1]]][p[2]] \in On(f, Depth(p[1]) - 1)
    <3>1. \A n \in 0..2 : n + 1 = Depth(p[1]) => blk[d[p[1]]][p[2]] \in On(f, n)
      BY <1>1, <2>1, <2>2, <2>4, <2>5, LedTo
    <3>. QED
      BY <2>3, <3>1
  <2>. QED
    BY <1>1, <2>1, <2>2, <2>3, <2>4, <2>6 DEF Chain, Chain2
<1>5. CASE Len(p) = 3
  <2> DEFINE h == Step(d[p[1]], p[2])
  <2>1. /\ p = <<p[1], p[2], p[3]>> /\ block_of(f, p) = Step(h, p[3])
        /\ p[2] \in Offsets /\ p[3] \in Offsets
    BY <1>1, <1>5 DEF block_of
  <2>2. h # 0 /\ h \notin Uncleared /\ block_of(f, p) = blk[h][p[3]]
    BY <1>1, <2>1 DEF Step
  <2>3. d[p[1]] # 0 /\ d[p[1]] \notin Uncleared /\ h = blk[d[p[1]]][p[2]]
    BY <2>2 DEF Step
  <2>4. Depth(p[1]) = 3
    BY <1>1, <1>2, <1>5
  <2>5. d[p[1]] \in On(f, 3)
    BY <1>1, <2>3, <2>4, LedTo
  <2>6. d[p[1]] \in Blocks
    BY <2>5, OnApart, 3 \in 0..3
  <2> HIDE DEF h
  <2>7. h \in On(f, 2)
    <3>1. \A n \in 0..2 : n + 1 = 3 => blk[d[p[1]]][p[2]] \in On(f, n)
      BY <1>1, <2>1, <2>2, <2>3, <2>5, <2>6, LedTo
    <3>. QED
      BY <2>3, <3>1, 2 \in 0..2, 2 + 1 = 3
  <2>8. h \in Blocks
    BY <2>7, OnApart, 2 \in 0..3
  <2>9. blk[h][p[3]] \in On(f, 1)
    BY <1>1, <2>1, <2>2, <2>7, <2>8, LedTo, 1 \in 0..2, 1 + 1 = 2
  <2>. QED
    BY <1>1, <2>1, <2>2, <2>3, <2>4, <2>5, <2>7, <2>9 DEF Chain, Chain3
<1>. QED
  BY <1>1, <1>2, <1>3, <1>4, <1>5

\* It is as deep in its tree as its path is long.
LEMMA ChainDepth ==
  ASSUME Good, NEW f \in Files, NEW p \in Seq(Nat), p # <<>>, Descended(f, p)
  PROVE  /\ p[1] \in Pointers /\ Depth(p[1]) \in 1..3 /\ Len(p) \in 1..Depth(p[1])
         /\ Depth(p[1]) + 1 - Len(p) \in 1..3
         /\ block_of(f, p) \in On(f, Depth(p[1]) + 1 - Len(p)) /\ block_of(f, p) \in Blocks
<1>1. Chain(f, p)
  BY ChainOf
<1>2. PICK n \in 1..3 : /\ n = Depth(p[1]) + 1 - Len(p) /\ block_of(f, p) \in On(f, n)
                        /\ Depth(p[1]) \in 1..3 /\ Len(p) \in 1..Depth(p[1])
  <2>1. CASE Chain1(f, p, inode[f].data)
    BY <2>1 DEF Chain1
  <2>2. CASE Chain2(f, p, inode[f].data)
    BY <2>2 DEF Chain2
  <2>3. CASE Chain3(f, p, inode[f].data)
    BY <2>3 DEF Chain3
  <2>. QED
    BY <1>1, <2>1, <2>2, <2>3 DEF Chain
<1>3. n \in 0..3
  OBVIOUS
<1>4. block_of(f, p) \in Blocks
  BY <1>2, <1>3, OnApart
<1>. QED
  BY <1>2, <1>4 DEF Descended

\* An indirect block is still reached when no pointer on the way to it changes.
LEMMA DescendedStays ==
  ASSUME Good, NEW f \in Files, NEW p \in Seq(Nat), Descended(f, p),
         p # <<>> => inode'[f].data[p[1]] = inode[f].data[p[1]],
         \A n \in 1..3 : \A b \in On(f, n) : /\ b \in Uncleared' <=> b \in Uncleared
                                             /\ b # block_of(f, p) => blk'[b] = blk[b]
  PROVE  Descended(f, p)' /\ (p # <<>> => block_of(f, p)' = block_of(f, p))
<1>1. CASE p = <<>>
  BY <1>1 DEF Descended
<1>2. CASE p # <<>>
  <2> DEFINE d == inode[f].data
             e == inode'[f].data
             y == block_of(f, p)
             next(h, o) == IF h = 0 \/ h \in Uncleared' THEN 0 ELSE blk'[h][o]
  <2>1. Chain(f, p) /\ y # 0 /\ y \notin Uncleared /\ e[p[1]] = d[p[1]]
    BY <1>2, ChainOf
  <2>2. /\ Depth(p[1]) + 1 - Len(p) \in 1..3 /\ y \in On(f, Depth(p[1]) + 1 - Len(p))
        /\ y \in Blocks
    BY <1>2, ChainDepth
  <2>3. /\ y \notin Uncleared'
        /\ \A n \in 1..3 : \A b \in On(f, n) :
             /\ b # 0 /\ (b \in Uncleared' <=> b \in Uncleared)
             /\ b # y => blk'[b] = blk[b]
             /\ b = y => n = Depth(p[1]) + 1 - Len(p)
    <3>1. 1..3 \subseteq 0..3
      OBVIOUS
    <3>2. ASSUME NEW n \in 1..3, NEW b \in On(f, n)
          PROVE  b # 0 /\ (b = y => n = Depth(p[1]) + 1 - Len(p))
      BY <2>2, <3>1, OnApart
    <3>. QED
      BY <2>1, <2>2, <3>2
  <2>4. block_of(f, p)' = y
    <3>1. CASE Chain1(f, p, d)
      <4>1. PICK k \in Pointers : p = <<k>> /\ y = d[k]
        BY <3>1 DEF Chain1
      <4>2. block_of(f, p)' = e[p[1]]
        BY <4>1 DEF block_of
      <4>. QED
        BY <2>1, <4>1, <4>2
    <3>2. CASE Chain2(f, p, d)
      <4>1. PICK k \in Pointers, a \in Offsets :
                 /\ p = <<k, a>> /\ Depth(k) \in 2..3
                 /\ d[k] \in On(f, Depth(k)) \ Uncleared /\ y = blk[d[k]][a]
        BY <3>2 DEF Chain2
      <4>2. e[k] = d[k] /\ block_of(f, p)' = next(e[k], a)
        <5>1. p[1] = k /\ p[2] = a /\ Len(p) = 2
          BY <4>1
        <5>. QED
          BY <2>1, <5>1 DEF block_of, Step
      <4>3. d[k] # 0 /\ d[k] \notin Uncleared' /\ blk'[d[k]] = blk[d[k]]
        <5>1. Depth(k) \in 1..3 /\ Depth(p[1]) + 1 - Len(p) = Depth(k) - 1 /\ Depth(k) # Depth(k) - 1
          BY <4>1
        <5>2. d[k] # y
          BY <2>2, <2>3, <4>1, <5>1
        <5>. QED
          BY <2>3, <4>1, <5>1, <5>2
      <4>. QED
        BY <4>1, <4>2, <4>3
    <3>3. CASE Chain3(f, p, d)
      <4>1. PICK k \in Pointers, a, b \in Offsets :
                 /\ p = <<k, a, b>> /\ Depth(k) = 3
                 /\ d[k] \in On(f, 3) \ Uncleared /\ blk[d[k]][a] \in On(f, 2) \ Uncleared
                 /\ y = blk[blk[d[k]][a]][b]
        BY <3>3 DEF Chain3
      <4>0. p[1] = k /\ p[2] = a /\ p[3] = b /\ Len(p) = 3 /\ Depth(p[1]) + 1 - Len(p) = 1
        BY <4>1
      <4>2. e[k] = d[k] /\ block_of(f, p)' = next(next(e[k], a), b)
        <5>1. block_of(f, p)' = next(next(inode'[f].data[p[1]], p[2]), p[3])
          BY <4>0 DEF block_of, Step
        <5>. QED
          BY <2>1, <4>0, <5>1
      <4>3. 3 \in 1..3 /\ 2 \in 1..3 /\ d[k] # y /\ blk[d[k]][a] # y
        BY <2>2, <2>3, <4>0, <4>1
      <4>4. d[k] # 0 /\ d[k] \notin Uncleared' /\ blk'[d[k]] = blk[d[k]]
        BY <2>3, <4>1, <4>3
      <4>5. /\ blk[d[k]][a] # 0 /\ blk[d[k]][a] \notin Uncleared'
            /\ blk'[blk[d[k]][a]] = blk[blk[d[k]][a]]
        BY <2>3, <4>1, <4>3
      <4>6. next(e[k], a) = blk[d[k]][a]
        BY <4>2, <4>4
      <4>. QED
        BY <4>1, <4>2, <4>5, <4>6
    <3>. QED
      BY <2>1, <3>1, <3>2, <3>3 DEF Chain
  <2>. QED
    BY <1>2, <2>1, <2>3, <2>4 DEF Descended
<1>. QED
  BY <1>1, <1>2

\* A task stays on its way when another one does not take a block from its file.
LEMMA StillOnWay ==
  ASSUME NEW f, NEW c, OnWay(f, c),
         c.pc \in Walking => \A n \in 0..3 : On(f, n) \subseteq On(f, n)',
         c.pc = "alloc" => c.holder \notin Uncleared',
         c.pc = "truncate" => Descended(f, c.path)'
  PROVE  OnWay(f, c)'
<1>1. CASE c.pc \in Walking
  <2>1. \A h, p : Leads(f, h, p) => Leads(f, h, p)'
    <3>1. ASSUME NEW h, NEW p, h \in Blocks, Len(p) \in 1..3, h \in On(f, Len(p)),
                 \A i \in 1..Len(p) : p[i] \in Offsets
          PROVE  Leads(f, h, p)'
      <4>1. Len(p) \in 0..3
        BY <3>1
      <4>2. h \in On(f, Len(p))'
        BY <1>1, <3>1, <4>1
      <4>. QED
        BY <3>1, <4>2 DEF Leads
    <3>2. ASSUME NEW h, NEW p, h = 0, p # <<>>, p[1] \in Pointers, Len(p) = Depth(p[1]) + 1,
                 \A i \in 2..Len(p) : p[i] \in Offsets
          PROVE  Leads(f, h, p)'
      BY <3>2 DEF Leads
    <3>. QED
      BY <3>1, <3>2 DEF Leads
  <2>2. On(f, 0) \subseteq On(f, 0)' /\ c.pc # "truncate"
    BY <1>1, 0 \in 0..3 DEF Walking
  <2>. QED
    BY <2>1, <2>2 DEF OnWay
<1>2. CASE c.pc \notin Walking
  BY <1>2 DEF OnWay, Walking
<1>. QED
  BY <1>1, <1>2

\* All but the task that takes the step.
LEMMA RestOnWay ==
  ASSUME Good, NEW t \in Tasks, NEW c, call' = [call EXCEPT ![t] = c], file' = file,
         \A u \in Tasks \ {t} : call[u].pc \in Walking
             => \A n \in 0..3 : On(file[u], n) \subseteq On(file[u], n)',
         \A u \in Tasks \ {t} : call[u].pc = "alloc" => call[u].holder \notin Uncleared',
         \A u \in Tasks \ {t} : Truncates(u) => Descended(file[u], call[u].path)',
         OnWay(file[t], c)'
  PROVE  (\A u \in Tasks : OnTheWay(u))'
<1>1. /\ file \in [Tasks -> Files] /\ call \in [Tasks -> Calls] /\ DOMAIN call = Tasks
      /\ call'[t] = c /\ \A u \in Tasks \ {t} : call'[u] = call[u]
  BY DEF Good, TypeOK
<1>2. ASSUME NEW u \in Tasks \ {t} PROVE OnWay(file[u], call[u])'
  <2>1. OnWay(file[u], call[u])
    BY DEF Good, OnTheWay
  <2>2. ASSUME NEW f, NEW d, f = file[u], d = call[u] PROVE OnWay(f, d)'
    <3>1. d.pc \in Walking => \A n \in 0..3 : On(f, n) \subseteq On(f, n)'
      <4>1. f = file'[u]
        BY <2>2
      <4>. QED
        BY <2>2, <4>1
    <3>2. d.pc = "alloc" => d.holder \notin Uncleared'
      BY <2>2
    <3>3. d.pc = "truncate" => Descended(f, d.path)'
      <4>1. f = file'[u] /\ d = call'[u]
        BY <1>1, <2>2
      <4>. QED
        BY <2>2, <4>1 DEF Truncates
    <3>. QED
      BY <2>1, <2>2, <3>1, <3>2, <3>3, StillOnWay
  <2>3. \A f, d : f = file[u] /\ d = call[u] => OnWay(f, d)'
    BY <2>2
  <2>. QED
    BY <1>1, <2>3
<1>. QED
  BY <1>1, <1>2 DEF OnTheWay

\* What BeingFreed() and InUse() are asked for.
Entitled(t, c) ==
    /\ c.pc \in Walking => call[t].pc \in Walking \/ ~BeingFreed(t)
    /\ c.pc = "truncate" => call[t].pc = "truncate" \/ ~InUse(t)

\* A task begins to walk or to truncate only where it will be alone.
LEMMA AloneStays ==
  ASSUME Alone, call \in [Tasks -> Calls], NEW t \in Tasks, NEW c, call' = [call EXCEPT ![t] = c],
         file' = file, Entitled(t, c)
  PROVE  Alone'
<1>1. call'[t] = c /\ \A u \in Tasks \ {t} : call'[u] = call[u]
  OBVIOUS
<1>2. \A u \in Tasks : Truncates(u) <=> call[u].pc = "truncate"
  BY DEF Truncates
<1>3. ASSUME NEW u \in Tasks \ {t}, file[u] = file[t]
      PROVE  /\ c.pc = "truncate" => call[u].pc \notin Walking /\ call[u].pc # "truncate"
             /\ call[u].pc = "truncate" => c.pc \notin Walking /\ c.pc # "truncate"
  <2>1. u \in Others(t)
    BY <1>3 DEF Others
  <2>2. ~BeingFreed(t) => call[u].pc # "truncate"
    BY <2>1 DEF BeingFreed
  <2>3. ~InUse(t) => call[u].pc # "truncate" /\ call[u].pc \notin Walking
    BY <2>1, <2>2 DEF InUse
  <2>4. /\ call[t].pc = "truncate" => call[u].pc \notin Walking /\ call[u].pc # "truncate"
        /\ call[u].pc = "truncate" => call[t].pc \notin Walking /\ call[t].pc # "truncate"
    BY <1>2, <1>3 DEF Alone
  <2>. QED
    BY <2>2, <2>3, <2>4 DEF Entitled
<1>4. ASSUME NEW u \in Tasks, NEW v \in Tasks, u # v, file[u] = file[v], call'[u].pc = "truncate"
      PROVE  call'[v].pc \notin Walking /\ call'[v].pc # "truncate"
  <2>1. CASE u = t
    BY <1>1, <1>3, <1>4, <2>1
  <2>2. CASE v = t
    BY <1>1, <1>3, <1>4, <2>2
  <2>3. CASE u # t /\ v # t
    BY <1>1, <1>2, <1>4, <2>3 DEF Alone
  <2>. QED
    BY <2>1, <2>2, <2>3
<1>. QED
  BY <1>4 DEF Alone, Truncates

\* Outside file f nothing happens.
ElsewhereSame(f) ==
    \A g \in Files \ {f} :
        /\ inode'[g].data = inode[g].data
        /\ \A n \in 1..3 : \A b \in On(g, n) :
             blk'[b] = blk[b] /\ (b \in Uncleared' <=> b \in Uncleared)

\* A step in another file does not disturb a truncation.
LEMMA OthersDescend ==
  ASSUME Good, NEW f \in Files, ElsewhereSame(f), file' = file,
         NEW u \in Tasks, Truncates(u), call'[u] = call[u], file[u] # f
  PROVE  Descended(file[u], call[u].path)'
<1>1. call[u] \in TruncateCalls /\ call[u].path \in Seq(Nat) /\ file[u] \in Files
  <2>1. call[u] \in Calls /\ call[u].pc = "truncate" /\ file[u] \in Files
    BY DEF Good, TypeOK, Truncates
  <2>2. call[u] \in TruncateCalls
    BY <2>1, CallForms
  <2>. QED
    BY <2>1, <2>2 DEF TruncateCalls
<1>2. Descended(file[u], call[u].path)
  BY DEF Good, OnTheWay, OnWay, Truncates
<1>3. ASSUME NEW g \in Files, NEW p \in Seq(Nat), g # f, Descended(g, p)
      PROVE  Descended(g, p)'
  <2>1. /\ inode'[g].data = inode[g].data
        /\ \A n \in 1..3 : \A b \in On(g, n) :
             /\ b \in Uncleared' <=> b \in Uncleared
             /\ b # block_of(g, p) => blk'[b] = blk[b]
    BY <1>3 DEF ElsewhereSame
  <2>. QED
    BY <1>3, <2>1, DescendedStays
<1>4. \A g \in Files, p \in Seq(Nat) : g # f /\ Descended(g, p) => Descended(g, p)'
  BY <1>3
<1>. QED
  BY <1>1, <1>2, <1>4

\* Steps of a task that move no pointer and clear nothing.
LEMMA QuietStep ==
  ASSUME Good, NEW t \in Tasks, NEW c \in Calls,
         c.pc # "clear", call' = [call EXCEPT ![t] = c],
         bitmap' = bitmap, lost' = lost, blk' = blk, file' = file, pos' \in [Tasks -> Nat],
         inode' \in [Files -> [size : Nat, data : [Pointers -> Nat]]],
         \A f \in Files : inode'[f].data = inode[f].data,
         garbled' \in SUBSET Blocks, Uncleared' = Uncleared, Entitled(t, c),
         OnWay(file[t], c)
  PROVE  Good'
<1>1. /\ TypeOK /\ ClearOnce /\ Alone /\ Owner /\ DOMAIN call = Tasks /\ call \in [Tasks -> Calls]
      /\ file[t] \in Files
  BY DEF Good, TypeOK
<1>2. TypeOK'
  BY <1>1 DEF TypeOK
<1>3. Alone' /\ ClearOnce'
  <2>1. call'[t] = c /\ \A u \in Tasks \ {t} : call'[u] = call[u]
    BY <1>1
  <2>2. ClearOnce'
    BY <1>1, <2>1 DEF ClearOnce
  <2>. QED
    BY <1>1, <2>2, AloneStays
<1>4. Data' = Data
  BY DEF Data
<1>5. Owner'
  BY <1>1, <1>4 DEF Owner
<1>6. \A f \in Files, n \in 0..3 : On(f, n)' = On(f, n)
  BY DEF On
<1>7. \A f \in Files : \A p : Descended(f, p) => Descended(f, p)'
  <2>1. ASSUME NEW f \in Files, NEW p PROVE block_of(f, p)' = block_of(f, p)
    <3>1. \A h, o : Step(h, o)' = Step(h, o)
      BY DEF Step
    <3>. QED
      BY <3>1 DEF block_of
  <2>. QED
    BY <2>1 DEF Descended
<1>8. OnWay(file[t], c)'
  <2>1. ASSUME NEW f, f = file[t] PROVE OnWay(f, c)'
    <3>1. /\ OnWay(f, c) /\ \A n \in 0..3 : On(f, n) \subseteq On(f, n)'
          /\ c.pc = "truncate" => Descended(f, c.path)'
      BY <1>1, <1>6, <1>7, <2>1 DEF OnWay
    <3>2. c.pc = "alloc" => c.holder \notin Uncleared'
      BY <3>1 DEF OnWay
    <3>. QED
      BY <3>1, <3>2, StillOnWay
  <2>. QED
    BY <2>1
<1>9. (\A u \in Tasks : OnTheWay(u))'
  <2>1. \A u \in Tasks : file[u] \in Files
    BY <1>1 DEF TypeOK
  <2>2. \A u \in Tasks \ {t} : call[u].pc = "alloc" => call[u].holder \notin Uncleared'
    BY DEF Good, OnTheWay, OnWay
  <2>3. ASSUME NEW u \in Tasks \ {t}, Truncates(u) PROVE Descended(file[u], call[u].path)'
    <3>1. Descended(file[u], call[u].path) /\ call'[u] = call[u] /\ file'[u] = file[u]
      BY <1>1, <2>3 DEF Good, OnTheWay, OnWay, Truncates
    <3>. QED
      BY <1>7, <2>1, <3>1
  <2>. QED
    BY <1>6, <1>8, <2>1, <2>2, <2>3, RestOnWay
<1>. QED
  BY <1>2, <1>3, <1>5, <1>9 DEF Good

\* Those before which it has not just stored a new block.
LEMMA Quiet ==
  ASSUME Good, NEW t \in Tasks, NEW c \in Calls,
         call[t].pc # "clear", c.pc # "clear", call' = [call EXCEPT ![t] = c],
         bitmap' = bitmap, lost' = lost, blk' = blk, garbled' = garbled, file' = file,
         pos' \in [Tasks -> Nat],
         inode' \in [Files -> [size : Nat, data : [Pointers -> Nat]]],
         \A f \in Files : inode'[f].data = inode[f].data,
         Entitled(t, c), OnWay(file[t], c)
  PROVE  Good'
<1>1. DOMAIN call = Tasks /\ call \in [Tasks -> Calls] /\ garbled' \in SUBSET Blocks
  BY DEF Good, TypeOK
<1>2. Uncleared' = Uncleared
  <2>1. \A u \in Tasks : /\ call'[u].pc = "clear" <=> call[u].pc = "clear"
                         /\ call[u].pc = "clear" => call'[u] = call[u]
    BY <1>1
  <2>. QED
    BY <2>1 DEF Uncleared
<1>. QED
  BY <1>1, <1>2, QuietStep

\* Among them: those behind which a task is not on its way.
LEMMA QuietEnd ==
  ASSUME Good, NEW t \in Tasks, NEW c \in Calls,
         call[t].pc # "clear", c.pc \notin Walking \cup {"truncate"},
         call' = [call EXCEPT ![t] = c],
         bitmap' = bitmap, lost' = lost, blk' = blk, garbled' = garbled, file' = file,
         pos' \in [Tasks -> Nat],
         inode' \in [Files -> [size : Nat, data : [Pointers -> Nat]]],
         \A f \in Files : inode'[f].data = inode[f].data
  PROVE  Good'
<1>1. OnWay(file[t], c) /\ c.pc # "clear" /\ Entitled(t, c)
  BY DEF OnWay, Walking, Entitled
<1>. QED
  BY <1>1, Quiet

\* A path is short, and what is left of it behind the first pointer leads on.
LEMMA LeadsForm ==
  ASSUME NEW f, NEW h, NEW p \in Seq(Nat), Leads(f, h, p)
  PROVE  /\ p # <<>> /\ Len(p) \in 1..4 /\ Head(p) = p[1]
         /\ h = 0 => p[1] \in Pointers /\ Depth(p[1]) = Len(p) - 1
         /\ h # 0 => p[1] \in Offsets /\ h \in Blocks /\ Len(p) \in 1..3 /\ h \in On(f, Len(p))
         /\ Tail(p) \in Seq(Nat) /\ Len(Tail(p)) = Len(p) - 1
         /\ \A i \in 1..(Len(p) - 1) : Tail(p)[i] \in Offsets
<1>0. 0 \notin Blocks /\ \A k \in Pointers : Depth(k) \in 0..3
  BY Numbers, Depths
<1>1. p # <<>> /\ Len(p) \in Nat \ {0}
  BY DEF Leads
<1>2. /\ Tail(p) \in Seq(Nat) /\ Len(Tail(p)) = Len(p) - 1 /\ Head(p) = p[1]
      /\ \A i \in 1..(Len(p) - 1) : Tail(p)[i] = p[i + 1]
  BY <1>1
<1>3. CASE /\ h = 0 /\ p[1] \in Pointers /\ Len(p) = Depth(p[1]) + 1
           /\ \A i \in 2..Len(p) : p[i] \in Offsets
  <2>1. \A i \in 1..(Len(p) - 1) : i + 1 \in 2..Len(p)
    BY <1>1
  <2>2. \A i \in 1..(Len(p) - 1) : Tail(p)[i] \in Offsets
    BY <1>2, <1>3, <2>1
  <2>3. Len(p) \in 1..4 /\ Depth(p[1]) = Len(p) - 1
    BY <1>0, <1>3
  <2>. QED
    BY <1>0, <1>1, <1>2, <1>3, <2>2, <2>3
<1>4. CASE /\ h \in Blocks /\ Len(p) \in 1..3 /\ h \in On(f, Len(p))
           /\ \A i \in 1..Len(p) : p[i] \in Offsets
  <2>1. \A i \in 1..(Len(p) - 1) : i + 1 \in 1..Len(p)
    BY <1>1
  <2>2. 1 \in 1..Len(p)
    BY <1>1
  <2>. QED
    BY <1>0, <1>1, <1>2, <1>4, <2>1, <2>2
<1>. QED
  BY <1>3, <1>4 DEF Leads

\* A pointer on the way leads one level down.
LEMMA PointerLeads ==
  ASSUME TypeOK, NEW f \in Files, NEW h, NEW p \in Seq(Nat), Leads(f, h, p),
         h \notin Uncleared, Pointer(f, h, Head(p)) # 0
  PROVE  Pointer(f, h, Head(p)) \in On(f, Len(p) - 1)
<1> DEFINE b == Pointer(f, h, Head(p))
           d == inode[f].data
<1>1. /\ Len(p) \in 1..4 /\ Head(p) = p[1]
      /\ h = 0 => p[1] \in Pointers /\ Depth(p[1]) = Len(p) - 1
      /\ h # 0 => p[1] \in Offsets /\ h \in Blocks /\ Len(p) \in 1..3 /\ h \in On(f, Len(p))
  BY LeadsForm
<1>2. PICK n \in 0..3 : n = Len(p) - 1 /\ Len(p) = n + 1
  <2>1. Len(p) - 1 \in 0..3 /\ Len(p) = Len(p) - 1 + 1
    BY <1>1
  <2>. QED
    BY <2>1
<1>3. n = 3 \/ (n \in 0..2 /\ n + 1 \in 0..3)
  OBVIOUS
<1>4. \A i \in 0..3 : On(f, i) = Level(i, d, blk, Uncleared)
  BY DEF On
<1>5. CASE h = 0
  <2>1. b = d[p[1]] /\ b # 0
    BY <1>1, <1>5 DEF Pointer
  <2>2. b \in AtDepth(n, d)
    BY <1>1, <1>2, <1>5, <2>1 DEF AtDepth
  <2> HIDE DEF b, d
  <2>3. b \in Level(n, d, blk, Uncleared)
    BY <1>3, <2>2, LevelAbove
  <2>. QED
    BY <1>2, <1>4, <2>3 DEF b
<1>6. CASE h # 0
  <2>1. b = blk[h][p[1]] /\ b # 0
    BY <1>1, <1>6 DEF Pointer
  <2>2. b \in Sons(h, blk, Uncleared)
    BY <1>1, <1>6, <2>1 DEF Sons
  <2> HIDE DEF b, d
  <2>3. n \in 0..2 /\ h \in Level(n + 1, d, blk, Uncleared)
    <3>1. n # 3
      <4>1. Len(p) \in 1..3
        BY <1>1, <1>6
      <4>2. Len(p) = n + 1
        BY <1>2
      <4>. QED
        BY <4>1, <4>2
    <3>. QED
      BY <1>1, <1>2, <1>3, <1>4, <1>6, <3>1
  <2>4. b \in Under(Level(n + 1, d, blk, Uncleared), blk, Uncleared)
    BY <1>1, <1>6, <2>2, <2>3, UnderMember
  <2>5. b \in Level(n, d, blk, Uncleared)
    BY <2>3, <2>4, LevelAbove
  <2>. QED
    BY <1>2, <1>4, <2>5 DEF b
<1>. QED
  BY <1>5, <1>6

\* The steps on the way that change nothing but the task's own place.
LEMMA QuietWalks ==
  ASSUME Good, NEW t \in Tasks, TooFar(t) \/ Follow(t) \/ Missing(t) \/ NoSpace(t), clash' = "none",
         clash = "none"
  PROVE  Good'
<1>0. /\ TypeOK /\ pos \in [Tasks -> Nat] /\ file[t] \in Files /\ call[t] \in Calls
      /\ inode \in [Files -> [size : Nat, data : [Pointers -> Nat]]] /\ blk \in Words
  BY DEF Good, TypeOK, Words
<1>1. CASE TooFar(t)
  <2>1. PICK c \in Calls : c.pc \in {"idle", "end"} /\ call' = [call EXCEPT ![t] = c]
    <3>1. Idle \in Calls /\ At("end", "write", 0) \in Calls
      BY CallsMade
    <3>2. Idle.pc = "idle" /\ At("end", "write", 0).pc = "end"
      BY DEF Idle, At
    <3>. QED
      BY <1>1, <3>1, <3>2 DEF TooFar, GiveUp, Goto
  <2>2. UNCHANGED <<bitmap, lost, blk, garbled, inode, file, pos>> /\ call[t].pc # "clear"
    BY <1>1 DEF TooFar, GiveUp, Goto, disk
  <2>3. c.pc \notin Walking \cup {"truncate"}
    BY <2>1 DEF Walking
  <2>. QED
    BY <1>0, <2>1, <2>2, <2>3, QuietEnd
<1>2. CASE NoSpace(t)
  <2>1. At("end", "write", 0) \in Calls /\ At("end", "write", 0).pc \notin Walking \cup {"truncate"}
    BY CallsMade DEF At, Walking
  <2>2. /\ UNCHANGED <<bitmap, lost, blk, garbled, inode, file, pos>> /\ call[t].pc # "clear"
        /\ call' = [call EXCEPT ![t] = At("end", "write", 0)]
    BY <1>2 DEF NoSpace, Goto, disk
  <2>. QED
    BY <1>0, <2>1, <2>2, QuietEnd
<1>3. CASE call[t].pc = "walk" /\ call[t].path # <<>> /\ (Follow(t) \/ Missing(t))
  <2>1. /\ call[t].pc \in Walking /\ call[t] \in WalkCalls /\ call[t].path \in Seq(Nat)
        /\ call[t].n \in Nat /\ call[t].len \in Nat /\ call[t].len - call[t].n \in Nat
        /\ call[t].n <= call[t].len /\ call[t].holder \in Nat
        /\ Leads(file[t], call[t].holder, call[t].path)
    <3>1. call[t].pc \in Walking
      BY <1>3 DEF Walking
    <3>2. OnWay(file[t], call[t])
      BY <3>1, WayForm
    <3>. QED
      BY <1>3, <3>1, <3>2, WayForm DEF OnWay
  <2>2. call[t].holder \notin Uncleared
    BY <1>3 DEF Follow, Missing, Clash
  <2> DEFINE b == Pointer(file[t], call[t].holder, Head(call[t].path))
  <2>3. CASE Follow(t)
    <3> DEFINE c == [call[t] EXCEPT !.pc = IF Len(call[t].path) = 1 THEN "copy" ELSE "walk",
                                    !.holder = b, !.path = Tail(@)]
    <3>1. /\ UNCHANGED <<bitmap, lost, blk, garbled, inode, file, pos>> /\ b # 0
          /\ call' = [call EXCEPT ![t] = c]
      BY <2>2, <2>3 DEF Follow, Goto, disk
    <3>2. /\ b \in On(file[t], Len(call[t].path) - 1)
          /\ Len(call[t].path) \in 1..4
          /\ Tail(call[t].path) \in Seq(Nat)
          /\ Len(Tail(call[t].path)) = Len(call[t].path) - 1
          /\ \A i \in 1..(Len(call[t].path) - 1) : Tail(call[t].path)[i] \in Offsets
      <4>1. b \in On(file[t], Len(call[t].path) - 1)
        BY <1>0, <2>1, <2>2, <3>1, PointerLeads
      <4>. QED
        BY <2>1, <4>1, LeadsForm
    <3>3. b \in Blocks /\ b \in Nat
      <4>1. Len(call[t].path) - 1 \in 0..3
        BY <3>2
      <4> HIDE DEF b
      <4>. QED
        BY <1>0, <3>2, <4>1, OnApart
    <3> HIDE DEF b
    <3>4. /\ c \in WalkCalls /\ c.pc # "clear" /\ c.n <= c.len /\ c.holder = b
          /\ c.path = Tail(call[t].path)
          /\ \/ c.pc = "copy" /\ Len(call[t].path) = 1
             \/ c.pc = "walk" /\ Len(call[t].path) # 1
      <4> DEFINE q == IF Len(call[t].path) = 1 THEN "copy" ELSE "walk"
      <4>1. /\ call[t] \in WalkCalls /\ call[t].op \in {"read", "write"}
            /\ Tail(call[t].path) \in Seq(Nat) /\ b \in Nat
        BY <2>1, <3>2, <3>3 DEF WalkCalls
      <4>2. q \in Walking
        BY DEF Walking
      <4>3. c = Walk(q, call[t].op, call[t].len, call[t].n, b, Tail(call[t].path))
        <5>1. c = [call[t] EXCEPT !.pc = q, !.holder = b, !.path = Tail(call[t].path)]
          BY <4>1 DEF WalkCalls
        <5> HIDE DEF c, q
        <5>2. ASSUME NEW w \in WalkCalls, w = call[t], NEW r \in Walking, r = q, NEW p, NEW h,
                     p = Tail(call[t].path), h = b
              PROVE  c = Walk(r, w.op, w.len, w.n, h, p)
          <6>1. c = [w EXCEPT !.pc = r, !.holder = h, !.path = p]
            BY <5>1, <5>2
          <6>2. [w EXCEPT !.pc = r, !.holder = h, !.path = p]
                  = [[[w EXCEPT !.pc = r] EXCEPT !.holder = h] EXCEPT !.path = p]
            OBVIOUS
          <6>3. [w EXCEPT !.pc = r] = Walk(r, w.op, w.len, w.n, w.holder, w.path)
            BY DEF WalkCalls, Walk
          <6>4. [Walk(r, w.op, w.len, w.n, w.holder, w.path) EXCEPT !.holder = h]
                  = Walk(r, w.op, w.len, w.n, h, w.path)
            BY DEF Walk
          <6>5. [Walk(r, w.op, w.len, w.n, h, w.path) EXCEPT !.path = p]
                  = Walk(r, w.op, w.len, w.n, h, p)
            BY DEF Walk
          <6>. QED
            BY <6>1, <6>2, <6>3, <6>4, <6>5
        <5>. QED
          BY <4>1, <4>2, <5>2
      <4> HIDE DEF c, q
      <4>4. /\ c \in WalkCalls /\ c.pc = q /\ c.holder = b /\ c.path = Tail(call[t].path)
            /\ c.n = call[t].n /\ c.len = call[t].len
        <5>1. c \in WalkCalls
          BY <2>1, <4>1, <4>2, <4>3, CallsMade
        <5>. QED
          BY <4>3, <5>1 DEF Walk
      <4>5. /\ Len(call[t].path) = 1 => c.pc = "copy"
            /\ Len(call[t].path) # 1 => c.pc = "walk"
        BY <4>4 DEF q
      <4>. QED
        BY <2>1, <4>4, <4>5
    <3>5. c \in Calls
      BY <3>4, CallsMade
    <3> HIDE DEF c
    <3>6. Len(call[t].path) # 1 => Leads(file[t], b, c.path)
      <4>1. Len(call[t].path) # 1 => Len(c.path) \in 1..3
        BY <3>2, <3>4
      <4>. QED
        BY <3>2, <3>3, <3>4, <4>1 DEF Leads
    <3>7. Len(call[t].path) = 1 => b \in On(file[t], 0)
      BY <3>2
    <3>8. OnWay(file[t], c)
      BY <3>4, <3>6, <3>7 DEF OnWay
    <3>9. call[t].pc # "clear" /\ Entitled(t, c)
      BY <1>3, <2>1, <3>4 DEF Entitled
    <3>. QED
      BY <1>0, <3>1, <3>4, <3>5, <3>8, <3>9, Quiet
  <2>4. CASE Missing(t) /\ call[t].op = "read"
    <3> DEFINE c == Given(call[t].len - call[t].n, [i \in 1..call[t].n |-> 0])
    <3>1. /\ UNCHANGED <<bitmap, lost, blk, garbled, inode, file>>
          /\ pos' = [pos EXCEPT ![t] = @ + call[t].n] /\ call' = [call EXCEPT ![t] = c]
      BY <2>4 DEF Missing, Goto, disk
    <3>2. [i \in 1..call[t].n |-> 0] \in Seq(Nat)
      BY <2>1
    <3>3. c \in Calls
      BY <2>1, <3>2, CallsMade
    <3>4. c.pc \notin Walking \cup {"truncate"}
      BY DEF Given, Walking
    <3>5. pos' \in [Tasks -> Nat] /\ call[t].pc # "clear"
      BY <1>0, <1>3, <2>1, <3>1
    <3> HIDE DEF c
    <3>. QED
      BY <1>0, <3>1, <3>3, <3>4, <3>5, QuietEnd
  <2>5. CASE Missing(t) /\ call[t].op # "read"
    <3> DEFINE c == [call[t] EXCEPT !.pc = "alloc"]
    <3>1. UNCHANGED <<bitmap, lost, blk, garbled, inode, file, pos>> /\ call' = [call EXCEPT ![t] = c]
      BY <2>5 DEF Missing, Goto, disk
    <3>2. /\ c \in WalkCalls /\ c.pc = "alloc" /\ c.n <= c.len /\ c.holder = call[t].holder
          /\ c.path = call[t].path
      BY <2>1 DEF WalkCalls, Walking
    <3>3. c \in Calls
      BY <3>2, CallsMade
    <3> HIDE DEF c
    <3>4. OnWay(file[t], c) /\ Entitled(t, c)
      BY <2>1, <2>2, <3>2 DEF OnWay, Entitled
    <3>. QED
      BY <1>0, <1>3, <3>1, <3>2, <3>3, <3>4, Quiet
  <2>. QED
    BY <1>3, <2>3, <2>4, <2>5
<1>. QED
  BY <1>1, <1>2, <1>3 DEF Follow, Missing

\* The exits of a walk that finds no buffer change nothing, not even when a block
\* stays as it was found in the pointer to it.
LEMMA NoBufferKeeps ==
  ASSUME Good, NEW t \in Tasks, NoBuffer(t)
  PROVE  Good'
<1>1. /\ TypeOK /\ pos \in [Tasks -> Nat] /\ file[t] \in Files /\ call \in [Tasks -> Calls]
      /\ inode \in [Files -> [size : Nat, data : [Pointers -> Nat]]]
      /\ garbled \in SUBSET Blocks
  BY DEF Good, TypeOK
<1>2. PICK c \in Calls : c.pc \in {"idle", "end"} /\ call' = [call EXCEPT ![t] = c]
  <2>1. Idle \in Calls /\ At("end", "write", 0) \in Calls
    BY CallsMade
  <2>2. Idle.pc = "idle" /\ At("end", "write", 0).pc = "end"
    BY DEF Idle, At
  <2>. QED
    BY <2>1, <2>2 DEF NoBuffer, GiveUp, Goto
<1>3. /\ UNCHANGED <<bitmap, lost, blk, inode, file, pos>> /\ call[t].pc \in Walking
      /\ garbled' = garbled \cup (IF call[t].pc = "clear" THEN {call[t].holder} ELSE {})
  BY DEF NoBuffer, GiveUp, Goto
<1>4. c.pc \notin Walking \cup {"truncate"} /\ c.pc # "clear"
  BY <1>2 DEF Walking
<1>5. CASE call[t].pc # "clear"
  BY <1>1, <1>2, <1>3, <1>4, <1>5, QuietEnd
<1>6. CASE call[t].pc = "clear"
  <2>1. Uncleared' = Uncleared
    <3>1. /\ call'[t].pc # "clear" /\ \A u \in Tasks \ {t} : call'[u] = call[u]
          /\ garbled' = garbled \cup {call[t].holder}
      BY <1>1, <1>2, <1>3, <1>4, <1>6
    <3>2. ASSUME NEW y PROVE y \in Uncleared' <=> y \in Uncleared
      BY <1>6, <3>1 DEF Uncleared
    <3>. QED
      BY <3>2
  <2>2. garbled' \in SUBSET Blocks
    <3>1. Leads(file[t], call[t].holder, call[t].path) /\ call[t].holder # 0
      BY <1>3, <1>6, WayForm DEF OnWay
    <3>. QED
      BY <1>1, <1>3, <3>1 DEF Leads
  <2>3. OnWay(file[t], c) /\ Entitled(t, c)
    BY <1>4 DEF OnWay, Walking, Entitled
  <2>. QED
    BY <1>1, <1>2, <1>3, <1>4, <2>1, <2>2, <2>3, QuietStep
<1>. QED
  BY <1>5, <1>6

\* One pointer more at the end of a path.
LEMMA Longer ==
  ASSUME NEW p \in Seq(Nat), NEW o \in Nat
  PROVE  LET q == Append(p, o)
         IN  /\ q \in Seq(Nat) /\ q # <<>> /\ Len(q) = Len(p) + 1 /\ Front(q) = p /\ Last(q) = o
             /\ q[1] = (IF p = <<>> THEN o ELSE p[1])
             /\ \A i \in 1..Len(p) : q[i] = p[i]
<1> DEFINE q == Append(p, o)
<1>1. /\ q \in Seq(Nat) /\ q # <<>> /\ Len(q) = Len(p) + 1 /\ Len(p) \in Nat
      /\ q[Len(p) + 1] = o /\ \A i \in 1..Len(p) : q[i] = p[i]
  OBVIOUS
<1>2. Last(q) = o
  BY <1>1 DEF Last
<1>3. Front(q) = p
  <2>1. Front(q) = SubSeq(q, 1, Len(p))
    BY <1>1 DEF Front
  <2>2. SubSeq(q, 1, Len(p)) \in Seq(Nat) /\ Len(SubSeq(q, 1, Len(p))) = Len(p)
    BY <1>1
  <2>3. \A i \in 1..Len(p) : SubSeq(q, 1, Len(p))[i] = p[i]
    BY <1>1
  <2>. QED
    BY <2>1, <2>2, <2>3
<1>4. q[1] = (IF p = <<>> THEN o ELSE p[1])
  <2>1. p = <<>> \/ 1 \in 1..Len(p)
    OBVIOUS
  <2>. QED
    BY <1>1, <2>1
<1>. QED
  BY <1>1, <1>2, <1>3, <1>4

\* The indirect block in which a truncation is, if it is in one.
LEMMA InsideIs ==
  ASSUME Good, NEW f \in Files, NEW p \in Seq(Nat), p # <<>>, Descended(f, p)
  PROVE  LET h == Inside(f, p)
         IN  /\ h = block_of(f, p) /\ h \in Blocks /\ h \notin Uncleared /\ h # 0
             /\ p[1] \in Pointers /\ Depth(p[1]) - Len(p) \in 0..2 /\ Len(p) \in 1..3
             /\ h \in On(f, (Depth(p[1]) - Len(p)) + 1)
<1>1. /\ block_of(f, p) # 0 /\ block_of(f, p) \notin Uncleared
      /\ p[1] \in Pointers /\ Depth(p[1]) \in 1..3 /\ Len(p) \in 1..Depth(p[1])
      /\ Depth(p[1]) + 1 - Len(p) \in 1..3
      /\ block_of(f, p) \in On(f, Depth(p[1]) + 1 - Len(p)) /\ block_of(f, p) \in Blocks
  BY ChainOf, ChainDepth
<1>2. /\ Depth(p[1]) - Len(p) \in 0..2 /\ Len(p) \in 1..3
      /\ Depth(p[1]) + 1 - Len(p) = (Depth(p[1]) - Len(p)) + 1
  <2>1. ASSUME NEW x \in 1..3, NEW n \in 1..x
        PROVE  x - n \in 0..2 /\ n \in 1..3 /\ x + 1 - n = (x - n) + 1
    OBVIOUS
  <2>. QED
    BY <1>1, <2>1
<1>. QED
  BY <1>1, <1>2 DEF Inside

\* The pointer at which a truncation is, and the block to which it leads.
LEMMA LeftIs ==
  ASSUME Good, NEW f \in Files, NEW p \in Seq(Nat), Descended(f, p), Left(f, p) # {}
  PROVE  LET q == FirstLeft(f, p)
             h == Inside(f, p)
             o == Last(q)
             b == block_of(f, q)
             r == <<f, h, o>>
         IN  /\ q \in Seq(Nat) /\ q # <<>> /\ Len(q) = Len(p) + 1 /\ Front(q) = p
             /\ q[1] \in Pointers /\ Depth(q[1]) + 1 - Len(q) \in 0..3
             /\ b = Pointer(f, h, o) /\ b # 0 /\ b \in On(f, Depth(q[1]) + 1 - Len(q))
             /\ r \in Refs(Data, blk, Uncleared) /\ Target(r, Data, blk) = b
             /\ ToData(q) <=> Depth(q[1]) + 1 - Len(q) = 0
             /\ ~ToData(q) /\ b \notin Uncleared => Descended(f, q)
             /\ p = <<>> => h = 0 /\ o \in Pointers /\ q = <<o>>
             /\ p # <<>> => o \in Offsets
<1> DEFINE o == Min(Left(f, p))
           q == Append(p, o)
           h == Inside(f, p)
           b == block_of(f, q)
           r == <<f, h, o>>
<1>1. /\ TypeOK /\ 0 \notin Blocks /\ Pointers \subseteq Nat /\ Offsets \subseteq Nat
      /\ \A k \in Pointers : Depth(k) \in 0..3 /\ (Depth(k) = 0 <=> k < SINGLE_INDIRECT)
                             /\ (Depth(k) # 0 => Depth(k) = k - SINGLE_INDIRECT + 1)
      /\ \A k \in Pointers : k \in Nat
  <2>1. \A k \in Pointers : Depth(k) \in 0..3 /\ (Depth(k) = 0 <=> k < SINGLE_INDIRECT)
                             /\ (Depth(k) # 0 => Depth(k) = k - SINGLE_INDIRECT + 1)
    BY Numbers DEF Depth
  <2>. QED
    BY <2>1, Numbers DEF Good
<1>2. o \in Left(f, p) /\ o \in Nat
  <2>1. Left(f, p) \in SUBSET Nat
    BY <1>1 DEF Left
  <2>. QED
    BY <2>1, MinInSet
<1>3. /\ o \in IF p = <<>> THEN Pointers ELSE Offsets
      /\ Pointer(f, h, o) # 0
  BY <1>2 DEF Left
<1>4. /\ q = FirstLeft(f, p) /\ q \in Seq(Nat) /\ q # <<>> /\ Len(q) = Len(p) + 1
      /\ Front(q) = p /\ Last(q) = o /\ q[1] = (IF p = <<>> THEN o ELSE p[1])
      /\ \A i \in 1..Len(p) : q[i] = p[i]
  BY <1>2, Longer DEF FirstLeft
<1>5. q[Len(p) + 1] = o
  BY <1>2, <1>4 DEF Last
<1>6. CASE p = <<>>
  <2>1. h = 0 /\ o \in Pointers /\ q = <<o>> /\ q[1] = o /\ Len(q) = 1
    BY <1>3, <1>6 DEF Inside
  <2>2. b = inode[f].data[o] /\ Pointer(f, h, o) = inode[f].data[o]
    BY <2>1 DEF block_of, Pointer
  <2> HIDE DEF b, q, h
  <2>3. b \in On(f, Depth(o)) /\ r \in Refs(Data, blk, Uncleared)
    BY <1>1, <1>3, <2>1, <2>2, LedTo
  <2>4. Target(r, Data, blk) = b
    BY <2>1, <2>2 DEF Target, Data
  <2>5. ToData(q) <=> Depth(o) = 0
    BY <1>1, <2>1, Numbers DEF ToData, Depth
  <2>6. ~ToData(q) /\ b \notin Uncleared => Descended(f, q)
    <3>1. Depth(o) # 0 => 1 \in 1..Depth(o)
      <4>1. ASSUME NEW x \in 0..3, x # 0 PROVE 1 \in 1..x
        BY <4>1
      <4>. QED
        BY <1>1, <2>1, <4>1
    <3>. QED
      BY <1>3, <2>1, <2>2, <2>5, <3>1 DEF Descended, b
  <2>7. Depth(o) + 1 - Len(q) = Depth(o) /\ Depth(o) \in 0..3
    <3>1. ASSUME NEW x \in 0..3 PROVE x + 1 - 1 = x
      OBVIOUS
    <3>. QED
      BY <1>1, <2>1, <3>1
  <2>8. /\ q \in Seq(Nat) /\ q # <<>> /\ Len(q) = Len(p) + 1 /\ Front(q) = p /\ Last(q) = o
    BY <1>4
  <2>9. /\ q[1] \in Pointers /\ Depth(q[1]) + 1 - Len(q) \in 0..3
        /\ b = Pointer(f, h, o) /\ b # 0 /\ b \in On(f, Depth(q[1]) + 1 - Len(q))
        /\ ToData(q) <=> Depth(q[1]) + 1 - Len(q) = 0
    BY <1>3, <2>1, <2>2, <2>3, <2>5, <2>7
  <2>10. /\ FirstLeft(f, p) = q /\ Inside(f, p) = h /\ Last(q) = o /\ block_of(f, q) = b
    BY <1>4 DEF h, b, q
  <2> HIDE DEF r, o
  <2>11. <<f, h, o>> = r
    BY DEF r
  <2>. QED
    BY <1>6, <2>1, <2>3, <2>4, <2>6, <2>8, <2>9, <2>10, <2>11
<1>7. CASE p # <<>>
  <2>1. /\ h = block_of(f, p) /\ h \in Blocks /\ h \notin Uncleared /\ h # 0
        /\ p[1] \in Pointers /\ Depth(p[1]) - Len(p) \in 0..2 /\ Len(p) \in 1..3
        /\ h \in On(f, (Depth(p[1]) - Len(p)) + 1) /\ o \in Offsets /\ q[1] = p[1]
    BY <1>3, <1>4, <1>7, InsideIs
  <2>2. b = blk[h][o] /\ Pointer(f, h, o) = blk[h][o]
    <3>1. b = Step(block_of(f, p), o)
      <4>1. CASE Len(p) = 1
        <5>1. Len(q) = 2 /\ q[1] = p[1] /\ q[2] = o
          BY <1>4, <1>5, <4>1
        <5>. QED
          BY <4>1, <5>1 DEF block_of
      <4>2. CASE Len(p) = 2
        <5>1. Len(q) = 3 /\ q[1] = p[1] /\ q[2] = p[2] /\ q[3] = o
          BY <1>4, <1>5, <4>2
        <5>. QED
          BY <4>2, <5>1 DEF block_of
      <4>3. CASE Len(p) = 3
        <5>1. Len(q) = 4 /\ q[1] = p[1] /\ q[2] = p[2] /\ q[3] = p[3] /\ q[4] = o
          BY <1>4, <1>5, <4>3
        <5>. QED
          BY <4>3, <5>1 DEF block_of
      <4>. QED
        BY <2>1, <4>1, <4>2, <4>3
    <3>. QED
      BY <2>1, <3>1 DEF Step, Pointer
  <2>3. /\ Len(q) = Len(p) + 1 /\ Len(p) \in Nat /\ Depth(p[1]) \in 0..3
        /\ Depth(q[1]) + 1 - Len(q) = Depth(p[1]) - Len(p) /\ Len(p) <= Depth(p[1])
    <3>1. Depth(p[1]) \in 0..3 /\ Len(p) \in 1..3 /\ Len(q) = Len(p) + 1
      BY <1>1, <1>4, <2>1
    <3>2. ASSUME NEW x \in 0..3, NEW n \in 1..3, x - n \in 0..2
          PROVE  n \in Nat /\ x + 1 - (n + 1) = x - n /\ n <= x
      BY <3>2
    <3>. QED
      BY <2>1, <3>1, <3>2
  <2> HIDE DEF b, q, h
  <2>4. b \in On(f, Depth(p[1]) - Len(p)) /\ r \in Refs(Data, blk, Uncleared)
    BY <1>1, <1>3, <2>1, <2>2, LedTo
  <2>5. Target(r, Data, blk) = b
    BY <1>1, <2>1, <2>2 DEF Target
  <2>6. ToData(q) <=> Depth(p[1]) - Len(p) = 0
    <3>1. p[1] \in Nat /\ SINGLE_INDIRECT \in Nat /\ Depth(p[1]) # 0
      <4>1. ASSUME NEW x \in 0..3, NEW n \in 1..3, n <= x PROVE x # 0
        BY <4>1
      <4>. QED
        BY <1>1, <2>1, <2>3, <4>1, Numbers
    <3>2. Depth(p[1]) = p[1] - SINGLE_INDIRECT + 1 /\ ~(p[1] < SINGLE_INDIRECT)
      BY <1>1, <2>1, <3>1
    <3>3. ASSUME NEW x \in Nat, NEW k \in Nat, NEW n \in Nat, x = k - SINGLE_INDIRECT + 1
          PROVE  n + 1 = k - SINGLE_INDIRECT + 2 <=> x - n = 0
      BY <3>1, <3>3
    <3>4. ToData(q) <=> Len(p) + 1 = p[1] - SINGLE_INDIRECT + 2
      BY <2>1, <2>3, <3>2 DEF ToData
    <3>5. Depth(p[1]) \in Nat
      BY <2>3
    <3>. QED
      BY <2>3, <3>1, <3>2, <3>3, <3>4, <3>5
  <2>7. ~ToData(q) /\ b \notin Uncleared => Descended(f, q)
    <3>1. ASSUME ~ToData(q) PROVE Len(q) \in 1..Depth(q[1])
      <4>1. ASSUME NEW x \in 0..3, NEW n \in Nat, n <= x, x - n # 0 PROVE n + 1 \in 1..x
        BY <4>1
      <4>. QED
        BY <2>1, <2>3, <2>6, <3>1, <4>1
    <3>2. \A i \in 2..Len(q) : q[i] \in Offsets
      <4>1. \A i \in 2..Len(p) : p[i] \in Offsets
        BY <1>7 DEF Descended
      <4>2. \A i \in 2..Len(q) : i \in 2..Len(p) \/ i = Len(p) + 1
        BY <2>3
      <4>3. 2..Len(p) \subseteq 1..Len(p)
        BY <2>3
      <4>. QED
        BY <1>4, <1>5, <2>1, <4>1, <4>2, <4>3
    <3>. QED
      BY <1>3, <2>1, <2>2, <3>1, <3>2 DEF Descended, b
  <2>8. /\ q \in Seq(Nat) /\ q # <<>> /\ Len(q) = Len(p) + 1 /\ Front(q) = p /\ Last(q) = o
    BY <1>4
  <2>9. /\ q[1] \in Pointers /\ Depth(q[1]) + 1 - Len(q) \in 0..3
        /\ b = Pointer(f, h, o) /\ b # 0 /\ b \in On(f, Depth(q[1]) + 1 - Len(q))
        /\ ToData(q) <=> Depth(q[1]) + 1 - Len(q) = 0
    BY <1>3, <2>1, <2>2, <2>3, <2>4, <2>6
  <2>10. /\ FirstLeft(f, p) = q /\ Inside(f, p) = h /\ Last(q) = o /\ block_of(f, q) = b
    BY <1>4 DEF h, b, q
  <2> HIDE DEF r, o
  <2>11. <<f, h, o>> = r
    BY DEF r
  <2>. QED
    BY <1>7, <2>1, <2>4, <2>5, <2>7, <2>8, <2>9, <2>10, <2>11
<1>. QED
  BY <1>6, <1>7

\* The path of a task that truncates its file.
LEMMA TruncatingIn ==
  ASSUME Good, NEW t \in Tasks, Truncates(t)
  PROVE  /\ call[t] \in TruncateCalls /\ call[t].path \in Seq(Nat) /\ file[t] \in Files
         /\ Descended(file[t], call[t].path) /\ call[t].pc = "truncate"
<1>1. call[t] \in Calls /\ call[t].pc = "truncate" /\ file[t] \in Files
  BY DEF Good, TypeOK, Truncates
<1>2. call[t] \in TruncateCalls
  BY <1>1, CallForms
<1>3. call[t].path \in Seq(Nat)
  BY <1>2 DEF TruncateCalls
<1>4. OnWay(file[t], call[t])
  BY DEF Good, OnTheWay
<1>5. Descended(file[t], call[t].path)
  BY <1>1, <1>4 DEF OnWay
<1>. QED
  BY <1>1, <1>2, <1>3, <1>5

\* The steps of the operations that change no block.
LEMMA QuietCalls ==
  ASSUME Good, NEW t \in Tasks, clash' = "none", clash = "none",
         \/ ReadTest(t) \/ ReadChunk(t) \/ ReadCopy(t) \/ WriteEnd(t) \/ WriteSize(t)
         \/ \E len \in Lens : read_file(t, len) \/ write_file(t, len)
         \/ truncate_file(t) \/ Enter(t) \/ TruncateFailed(t)
         \/ \E p \in Places : seek_file(t, p)
         \/ \E n \in Sizes : set_file_size(t, n)
  PROVE  Good'
<1>0. /\ TypeOK /\ pos \in [Tasks -> Nat] /\ file[t] \in Files /\ call[t] \in Calls
      /\ inode \in [Files -> [size : Nat, data : [Pointers -> Nat]]] /\ blk \in Words
      /\ call \in [Tasks -> Calls] /\ pos[t] \in Nat
  BY DEF Good, TypeOK, Words
<1>i. Idle \in Calls /\ Idle.pc = "idle" /\ Idle.pc \notin Walking \cup {"truncate"}
  BY CallsMade DEF Idle, Walking
<1>n. Lens \subseteq Nat /\ Places \subseteq Nat /\ Sizes \subseteq Nat
  BY ParametersAssumption
<1>1. CASE ReadTest(t)
  <2>1. call[t].len \in Nat
    BY <1>0, <1>1, CallForms DEF ReadTest, AtCalls, GivenCalls
  <2>2. /\ At("chunk", "read", call[t].len) \in Calls
        /\ At("chunk", "read", call[t].len).pc \notin Walking \cup {"truncate"}
    BY <2>1, CallsMade DEF At, Walking
  <2>3. PICK c \in Calls : c.pc \notin Walking \cup {"truncate"} /\ call' = [call EXCEPT ![t] = c]
    BY <1>1, <1>i, <2>2 DEF ReadTest, Goto
  <2>4. UNCHANGED <<bitmap, lost, blk, garbled, inode, file, pos>> /\ call[t].pc # "clear"
    BY <1>1 DEF ReadTest, Goto, disk
  <2>. QED
    BY <1>0, <2>3, <2>4, QuietEnd
<1>2. CASE ReadChunk(t)
  <2> DEFINE len == call[t].len
             rest == inode[file[t]].size - pos[t]
             n == Min({Chunk(t, len), rest})
             c == Start(t, "read", len, n)
  <2>1. len \in Nat
    BY <1>0, <1>2, CallForms DEF ReadChunk, AtCalls
  <2>2. rest \in Nat /\ ~BeingFreed(t)
    BY <1>0, <1>2 DEF ReadChunk, Clash
  <2>3. /\ UNCHANGED <<bitmap, lost, blk, garbled, inode, file, pos>> /\ call' = [call EXCEPT ![t] = c]
        /\ call[t].pc # "clear"
    BY <1>2, <2>2 DEF ReadChunk, Clash, Goto, disk
  <2>4. Chunk(t, len) \in Nat /\ Chunk(t, len) <= len
    BY <1>0, <2>1, InBlock, Smaller DEF Chunk
  <2> HIDE DEF rest
  <2>5. n \in Nat /\ n <= len
    <3>1. n \in Nat /\ n <= Chunk(t, len)
      BY <2>2, <2>4, Smaller
    <3>. QED
      BY <2>1, <2>4, <3>1
  <2> HIDE DEF n, len
  <2>6. c \in Calls /\ c.pc = "walk" /\ OnWay(file[t], c) /\ Entitled(t, c)
    <3>1. c \in Calls /\ c.pc = "walk" /\ OnWay(file[t], c)
      BY <1>0, <2>1, <2>5, Begun DEF Start
    <3>. QED
      BY <2>2, <3>1 DEF Entitled
  <2>. QED
    BY <1>0, <2>3, <2>6, Quiet
<1>3. CASE ReadCopy(t)
  <2> DEFINE words == [i \in 1..call[t].n |-> blk[call[t].holder][(pos[t] + i - 1) % FS_BLKSIZ]]
             c == Given(call[t].len - call[t].n, words)
  <2>1. /\ UNCHANGED <<bitmap, lost, blk, garbled, inode, file>> /\ call[t].pc = "copy"
        /\ pos' = [pos EXCEPT ![t] = @ + call[t].n] /\ call' = [call EXCEPT ![t] = c]
    BY <1>3 DEF ReadCopy, Goto, disk
  <2>2. call[t].pc \in Walking
    BY <2>1 DEF Walking
  <2>3. call[t].n \in Nat /\ call[t].len - call[t].n \in Nat /\ call[t].holder \in Blocks
    <3>1. call[t].holder \in On(file[t], 0)
      BY <2>1, <2>2, WayForm DEF OnWay
    <3>2. 0 \in 0..3
      OBVIOUS
    <3>. QED
      BY <1>0, <2>2, <3>1, <3>2, WayForm, OnApart
  <2>4. words \in Seq(Nat)
    <3>1. \A i \in 1..call[t].n : (pos[t] + i - 1) \in Nat
      BY <1>0, <2>3
    <3>2. \A i \in 1..call[t].n : (pos[t] + i - 1) % FS_BLKSIZ \in Offsets
      BY <3>1, InBlock
    <3>3. \A i \in 1..call[t].n : blk[call[t].holder][(pos[t] + i - 1) % FS_BLKSIZ] \in Nat
      BY <1>0, <2>3, <3>2 DEF Words
    <3>. QED
      BY <2>3, <3>3
  <2>5. c \in Calls
    <3> HIDE DEF words
    <3>. QED
      BY <2>3, <2>4, CallsMade
  <2>6. c.pc \notin Walking \cup {"truncate"} /\ pos' \in [Tasks -> Nat] /\ call[t].pc # "clear"
    BY <1>0, <2>1, <2>3 DEF Given, Walking
  <2> HIDE DEF c
  <2>. QED
    BY <1>0, <2>1, <2>5, <2>6, QuietEnd
<1>4. CASE WriteEnd(t)
  <2>1. At("set", "write", 0) \in Calls /\ At("set", "write", 0).pc \notin Walking \cup {"truncate"}
    BY CallsMade DEF At, Walking
  <2>2. PICK c \in Calls : c.pc \notin Walking \cup {"truncate"} /\ call' = [call EXCEPT ![t] = c]
    BY <1>4, <1>i, <2>1 DEF WriteEnd, Goto
  <2>3. UNCHANGED <<bitmap, lost, blk, garbled, inode, file, pos>> /\ call[t].pc # "clear"
    BY <1>4 DEF WriteEnd, Goto, disk
  <2>. QED
    BY <1>0, <2>2, <2>3, QuietEnd
<1>5. CASE WriteSize(t)
  <2>1. /\ UNCHANGED <<bitmap, lost, blk, garbled, file, pos>> /\ call[t].pc # "clear"
        /\ call' = [call EXCEPT ![t] = Idle]
        /\ inode' = [inode EXCEPT ![file[t]].size = pos[t]]
    BY <1>5 DEF WriteSize, Clash, Goto
  <2>2. /\ inode' \in [Files -> [size : Nat, data : [Pointers -> Nat]]]
        /\ \A f \in Files : inode'[f].data = inode[f].data
    BY <1>0, <2>1
  <2>. QED
    BY <1>0, <1>i, <2>1, <2>2, QuietEnd
<1>6. CASE \E len \in Lens : read_file(t, len)
  <2>1. PICK len \in Lens : read_file(t, len)
    BY <1>6
  <2>2. At("loop", "read", len) \in Calls /\ At("loop", "read", len).pc \notin Walking \cup {"truncate"}
    BY <1>n, CallsMade DEF At, Walking
  <2>3. /\ UNCHANGED <<bitmap, lost, blk, garbled, inode, file, pos>> /\ call[t].pc # "clear"
        /\ call' = [call EXCEPT ![t] = At("loop", "read", len)]
    BY <2>1, <1>i DEF read_file, Goto, disk
  <2>. QED
    BY <1>0, <2>2, <2>3, QuietEnd
<1>7. CASE \E len \in Lens : write_file(t, len)
  <2>1. PICK len \in Lens : write_file(t, len)
    BY <1>7
  <2> DEFINE n == Chunk(t, len)
             c == Start(t, "write", len, n)
  <2>2. /\ UNCHANGED <<bitmap, lost, blk, garbled, inode, file, pos>> /\ call[t].pc # "clear"
        /\ call' = [call EXCEPT ![t] = c] /\ ~BeingFreed(t)
    BY <2>1, <1>i DEF write_file, Goto, disk, Clash
  <2>3. n \in Nat /\ n <= len /\ len \in Nat
    BY <1>0, <1>n, InBlock, Smaller DEF Chunk
  <2> HIDE DEF n
  <2>4. c \in Calls /\ c.pc = "walk" /\ OnWay(file[t], c) /\ Entitled(t, c)
    <3>1. c \in Calls /\ c.pc = "walk" /\ OnWay(file[t], c)
      BY <1>0, <2>3, Begun DEF Start
    <3>. QED
      BY <2>2, <3>1 DEF Entitled
  <2>. QED
    BY <1>0, <2>2, <2>4, Quiet
<1>8. CASE \E p \in Places : seek_file(t, p)
  <2>1. PICK p \in Places : seek_file(t, p)
    BY <1>8
  <2>2. /\ UNCHANGED <<bitmap, lost, blk, garbled, inode, file>> /\ call[t] = Idle /\ call' = call
        /\ pos' = [pos EXCEPT ![t] = p]
    BY <2>1 DEF seek_file, disk
  <2>3. call' = [call EXCEPT ![t] = Idle] /\ call[t].pc # "clear" /\ pos' \in [Tasks -> Nat]
    BY <1>0, <1>i, <1>n, <2>2
  <2>. QED
    BY <1>0, <1>i, <2>2, <2>3, QuietEnd
<1>9. CASE \E n \in Sizes : set_file_size(t, n)
  <2>1. PICK n \in Sizes : set_file_size(t, n)
    BY <1>9
  <2>2. /\ UNCHANGED <<bitmap, lost, blk, garbled, file, pos>> /\ call[t] = Idle /\ call' = call
        /\ inode' = [inode EXCEPT ![file[t]].size = n]
    BY <2>1 DEF set_file_size
  <2>3. /\ call' = [call EXCEPT ![t] = Idle] /\ call[t].pc # "clear"
        /\ inode' \in [Files -> [size : Nat, data : [Pointers -> Nat]]]
        /\ \A f \in Files : inode'[f].data = inode[f].data
    BY <1>0, <1>i, <1>n, <2>2
  <2>. QED
    BY <1>0, <1>i, <2>2, <2>3, QuietEnd
<1>10. CASE truncate_file(t)
  <2>1. /\ UNCHANGED <<bitmap, lost, blk, garbled, inode, file, pos>> /\ call[t].pc # "clear"
        /\ call' = [call EXCEPT ![t] = Truncating(<<>>)] /\ ~InUse(t)
    BY <1>10, <1>i DEF truncate_file, Goto, disk, Clash
  <2>2. /\ Truncating(<<>>) \in Calls /\ Truncating(<<>>).pc = "truncate"
        /\ Truncating(<<>>).path = <<>>
    <3>1. <<>> \in Seq(Nat)
      OBVIOUS
    <3>. QED
      BY <3>1, CallsMade DEF Truncating
  <2>3. OnWay(file[t], Truncating(<<>>)) /\ Entitled(t, Truncating(<<>>))
    BY <2>1, <2>2 DEF OnWay, Walking, Descended, Entitled
  <2>. QED
    BY <1>0, <2>1, <2>2, <2>3, Quiet
<1>11. CASE Enter(t)
  <2> DEFINE q == FirstLeft(file[t], call[t].path)
  <2>1. /\ UNCHANGED <<bitmap, lost, blk, garbled, inode, file, pos>> /\ call[t].pc = "truncate"
        /\ call' = [call EXCEPT ![t] = Truncating(q)] /\ ~ToData(q)
        /\ block_of(file[t], q) \notin Uncleared
        /\ Left(file[t], call[t].path) # {}
    BY <1>11 DEF Enter, Truncates, Goto, disk, Clash
  <2>2. q \in Seq(Nat) /\ Descended(file[t], q)
    BY <2>1, TruncatingIn, LeftIs DEF Truncates
  <2> HIDE DEF q
  <2>3. Truncating(q) \in Calls /\ Truncating(q).pc = "truncate" /\ Truncating(q).path = q
    BY <2>2, CallsMade DEF Truncating
  <2>4. OnWay(file[t], Truncating(q)) /\ Entitled(t, Truncating(q))
    BY <2>1, <2>2, <2>3 DEF OnWay, Walking, Entitled
  <2>. QED
    BY <1>0, <2>1, <2>3, <2>4, Quiet
<1>12. CASE TruncateFailed(t)
  <2>1. /\ UNCHANGED <<bitmap, lost, blk, garbled, inode, file, pos>> /\ call[t].pc # "clear"
        /\ call' = [call EXCEPT ![t] = Idle]
    BY <1>12 DEF TruncateFailed, Goto, disk
  <2>2. Idle.pc \notin Walking \cup {"truncate"}
    BY DEF Idle, Walking
  <2>. QED
    BY <1>0, <1>i, <2>1, <2>2, QuietEnd
<1>. QED
  BY <1>1, <1>2, <1>3, <1>4, <1>5, <1>6, <1>7, <1>8, <1>9, <1>10, <1>11, <1>12

\* Block h of file f is changed, and a pointer in its inode: nothing in another file is.
LEMMA Elsewhere ==
  ASSUME Good, NEW f \in Files, NEW h, h = 0 \/ \E n \in 0..3 : h \in On(f, n),
         \A b \in Blocks : b # h => blk'[b] = blk[b],
         \A b \in bitmap : b # h => (b \in Uncleared' <=> b \in Uncleared),
         \A g \in Files \ {f} : inode'[g].data = inode[g].data
  PROVE  ElsewhereSame(f)
<1>1. ASSUME NEW g \in Files \ {f}, NEW n \in 1..3, NEW b \in On(g, n)
      PROVE  blk'[b] = blk[b] /\ (b \in Uncleared' <=> b \in Uncleared)
  <2>1. n \in 0..3
    OBVIOUS
  <2>2. b \in Blocks /\ b \in bitmap /\ b # 0
    BY <2>1, OnApart
  <2>3. b # h
    BY <2>1, <2>2, OnApart
  <2>. QED
    BY <2>2, <2>3
<1>. QED
  BY <1>1 DEF ElsewhereSame

\* Nor is a truncation disturbed then: there is none in f.
LEMMA RestDescends ==
  ASSUME Good, NEW t \in Tasks, NEW c, call' = [call EXCEPT ![t] = c], file' = file,
         call[t].pc \in Walking \cup {"truncate"}, ElsewhereSame(file[t])
  PROVE  \A u \in Tasks \ {t} : Truncates(u) => Descended(file[u], call[u].path)'
<1>1. ASSUME NEW u \in Tasks \ {t}, Truncates(u) PROVE Descended(file[u], call[u].path)'
  <2>1. /\ call'[u] = call[u] /\ file[t] \in Files /\ Alone
    BY DEF Good, TypeOK
  <2>2. file[u] # file[t]
    BY <1>1, <2>1 DEF Alone, Truncates
  <2>. QED
    BY <1>1, <2>1, <2>2, OthersDescend
<1>. QED
  BY <1>1

\* What bwrite() writes is in a block of data: no pointer is overwritten.
LEMMA WriteKeeps ==
  ASSUME Good, NEW t \in Tasks, WriteCopy(t)
  PROVE  Good'
<1> DEFINE h == call[t].holder
           put == {(pos[t] + i) % FS_BLKSIZ : i \in 0..(call[t].n - 1)}
           words == [o \in Offsets |-> IF o \in put THEN data[t] ELSE blk[h][o]]
<1>1. /\ TypeOK /\ Data \in Inodes /\ blk \in Words /\ pos \in [Tasks -> Nat]
      /\ call \in [Tasks -> Calls] /\ file \in [Tasks -> Files] /\ ClearOnce /\ Alone
      /\ garbled \in SUBSET Blocks
      /\ Owned(Data, blk, Uncleared, bitmap, lost)
      /\ \A f \in Files, n \in 0..3 : On(f, n) = Level(n, Data[f], blk, Uncleared)
  BY Typed DEF Good, TypeOK, Owner
<1>2. /\ call[t].pc = "copy" /\ bitmap' = bitmap /\ lost' = lost /\ inode' = inode /\ file' = file
      /\ garbled' = garbled
      /\ blk' = [blk EXCEPT ![h] = words] /\ pos' = [pos EXCEPT ![t] = @ + call[t].n]
      /\ call' = [call EXCEPT ![t] = WriteOn(t, call[t].len - call[t].n)]
  BY <1>1 DEF WriteCopy, Goto, Words
<1>3. /\ call[t].pc \in Walking /\ call[t].n \in Nat /\ call[t].len - call[t].n \in Nat
      /\ h \in On(file[t], 0) /\ h \in Blocks /\ file[t] \in Files
  <2>1. call[t].pc \in Walking
    BY <1>2 DEF Walking
  <2>2. h \in On(file[t], 0)
    BY <1>2, <2>1, WayForm DEF OnWay
  <2>3. 0 \in 0..3 /\ file[t] \in Files
    BY <1>1
  <2>. QED
    BY <2>1, <2>2, <2>3, WayForm, OnApart
<1>4. blk' \in Words /\ \A b \in Blocks : b # h => blk'[b] = blk[b]
  <2>1. data[t] \in Nat
    BY ParametersAssumption
  <2>2. words \in [Offsets -> Nat]
    BY <1>1, <1>3, <2>1 DEF Words
  <2> HIDE DEF words
  <2>. QED
    BY <1>1, <1>2, <1>3, <2>2 DEF Words
<1>5. pos' \in [Tasks -> Nat] /\ pos'[t] \in Nat
  BY <1>1, <1>2, <1>3
<1>6. PICK c \in Calls : /\ OnWay(file[t], c) /\ call' = [call EXCEPT ![t] = c]
                         /\ c.pc \in {"walk", "end"}
  <2> DEFINE c == call'[t]
             len == call[t].len - call[t].n
             n == Min({len, FS_BLKSIZ - (pos'[t] % FS_BLKSIZ)})
  <2>1. c = WriteOn(t, len) /\ call' = [call EXCEPT ![t] = c]
    BY <1>1, <1>2
  <2>2. CASE len = 0
    <3>1. c = At("end", "write", 0)
      BY <2>1, <2>2 DEF WriteOn
    <3>. QED
      BY <2>1, <3>1, CallsMade DEF At, OnWay, Walking
  <2>3. CASE len # 0
    <3>1. c = Walk("walk", "write", len, n, 0, Path(pos'[t] \div FS_BLKSIZ))
      BY <2>1, <2>3 DEF WriteOn
    <3>2. n \in Nat /\ n <= len
      BY <1>3, <1>5, InBlock, Smaller
    <3> HIDE DEF n, c
    <3>3. c \in Calls /\ c.pc = "walk" /\ OnWay(file[t], c)
      BY <1>3, <1>5, <3>1, <3>2, Begun
    <3>. QED
      BY <2>1, <3>3
  <2>. QED
    BY <2>2, <2>3
<1> HIDE DEF words
<1>7. /\ Uncleared' = Uncleared /\ ClearOnce' /\ Alone'
  <2>1. \A u \in Tasks : /\ call'[u].pc = "clear" <=> call[u].pc = "clear"
                         /\ call[u].pc = "clear" => call'[u] = call[u]
    BY <1>1, <1>2, <1>6
  <2>2. Entitled(t, c)
    BY <1>3, <1>6 DEF Entitled
  <2>3. Alone'
    BY <1>1, <1>2, <1>6, <2>2, AloneStays
  <2>. QED
    BY <1>1, <1>2, <2>1, <2>3 DEF Uncleared, ClearOnce
<1>8. /\ Owned(Data, blk', Uncleared, bitmap, lost)
      /\ \A f \in Files, n \in 0..3 :
           Level(n, Data[f], blk', Uncleared) = Level(n, Data[f], blk, Uncleared)
  <2>1. ASSUME NEW f \in Files, NEW b \in Inner(Data[f], blk, Uncleared) \cap Blocks
        PROVE  blk'[b] = blk[b]
    <3>1. PICK n \in 1..3 : b \in Level(n, Data[f], blk, Uncleared)
      BY <2>1, 1 \in 1..3, 2 \in 1..3, 3 \in 1..3 DEF Inner
    <3>2. n \in 0..3 /\ 0 \in 0..3 /\ n # 0
      OBVIOUS
    <3>3. b \in On(f, n)
      BY <1>1, <3>1, <3>2
    <3>4. b # h
      BY <1>3, <3>2, <3>3, OnApart
    <3>. QED
      BY <1>4, <3>4
  <2>2. \A f \in Files : \A b \in Inner(Data[f], blk, Uncleared) \cap Blocks :
          \/ (b \in Uncleared <=> b \in Uncleared) /\ blk'[b] = blk[b]
          \/ b \in Uncleared /\ \A o \in Offsets : blk'[b][o] = 0
    BY <2>1
  <2>3. blk \in Words /\ blk' \in Words /\ Data \in Inodes
    BY <1>1, <1>4
  <2>4. ASSUME NEW l \in Words, NEW Y, l = blk', Y = Uncleared
        PROVE  /\ Owned(Data, l, Y, bitmap, lost)
               /\ \A f \in Files, n \in 0..3 : Level(n, Data[f], l, Y)
                                            = Level(n, Data[f], blk, Uncleared)
    <3>1. Unmoved(Data, blk, Uncleared, l, Y)
      BY <2>2, <2>4 DEF Unmoved
    <3>2. Owned(Data, blk, Uncleared, bitmap, lost) /\ Data \in Inodes /\ blk \in Words
      BY <1>1
    <3>4. ASSUME NEW B, NEW L, Owned(Data, blk, Uncleared, B, L)
          PROVE  Owned(Data, l, Y, B, L)
      BY <3>1, <3>2, <3>4, SameOwners
    <3>5. ASSUME NEW f \in Files, NEW n \in 0..3,
                 NEW B, NEW L, Owned(Data, blk, Uncleared, B, L)
          PROVE  Level(n, Data[f], l, Y) = Level(n, Data[f], blk, Uncleared)
      BY <3>1, <3>2, <3>5, SameOwners
    <3>. QED
      BY <3>2, <3>4, <3>5
  <2>. QED
    BY <2>3, <2>4
<1>9. Data' = Data
  BY <1>2 DEF Data
<1>10. Owner'
  BY <1>2, <1>7, <1>8, <1>9 DEF Owner
<1>11. TypeOK'
  BY <1>1, <1>2, <1>4, <1>5, <1>6 DEF TypeOK, Words
<1>12. \A f \in Files, n \in 0..3 : On(f, n)' = On(f, n)
  <2>1. \A f \in Files, n \in 0..3 : On(f, n)' = Level(n, Data[f], blk', Uncleared)
    BY <1>2, <1>7 DEF On, Data
  <2>. QED
    BY <1>1, <1>8, <2>1
<1>13. OnWay(file[t], c)'
  <2>1. ASSUME NEW f, f = file[t] PROVE OnWay(f, c)'
    <3>1. /\ OnWay(f, c) /\ \A n \in 0..3 : On(f, n) \subseteq On(f, n)'
          /\ c.pc \notin {"alloc", "truncate"}
      BY <1>3, <1>6, <1>12, <2>1
    <3>. QED
      BY <3>1, StillOnWay
  <2>. QED
    BY <1>2, <2>1
<1>14. (\A u \in Tasks : OnTheWay(u))'
  <2>1. \A u \in Tasks \ {t} : call[u].pc = "alloc" => call[u].holder \notin Uncleared'
    BY <1>7 DEF Good, OnTheWay, OnWay
  <2>2. \A u \in Tasks \ {t} : call[u].pc \in Walking
             => \A n \in 0..3 : On(file[u], n) \subseteq On(file[u], n)'
    <3>1. ASSUME NEW u \in Tasks, NEW n \in 0..3 PROVE On(file[u], n)' = On(file[u], n)
      <4>1. file[u] \in Files /\ file'[u] = file[u]
        BY <1>1, <1>2
      <4>2. \A f \in Files : On(f, n)' = On(f, n)
        BY <1>12
      <4>. QED
        BY <4>1, <4>2
    <3>. QED
      BY <3>1
  <2>3. \A u \in Tasks \ {t} : Truncates(u) => Descended(file[u], call[u].path)'
    <3>1. ElsewhereSame(file[t])
      <4>1. \A b \in bitmap : b # h => (b \in Uncleared' <=> b \in Uncleared)
        BY <1>7
      <4>2. h = 0 \/ \E n \in 0..3 : h \in On(file[t], n)
        BY <1>3, 0 \in 0..3
      <4>. QED
        BY <1>2, <1>3, <1>4, <4>1, <4>2, Elsewhere
    <3>. QED
      BY <1>2, <1>3, <1>6, <3>1, RestDescends
  <2>. QED
    BY <1>2, <1>6, <1>13, <2>1, <2>2, <2>3, RestOnWay
<1>. QED
  BY <1>7, <1>10, <1>11, <1>14 DEF Good

\* Clearing a new indirect block gives no block an owner.
LEMMA ClearKeeps ==
  ASSUME Good, NEW t \in Tasks, Clear(t)
  PROVE  Good'
<1> DEFINE h == call[t].holder
<1>1. /\ TypeOK /\ Data \in Inodes /\ blk \in Words /\ pos \in [Tasks -> Nat]
      /\ call \in [Tasks -> Calls] /\ file \in [Tasks -> Files] /\ ClearOnce /\ Alone
      /\ garbled \in SUBSET Blocks
      /\ Owned(Data, blk, Uncleared, bitmap, lost)
      /\ \A f \in Files, n \in 0..3 : On(f, n) = Level(n, Data[f], blk, Uncleared)
  BY Typed DEF Good, TypeOK, Owner
<1>2. /\ call[t].pc = "clear" /\ bitmap' = bitmap /\ lost' = lost /\ inode' = inode /\ file' = file
      /\ garbled' = garbled
      /\ blk' = [blk EXCEPT ![h] = NoWords] /\ pos' = pos
      /\ call' = [call EXCEPT ![t] = [call[t] EXCEPT !.pc = "walk"]]
  BY DEF Clear, Goto
<1>3. /\ call[t].pc \in Walking /\ call[t] \in WalkCalls /\ h \in Nat
      /\ h # 0 /\ Leads(file[t], h, call[t].path) /\ call[t].n <= call[t].len
  <2>1. call[t].pc \in Walking
    BY <1>2 DEF Walking
  <2>. QED
    BY <1>2, <2>1, WayForm DEF OnWay
<1>4. h \in Blocks /\ h \in Uncleared /\ file[t] \in Files
  BY <1>1, <1>2, <1>3 DEF Leads, Uncleared
<1>5. PICK c \in Calls : /\ c.pc = "walk" /\ c.holder = h /\ c.path = call[t].path
                         /\ c.n <= c.len /\ call' = [call EXCEPT ![t] = c]
  <2> DEFINE c == [call[t] EXCEPT !.pc = "walk"]
  <2>1. /\ c \in WalkCalls /\ c.pc = "walk" /\ c.holder = h /\ c.path = call[t].path
        /\ c.n <= c.len
    BY <1>3 DEF WalkCalls, Walking
  <2>2. call' = [call EXCEPT ![t] = c]
    BY <1>2
  <2> HIDE DEF c
  <2>. QED
    BY <2>1, <2>2, CallsMade
<1>6. (\A y : y # h => (y \in Uncleared' <=> y \in Uncleared)) /\ ClearOnce' /\ Alone'
  <2>1. /\ call'[t].pc # "clear" /\ \A u \in Tasks \ {t} : call'[u] = call[u]
        /\ \A u \in Tasks \ {t} : call[u].pc = "clear" => call[u].holder # h
    BY <1>1, <1>2, <1>5 DEF ClearOnce
  <2>2. ASSUME NEW y, y # h PROVE y \in Uncleared' <=> y \in Uncleared
    BY <1>2, <2>1, <2>2 DEF Uncleared
  <2>3. ClearOnce'
    BY <1>1, <2>1 DEF ClearOnce
  <2>4. Entitled(t, c)
    BY <1>3, <1>5 DEF Entitled
  <2>5. Alone'
    BY <1>1, <1>2, <1>5, <2>4, AloneStays
  <2>. QED
    BY <2>2, <2>3, <2>5
<1>7. /\ blk' \in Words /\ blk'[h] = NoWords /\ \A b \in Blocks : b # h => blk'[b] = blk[b]
  <2>1. NoWords \in [Offsets -> Nat]
    BY DEF NoWords
  <2>. QED
    BY <1>1, <1>2, <1>4, <2>1 DEF Words
<1>8. /\ Owned(Data, blk', Uncleared', bitmap, lost)
      /\ \A f \in Files, n \in 0..3 :
           Level(n, Data[f], blk', Uncleared') = Level(n, Data[f], blk, Uncleared)
  <2>1. ASSUME NEW l \in Words, NEW Y, l = blk', Y = Uncleared'
        PROVE  /\ Owned(Data, l, Y, bitmap, lost)
               /\ \A f \in Files, n \in 0..3 : Level(n, Data[f], l, Y)
                                            = Level(n, Data[f], blk, Uncleared)
    <3>1. ASSUME NEW b \in Blocks
          PROVE  \/ (b \in Uncleared <=> b \in Y) /\ l[b] = blk[b]
                 \/ b \in Uncleared /\ \A o \in Offsets : l[b][o] = 0
      <4>1. CASE b = h
        BY <1>4, <1>7, <2>1, <4>1 DEF NoWords
      <4>2. CASE b # h
        BY <1>6, <1>7, <2>1, <4>2
      <4>. QED
        BY <4>1, <4>2
    <3>2. Unmoved(Data, blk, Uncleared, l, Y)
      BY <3>1 DEF Unmoved
    <3>3. Owned(Data, blk, Uncleared, bitmap, lost) /\ Data \in Inodes /\ blk \in Words
      BY <1>1
    <3>4. ASSUME NEW B, NEW L, Owned(Data, blk, Uncleared, B, L)
          PROVE  Owned(Data, l, Y, B, L)
      BY <3>2, <3>3, <3>4, SameOwners
    <3>5. ASSUME NEW f \in Files, NEW n \in 0..3,
                 NEW B, NEW L, Owned(Data, blk, Uncleared, B, L)
          PROVE  Level(n, Data[f], l, Y) = Level(n, Data[f], blk, Uncleared)
      BY <3>2, <3>3, <3>5, SameOwners
    <3>. QED
      BY <3>3, <3>4, <3>5
  <2>. QED
    BY <1>7, <2>1
<1>9. Data' = Data
  BY <1>2 DEF Data
<1>10. Owner'
  BY <1>2, <1>8, <1>9 DEF Owner
<1>11. TypeOK'
  <2>1. call' \in [Tasks -> Calls] /\ blk' \in [Blocks -> [Offsets -> Nat]]
    BY <1>1, <1>5, <1>7 DEF Words
  <2>. QED
    BY <1>1, <1>2, <2>1 DEF TypeOK
<1>12. \A f \in Files, n \in 0..3 : On(f, n)' = On(f, n)
  <2>1. \A f \in Files, n \in 0..3 : On(f, n)' = Level(n, Data[f], blk', Uncleared')
    BY <1>2 DEF On, Data
  <2>. QED
    BY <1>1, <1>8, <2>1
<1>13. OnWay(file[t], c)'
  <2>1. ASSUME NEW f, f = file[t] PROVE OnWay(f, c)'
    <3>1. OnWay(f, c)
      BY <1>3, <1>5, <2>1 DEF OnWay
    <3>2. /\ \A n \in 0..3 : On(f, n) \subseteq On(f, n)'
          /\ c.pc \notin {"alloc", "truncate"}
      BY <1>4, <1>5, <1>12, <2>1
    <3>. QED
      BY <3>1, <3>2, StillOnWay
  <2>. QED
    BY <1>2, <2>1
<1>14. (\A u \in Tasks : OnTheWay(u))'
  <2>1. \A u \in Tasks \ {t} : call[u].pc = "alloc" => call[u].holder \notin Uncleared'
    <3>1. ASSUME NEW u \in Tasks \ {t}, call[u].pc = "alloc" PROVE call[u].holder \notin Uncleared
      BY <3>1 DEF Good, OnTheWay, OnWay
    <3>. QED
      BY <1>4, <1>6, <3>1
  <2>2. \A u \in Tasks \ {t} : call[u].pc \in Walking
             => \A n \in 0..3 : On(file[u], n) \subseteq On(file[u], n)'
    <3>1. ASSUME NEW u \in Tasks, NEW n \in 0..3 PROVE On(file[u], n)' = On(file[u], n)
      <4>1. file[u] \in Files /\ file'[u] = file[u]
        BY <1>1, <1>2
      <4>2. \A f \in Files : On(f, n)' = On(f, n)
        BY <1>12
      <4>. QED
        BY <4>1, <4>2
    <3>. QED
      BY <3>1
  <2>3. \A u \in Tasks \ {t} : Truncates(u) => Descended(file[u], call[u].path)'
    <3>1. ElsewhereSame(file[t])
      <4>1. \A b \in bitmap : b # h => (b \in Uncleared' <=> b \in Uncleared)
        BY <1>6
      <4>2. h = 0 \/ \E n \in 0..3 : h \in On(file[t], n)
        BY <1>3, <1>4, 1..3 \subseteq 0..3 DEF Leads
      <4>. QED
        BY <1>2, <1>4, <1>7, <4>1, <4>2, Elsewhere
    <3>. QED
      BY <1>2, <1>3, <1>5, <3>1, RestDescends
  <2>. QED
    BY <1>2, <1>5, <1>13, <2>1, <2>2, <2>3, RestOnWay
<1>. QED
  BY <1>6, <1>10, <1>11, <1>14 DEF Good

\* What a task holds behind an allocation.
LEMMA AfterAllocIs ==
  ASSUME NEW w \in WalkCalls, NEW b \in Nat, w.path # <<>>
  PROVE  LET q == IF Len(w.path) = 1 THEN "copy" ELSE "clear"
         IN  AfterAlloc(w, b) = Walk(q, w.op, w.len, w.n, b, Tail(w.path))
<1> DEFINE q == IF Len(w.path) = 1 THEN "copy" ELSE "clear"
           p == Tail(w.path)
<1>0. AfterAlloc(w, b) = [w EXCEPT !.pc = q, !.holder = b, !.path = p]
  BY DEF AfterAlloc, WalkCalls
<1> HIDE DEF q, p
<1>1. [w EXCEPT !.pc = q, !.holder = b, !.path = p]
        = [[[w EXCEPT !.pc = q] EXCEPT !.holder = b] EXCEPT !.path = p]
  OBVIOUS
<1>2. [w EXCEPT !.pc = q] = Walk(q, w.op, w.len, w.n, w.holder, w.path)
  BY DEF WalkCalls, Walk
<1>3. [Walk(q, w.op, w.len, w.n, w.holder, w.path) EXCEPT !.holder = b]
        = Walk(q, w.op, w.len, w.n, b, w.path)
  BY DEF Walk
<1>4. [Walk(q, w.op, w.len, w.n, b, w.path) EXCEPT !.path = p]
        = Walk(q, w.op, w.len, w.n, b, p)
  BY DEF Walk
<1>5. AfterAlloc(w, b) = Walk(q, w.op, w.len, w.n, b, p)
  BY <1>0, <1>1, <1>2, <1>3, <1>4
<1>. QED
  BY <1>5 DEF q, p

\* A pointer of an inode that was 0 leads to a new block.
LEMMA NewTop ==
  ASSUME NEW D \in Inodes, NEW m \in Words, NEW Z, NEW B, NEW L, Owned(D, m, Z, B, L),
         NEW f \in Files, NEW k \in Pointers, NEW a \in Blocks \ B,
         NEW E \in Inodes, TopSet(D[f], E[f], k, a), \A g \in Files \ {f} : E[g] = D[g],
         NEW Y, Unready(Z, Y, Depth(k), a)
  PROVE  Owned(E, m, Y, B \cup {a}, L) /\ Added(D, m, Z, E, m, Y, f, Depth(k), a)
<1>1. ASSUME NEW g \in Files, NEW n \in 1..3, NEW b \in Level(n, D[g], m, Z) \cap Blocks
      PROVE  Sons(b, m, Y) = Sons(b, m, Z)
  <2>1. n \in 0..3
    OBVIOUS
  <2>2. b \in B
    BY <2>1, TreeAllocated
  <2>. QED
    BY <2>2 DEF Sons, Unready
<1>2. /\ Depth(k) \in 0..3 /\ a \in Nat \ {0}
      /\ Depth(k) > 0 => Sons(a, m, Y) = {}
  BY Depths, Numbers DEF Sons, Unready
<1>3. D[f] \in [Pointers -> Nat] /\ E[f] \in [Pointers -> Nat]
  BY DEF Inodes
<1>4. Grown(D[f], m, Z, E[f], m, Y, Depth(k), a)
  <2>1. SameSons(D[f], m, Z, m, Y)
    BY <1>1 DEF SameSons
  <2>. QED
    BY <1>2, <1>3, <2>1, GrowTop
<1>5. ASSUME NEW g \in Files \ {f}
      PROVE  \A n \in 0..3 : Level(n, D[g], m, Y) = Level(n, D[g], m, Z)
  <2>1. ASSUME NEW n \in 1..3, NEW b \in Level(n, D[g], m, Z) \cap Blocks
        PROVE  Sons(b, m, Y) = Sons(b, m, Z)
    BY <1>1
  <2>. QED
    BY <2>1, SameLevels
<1>6. Added(D, m, Z, E, m, Y, f, Depth(k), a)
  <2>1. ASSUME NEW g \in Files, NEW n \in 0..3, g = f
        PROVE  Level(n, E[g], m, Y) = Level(n, D[g], m, Z) \cup
                                    (IF g = f /\ n = Depth(k) THEN {a} ELSE {})
    BY <1>4, <2>1 DEF Grown
  <2>2. ASSUME NEW g \in Files, NEW n \in 0..3, g # f
        PROVE  Level(n, E[g], m, Y) = Level(n, D[g], m, Z) \cup
                                    (IF g = f /\ n = Depth(k) THEN {a} ELSE {})
    BY <1>5, <2>2
  <2>. QED
    BY <2>1, <2>2 DEF Added
<1>7. Owned(E, m, Y, B \cup {a}, L)
  <2> DEFINE q == <<f, 0, k>>
  <2>1. /\ q \in References /\ q[2] = 0 /\ Target(q, D, m) = 0 /\ Target(q, E, m) = a
    BY DEF References, Target, TopSet
  <2>2. \A r \in References \ {q} : Target(r, E, m) = Target(r, D, m)
    <3>1. ASSUME NEW r \in References, r # q, r[2] = 0
          PROVE  r[1] \in Files /\ r[3] \in Pointers /\ (r[1] = f => r[3] # k)
      <4>1. \E g \in Files, i \in Pointers : r = <<g, 0, i>>
        BY <3>1, Numbers DEF References
      <4>. QED
        BY <3>1, <4>1
    <3>2. ASSUME NEW r \in References, r # q, r[2] = 0
          PROVE  E[r[1]][r[3]] = D[r[1]][r[3]]
      BY <3>1, <3>2 DEF TopSet
    <3>. QED
      BY <3>2 DEF Target
  <2> HIDE DEF q
  <2>3. NewPointer(D, m, Z, E, m, q, a)
    BY <2>1, <2>2 DEF NewPointer
  <2>. QED
    BY <1>2, <1>6, <2>3, NewOwner
<1>. QED
  BY <1>6, <1>7

\* A pointer of an indirect block that was 0 leads to a new block.
BelowSet(m, l, h, o, a) ==
    /\ m[h][o] = 0 /\ l[h][o] = a /\ \A i \in Offsets \ {o} : l[h][i] = m[h][i]
    /\ \A b \in Blocks \ {h} : l[b] = m[b]

\* A new block behind a pointer of an indirect block, as get_indirect_blkno()
\* puts it: every block still has one owner.
LEMMA NewBelow ==
  ASSUME NEW D \in Inodes, NEW m \in Words, NEW Z, NEW B, NEW L, Owned(D, m, Z, B, L),
         NEW f \in Files, NEW j \in 0..2, NEW h \in Blocks, h \in Level(j + 1, D[f], m, Z), h \notin Z,
         NEW o \in Offsets, NEW a \in Blocks \ B, NEW l \in Words, BelowSet(m, l, h, o, a),
         NEW Y, Unready(Z, Y, j, a)
  PROVE  Owned(D, l, Y, B \cup {a}, L) /\ Added(D, m, Z, D, l, Y, f, j, a)
<1>0. j \in 0..3 /\ j + 1 \in 1..3 /\ j + 1 \in 0..3 /\ \A n \in 1..3 : n \in 0..3
  OBVIOUS
<1>1. ASSUME NEW g \in Files, NEW n \in 1..3, NEW b \in Level(n, D[g], m, Z) \cap Blocks, b # h
      PROVE  Sons(b, l, Y) = Sons(b, m, Z)
  <2>1. b \in B
    BY <1>0, TreeAllocated
  <2>. QED
    BY <1>1, <2>1 DEF Sons, Unready, BelowSet
<1>2. h \in B /\ h # a
  BY <1>0, TreeAllocated
<1>3. Sons(h, l, Y) = Sons(h, m, Z) \cup {a}
  <2>1. h \notin Y /\ a # 0
    BY <1>2, Numbers DEF Unready
  <2>. QED
    BY <2>1 DEF Sons, BelowSet
<1>4. j > 0 => Sons(a, l, Y) = {}
  BY DEF Sons, Unready
<1>5. \A g \in Files, n \in 0..3 : h \in Level(n, D[g], m, Z) => g = f /\ n = j + 1
  BY <1>0, LevelsApart
<1>6. Grown(D[f], m, Z, D[f], l, Y, j, a)
  <2>1. \A n \in 1..3 : h \in Level(n, D[f], m, Z) => n = j + 1
    BY <1>0, <1>5
  <2>2. \A n \in 1..3 : \A b \in (Level(n, D[f], m, Z) \cap Blocks) \ {h} :
             Sons(b, l, Y) = Sons(b, m, Z)
    BY <1>1
  <2>. QED
    BY <1>3, <1>4, <2>1, <2>2, GrowBelow
<1>7. ASSUME NEW g \in Files \ {f}
      PROVE  \A n \in 0..3 : Level(n, D[g], l, Y) = Level(n, D[g], m, Z)
  <2>1. ASSUME NEW n \in 1..3, NEW b \in Level(n, D[g], m, Z) \cap Blocks
        PROVE  Sons(b, l, Y) = Sons(b, m, Z)
    <3>1. h \notin Level(n, D[g], m, Z)
      BY <1>0, <1>5
    <3>. QED
      BY <1>1, <3>1
  <2>. QED
    BY <2>1, SameLevels
<1>8. Added(D, m, Z, D, l, Y, f, j, a)
  <2>1. ASSUME NEW g \in Files, NEW n \in 0..3, g = f
        PROVE  Level(n, D[g], l, Y) = Level(n, D[g], m, Z) \cup
                                    (IF g = f /\ n = j THEN {a} ELSE {})
    BY <1>6, <2>1 DEF Grown
  <2>2. ASSUME NEW g \in Files, NEW n \in 0..3, g # f
        PROVE  Level(n, D[g], l, Y) = Level(n, D[g], m, Z) \cup
                                    (IF g = f /\ n = j THEN {a} ELSE {})
    BY <1>7, <2>2
  <2>. QED
    BY <2>1, <2>2 DEF Added
<1>9. Owned(D, l, Y, B \cup {a}, L)
  <2> DEFINE q == <<f, h, o>>
  <2>1. /\ q \in References /\ q[1] = f /\ q[2] = h
        /\ Target(q, D, m) = 0 /\ Target(q, D, l) = a
    BY Numbers DEF References, Target, BelowSet
  <2>2. h \in Inner(D[f], m, Z)
    <3>1. j + 1 = 1 \/ j + 1 = 2 \/ j + 1 = 3
      BY <1>0
    <3>. QED
      BY <3>1 DEF Inner
  <2>3. \A r \in References \ {q} :
          r[2] = 0 \/ r[2] \in Inner(D[r[1]], m, Z) \ Z => Target(r, D, l) = Target(r, D, m)
    <3>1. ASSUME NEW r \in References, r # q, r[2] # 0, r[2] \in Inner(D[r[1]], m, Z)
          PROVE  l[r[2]][r[3]] = m[r[2]][r[3]]
      <4>1. PICK g \in Files, b \in Blocks, i \in Offsets : r = <<g, b, i>>
        BY <3>1 DEF References
      <4>2. CASE b # h
        BY <4>1, <4>2 DEF BelowSet
      <4>3. CASE b = h /\ i # o
        BY <4>1, <4>3 DEF BelowSet
      <4>4. CASE b = h /\ i = o
        <5>1. g # f /\ h \in Inner(D[g], m, Z)
          BY <3>1, <4>1, <4>4
        <5>2. PICK n \in 0..3 : h \in Level(n, D[g], m, Z)
          BY <5>1, 1 \in 0..3, 2 \in 0..3, 3 \in 0..3 DEF Inner
        <5>. QED
          BY <1>5, <5>1, <5>2
      <4>. QED
        BY <4>2, <4>3, <4>4
    <3>. QED
      BY <3>1 DEF Target
  <2> HIDE DEF q
  <2>4. NewPointer(D, m, Z, D, l, q, a)
    BY <2>1, <2>2, <2>3 DEF NewPointer
  <2>. QED
    BY <1>0, <1>8, <2>4, NewOwner
<1>. QED
  BY <1>8, <1>9

\* An allocation, of a block of data or of an indirect block.
LEMMA AllocateKeeps ==
  ASSUME Good, NEW t \in Tasks, Allocate(t), clash = "none", clash' = "none"
  PROVE  Good'
<1> DEFINE h == call[t].holder
           p == call[t].path
           f == file[t]
           a == Min(Blocks \ bitmap)
           j == Len(p) - 1
<1>1. /\ TypeOK /\ Data \in Inodes /\ blk \in Words /\ pos \in [Tasks -> Nat]
      /\ inode \in [Files -> [size : Nat, data : [Pointers -> Nat]]]
      /\ call \in [Tasks -> Calls] /\ file \in [Tasks -> Files] /\ ClearOnce /\ Alone
      /\ garbled \in SUBSET Blocks
      /\ Owned(Data, blk, Uncleared, bitmap, lost)
      /\ \A g \in Files, n \in 0..3 : On(g, n) = Level(n, Data[g], blk, Uncleared)
  BY Typed DEF Good, TypeOK, Owner
<1>2. /\ call[t].pc = "alloc" /\ Pointer(f, h, Head(p)) = 0 /\ bitmap # Blocks
      /\ bitmap' = bitmap \cup {a} /\ lost' = lost /\ file' = file /\ pos' = pos
      /\ garbled' = garbled
      /\ \/ /\ h = 0 /\ blk' = blk
            /\ inode' = [inode EXCEPT ![f].data[Head(p)] = a]
         \/ /\ h # 0 /\ inode' = inode
            /\ blk' = [blk EXCEPT ![h][Head(p)] = a]
      /\ call' = [call EXCEPT ![t] = AfterAlloc(call[t], a)]
  BY DEF Allocate, alloc_block, Goto, Clash
<1>3. /\ call[t].pc \in Walking /\ call[t] \in WalkCalls /\ h \in Nat /\ p \in Seq(Nat)
      /\ Leads(f, h, p) /\ call[t].n <= call[t].len /\ h \notin Uncleared /\ f \in Files
      /\ call[t].n \in Nat /\ call[t].len \in Nat /\ call[t].op \in {"read", "write"}
  <2>1. call[t].pc \in Walking
    BY <1>2 DEF Walking
  <2>. QED
    BY <1>2, <2>1, WayForm DEF OnWay
<1>4. /\ p # <<>> /\ Len(p) \in 1..4 /\ Head(p) = p[1]
      /\ h = 0 => p[1] \in Pointers /\ Depth(p[1]) = j
      /\ h # 0 => p[1] \in Offsets /\ h \in Blocks /\ Len(p) \in 1..3 /\ h \in On(f, Len(p))
      /\ Tail(p) \in Seq(Nat) /\ Len(Tail(p)) = j
      /\ \A i \in 1..j : Tail(p)[i] \in Offsets
  BY <1>3, LeadsForm
<1>5. a \in Blocks \ bitmap /\ a \in Nat \ {0} /\ bitmap \subseteq Blocks
  <2>1. Blocks \subseteq Nat \ {0} /\ bitmap \subseteq Blocks
    BY <1>1, Numbers DEF TypeOK
  <2>2. Blocks \ bitmap \in SUBSET Nat /\ Blocks \ bitmap # {}
    BY <1>2, <2>1
  <2>3. a \in Blocks \ bitmap
    BY <2>2, MinInSet
  <2>. QED
    BY <2>1, <2>3
<1> HIDE DEF a
<1>6. j \in 0..3 /\ j = Len(p) - 1 /\ Len(p) = j + 1
  BY <1>4
<1> HIDE DEF j
<1>j. j \in 0..3
  BY <1>6
<1>7. PICK c \in Calls : /\ call' = [call EXCEPT ![t] = c] /\ c.holder = a /\ c.path = Tail(p)
                         /\ c.n <= c.len
                         /\ j = 0 => c.pc = "copy"
                         /\ j > 0 => c.pc = "clear"
  <2> DEFINE q == IF Len(p) = 1 THEN "copy" ELSE "clear"
             c == Walk(q, call[t].op, call[t].len, call[t].n, a, Tail(p))
  <2>1. AfterAlloc(call[t], a) = c
    BY <1>3, <1>4, <1>5, AfterAllocIs
  <2>2. q \in Walking
    BY DEF Walking
  <2>3. c \in Calls
    <3> HIDE DEF q
    <3>. QED
      BY <1>3, <1>4, <1>5, <2>2, CallsMade
  <2>4. c.pc = q /\ c.holder = a /\ c.path = Tail(p) /\ c.n = call[t].n /\ c.len = call[t].len
    <3> HIDE DEF q
    <3>. QED
      BY DEF Walk
  <2>5. (j = 0 => q = "copy") /\ (j > 0 => q = "clear")
    <3>1. (j = 0 => Len(p) = 1) /\ (j > 0 => Len(p) # 1)
      <4> HIDE DEF p, q
      <4>. QED
        BY <1>6
    <3>. QED
      BY <3>1
  <2> HIDE DEF c, q
  <2>6. call' = [call EXCEPT ![t] = c]
    BY <1>2, <2>1
  <2>7. (j = 0 => c.pc = "copy") /\ (j > 0 => c.pc = "clear")
    BY <2>4, <2>5
  <2>. QED
    BY <1>3, <2>3, <2>4, <2>6, <2>7
<1>8. /\ j > 0 => /\ \A u \in Tasks : call'[u].pc = "clear" <=> call[u].pc = "clear" \/ u = t
                  /\ ClearOnce' /\ Uncleared' = Uncleared \cup {a}
      /\ j = 0 => /\ \A u \in Tasks : call'[u].pc = "clear" <=> call[u].pc = "clear"
                  /\ ClearOnce' /\ Uncleared' = Uncleared
  <2>1. /\ call'[t] = c /\ \A u \in Tasks \ {t} : call'[u] = call[u]
    BY <1>1, <1>7
  <2>2. ASSUME NEW u \in Tasks, call[u].pc = "clear" PROVE call[u].holder # a
    <3>1. call[u].pc \in Walking
      BY <2>2 DEF Walking
    <3>2. Leads(file[u], call[u].holder, call[u].path) /\ call[u].holder # 0 /\ file[u] \in Files
      BY <1>1, <2>2, <3>1, WayForm DEF OnWay
    <3>3. /\ Len(call[u].path) \in 0..3
          /\ call[u].holder \in On(file[u], Len(call[u].path))
      BY <3>2 DEF Leads
    <3>4. call[u].holder \in bitmap
      BY <3>2, <3>3, OnApart
    <3>. QED
      BY <1>5, <3>4
  <2>3. CASE j > 0
    <3>1. c.pc = "clear" /\ c.holder = a
      BY <1>7, <2>3
    <3>2. \A u \in Tasks : call'[u].pc = "clear" <=> call[u].pc = "clear" \/ u = t
      BY <2>1, <3>1
    <3>3. ClearOnce'
      BY <1>1, <2>1, <2>2, <3>1 DEF ClearOnce
    <3>4. ASSUME NEW y PROVE y \in Uncleared' <=> y \in Uncleared \/ y = a
      BY <1>2, <2>1, <3>1 DEF Uncleared
    <3>5. Uncleared' = Uncleared \cup {a}
      BY <3>4
    <3>. QED
      BY <1>j, <2>3, <3>2, <3>3, <3>5
  <2>4. CASE j = 0
    <3>1. c.pc = "copy"
      BY <1>7, <2>4
    <3>2. \A u \in Tasks : call'[u].pc = "clear" <=> call[u].pc = "clear"
      BY <1>2, <2>1, <3>1
    <3>3. ClearOnce'
      BY <1>1, <2>1, <3>1 DEF ClearOnce
    <3>4. ASSUME NEW y PROVE y \in Uncleared' <=> y \in Uncleared
      BY <1>2, <2>1, <3>1 DEF Uncleared
    <3>5. Uncleared' = Uncleared
      BY <3>4
    <3>. QED
      BY <1>j, <2>4, <3>2, <3>3, <3>5
  <2>. QED
    BY <1>j, <2>3, <2>4
<1>9. ClearOnce' /\ Alone' /\ Unready(Uncleared, Uncleared', j, a)
  <2>1. j = 0 \/ j > 0
    BY <1>j
  <2>2. Entitled(t, c)
    BY <1>3, <1>7, <2>1 DEF Entitled
  <2>3. Alone'
    BY <1>1, <1>2, <1>7, <2>2, AloneStays
  <2>. QED
    BY <1>8, <2>1, <2>3 DEF Unready
<1>10. /\ Data' \in Inodes /\ blk' \in Words
       /\ inode' \in [Files -> [size : Nat, data : [Pointers -> Nat]]]
       /\ Owned(Data', blk', Uncleared', bitmap \cup {a}, lost)
       /\ Added(Data, blk, Uncleared, Data', blk', Uncleared', f, j, a)
  <2>1. CASE h = 0
    <3>1. /\ p[1] \in Pointers /\ Depth(p[1]) = j /\ blk' = blk
          /\ inode' = [inode EXCEPT ![f].data[p[1]] = a]
      BY <1>2, <1>4, <2>1
    <3>2. /\ inode' \in [Files -> [size : Nat, data : [Pointers -> Nat]]]
          /\ inode'[f].data[p[1]] = a
          /\ \A i \in Pointers \ {p[1]} : inode'[f].data[i] = inode[f].data[i]
          /\ \A g \in Files \ {f} : inode'[g] = inode[g]
      BY <1>1, <1>3, <1>5, <3>1
    <3>3. Data' = [g \in Files |-> inode'[g].data] /\ Data = [g \in Files |-> inode[g].data]
      BY DEF Data
    <3>4. /\ Data' \in Inodes
          /\ Data'[f][p[1]] = a /\ \A i \in Pointers \ {p[1]} : Data'[f][i] = Data[f][i]
          /\ \A g \in Files \ {f} : Data'[g] = Data[g]
      BY <1>3, <3>2, <3>3 DEF Inodes
    <3>5. Data[f][p[1]] = 0
      BY <1>2, <1>3, <1>4, <2>1, <3>3 DEF Pointer
    <3>6. TopSet(Data[f], Data'[f], p[1], a)
      BY <3>4, <3>5 DEF TopSet
    <3>7. ASSUME NEW E \in Inodes, NEW Y, NEW k \in Pointers, TopSet(Data[f], E[f], k, a),
                 \A g \in Files \ {f} : E[g] = Data[g], Unready(Uncleared, Y, Depth(k), a)
          PROVE  /\ Owned(E, blk, Y, bitmap \cup {a}, lost)
                 /\ Added(Data, blk, Uncleared, E, blk, Y, f, Depth(k), a)
      BY <1>1, <1>3, <1>5, <3>7, NewTop
    <3>8. /\ Owned(Data', blk, Uncleared', bitmap \cup {a}, lost)
          /\ Added(Data, blk, Uncleared, Data', blk, Uncleared', f, j, a)
      BY <1>9, <3>1, <3>4, <3>6, <3>7
    <3>. QED
      BY <1>1, <3>1, <3>2, <3>4, <3>8
  <2>2. CASE h # 0
    <3>1. /\ p[1] \in Offsets /\ h \in Blocks /\ j \in 0..2 /\ h \in On(f, j + 1) /\ inode' = inode
          /\ blk' = [blk EXCEPT ![h][p[1]] = a]
      <4>1. Len(p) \in 1..3 /\ Len(p) = j + 1
        BY <1>4, <1>6, <2>2
      <4>2. j \in 0..2 /\ h \in On(f, j + 1)
        BY <1>4, <1>j, <2>2, <4>1
      <4>. QED
        BY <1>2, <1>4, <2>2, <4>2
    <3>2. blk[h][p[1]] = 0
      BY <1>2, <1>4, <2>2 DEF Pointer
    <3>3. /\ blk' \in Words /\ blk'[h][p[1]] = a
          /\ \A i \in Offsets \ {p[1]} : blk'[h][i] = blk[h][i]
          /\ \A b \in Blocks \ {h} : blk'[b] = blk[b]
      BY <1>1, <1>5, <3>1 DEF Words
    <3>4. Data' = Data
      BY <3>1 DEF Data
    <3>5. h \in Level(j + 1, Data[f], blk, Uncleared)
      <4>1. j + 1 \in 0..3
        BY <3>1
      <4>. QED
        BY <1>1, <1>3, <3>1, <4>1
    <3>s. BelowSet(blk, blk', h, p[1], a)
      BY <3>2, <3>3 DEF BelowSet
    <3>6. ASSUME NEW l \in Words, NEW Y, NEW o \in Offsets, BelowSet(blk, l, h, o, a),
                 Unready(Uncleared, Y, j, a)
          PROVE  /\ Owned(Data, l, Y, bitmap \cup {a}, lost)
                 /\ Added(Data, blk, Uncleared, Data, l, Y, f, j, a)
      BY <1>1, <1>3, <1>5, <3>1, <3>5, <3>6, NewBelow
    <3>7. /\ Owned(Data, blk', Uncleared', bitmap \cup {a}, lost)
          /\ Added(Data, blk, Uncleared, Data, blk', Uncleared', f, j, a)
      BY <1>9, <3>1, <3>3, <3>s, <3>6
    <3>. QED
      BY <1>1, <3>1, <3>3, <3>4, <3>7
  <2>. QED
    BY <2>1, <2>2
<1>11. Owner'
  BY <1>2, <1>10 DEF Owner
<1>12. TypeOK'
  <2>1. call' \in [Tasks -> Calls] /\ bitmap' \in SUBSET Blocks
    BY <1>1, <1>2, <1>5, <1>7
  <2>. QED
    BY <1>1, <1>2, <1>10, <2>1 DEF TypeOK, Words
<1>13. /\ \A g \in Files, n \in 0..3 : On(g, n) \subseteq On(g, n)'
       /\ \A g \in Files, n \in 0..3 : g = f /\ n = j => a \in On(g, n)'
  <2>1. \A g \in Files, n \in 0..3 : On(g, n)' = Level(n, Data'[g], blk', Uncleared')
    BY DEF On, Data
  <2>2. ASSUME NEW g \in Files, NEW n \in 0..3
        PROVE  Level(n, Data'[g], blk', Uncleared') = On(g, n) \cup
                   (IF g = f /\ n = j THEN {a} ELSE {})
    BY <1>1, <1>10 DEF Added
  <2>. QED
    BY <2>1, <2>2
<1>14. OnWay(f, c)'
  <2>1. ASSUME NEW g \in Files, g = f PROVE OnWay(g, c)'
    <3>1. CASE j = 0
      <4>1. c.pc = "copy" /\ c.n <= c.len /\ c.holder = a
        BY <1>7, <3>1
      <4>2. \A n \in 0..3 : n = 0 => a \in On(g, n)'
        BY <1>13, <2>1, <3>1
      <4>3. c.holder \in On(g, 0)'
        BY <4>1, <4>2
      <4>. QED
        BY <4>1, <4>3 DEF OnWay
    <3>2. CASE j > 0
      <4>1. c.pc = "clear" /\ c.n <= c.len /\ c.holder = a /\ c.path = Tail(p)
        BY <1>7, <3>2
      <4>2. Len(c.path) = j /\ Len(c.path) \in 1..3
            /\ \A i \in 1..Len(c.path) : c.path[i] \in Offsets
        BY <1>4, <1>j, <3>2, <4>1
      <4>3. \A n \in 0..3 : n = Len(c.path) => c.holder \in On(g, n)'
        BY <1>13, <2>1, <4>1, <4>2
      <4>4. c.holder \in Blocks /\ c.holder # 0 /\ c.holder \in On(g, Len(c.path))'
        <5>1. c.holder \in Blocks /\ c.holder # 0
          BY <1>5, <4>1
        <5>2. PICK n \in 0..3 : n = Len(c.path)
          BY <4>2
        <5>3. c.holder \in On(g, n)'
          BY <4>3, <5>2
        <5>4. On(g, Len(c.path))' = On(g, n)'
          BY <5>2
        <5>. QED
          BY <5>1, <5>3, <5>4
      <4>5. Leads(g, c.holder, c.path)'
        BY <4>2, <4>4 DEF Leads
      <4>. QED
        BY <4>1, <4>4, <4>5 DEF OnWay
    <3>. QED
      BY <1>j, <3>1, <3>2
  <2>. QED
    BY <1>2, <1>3, <2>1
<1>15. (\A u \in Tasks : OnTheWay(u))'
  <2>1. ASSUME NEW u \in Tasks \ {t}, call[u].pc = "alloc" PROVE call[u].holder \notin Uncleared'
    <3>1. call[u].pc \in Walking
      BY <2>1 DEF Walking
    <3>2. Leads(file[u], call[u].holder, call[u].path) /\ file[u] \in Files
          /\ call[u].holder \notin Uncleared
      BY <1>1, <2>1, <3>1, WayForm DEF OnWay
    <3>3. call[u].holder # a
      <4>1. CASE call[u].holder = 0
        BY <1>5, <4>1
      <4>2. CASE call[u].holder # 0
        <5>1. /\ Len(call[u].path) \in 0..3
              /\ call[u].holder \in On(file[u], Len(call[u].path))
          BY <3>2, <4>2 DEF Leads
        <5>2. call[u].holder \in bitmap
          BY <3>2, <5>1, OnApart
        <5>. QED
          BY <1>5, <5>2
      <4>. QED
        BY <4>1, <4>2
    <3>. QED
      BY <1>j, <1>8, <3>2, <3>3
  <2>2. \A u \in Tasks \ {t} : call[u].pc \in Walking
             => \A n \in 0..3 : On(file[u], n) \subseteq On(file[u], n)'
    <3>1. ASSUME NEW u \in Tasks, NEW n \in 0..3 PROVE On(file[u], n) \subseteq On(file[u], n)'
      <4>1. file[u] \in Files /\ file'[u] = file[u]
        BY <1>1, <1>2
      <4>2. \A g \in Files : On(g, n) \subseteq On(g, n)'
        BY <1>13
      <4>. QED
        BY <4>1, <4>2
    <3>. QED
      BY <3>1
  <2>3. OnWay(file[t], c)'
    BY <1>2, <1>14
  <2>4. \A u \in Tasks \ {t} : Truncates(u) => Descended(file[u], call[u].path)'
    <3>1. ElsewhereSame(file[t])
      <4>1. \A b \in bitmap : b # h => (b \in Uncleared' <=> b \in Uncleared)
        BY <1>5, <1>j, <1>8
      <4>2. h = 0 \/ \E n \in 0..3 : h \in On(file[t], n)
        BY <1>4, 1..3 \subseteq 0..3
      <4>3. \A b \in Blocks : b # h => blk'[b] = blk[b]
        BY <1>1, <1>2 DEF Words
      <4>4. \A g \in Files \ {f} : inode'[g].data = inode[g].data
        BY <1>1, <1>2, <1>3
      <4>. QED
        BY <1>3, <4>1, <4>2, <4>3, <4>4, Elsewhere
    <3>. QED
      BY <1>2, <1>3, <1>7, <3>1, RestDescends
  <2>. QED
    BY <1>2, <1>7, <2>1, <2>2, <2>3, <2>4, RestOnWay
<1>. QED
  BY <1>9, <1>11, <1>12, <1>15 DEF Good

-----------------------------------------------------------------------------
(* Truncation.                                                              *)

\* Nothing outside file f happens: its tree stays as it is.
LEMMA ElsewhereOn ==
  ASSUME Good, NEW f \in Files, ElsewhereSame(f)
  PROVE  \A g \in Files \ {f}, n \in 0..3 : On(g, n)' = On(g, n)
<1>1. ASSUME NEW g \in Files \ {f}
      PROVE  \A n \in 0..3 : On(g, n)' = On(g, n)
  <2> DEFINE d == inode[g].data
             e == inode'[g].data
  <2>1. e = d /\ \A n \in 1..3 : \A b \in On(g, n) :
             blk'[b] = blk[b] /\ (b \in Uncleared' <=> b \in Uncleared)
    BY DEF ElsewhereSame
  <2>2. \A n \in 0..3 : On(g, n) = Level(n, d, blk, Uncleared)
    BY DEF On
  <2>3. \A n \in 0..3 : On(g, n)' = Level(n, e, blk', Uncleared')
    BY DEF On
  <2>4. \A n \in 1..3 : \A b \in Level(n, d, blk, Uncleared) \cap Blocks :
          Sons(b, blk', Uncleared') = Sons(b, blk, Uncleared)
    <3>1. 1..3 \subseteq 0..3
      OBVIOUS
    <3>. QED
      BY <2>1, <2>2, <3>1 DEF Sons
  <2> HIDE DEF d, e
  <2>5. ASSUME NEW l, NEW Y, NEW m, NEW Z,
               \A n \in 1..3 : \A b \in Level(n, d, m, Z) \cap Blocks : Sons(b, l, Y) = Sons(b, m, Z)
        PROVE  \A n \in 0..3 : Level(n, d, l, Y) = Level(n, d, m, Z)
    BY <2>5, SameLevels
  <2>6. \A n \in 0..3 : Level(n, d, blk', Uncleared') = Level(n, d, blk, Uncleared)
    BY <2>4, <2>5
  <2>. QED
    BY <2>1, <2>2, <2>3, <2>6
<1>. QED
  BY <1>1

\* A step of a truncation that takes a pointer and what it led to from its file.
LEMMA CutKeeps ==
  ASSUME Good, NEW t \in Tasks, Truncates(t), NEW c \in Calls, c.pc \in {"truncate", "failed"},
         call' = [call EXCEPT ![t] = c], file' = file, pos' = pos, garbled' = garbled,
         NEW S \in SUBSET Blocks, NEW F \in SUBSET S, NEW r,
         bitmap' = bitmap \ F, lost' = lost \cup (S \ F), blk' \in Words,
         inode' \in [Files -> [size : Nat, data : [Pointers -> Nat]]],
         CutOff(Data, blk, Uncleared, Data', blk', r, S),
         Uncleared' = Uncleared => ElsewhereSame(file[t]),
         Uncleared' = Uncleared /\ c.pc = "truncate" => Descended(file[t], c.path)'
  PROVE  Good'
<1>1. /\ TypeOK /\ ClearOnce /\ Alone /\ Data \in Inodes /\ blk \in Words
      /\ call \in [Tasks -> Calls] /\ file \in [Tasks -> Files] /\ pos \in [Tasks -> Nat]
      /\ garbled \in SUBSET Blocks /\ bitmap \in SUBSET Blocks /\ lost \in SUBSET Blocks
      /\ Owned(Data, blk, Uncleared, bitmap, lost)
  BY Typed DEF Good, TypeOK, Owner
<1>2. /\ call[t].pc = "truncate" /\ c.pc \notin Walking /\ call'[t] = c
      /\ \A u \in Tasks \ {t} : call'[u] = call[u]
  BY <1>1 DEF Truncates, Walking
<1>3. Uncleared' = Uncleared /\ ClearOnce' /\ Alone'
  <2>1. \A u \in Tasks : /\ call'[u].pc = "clear" <=> call[u].pc = "clear"
                         /\ call[u].pc = "clear" => call'[u] = call[u]
    BY <1>2 DEF Walking
  <2>2. Entitled(t, c)
    BY <1>2 DEF Entitled
  <2>3. Alone'
    BY <1>1, <2>2, AloneStays
  <2>. QED
    BY <1>1, <2>1, <2>3 DEF Uncleared, ClearOnce
<1>4. Data' \in Inodes
  BY DEF Data, Inodes
<1>5. Owned(Data', blk', Uncleared, bitmap', lost')
  <2>1. ASSUME NEW E \in Inodes, NEW l \in Words, NEW B, NEW L, Owned(Data, blk, Uncleared, B, L),
               CutOff(Data, blk, Uncleared, E, l, r, S)
        PROVE  Owned(E, l, Uncleared, B \ F, L \cup (S \ F))
    BY <1>1, <2>1, CutOwner
  <2>. QED
    BY <1>1, <1>4, <2>1
<1>6. Owner'
  BY <1>3, <1>5 DEF Owner
<1>7. TypeOK'
  BY <1>1, <1>2 DEF TypeOK, Words
<1>8. ElsewhereSame(file[t]) /\ file[t] \in Files
  BY <1>1, <1>3
<1>9. (\A u \in Tasks : OnTheWay(u))'
  <2>1. ASSUME NEW u \in Tasks \ {t}, call[u].pc \in Walking, NEW n \in 0..3
        PROVE  On(file[u], n) \subseteq On(file[u], n)'
    <3>1. file[u] \in Files \ {file[t]} /\ file'[u] = file[u]
      BY <1>1, <2>1 DEF Alone
    <3>2. \A g \in Files \ {file[t]} : On(g, n)' = On(g, n)
      BY <1>8, ElsewhereOn
    <3>. QED
      BY <3>1, <3>2
  <2>2. \A u \in Tasks \ {t} : call[u].pc = "alloc" => call[u].holder \notin Uncleared'
    BY <1>3 DEF Good, OnTheWay, OnWay
  <2>3. \A u \in Tasks \ {t} : Truncates(u) => Descended(file[u], call[u].path)'
    BY <1>2, <1>8, RestDescends
  <2>4. OnWay(file[t], c)'
    BY <1>1, <1>2, <1>3 DEF OnWay, Walking
  <2>. QED
    BY <2>1, <2>2, <2>3, <2>4, RestOnWay
<1>. QED
  BY <1>3, <1>6, <1>7, <1>9 DEF Good

\* One pointer is set to 0: o in the inode of f, where h = 0, or in block h.
CutAt(f, h, o) ==
    IF h = 0 THEN inode' = [inode EXCEPT ![f].data[o] = 0] /\ blk' = blk
    ELSE blk' = [blk EXCEPT ![h][o] = 0] /\ inode' = inode

\* Where it led to has no pointers itself: what follows from that.
LeadsTo(f, h, o, b) ==
    <<f, h, o>> \in Refs(Data, blk, Uncleared) /\ Target(<<f, h, o>>, Data, blk) = b
NoneIn(b) == \A s \in Refs(Data, blk, Uncleared) : s[2] # b
CutsOne(f, h, o, b) ==
    /\ CutOff(Data, blk, Uncleared, Data', blk', <<f, h, o>>, {b})
    /\ inode' \in [Files -> [size : Nat, data : [Pointers -> Nat]]] /\ blk' \in Words
    /\ b \in Blocks /\ (Uncleared' = Uncleared => ElsewhereSame(f))
    /\ \A x \in Blocks : x # h => blk'[x] = blk[x]

LEMMA OneCut ==
  ASSUME Good, NEW f \in Files, NEW h, NEW o, CutAt(f, h, o), NEW b, LeadsTo(f, h, o, b), NoneIn(b)
  PROVE  CutsOne(f, h, o, b)
<1> DEFINE r == <<f, h, o>>
<1>0. /\ r \in Refs(Data, blk, Uncleared) /\ Target(r, Data, blk) = b
      /\ \A s \in Refs(Data, blk, Uncleared) : s[2] # b
  BY DEF LeadsTo, NoneIn
<1>1. /\ Data \in Inodes /\ blk \in Words /\ Owned(Data, blk, Uncleared, bitmap, lost)
      /\ inode \in [Files -> [size : Nat, data : [Pointers -> Nat]]]
      /\ Data = [g \in Files |-> inode[g].data] /\ Data' = [g \in Files |-> inode'[g].data]
  BY Typed DEF Good, TypeOK, Owner, Data
<1>2. /\ r \in References /\ r[1] = f /\ r[2] = h /\ r[3] = o
      /\ (h = 0 /\ o \in Pointers) \/ (h \in Blocks /\ h # 0 /\ o \in Offsets)
  <2>1. r \in References
    BY <1>0 DEF Refs
  <2>2. 0 \notin Blocks
    BY Numbers
  <2>3. \/ \E g \in Files, k \in Pointers : r = <<g, 0, k>>
        \/ \E g \in Files, x \in Blocks, i \in Offsets : r = <<g, x, i>>
    BY <2>1 DEF References
  <2>4. r[1] = f /\ r[2] = h /\ r[3] = o
    OBVIOUS
  <2> HIDE DEF r
  <2>5. ASSUME NEW g, NEW x, NEW i, r = <<g, x, i>> PROVE x = h /\ i = o
    BY <2>4, <2>5
  <2>6. (\E k \in Pointers : h = 0 /\ o = k) \/ (\E x \in Blocks, i \in Offsets : h = x /\ o = i)
    BY <2>3, <2>5
  <2>. QED
    BY <2>1, <2>2, <2>4, <2>6
<1>3. /\ inode' \in [Files -> [size : Nat, data : [Pointers -> Nat]]] /\ blk' \in Words
      /\ \A x \in Blocks : x # h => blk'[x] = blk[x]
      /\ \A g \in Files \ {f} : inode'[g] = inode[g]
      /\ \A g \in Files : \A k \in Pointers :
           inode'[g].data[k] = IF h = 0 /\ g = f /\ k = o THEN 0 ELSE inode[g].data[k]
      /\ \A x \in Blocks : \A i \in Offsets :
           blk'[x][i] = IF x = h /\ i = o THEN 0 ELSE blk[x][i]
  <2>1. CASE h = 0
    <3>1. inode' = [inode EXCEPT ![f].data[o] = 0] /\ blk' = blk /\ o \in Pointers /\ h \notin Blocks
      BY <1>2, <2>1, Numbers DEF CutAt
    <3>. QED
      BY <1>1, <2>1, <3>1
  <2>2. CASE h # 0
    <3>1. blk' = [blk EXCEPT ![h][o] = 0] /\ inode' = inode /\ h \in Blocks /\ o \in Offsets
      BY <1>2, <2>2 DEF CutAt
    <3>. QED
      BY <1>1, <2>2, <3>1 DEF Words
  <2>. QED
    BY <2>1, <2>2
<1>4. Target(r, Data', blk') = 0
  BY <1>1, <1>2, <1>3 DEF Target
<1>5. ASSUME NEW s \in References
      PROVE  /\ Target(s, Data', blk') \in {Target(s, Data, blk), 0}
             /\ s \in Refs(Data, blk, Uncleared) \ {r} => Target(s, Data', blk') = Target(s, Data, blk)
  <2>1. CASE \E g \in Files, k \in Pointers : s = <<g, 0, k>>
    <3>1. PICK g \in Files, k \in Pointers : s = <<g, 0, k>>
      BY <2>1
    <3>2. /\ Target(s, Data', blk') = inode'[g].data[k] /\ Target(s, Data, blk) = inode[g].data[k]
          /\ h = 0 /\ g = f /\ k = o => s = r
      BY <1>1, <3>1 DEF Target
    <3>3. inode'[g].data[k] = IF h = 0 /\ g = f /\ k = o THEN 0 ELSE inode[g].data[k]
      BY <1>3
    <3>. QED
      BY <3>2, <3>3
  <2>2. CASE \E g \in Files, x \in Blocks, i \in Offsets : s = <<g, x, i>>
    <3>1. PICK g \in Files, x \in Blocks, i \in Offsets : s = <<g, x, i>>
      BY <2>2
    <3>2. Target(s, Data', blk') = blk'[x][i] /\ Target(s, Data, blk) = blk[x][i]
      BY <3>1, Numbers DEF Target
    <3>3. blk'[x][i] = IF x = h /\ i = o THEN 0 ELSE blk[x][i]
      BY <1>3
    <3>4. ASSUME x = h, i = o, s \in Refs(Data, blk, Uncleared) PROVE s = r
      <4>1. Target(s, Data, blk) = Target(r, Data, blk)
        BY <3>1, <3>2, <3>4, Numbers DEF Target
      <4>. QED
        BY <1>0, <1>1, <3>4, <4>1 DEF Owned
    <3>. QED
      BY <3>2, <3>3, <3>4
  <2>. QED
    BY <2>1, <2>2 DEF References
<1>6. \A s \in Refs(Data, blk, Uncleared) : Target(s, Data, blk) \in {b} <=> s = r \/ s[2] \in {b}
  BY <1>0, <1>1 DEF Owned
<1>7. CutOff(Data, blk, Uncleared, Data', blk', r, {b})
  <2>1. r \in Refs(Data, blk, Uncleared) /\ Target(r, Data, blk) = b
    BY <1>0
  <2> HIDE DEF r
  <2>2. {b} \subseteq {Target(s, Data, blk) : s \in Refs(Data, blk, Uncleared)}
    BY <2>1
  <2>3. \A s \in References : Target(s, Data', blk') \in {Target(s, Data, blk), 0}
    BY <1>5
  <2>4. \A s \in Refs(Data, blk, Uncleared) \ {r} : Target(s, Data', blk') = Target(s, Data, blk)
    <3>1. \A s \in Refs(Data, blk, Uncleared) : s \in References
      BY DEF Refs
    <3>. QED
      BY <1>5, <3>1
  <2>. QED
    BY <1>4, <1>6, <2>1, <2>2, <2>3, <2>4 DEF CutOff
<1>8. b \in Blocks
  BY <1>0, <1>1 DEF Owned
<1>9. ASSUME Uncleared' = Uncleared PROVE ElsewhereSame(f)
  <2>1. h = 0 \/ \E n \in 0..3 : h \in On(f, n)
    <3>1. h # 0 => h \in Inner(Data[f], blk, Uncleared)
      BY <1>0, <1>2 DEF Refs
    <3>2. \A n \in 0..3 : On(f, n) = Level(n, Data[f], blk, Uncleared)
      BY Typed DEF Good
    <3>. QED
      BY <3>1, <3>2, 1 \in 0..3, 2 \in 0..3, 3 \in 0..3 DEF Inner
  <2>. QED
    BY <1>3, <1>9, <2>1, Elsewhere
<1>. QED
  BY <1>3, <1>7, <1>8, <1>9 DEF CutsOne

\* A path leads on from where it led with one pointer less.
LEMMA UpOne ==
  ASSUME Good, NEW f \in Files, NEW p \in Seq(Nat), p # <<>>, Descended(f, p)
  PROVE  LET g == Front(p)
             h == Inside(f, g)
             o == Last(p)
         IN  /\ g \in Seq(Nat) /\ Descended(f, g) /\ Len(g) = Len(p) - 1
             /\ Len(p) = 1 => g = <<>> /\ h = 0 /\ o = p[1]
             /\ Len(p) # 1 => g # <<>> /\ g[1] = p[1] /\ h # 0
             /\ <<f, h, o>> \in Refs(Data, blk, Uncleared)
             /\ Target(<<f, h, o>>, Data, blk) = block_of(f, p)
<1> DEFINE d == inode[f].data
<1>1. Chain(f, p) /\ block_of(f, p) # 0 /\ block_of(f, p) \notin Uncleared /\ TypeOK
  BY ChainOf DEF Good
<1>2. /\ Data \in Inodes /\ blk \in Words /\ Data[f] = d
      /\ Pointers \subseteq Nat /\ Offsets \subseteq Nat /\ 0 \notin Blocks
  BY <1>1, Typed, Numbers DEF Data
<1>3. CASE Chain1(f, p, d)
  <2>1. PICK k \in Pointers : p = <<k>> /\ block_of(f, p) = d[k]
    BY <1>3 DEF Chain1
  <2>2. Front(p) = <<>> /\ Last(p) = k /\ Len(p) = 1 /\ p[1] = k
    <3>1. p = Append(<<>>, k) /\ <<>> \in Seq(Nat) /\ k \in Nat
      BY <1>2, <2>1
    <3>. QED
      BY <2>1, <3>1, Longer
  <2>3. Inside(f, <<>>) = 0 /\ Descended(f, <<>>) /\ Len(<<>>) = 0 /\ <<>> \in Seq(Nat)
    BY DEF Inside, Descended
  <2>4. <<f, 0, k>> \in Refs(Data, blk, Uncleared) /\ Target(<<f, 0, k>>, Data, blk) = d[k]
    BY <1>1, <1>2, <2>1, LedTo DEF Target
  <2>. QED
    BY <2>1, <2>2, <2>3, <2>4
<1>4. CASE Chain2(f, p, d)
  <2>1. PICK k \in Pointers, a \in Offsets :
             /\ p = <<k, a>> /\ Depth(k) \in 2..3
             /\ d[k] \in On(f, Depth(k)) \ Uncleared /\ block_of(f, p) = blk[d[k]][a]
    BY <1>4 DEF Chain2
  <2>2. Front(p) = <<k>> /\ Last(p) = a /\ Len(p) = 2 /\ p[1] = k
    <3>1. p = Append(<<k>>, a) /\ <<k>> \in Seq(Nat) /\ a \in Nat
      BY <1>2, <2>1
    <3>. QED
      BY <2>1, <3>1, Longer
  <2>3. block_of(f, <<k>>) = d[k]
    BY DEF block_of
  <2>4. d[k] \in Blocks /\ d[k] # 0 /\ d[k] \notin Uncleared
    BY <2>1, OnApart, 2..3 \subseteq 0..3
  <2>5. Inside(f, <<k>>) = d[k] /\ Descended(f, <<k>>) /\ Len(<<k>>) = 1 /\ <<k>> \in Seq(Nat)
    <3>1. 1 \in 1..Depth(k)
      <4>1. \A x \in 2..3 : 1 \in 1..x
        OBVIOUS
      <4>. QED
        BY <2>1, <4>1
    <3>. QED
      BY <1>2, <2>3, <2>4, <3>1 DEF Inside, Descended
  <2>6. <<f, d[k], a>> \in Refs(Data, blk, Uncleared)
    <3>1. PICK n \in 0..2 : n + 1 = Depth(k)
      BY <2>1, 1 \in 0..2, 2 \in 0..2, 1 + 1 = 2, 2 + 1 = 3
    <3>. QED
      BY <1>1, <2>1, <2>4, <3>1, LedTo
  <2>7. Target(<<f, d[k], a>>, Data, blk) = blk[d[k]][a]
    BY <2>4 DEF Target
  <2>8. <<k>> # <<>> /\ <<k>>[1] = k /\ 1 = 2 - 1 /\ 2 # 1
    OBVIOUS
  <2>9. block_of(f, p) = blk[d[k]][a]
    BY <2>1
  <2> HIDE DEF d
  <2>. QED
    BY <2>2, <2>4, <2>5, <2>6, <2>7, <2>8, <2>9
<1>5. CASE Chain3(f, p, d)
  <2>1. PICK k \in Pointers, a, b \in Offsets :
             /\ p = <<k, a, b>> /\ Depth(k) = 3
             /\ d[k] \in On(f, 3) \ Uncleared /\ blk[d[k]][a] \in On(f, 2) \ Uncleared
             /\ block_of(f, p) = blk[blk[d[k]][a]][b]
    BY <1>5 DEF Chain3
  <2>2. Front(p) = <<k, a>> /\ Last(p) = b /\ Len(p) = 3 /\ p[1] = k
    <3>1. p = Append(<<k, a>>, b) /\ <<k, a>> \in Seq(Nat) /\ b \in Nat
      BY <1>2, <2>1
    <3>. QED
      BY <2>1, <3>1, Longer
  <2> DEFINE h == blk[d[k]][a]
  <2>3. d[k] # 0 /\ h \in Blocks /\ h # 0 /\ h \notin Uncleared
    BY <2>1, OnApart, 2 \in 0..3, 3 \in 0..3
  <2>4. block_of(f, <<k, a>>) = h
    BY <2>1, <2>3 DEF block_of, Step
  <2> HIDE DEF h
  <2>5. Inside(f, <<k, a>>) = h /\ Descended(f, <<k, a>>) /\ Len(<<k, a>>) = 2
        /\ <<k, a>> \in Seq(Nat)
    <3>1. 2 \in 1..Depth(k)
      BY <2>1
    <3>. QED
      BY <1>2, <2>3, <2>4, <3>1 DEF Inside, Descended
  <2>6. <<f, h, b>> \in Refs(Data, blk, Uncleared)
    BY <1>1, <2>1, <2>3, LedTo, 1 \in 0..2, 1 + 1 = 2 DEF h
  <2>7. Target(<<f, h, b>>, Data, blk) = blk[h][b]
    BY <2>3 DEF Target
  <2>8. block_of(f, p) = blk[h][b]
    BY <2>1 DEF h
  <2>9. <<k, a>> # <<>> /\ <<k, a>>[1] = k /\ 2 = 3 - 1 /\ 3 # 1
    OBVIOUS
  <2>. QED
    BY <2>2, <2>3, <2>5, <2>6, <2>7, <2>8, <2>9
<1>. QED
  BY <1>1, <1>3, <1>4, <1>5 DEF Chain

\* Cut() sets that pointer.
LEMMA CutIs ==
  ASSUME NEW f, NEW p \in Seq(Nat), Cut(f, p),
         Len(p) = 1 => Inside(f, Front(p)) = 0 /\ Last(p) = p[1],
         Len(p) # 1 => Inside(f, Front(p)) # 0
  PROVE  CutAt(f, Inside(f, Front(p)), Last(p))
<1>1. CASE Len(p) = 1
  BY <1>1 DEF Cut, CutAt
<1>2. CASE Len(p) # 1
  BY <1>2 DEF Cut, CutAt
<1>. QED
  BY <1>1, <1>2

\* No pointer is in a block of data.
LEMMA DataIsNoInner ==
  ASSUME Good, NEW f \in Files, NEW b \in On(f, 0)
  PROVE  NoneIn(b)
<1>1. ASSUME NEW s \in Refs(Data, blk, Uncleared), s[2] = b PROVE FALSE
  <2>1. b # 0 /\ s[1] \in Files
    <3>1. s \in References
      BY DEF Refs
    <3>. QED
      BY <3>1, OnApart, 0 \in 0..3 DEF References
  <2>2. b \in Inner(Data[s[1]], blk, Uncleared)
    BY <1>1, <2>1 DEF Refs
  <2>3. PICK n \in 1..3 : b \in On(s[1], n)
    <3>1. \A n \in 0..3 : On(s[1], n) = Level(n, Data[s[1]], blk, Uncleared)
      BY <2>1, Typed DEF Good
    <3>. QED
      BY <2>2, <3>1, 1 \in 1..3, 2 \in 1..3, 3 \in 1..3, 1..3 \subseteq 0..3 DEF Inner
  <2>4. n \in 0..3 /\ n # 0 /\ 0 \in 0..3
    OBVIOUS
  <2>. QED
    BY <2>1, <2>3, <2>4, OnApart
<1>. QED
  BY <1>1 DEF NoneIn

\* A truncation stays where it is when a pointer of the block in which it is changes.
LEMMA StaysInside ==
  ASSUME Good, NEW f \in Files, NEW p \in Seq(Nat), Descended(f, p), NEW o,
         CutAt(f, Inside(f, p), o), Uncleared' = Uncleared,
         \A x \in Blocks : x # Inside(f, p) => blk'[x] = blk[x]
  PROVE  Descended(f, p)'
<1>1. CASE p = <<>>
  BY <1>1 DEF Descended
<1>2. CASE p # <<>>
  <2>1. Inside(f, p) = block_of(f, p) /\ Inside(f, p) # 0
    BY <1>2, InsideIs
  <2>2. inode' = inode
    BY <2>1 DEF CutAt
  <2>3. \A n \in 1..3 : \A b \in On(f, n) : /\ b \in Uncleared' <=> b \in Uncleared
                                            /\ b # block_of(f, p) => blk'[b] = blk[b]
    <3>1. 1..3 \subseteq 0..3
      OBVIOUS
    <3>2. \A n \in 1..3 : \A b \in On(f, n) : b \in Blocks
      BY <3>1, OnApart
    <3>. QED
      BY <2>1, <3>2
  <2>. QED
    BY <2>2, <2>3, DescendedStays
<1>. QED
  BY <1>1, <1>2

\* What a truncation sets to 0, behind path p of file f.
LEMMA CutsNext ==
  ASSUME Good, NEW f \in Files, NEW p \in Seq(Nat), Descended(f, p), Left(f, p) # {},
         Cut(f, FirstLeft(f, p))
  PROVE  CutAt(f, Inside(f, p), Last(FirstLeft(f, p)))
<1>1. PICK q, h, o : q = FirstLeft(f, p) /\ h = Inside(f, p) /\ o = Last(q)
  OBVIOUS
<1>2. /\ q \in Seq(Nat) /\ Len(q) = Len(p) + 1 /\ Front(q) = p
      /\ p = <<>> => h = 0 /\ q = <<o>>
  BY <1>1, LeftIs
<1>3. p # <<>> => h # 0
  BY <1>1, InsideIs
<1>4. Len(q) = 1 => p = <<>>
  BY <1>2
<1>5. p = <<>> => Len(q) = 1 /\ q[1] = o
  BY <1>2
<1>6. Inside(f, Front(q)) = h /\ Last(q) = o /\ Cut(f, q)
  BY <1>1, <1>2
<1>7. CutAt(f, Inside(f, Front(q)), Last(q))
  BY <1>2, <1>3, <1>4, <1>5, <1>6, CutIs
<1>. QED
  BY <1>1, <1>6, <1>7

\* A block of data is taken from its file, whether its bit is set to 0 or not.
LEMMA FreeDataKeeps ==
  ASSUME Good, NEW t \in Tasks, FreeData(t) \/ FreeFails(t)
  PROVE  Good'
<1>1. PICK f, c : f = file[t] /\ c = call[t]
  OBVIOUS
<1>2. PICK p : p = c.path
  OBVIOUS
<1>3. /\ c \in Calls /\ c.pc = "truncate" /\ call \in [Tasks -> Calls]
      /\ p \in Seq(Nat) /\ f \in Files /\ Descended(f, p) /\ Truncates(t)
  <2>1. Truncates(t)
    BY DEF FreeData, FreeFails
  <2>. QED
    BY <1>1, <1>2, <2>1, TruncatingIn DEF Good, TypeOK
<1>4. PICK h, o, b : h = Inside(f, p) /\ o = Last(FirstLeft(f, p)) /\ b = block_of(f, FirstLeft(f, p))
  OBVIOUS
<1>5. /\ Left(f, p) # {} /\ ToData(FirstLeft(f, p)) /\ Cut(f, FirstLeft(f, p))
      /\ UNCHANGED <<garbled, file, pos, call>>
      /\ \/ bitmap' = bitmap \ {b} /\ lost' = lost
         \/ bitmap' = bitmap /\ lost' = lost \cup {b}
  BY <1>1, <1>2, <1>4 DEF FreeData, FreeFails
<1>6. /\ b \in On(f, 0) /\ <<f, h, o>> \in Refs(Data, blk, Uncleared)
      /\ Target(<<f, h, o>>, Data, blk) = b
  <2>1. Depth(FirstLeft(f, p)[1]) + 1 - Len(FirstLeft(f, p)) = 0
    BY <1>3, <1>5, LeftIs
  <2>. QED
    BY <1>3, <1>4, <1>5, <2>1, LeftIs
<1>7. CutAt(f, h, o)
  BY <1>3, <1>4, <1>5, CutsNext
<1>8. NoneIn(b)
  BY <1>3, <1>6, DataIsNoInner
<1>9. /\ CutOff(Data, blk, Uncleared, Data', blk', <<f, h, o>>, {b})
      /\ inode' \in [Files -> [size : Nat, data : [Pointers -> Nat]]] /\ blk' \in Words
      /\ b \in Blocks /\ (Uncleared' = Uncleared => ElsewhereSame(f))
      /\ \A x \in Blocks : x # h => blk'[x] = blk[x]
  <2>1. LeadsTo(f, h, o, b)
    BY <1>6 DEF LeadsTo
  <2>2. CutsOne(f, h, o, b)
    BY <1>3, <1>7, <1>8, <2>1, OneCut
  <2>. QED
    BY <2>2 DEF CutsOne
<1>10. Uncleared' = Uncleared => Descended(f, p)'
  BY <1>3, <1>4, <1>7, <1>9, StaysInside
<1>11. PICK F \in SUBSET {b} : bitmap' = bitmap \ F /\ lost' = lost \cup ({b} \ F)
  <2>1. CASE bitmap' = bitmap \ {b} /\ lost' = lost
    <3>1. {b} \in SUBSET {b} /\ lost' = lost \cup ({b} \ {b})
      BY <2>1
    <3>. QED
      BY <2>1, <3>1
  <2>2. CASE bitmap' = bitmap /\ lost' = lost \cup {b}
    <3>1. {} \in SUBSET {b} /\ lost' = lost \cup ({b} \ {}) /\ bitmap' = bitmap \ {}
      BY <2>2
    <3>. QED
      BY <3>1
  <2>. QED
    BY <1>5, <2>1, <2>2
<1>12. call' = [call EXCEPT ![t] = c] /\ file' = file /\ pos' = pos /\ garbled' = garbled
  BY <1>1, <1>3, <1>5
<1>13. PICK S \in SUBSET Blocks : S = {b}
  BY <1>9
<1>14. Uncleared' = Uncleared => ElsewhereSame(file[t])
  BY <1>1, <1>9
<1>15. Uncleared' = Uncleared /\ c.pc = "truncate" => Descended(file[t], c.path)'
  BY <1>1, <1>2, <1>10, <1>12
<1>16. CutOff(Data, blk, Uncleared, Data', blk', <<f, h, o>>, S)
  BY <1>9, <1>13
<1>. QED
  BY <1>3, <1>9, <1>11, <1>12, <1>13, <1>14, <1>15, <1>16, CutKeeps

\* The block in which t is leads nowhere any more: it is taken from its file.
LEMMA LeaveKeeps ==
  ASSUME Good, NEW t \in Tasks, Leave(t)
  PROVE  Good'
<1>1. PICK f, c : f = file[t] /\ c = call[t]
  OBVIOUS
<1>2. PICK p : p = c.path
  OBVIOUS
<1>3. /\ c \in Calls /\ c.pc = "truncate" /\ call \in [Tasks -> Calls]
      /\ p \in Seq(Nat) /\ f \in Files /\ Descended(f, p) /\ Truncates(t)
  <2>1. Truncates(t)
    BY DEF Leave
  <2>. QED
    BY <1>1, <1>2, <2>1, TruncatingIn DEF Good, TypeOK
<1>4. PICK g, h, o, b : g = Front(p) /\ h = Inside(f, g) /\ o = Last(p) /\ b = Inside(f, p)
  OBVIOUS
<1>5. /\ Left(f, p) = {} /\ p # <<>> /\ Cut(f, p) /\ lost' = lost \cup {b}
      /\ call' = [call EXCEPT ![t] = Truncating(g)]
      /\ UNCHANGED <<bitmap, garbled, file, pos>>
  BY <1>1, <1>2, <1>4 DEF Leave, Goto
<1>6. /\ g \in Seq(Nat) /\ Descended(f, g)
      /\ Len(p) = 1 => h = 0 /\ o = p[1]
      /\ Len(p) # 1 => h # 0
      /\ <<f, h, o>> \in Refs(Data, blk, Uncleared)
      /\ Target(<<f, h, o>>, Data, blk) = b
  <2>1. b = block_of(f, p)
    BY <1>3, <1>4, <1>5, InsideIs
  <2>. QED
    BY <1>3, <1>4, <1>5, <2>1, UpOne
<1>7. CutAt(f, h, o)
  BY <1>3, <1>4, <1>5, <1>6, CutIs
<1>8. NoneIn(b)
  <2>1. b \in Blocks /\ b # 0 /\ \A i \in Offsets : blk[b][i] = 0
    <3>1. b \in Blocks /\ b # 0
      BY <1>3, <1>4, <1>5, InsideIs
    <3>. QED
      BY <1>4, <1>5, <3>1 DEF Left, Pointer
  <2>2. ASSUME NEW s \in Refs(Data, blk, Uncleared), s[2] = b PROVE FALSE
    <3>1. s \in References /\ Target(s, Data, blk) # 0
      BY DEF Refs
    <3>2. PICK e \in Files, x \in Blocks, i \in Offsets : s = <<e, x, i>>
      <4>1. \/ \E e \in Files, k \in Pointers : s = <<e, 0, k>>
            \/ \E e \in Files, x \in Blocks, i \in Offsets : s = <<e, x, i>>
        BY <3>1 DEF References
      <4>. QED
        BY <2>1, <2>2, <4>1
    <3>3. Target(s, Data, blk) = blk[b][i]
      BY <2>1, <2>2, <3>2 DEF Target
    <3>. QED
      BY <2>1, <3>1, <3>3
  <2>. QED
    BY <2>2 DEF NoneIn
<1>9. /\ CutOff(Data, blk, Uncleared, Data', blk', <<f, h, o>>, {b})
      /\ inode' \in [Files -> [size : Nat, data : [Pointers -> Nat]]] /\ blk' \in Words
      /\ b \in Blocks /\ (Uncleared' = Uncleared => ElsewhereSame(f))
      /\ \A x \in Blocks : x # h => blk'[x] = blk[x]
  <2>1. LeadsTo(f, h, o, b)
    BY <1>6 DEF LeadsTo
  <2>2. CutsOne(f, h, o, b)
    BY <1>3, <1>7, <1>8, <2>1, OneCut
  <2>. QED
    BY <2>2 DEF CutsOne
<1>10. Uncleared' = Uncleared => Descended(f, g)'
  BY <1>3, <1>4, <1>6, <1>7, <1>9, StaysInside
<1>11. {} \in SUBSET {b} /\ bitmap' = bitmap \ {} /\ lost' = lost \cup ({b} \ {})
  BY <1>5
<1>12. PICK e : e = Truncating(g)
  OBVIOUS
<1>13. /\ e \in Calls /\ e.pc \in {"truncate", "failed"} /\ e.path = g
       /\ call' = [call EXCEPT ![t] = e] /\ file' = file /\ pos' = pos /\ garbled' = garbled
  <2>1. Truncating(g) \in Calls /\ Truncating(g).pc = "truncate" /\ Truncating(g).path = g
    BY <1>6, CallsMade DEF Truncating
  <2>. QED
    BY <1>5, <1>12, <2>1
<1>14. PICK S \in SUBSET Blocks : S = {b}
  BY <1>9
<1>15. Uncleared' = Uncleared => ElsewhereSame(file[t])
  BY <1>1, <1>9
<1>16. Uncleared' = Uncleared /\ e.pc = "truncate" => Descended(file[t], e.path)'
  BY <1>1, <1>10, <1>13
<1>17. CutOff(Data, blk, Uncleared, Data', blk', <<f, h, o>>, S)
  BY <1>9, <1>14
<1>18. PICK F \in SUBSET S : bitmap' = bitmap \ F /\ lost' = lost \cup (S \ F)
  BY <1>11, <1>14
<1>. QED
  BY <1>3, <1>9, <1>13, <1>15, <1>16, <1>17, <1>18, CutKeeps

\* The pointer k of f's inode is set to 0, whatever it leads to: X[n] are the blocks
\* behind it with n pointers to the data.
Hanging(f, k, X) ==
    \A i \in 0..3 : X[i] =
        IF i = Depth(k) THEN {inode[f].data[k]}
        ELSE IF i > Depth(k) THEN {} ELSE Under(X[i + 1], blk, Uncleared)
Whole(X) == X[0] \cup X[1] \cup X[2] \cup X[3]

\* They are part of f's tree.
HangsOn(f, k, X) ==
    \A i \in 0..3 : \A y \in X[i] :
        /\ y \in On(f, i)
        /\ \/ y = inode[f].data[k] /\ i = Depth(k)
           \/ /\ i \in 0..2
              /\ \E x \in Blocks, o \in Offsets :
                   /\ x \in X[i + 1] /\ blk[x][o] = y
                   /\ <<f, x, o>> \in Refs(Data, blk, Uncleared)

LEMMA HangingOn ==
  ASSUME Good, NEW f \in Files, NEW k \in Pointers, inode[f].data[k] # 0, NEW X, Hanging(f, k, X)
  PROVE  HangsOn(f, k, X)
<1>0. TypeOK
  BY DEF Good
<1>1. ASSUME NEW i \in 0..3, i < 3 => X[i + 1] \subseteq On(f, i + 1)
      PROVE  \A y \in X[i] :
           /\ y \in On(f, i)
           /\ \/ y = inode[f].data[k] /\ i = Depth(k)
              \/ /\ i \in 0..2
                 /\ \E x \in Blocks, o \in Offsets :
                      /\ x \in X[i + 1] /\ blk[x][o] = y
                      /\ <<f, x, o>> \in Refs(Data, blk, Uncleared)
  <2>1. CASE i = Depth(k)
    <3>1. X[i] = {inode[f].data[k]}
      BY <2>1 DEF Hanging
    <3>. QED
      BY <1>0, <2>1, <3>1, LedTo
  <2>2. CASE i # Depth(k)
    <3>1. ASSUME NEW y \in X[i]
          PROVE  i < 3 /\ i \in 0..2 /\ y \in Under(X[i + 1], blk, Uncleared)
      <4>1. ASSUME NEW n \in 0..3, i # n, ~(i > n) PROVE i < 3 /\ i \in 0..2
        BY <4>1
      <4>2. ~(i > Depth(k)) /\ y \in Under(X[i + 1], blk, Uncleared)
        BY <2>2, <3>1 DEF Hanging
      <4>. QED
        BY <2>2, <4>1, <4>2, Depths
    <3>2. ASSUME NEW y \in X[i]
          PROVE  /\ y \in On(f, i) /\ i \in 0..2
                 /\ \E x \in Blocks, o \in Offsets :
                      /\ x \in X[i + 1] /\ blk[x][o] = y
                      /\ <<f, x, o>> \in Refs(Data, blk, Uncleared)
      <4>1. PICK x \in X[i + 1] \cap Blocks : y \in Sons(x, blk, Uncleared)
        BY <3>1, UnderMember
      <4>2. PICK o \in Offsets : blk[x][o] = y /\ y # 0 /\ x \notin Uncleared
        BY <4>1 DEF Sons
      <4>3. x \in On(f, i + 1) /\ i \in 0..2
        BY <1>1, <3>1, <4>1
      <4>. QED
        BY <1>0, <4>1, <4>2, <4>3, LedTo
    <3>. QED
      BY <3>2
  <2>. QED
    BY <2>1, <2>2
<1>2. X[3] \subseteq On(f, 3)
  BY <1>1, 3 \in 0..3
<1>3. X[2] \subseteq On(f, 2)
  BY <1>1, <1>2, 2 \in 0..3, 2 + 1 = 3
<1>4. X[1] \subseteq On(f, 1)
  BY <1>1, <1>3, 1 \in 0..3, 1 + 1 = 2
<1>5. \A i \in 0..3 : i < 3 => i + 1 = 1 \/ i + 1 = 2 \/ i + 1 = 3
  OBVIOUS
<1>. QED
  BY <1>1, <1>2, <1>3, <1>4, <1>5 DEF HangsOn

LEMMA CutTree ==
  ASSUME Good, NEW f \in Files, NEW k \in Pointers, inode[f].data[k] # 0, NEW X, Hanging(f, k, X),
         blk' = blk, \A g \in Files, i \in Pointers :
           Data'[g][i] = IF g = f /\ i = k THEN 0 ELSE Data[g][i]
  PROVE  /\ CutOff(Data, blk, Uncleared, Data', blk', <<f, 0, k>>, Whole(X))
         /\ Whole(X) \subseteq Blocks
<1> DEFINE r == <<f, 0, k>>
           S == Whole(X)
<1>1. /\ Data \in Inodes /\ blk \in Words /\ Owned(Data, blk, Uncleared, bitmap, lost) /\ TypeOK
      /\ Data[f][k] = inode[f].data[k] /\ 0 \notin Blocks
  BY Typed, Numbers DEF Good, Owner, Data
<1>2. \A i \in 0..3 : \A y \in X[i] :
           /\ y \in On(f, i)
           /\ \/ y = inode[f].data[k] /\ i = Depth(k)
              \/ /\ i \in 0..2
                 /\ \E x \in Blocks, o \in Offsets :
                      /\ x \in X[i + 1] /\ blk[x][o] = y
                      /\ <<f, x, o>> \in Refs(Data, blk, Uncleared)
  <2>1. HangsOn(f, k, X)
    BY HangingOn
  <2>. QED
    BY <2>1 DEF HangsOn
<1>3. \A y : y \in S <=> \E i \in 0..3 : y \in X[i]
  <2>1. \A i : i \in 0..3 <=> i = 0 \/ i = 1 \/ i = 2 \/ i = 3
    OBVIOUS
  <2>. QED
    BY <2>1 DEF Whole
<1>4. r \in Refs(Data, blk, Uncleared) /\ Target(r, Data, blk) = inode[f].data[k]
  <2>1. Target(r, Data, blk) = inode[f].data[k]
    BY <1>1 DEF Target
  <2>. QED
    BY <1>1, <2>1, LedTo
<1>5. Target(r, Data', blk') = 0
  BY DEF Target
<1>6. S \subseteq Blocks /\ 0 \notin S
  <2>1. ASSUME NEW y \in S PROVE y \in Blocks
    <3>1. PICK i \in 0..3 : y \in X[i]
      BY <1>3
    <3>. QED
      BY <1>2, <3>1, OnApart
  <2>. QED
    BY <1>1, <2>1
<1>7. ASSUME NEW s \in References
      PROVE  /\ Target(s, Data', blk') \in {Target(s, Data, blk), 0}
             /\ s # r => Target(s, Data', blk') = Target(s, Data, blk)
  <2>1. CASE \E g \in Files, i \in Pointers : s = <<g, 0, i>>
    <3>1. PICK g \in Files, i \in Pointers : s = <<g, 0, i>>
      BY <2>1
    <3>2. /\ Target(s, Data', blk') = Data'[g][i] /\ Target(s, Data, blk) = Data[g][i]
          /\ g = f /\ i = k => s = r
      BY <3>1 DEF Target
    <3>3. Data'[g][i] = IF g = f /\ i = k THEN 0 ELSE Data[g][i]
      OBVIOUS
    <3>. QED
      BY <3>2, <3>3
  <2>2. CASE \E g \in Files, x \in Blocks, i \in Offsets : s = <<g, x, i>>
    <3>1. PICK g \in Files, x \in Blocks, i \in Offsets : s = <<g, x, i>>
      BY <2>2
    <3>. QED
      BY <1>1, <3>1 DEF Target
  <2>. QED
    BY <2>1, <2>2 DEF References
<1>8. ASSUME NEW y \in S
      PROVE  \E s \in Refs(Data, blk, Uncleared) :
               Target(s, Data, blk) = y /\ (s = r \/ s[2] \in S)
  <2>1. PICK i \in 0..3 : y \in X[i]
    BY <1>3
  <2>2. CASE y = inode[f].data[k]
    BY <1>4, <2>2
  <2>3. CASE /\ i \in 0..2
             /\ \E x \in Blocks, o \in Offsets :
                  /\ x \in X[i + 1] /\ blk[x][o] = y
                  /\ <<f, x, o>> \in Refs(Data, blk, Uncleared)
    <3>1. PICK x \in Blocks, o \in Offsets :
                  /\ x \in X[i + 1] /\ blk[x][o] = y
                  /\ <<f, x, o>> \in Refs(Data, blk, Uncleared)
      BY <2>3
    <3>2. i + 1 \in 0..3
      BY <2>3
    <3>3. x \in S
      BY <1>3, <3>1, <3>2
    <3>4. Target(<<f, x, o>>, Data, blk) = y
      BY <1>1, <3>1 DEF Target
    <3>. QED
      BY <3>1, <3>3, <3>4
  <2>. QED
    BY <1>2, <2>1, <2>2, <2>3
<1>9. ASSUME NEW s \in Refs(Data, blk, Uncleared), s[2] \in S PROVE Target(s, Data, blk) \in S
  <2>1. s \in References /\ s[2] # 0 /\ Target(s, Data, blk) # 0
        /\ s[2] \in Inner(Data[s[1]], blk, Uncleared) \ Uncleared
    BY <1>6, <1>9 DEF Refs
  <2>2. PICK g \in Files, x \in Blocks, o \in Offsets : s = <<g, x, o>>
    <3>1. \/ \E g \in Files, i \in Pointers : s = <<g, 0, i>>
          \/ \E g \in Files, x \in Blocks, o \in Offsets : s = <<g, x, o>>
      BY <2>1 DEF References
    <3>. QED
      BY <2>1, <3>1
  <2>3. x \in S /\ x \notin Uncleared /\ blk[x][o] # 0 /\ Target(s, Data, blk) = blk[x][o]
        /\ x \in Inner(Data[g], blk, Uncleared)
    BY <1>1, <1>9, <2>1, <2>2 DEF Target
  <2>4. PICK i \in 0..3 : x \in X[i]
    BY <1>3, <2>3
  <2>5. PICK n \in 1..3 : x \in On(g, n)
    <3>1. \A n \in 0..3 : On(g, n) = Level(n, Data[g], blk, Uncleared)
      BY <1>1, Typed
    <3>. QED
      BY <2>3, <3>1, 1 \in 1..3, 2 \in 1..3, 3 \in 1..3, 1..3 \subseteq 0..3 DEF Inner
  <2>6. i = n
    <3>1. x \in On(f, i) /\ n \in 0..3
      BY <1>2, <2>4
    <3>. QED
      BY <2>5, <3>1, OnApart
  <2>7. PICK j \in 0..2 : i = j + 1
    <3>1. n = 1 \/ n = 2 \/ n = 3
      OBVIOUS
    <3>2. 0 \in 0..2 /\ 1 \in 0..2 /\ 2 \in 0..2 /\ 0 + 1 = 1 /\ 1 + 1 = 2 /\ 2 + 1 = 3
      OBVIOUS
    <3>. QED
      BY <2>6, <3>1, <3>2
  <2>8. X[j] = Under(X[j + 1], blk, Uncleared) /\ j \in 0..3
    <3>1. ~(i > Depth(k))
      BY <2>4 DEF Hanging
    <3>2. ASSUME NEW m \in 0..3, ~(j + 1 > m) PROVE j # m /\ ~(j > m)
      BY <3>2
    <3>3. j # Depth(k) /\ ~(j > Depth(k))
      BY <2>7, <3>1, <3>2, Depths
    <3>4. j \in 0..3
      OBVIOUS
    <3>. QED
      BY <3>3, <3>4 DEF Hanging
  <2>9. blk[x][o] \in X[j]
    <3>1. blk[x][o] \in Sons(x, blk, Uncleared)
      BY <2>2, <2>3 DEF Sons
    <3>. QED
      BY <2>2, <2>4, <2>7, <2>8, <3>1, UnderMember
  <2>. QED
    BY <1>3, <2>3, <2>8, <2>9
<1>10. Target(r, Data, blk) \in S
  <2>1. Depth(k) \in 0..3 /\ X[Depth(k)] = {inode[f].data[k]}
    BY Depths DEF Hanging
  <2>. QED
    BY <1>3, <1>4, <2>1
<1> HIDE DEF r, S
<1>11. \A s \in Refs(Data, blk, Uncleared) : Target(s, Data, blk) \in S <=> s = r \/ s[2] \in S
  <2>1. \A s, w \in Refs(Data, blk, Uncleared) :
          Target(s, Data, blk) = Target(w, Data, blk) => s = w
    BY <1>1 DEF Owned
  <2>. QED
    BY <1>8, <1>9, <1>10, <2>1
<1>12. /\ \A s \in References : Target(s, Data', blk') \in {Target(s, Data, blk), 0}
       /\ \A s \in Refs(Data, blk, Uncleared) \ {r} :
            Target(s, Data', blk') = Target(s, Data, blk)
       /\ S \subseteq {Target(s, Data, blk) : s \in Refs(Data, blk, Uncleared)}
  <2>1. \A s \in Refs(Data, blk, Uncleared) : s \in References
    BY DEF Refs
  <2>. QED
    BY <1>7, <1>8, <2>1
<1>13. CutOff(Data, blk, Uncleared, Data', blk', r, S)
  BY <1>4, <1>5, <1>11, <1>12 DEF CutOff
<1>. QED
  BY <1>6, <1>13 DEF r, S

\* All that is behind an indirect pointer hangs from it.
LEMMA BehindHangs ==
  ASSUME TypeOK, NEW f \in Files, NEW k \in Pointers, Depth(k) # 0, inode[f].data[k] # 0
  PROVE  \E X : Hanging(f, k, X) /\ Whole(X) = Behind(f, k)
<1> DEFINE U(B) == Under(B, blk, Uncleared)
           A == {inode[f].data[k]}
<1>1. \A B : Below(B) = U(B)
  BY BelowIs, Typed DEF Below
<1>2. Top(f, k) = A
  BY DEF Top
<1>3. /\ Depth(k) \in 1..3
      /\ Depth(k) = 1 => ~(k > SINGLE_INDIRECT) /\ ~(k > DOUBLE_INDIRECT)
      /\ Depth(k) = 2 => k > SINGLE_INDIRECT /\ ~(k > DOUBLE_INDIRECT)
      /\ Depth(k) = 3 => k > SINGLE_INDIRECT /\ k > DOUBLE_INDIRECT
  <2>1. Depth(k) \in 1..3
    BY Depths
  <2>2. /\ SINGLE_INDIRECT \in Nat /\ DOUBLE_INDIRECT = SINGLE_INDIRECT + 1
        /\ TRIPLE_INDIRECT = SINGLE_INDIRECT + 2
    BY Numbers DEF DOUBLE_INDIRECT, TRIPLE_INDIRECT
  <2>3. /\ Depth(k) = 1 => k = SINGLE_INDIRECT
        /\ Depth(k) = 2 => k = DOUBLE_INDIRECT
        /\ Depth(k) = 3 => k = TRIPLE_INDIRECT
    BY Depths
  <2>. QED
    BY <2>1, <2>2, <2>3
<1>4. Behind(f, k) = A \cup U(A) \cup (IF k > SINGLE_INDIRECT THEN U(U(A)) ELSE {})
                     \cup (IF k > DOUBLE_INDIRECT THEN U(U(U(A))) ELSE {})
  BY <1>1, <1>2 DEF Behind
<1>5. \A i : i \in 0..3 <=> i = 0 \/ i = 1 \/ i = 2 \/ i = 3
  OBVIOUS
<1> HIDE DEF U
<1>6. CASE Depth(k) = 1
  <2>1. PICK X : X = [i \in 0..3 |-> IF i = 1 THEN A ELSE IF i = 0 THEN U(A) ELSE {}]
    OBVIOUS
  <2>2. X[3] = {} /\ X[2] = {} /\ X[1] = A /\ X[0] = U(A)
    BY <2>1
  <2>3. Hanging(f, k, X)
    <3>1. ASSUME NEW i \in 0..3
          PROVE  X[i] = IF i = 1 THEN A ELSE IF i > 1 THEN {} ELSE U(X[i + 1])
      <4>1. CASE i = 0
        BY <2>2, <4>1
      <4>2. CASE i = 1
        BY <2>2, <4>2
      <4>3. CASE i = 2
        BY <2>2, <4>3
      <4>4. CASE i = 3
        BY <2>2, <4>4
      <4>. QED
        BY <1>5, <4>1, <4>2, <4>3, <4>4
    <3>. QED
      BY <1>6, <3>1 DEF Hanging, U
  <2>4. Whole(X) = Behind(f, k)
    BY <1>3, <1>4, <1>6, <2>2 DEF Whole
  <2>. QED
    BY <2>3, <2>4
<1>7. CASE Depth(k) = 2
  <2>1. PICK X : X = [i \in 0..3 |-> IF i = 2 THEN A ELSE IF i = 1 THEN U(A)
                                     ELSE IF i = 0 THEN U(U(A)) ELSE {}]
    OBVIOUS
  <2>2. X[3] = {} /\ X[2] = A /\ X[1] = U(A) /\ X[0] = U(U(A))
    BY <2>1
  <2>3. Hanging(f, k, X)
    <3>1. ASSUME NEW i \in 0..3
          PROVE  X[i] = IF i = 2 THEN A ELSE IF i > 2 THEN {} ELSE U(X[i + 1])
      <4>1. CASE i = 0
        BY <2>2, <4>1
      <4>2. CASE i = 1
        BY <2>2, <4>2
      <4>3. CASE i = 2
        BY <2>2, <4>3
      <4>4. CASE i = 3
        BY <2>2, <4>4
      <4>. QED
        BY <1>5, <4>1, <4>2, <4>3, <4>4
    <3>. QED
      BY <1>7, <3>1 DEF Hanging, U
  <2>4. Whole(X) = Behind(f, k)
    BY <1>3, <1>4, <1>7, <2>2 DEF Whole
  <2>. QED
    BY <2>3, <2>4
<1>8. CASE Depth(k) = 3
  <2>1. PICK X : X = [i \in 0..3 |-> IF i = 3 THEN A ELSE IF i = 2 THEN U(A)
                                     ELSE IF i = 1 THEN U(U(A)) ELSE U(U(U(A)))]
    OBVIOUS
  <2>2. X[3] = A /\ X[2] = U(A) /\ X[1] = U(U(A)) /\ X[0] = U(U(U(A)))
    BY <2>1
  <2>3. Hanging(f, k, X)
    <3>1. ASSUME NEW i \in 0..3
          PROVE  X[i] = IF i = 3 THEN A ELSE IF i > 3 THEN {} ELSE U(X[i + 1])
      <4>1. CASE i = 0
        BY <2>2, <4>1
      <4>2. CASE i = 1
        BY <2>2, <4>2
      <4>3. CASE i = 2
        BY <2>2, <4>3
      <4>4. CASE i = 3
        BY <2>2, <4>4
      <4>. QED
        BY <1>5, <4>1, <4>2, <4>3, <4>4
    <3>. QED
      BY <1>8, <3>1 DEF Hanging, U
  <2>4. Whole(X) = Behind(f, k)
    BY <1>3, <1>4, <1>8, <2>2 DEF Whole
  <2>. QED
    BY <2>3, <2>4
<1>9. Depth(k) = 1 \/ Depth(k) = 2 \/ Depth(k) = 3
  BY <1>3
<1>. QED
  BY <1>6, <1>7, <1>8, <1>9

\* Without a buffer for an indirect block, all behind the inode's pointer is lost.
LEMMA EnterFailsKeeps ==
  ASSUME Good, NEW t \in Tasks, EnterFails(t)
  PROVE  Good'
<1>1. PICK f, p, c : f = file[t] /\ p = call[t].path /\ c = At("failed", "failed", 0)
  OBVIOUS
<1>2. /\ p \in Seq(Nat) /\ f \in Files /\ Descended(f, p) /\ Truncates(t) /\ TypeOK
  <2>1. Truncates(t)
    BY DEF EnterFails
  <2>. QED
    BY <1>1, <2>1, TruncatingIn DEF Good
<1>3. PICK k : k = FirstLeft(f, p)[1]
  OBVIOUS
<1>4. /\ Left(f, p) # {} /\ ~ToData(FirstLeft(f, p)) /\ lost' = lost \cup Behind(f, k)
      /\ inode' = [inode EXCEPT ![f].data[k] = 0, ![f].size = 0]
      /\ call' = [call EXCEPT ![t] = c] /\ UNCHANGED <<bitmap, blk, garbled, file, pos>>
  BY <1>1, <1>3 DEF EnterFails, Goto
<1>5. k \in Pointers /\ Depth(k) # 0 /\ inode[f].data[k] # 0
  <2>1. PICK q : q = FirstLeft(f, p)
    OBVIOUS
  <2>2. /\ k \in Pointers /\ k = q[1] /\ Depth(k) + 1 - Len(q) # 0 /\ Len(q) = Len(p) + 1
        /\ Depth(k) + 1 - Len(q) \in 0..3 /\ block_of(f, q) # 0 /\ q \in Seq(Nat)
        /\ block_of(f, q) \in On(f, Depth(k) + 1 - Len(q))
    BY <1>2, <1>3, <1>4, <2>1, LeftIs
  <2>3. Depth(k) # 0 /\ Len(q) \in 1..3
    <3>1. ASSUME NEW x \in 0..3, NEW m \in Nat, x + 1 - (m + 1) # 0, x + 1 - (m + 1) \in 0..3
          PROVE  x # 0 /\ m + 1 \in 1..3
      BY <3>1
    <3>2. Len(p) \in Nat /\ Depth(k) \in 0..3
      BY <1>2, <2>2, Depths
    <3>3. Depth(k) + 1 - (Len(p) + 1) # 0 /\ Depth(k) + 1 - (Len(p) + 1) \in 0..3
      BY <2>2
    <3>4. Depth(k) # 0 /\ Len(p) + 1 \in 1..3
      BY <3>1, <3>2, <3>3
    <3>. QED
      BY <2>2, <3>4
  <2>4. inode[f].data[k] # 0
    <3>1. ASSUME inode[f].data[k] = 0 PROVE block_of(f, q) = 0
      <4>1. \A o : Step(0, o) = 0
        BY DEF Step
      <4>2. Len(q) = 1 \/ Len(q) = 2 \/ Len(q) = 3
        BY <2>3
      <4>. QED
        BY <2>2, <3>1, <4>1, <4>2 DEF block_of
    <3>. QED
      BY <2>2, <3>1
  <2>. QED
    BY <2>2, <2>3, <2>4
<1>6. PICK X : Hanging(f, k, X) /\ Whole(X) = Behind(f, k)
  BY <1>2, <1>5, BehindHangs
<1>7. /\ inode \in [Files -> [size : Nat, data : [Pointers -> Nat]]]
      /\ inode' \in [Files -> [size : Nat, data : [Pointers -> Nat]]]
      /\ \A g \in Files, i \in Pointers :
           inode'[g].data[i] = IF g = f /\ i = k THEN 0 ELSE inode[g].data[i]
      /\ \A g \in Files \ {f} : inode'[g] = inode[g]
  <2>1. inode \in [Files -> [size : Nat, data : [Pointers -> Nat]]] /\ 0 \in Nat
    BY <1>2 DEF TypeOK
  <2>2. \A g \in Files \ {f} : inode'[g] = inode[g]
    BY <1>4, <2>1
  <2>3. inode'[f] = [[inode[f] EXCEPT !.data[k] = 0] EXCEPT !.size = 0]
    BY <1>2, <1>4, <2>1
  <2>4. inode[f] \in [size : Nat, data : [Pointers -> Nat]]
    BY <1>2, <2>1
  <2>5. ASSUME NEW w \in [size : Nat, data : [Pointers -> Nat]], NEW z,
               z = [[w EXCEPT !.data[k] = 0] EXCEPT !.size = 0]
        PROVE  /\ z \in [size : Nat, data : [Pointers -> Nat]]
               /\ \A i \in Pointers : z.data[i] = IF i = k THEN 0 ELSE w.data[i]
    BY <1>5, <2>5
  <2>6. /\ inode'[f] \in [size : Nat, data : [Pointers -> Nat]]
        /\ \A i \in Pointers : inode'[f].data[i] = IF i = k THEN 0 ELSE inode[f].data[i]
    <3>1. PICK w \in [size : Nat, data : [Pointers -> Nat]] : w = inode[f]
      BY <2>4
    <3>2. inode'[f] = [[w EXCEPT !.data[k] = 0] EXCEPT !.size = 0]
      BY <2>3, <3>1
    <3>3. /\ inode'[f] \in [size : Nat, data : [Pointers -> Nat]]
          /\ \A i \in Pointers : inode'[f].data[i] = IF i = k THEN 0 ELSE w.data[i]
      BY <2>5, <3>2
    <3>. QED
      BY <3>1, <3>3
  <2>7. DOMAIN inode' = Files /\ inode' = [g \in Files |-> inode'[g]]
    BY <1>4, <2>1
  <2>8. inode' \in [Files -> [size : Nat, data : [Pointers -> Nat]]]
    BY <2>1, <2>2, <2>6, <2>7
  <2>. QED
    BY <1>2, <2>1, <2>2, <2>6, <2>8
<1>8. \A g \in Files, i \in Pointers :
           Data'[g][i] = IF g = f /\ i = k THEN 0 ELSE Data[g][i]
  BY <1>7 DEF Data
<1>9. PICK S : S = Whole(X)
  OBVIOUS
<1>10. /\ CutOff(Data, blk, Uncleared, Data', blk', <<f, 0, k>>, S) /\ S \in SUBSET Blocks
  BY <1>2, <1>4, <1>5, <1>6, <1>8, <1>9, CutTree
<1>11. ASSUME Uncleared' = Uncleared PROVE ElsewhereSame(file[t])
  BY <1>1, <1>2, <1>4, <1>7, <1>11, Elsewhere
<1>12. /\ c \in Calls /\ c.pc \in {"truncate", "failed"} /\ c.pc # "truncate"
  BY <1>1, CallsMade DEF At
<1>13. bitmap' = bitmap \ {} /\ lost' = lost \cup (S \ {}) /\ {} \in SUBSET S
  BY <1>4, <1>6, <1>9
<1>14. blk' \in Words /\ file' = file /\ pos' = pos /\ garbled' = garbled
  BY <1>2, <1>4, Typed
<1>15. PICK F \in SUBSET S : bitmap' = bitmap \ F /\ lost' = lost \cup (S \ F)
  BY <1>13
<1>16. PICK r : r = <<f, 0, k>>
  OBVIOUS
<1>17. CutOff(Data, blk, Uncleared, Data', blk', r, S)
  BY <1>10, <1>16
<1>18. /\ Uncleared' = Uncleared => ElsewhereSame(file[t])
       /\ Uncleared' = Uncleared /\ c.pc = "truncate" => Descended(file[t], c.path)'
       /\ inode' \in [Files -> [size : Nat, data : [Pointers -> Nat]]] /\ S \in SUBSET Blocks
       /\ c \in Calls /\ c.pc \in {"truncate", "failed"}
       /\ call' = [call EXCEPT ![t] = c] /\ Truncates(t)
  BY <1>2, <1>4, <1>7, <1>10, <1>11, <1>12
<1>. QED
  BY <1>14, <1>15, <1>17, <1>18, CutKeeps

\* A truncation that has come to its end.
LEMMA TruncateEndKeeps ==
  ASSUME Good, NEW t \in Tasks, TruncateEnd(t)
  PROVE  Good'
<1>1. /\ UNCHANGED <<bitmap, lost, blk, garbled, file, pos>> /\ call[t].pc # "clear"
      /\ call' = [call EXCEPT ![t] = Idle] /\ inode' = [inode EXCEPT ![file[t]].size = 0]
  BY DEF TruncateEnd, Truncates, Goto
<1>2. Idle.pc \notin Walking \cup {"truncate"} /\ Idle \in Calls
  BY CallsMade DEF Idle, Walking
<1>3. /\ inode \in [Files -> [size : Nat, data : [Pointers -> Nat]]] /\ pos' \in [Tasks -> Nat]
      /\ file[t] \in Files
  BY <1>1 DEF Good, TypeOK
<1>4. /\ inode' \in [Files -> [size : Nat, data : [Pointers -> Nat]]]
      /\ \A f \in Files : inode'[f].data = inode[f].data
  BY <1>1, <1>3
<1>. QED
  BY <1>1, <1>2, <1>3, <1>4, QuietEnd

-----------------------------------------------------------------------------
\* mkfs() and new files.
LEMMA InitGood == Init => Good
<1>1. SUFFICES ASSUME Init PROVE Good
  OBVIOUS
<1>2. /\ bitmap = {ROOT_BLK} /\ lost = {} /\ garbled = {} /\ call = [t \in Tasks |-> Idle]
      /\ blk = [b \in Blocks |-> [o \in Offsets |-> Stale]]
      /\ file \in Handles /\ pos = [t \in Tasks |-> 0]
  BY <1>1 DEF Init
<1>3. PICK size \in {0} \cup Sizes :
        inode = [f \in Files |-> [size |-> size, data |-> [k \in Pointers |-> 0]]]
  BY <1>1 DEF Init
<1>4. size \in Nat /\ file \in [Tasks -> Files] /\ Stale \in Nat /\ ROOT_BLK \in Blocks
  BY <1>2, <1>3, ParametersAssumption, Numbers
<1>5. Idle \in Calls
  BY DEF Calls
<1>6. TypeOK
  BY <1>2, <1>3, <1>4, <1>5 DEF TypeOK
<1>7. \A t \in Tasks : call[t].pc = "idle"
  BY <1>2 DEF Idle
<1>8. \A t \in Tasks : OnTheWay(t)
  BY <1>7 DEF OnTheWay, OnWay, Walking
<1>9. ClearOnce /\ Alone /\ Uncleared = {}
  BY <1>2, <1>7 DEF ClearOnce, Alone, Truncates, Uncleared
<1>10. \A f \in Files : Data[f] = [k \in Pointers |-> 0]
  BY <1>3 DEF Data
<1>11. \A f \in Files : Inner(Data[f], blk, Uncleared) = {}
  <2>1. ASSUME NEW d, d = [k \in Pointers |-> 0] PROVE Inner(d, blk, Uncleared) = {}
    <3>1. \A n \in 0..3 : AtDepth(n, d) = {}
      BY <2>1 DEF AtDepth
    <3>2. Under({}, blk, Uncleared) = {}
      BY DEF Under
    <3>3. Level(3, d, blk, Uncleared) = {}
      BY <3>1 DEF Level, Level3
    <3>4. Level(2, d, blk, Uncleared) = {}
      BY <3>1, <3>2 DEF Level, Level2, Level3
    <3>5. Level(1, d, blk, Uncleared) = {}
      BY <3>1, <3>2 DEF Level, Level1, Level2, Level3
    <3>. QED
      BY <3>3, <3>4, <3>5 DEF Inner
  <2>. QED
    BY <1>10, <2>1
<1>12. Refs(Data, blk, Uncleared) = {}
  <2>1. ASSUME NEW r \in Refs(Data, blk, Uncleared) PROVE FALSE
    <3>1. CASE \E f \in Files, k \in Pointers : r = <<f, 0, k>>
      BY <1>10, <2>1, <3>1, RefForm
    <3>2. CASE \E f \in Files, b \in Blocks, o \in Offsets : r = <<f, b, o>>
      BY <1>11, <2>1, <3>2, RefForm
    <3>. QED
      BY <2>1, <3>1, <3>2, RefForm
  <2>. QED
    BY <2>1
<1>13. Owner
  BY <1>2, <1>12 DEF Owner, Owned
<1>. QED
  BY <1>6, <1>8, <1>9, <1>13 DEF Good

\* Every step leaves it so, unless two tasks clash in it.
LEMMA NextKeeps == FInv /\ [Next]_vars => FInv'
<1>1. SUFFICES ASSUME FInv, [Next]_vars, clash' = "none" PROVE Good'
  BY MeaningNext
<1>2. CASE clash = "none" /\ ~UNCHANGED vars
  <2>1. Good
    BY <1>1, <1>2, Meaning
  <2>2. PICK t \in Tasks : \/ get_data_blkno(t) \/ Reading(t) \/ WritingOn(t)
                          \/ delete_inode_data(t) \/ Call(t) \/ Failing(t)
    BY <1>1, <1>2 DEF Next
  <2>3. CASE \/ TooFar(t) \/ Follow(t) \/ Missing(t) \/ NoSpace(t)
    BY <1>1, <1>2, <2>1, <2>3, QuietWalks
  <2>4. CASE Allocate(t)
    BY <1>1, <1>2, <2>1, <2>4, AllocateKeeps
  <2>5. CASE Clear(t)
    BY <2>1, <2>5, ClearKeeps
  <2>6. CASE Reading(t)
    BY <1>1, <1>2, <2>1, <2>6, QuietCalls DEF Reading
  <2>7. CASE WriteCopy(t)
    BY <2>1, <2>7, WriteKeeps
  <2>8. CASE WriteEnd(t) \/ WriteSize(t)
    BY <1>1, <1>2, <2>1, <2>8, QuietCalls
  <2>9. CASE truncate_file(t) \/ Enter(t) \/ TruncateFailed(t)
    BY <1>1, <1>2, <2>1, <2>9, QuietCalls
  <2>10. CASE \E len \in Lens : read_file(t, len) \/ write_file(t, len)
    BY <1>1, <1>2, <2>1, <2>10, QuietCalls
  <2>11. CASE (\E p \in Places : seek_file(t, p)) \/ (\E n \in Sizes : set_file_size(t, n))
    BY <1>1, <1>2, <2>1, <2>11, QuietCalls
  <2>12. CASE FreeData(t) \/ FreeFails(t)
    BY <2>1, <2>12, FreeDataKeeps
  <2>13. CASE Leave(t)
    BY <2>1, <2>13, LeaveKeeps
  <2>14. CASE TruncateEnd(t)
    BY <2>1, <2>14, TruncateEndKeeps
  <2>15. CASE EnterFails(t)
    BY <2>1, <2>15, EnterFailsKeeps
  <2>16. CASE NoBuffer(t)
    BY <2>1, <2>16, NoBufferKeeps
  <2>. QED
    BY <2>2, <2>3, <2>4, <2>5, <2>6, <2>7, <2>8, <2>9, <2>10, <2>11, <2>12, <2>13, <2>14,
       <2>15, <2>16 DEF get_data_blkno, WritingOn, delete_inode_data, Call, Failing
<1>3. CASE UNCHANGED vars
  <2>1. Good
    BY <1>1, <1>3, Meaning DEF vars
  <2>2. /\ bitmap' = bitmap /\ blk' = blk /\ inode' = inode /\ lost' = lost
        /\ garbled' = garbled /\ file' = file /\ pos' = pos /\ call' = call
    BY <1>3 DEF vars, disk
  <2>3. Uncleared' = Uncleared /\ Data' = Data
    BY <2>2 DEF Uncleared, Data
  <2>4. \A f, n : On(f, n)' = On(f, n)
    BY <2>2, <2>3 DEF On
  <2>5. \A f, c : OnWay(f, c)' <=> OnWay(f, c)
    <3>1. \A f, p : block_of(f, p)' = block_of(f, p)
      <4>1. \A h, o : Step(h, o)' = Step(h, o)
        BY <2>2, <2>3 DEF Step
      <4>. QED
        BY <2>2, <4>1 DEF block_of
    <3>2. \A f, p : Descended(f, p)' <=> Descended(f, p)
      BY <2>3, <3>1 DEF Descended
    <3>3. \A f, h, p : Leads(f, h, p)' <=> Leads(f, h, p)
      BY <2>4 DEF Leads
    <3>. QED
      BY <2>3, <2>4, <3>2, <3>3 DEF OnWay
  <2>6. TypeOK' /\ Owner' /\ ClearOnce' /\ Alone'
    BY <2>1, <2>2, <2>3 DEF Good, TypeOK, Owner, ClearOnce, Alone, Truncates
  <2>7. (\A t \in Tasks : OnTheWay(t))'
    BY <2>1, <2>2, <2>5 DEF Good, OnTheWay
  <2>. QED
    BY <2>6, <2>7 DEF Good
<1>. QED
  BY <1>1, <1>2, <1>3 DEF Next

\* As long as no two tasks have clashed and none has met an indirect block that was
\* linked and never cleared, every pointer of every file leads to an allocated block
\* of the device to which no other pointer leads, and a block that is allocated but in
\* no file is one that delete_inode_data() has left behind: however many tasks walk
\* through the pointers at the same time, between whose steps others allocate, clear
\* and free blocks one by one, and wherever one of them finds no buffer.
THEOREM BlocksSafe == Spec => []BlocksOwned
<1>1. Init => FInv
  BY InitGood, Meaning
<1>2. FInv /\ [Next]_vars => FInv'
  BY NextKeeps
<1>3. FInv => BlocksOwned
  BY DEF FInv, BlocksOwned
<1>. QED
  BY <1>1, <1>2, <1>3, PTL DEF Spec

-----------------------------------------------------------------------------
(* Walks from an inode to a block of data, which FlatFiles does not see.    *)

\* A path through pointers d of an inode to a block of data.
Proper(P) ==
    /\ P \in Seq(Nat) /\ Len(P) \in 1..4 /\ P[1] \in Pointers /\ Len(P) = Depth(P[1]) + 1
    /\ \A i \in 2..Len(P) : P[i] \in Offsets

\* The block to which the first k pointers of P lead, if blocks hold m and those
\* of Z are not cleared; 0 if there is none.
Link(m, Z, b, o) == IF b = 0 \/ b \in Z THEN 0 ELSE m[b][o]
Found(d, m, Z, P, k) ==
    CASE k = 1 -> d[P[1]]
      [] k = 2 -> Link(m, Z, d[P[1]], P[2])
      [] k = 3 -> Link(m, Z, Link(m, Z, d[P[1]], P[2]), P[3])
      [] k = 4 -> Link(m, Z, Link(m, Z, Link(m, Z, d[P[1]], P[2]), P[3]), P[4])

\* Each pointer is in the block that the one before it leads to.
LEMMA FoundNext ==
  ASSUME NEW d, NEW m, NEW Z, NEW P
  PROVE  /\ Found(d, m, Z, P, 1) = d[P[1]]
         /\ \A k \in 1..3 : Found(d, m, Z, P, k + 1) = Link(m, Z, Found(d, m, Z, P, k), P[k + 1])
<1>1. \A k \in 1..3 : k = 1 \/ k = 2 \/ k = 3
  OBVIOUS
<1>2. Found(d, m, Z, P, 2) = Link(m, Z, Found(d, m, Z, P, 1), P[2])
  BY DEF Found
<1>3. Found(d, m, Z, P, 3) = Link(m, Z, Found(d, m, Z, P, 2), P[3])
  BY DEF Found
<1>4. Found(d, m, Z, P, 4) = Link(m, Z, Found(d, m, Z, P, 3), P[4])
  BY DEF Found
<1>5. Found(d, m, Z, P, 1) = d[P[1]]
  BY DEF Found
<1>. QED
  BY <1>1, <1>2, <1>3, <1>4, <1>5

\* What holds of the first pointer of a path, and of each behind one of which it
\* holds, holds of all.
LEMMA AlongPath ==
  ASSUME NEW P, Proper(P), NEW S, 1 \in S,
         \A k \in 1..3 : k + 1 \in 1..Len(P) /\ k \in S => k + 1 \in S
  PROVE  1..Len(P) \subseteq S
<1>1. PICK L \in 1..4 : L = Len(P)
  BY DEF Proper
<1>2. 1 \in 1..3 /\ 1 + 1 = 2 /\ (2 <= L => 2 \in 1..L)
  OBVIOUS
<1>3. 2 \in 1..3 /\ 2 + 1 = 3 /\ (3 <= L => 3 \in 1..L /\ 2 <= L)
  OBVIOUS
<1>4. 3 \in 1..3 /\ 3 + 1 = 4 /\ (4 <= L => 4 \in 1..L /\ 3 <= L)
  OBVIOUS
<1>5. 2 <= L => 2 \in S
  BY <1>1, <1>2
<1>6. 3 <= L => 3 \in S
  BY <1>1, <1>3, <1>5
<1>7. 4 <= L => 4 \in S
  BY <1>1, <1>4, <1>6
<1>8. \A k \in 1..L : k = 1 \/ (k = 2 /\ 2 <= L) \/ (k = 3 /\ 3 <= L) \/ (k = 4 /\ 4 <= L)
  OBVIOUS
<1>. QED
  BY <1>1, <1>5, <1>6, <1>7, <1>8

\* Numbers of pointers along a path.
LEMMA Shorter ==
  ASSUME NEW L \in 1..4, NEW k \in 1..3, k + 1 \in 1..L
  PROVE  k \in 1..L /\ k + 1 \in 2..L /\ L - k \in 1..3
  OBVIOUS

\* Where get_data_blkno() looks is such a path.
LEMMA PathProper ==
  ASSUME NEW n \in Nat
  PROVE  Path(n) = <<>> \/ Proper(Path(n))
<1>1. Path(n) \in Seq(Nat) /\ (Path(n) = <<>> \/ Leads(CHOOSE f \in Files : TRUE, 0, Path(n)))
  BY PathLeads
<1>2. 0 \notin Blocks
  BY Numbers
<1>3. ASSUME Path(n) # <<>> PROVE Proper(Path(n))
  <2>1. /\ Path(n)[1] \in Pointers /\ Len(Path(n)) = Depth(Path(n)[1]) + 1
        /\ \A i \in 2..Len(Path(n)) : Path(n)[i] \in Offsets
    BY <1>1, <1>2, <1>3 DEF Leads
  <2>2. Len(Path(n)) \in 1..4
    BY <2>1, Depths
  <2>. QED
    BY <1>1, <2>1, <2>2 DEF Proper
<1>. QED
  BY <1>3

\* The trees below the inodes, block by block.
InTrees(D, m, Z) == \A f \in Files, n \in 0..3 : Level(n, D[f], m, Z) \subseteq Blocks

\* Blocks with one owner each are in trees.
LEMMA OwnedInTrees ==
  ASSUME NEW D \in Inodes, NEW m \in Words, NEW Z, NEW B, NEW L, Owned(D, m, Z, B, L)
  PROVE  InTrees(D, m, Z)
  BY TreeAllocated DEF InTrees

\* A block that is found is as deep in the tree as pointers are left of the path.
LEMMA FoundLevel ==
  ASSUME NEW D \in Inodes, NEW m \in Words, NEW Z, InTrees(D, m, Z),
         NEW f \in Files, NEW P, Proper(P)
  PROVE  \A k \in 1..Len(P) : Found(D[f], m, Z, P, k) # 0
           => Found(D[f], m, Z, P, k) \in Level(Len(P) - k, D[f], m, Z)
<1> DEFINE F(k) == Found(D[f], m, Z, P, k)
           V(n) == Level(n, D[f], m, Z)
<1>1. PICK L \in 1..4 : L = Len(P)
  BY DEF Proper
<1> DEFINE S(k) == F(k) # 0 => F(k) \in V(L - k)
<1>2. S(1)
  <2>1. F(1) = D[f][P[1]]
    BY FoundNext
  <2>2. PICK n \in 0..3 : n = L - 1
    BY <1>1
  <2>3. P[1] \in Pointers /\ Depth(P[1]) = n
    BY <1>1, <2>2, Depths DEF Proper
  <2>4. F(1) # 0 => F(1) \in AtDepth(n, D[f])
    BY <2>1, <2>3 DEF AtDepth
  <2>5. AtDepth(n, D[f]) \subseteq V(n)
    <3>1. n = 3 \/ n \in 0..2
      OBVIOUS
    <3>. QED
      BY <3>1, LevelAbove
  <2>. QED
    BY <2>2, <2>4, <2>5
<1>3. ASSUME NEW k \in 1..3, k + 1 \in 1..L, S(k) PROVE S(k + 1)
  <2>1. SUFFICES ASSUME F(k + 1) # 0 PROVE F(k + 1) \in V(L - (k + 1))
    OBVIOUS
  <2>2. F(k + 1) = Link(m, Z, F(k), P[k + 1])
    BY FoundNext
  <2>3. F(k) # 0 /\ F(k) \notin Z /\ F(k + 1) = m[F(k)][P[k + 1]]
    BY <2>1, <2>2 DEF Link
  <2> HIDE DEF F
  <2>4. PICK n \in 0..2 : n = L - (k + 1) /\ n + 1 = L - k /\ n + 1 \in 0..3
    BY <1>3
  <2>5. F(k) \in V(n + 1)
    BY <1>3, <2>3, <2>4
  <2>6. k + 1 \in 2..L
    BY <1>3
  <2>7. F(k) \in Blocks /\ P[k + 1] \in Offsets
    BY <1>1, <2>4, <2>5, <2>6 DEF InTrees, Proper
  <2>8. F(k + 1) \in Sons(F(k), m, Z)
    BY <2>1, <2>3, <2>7 DEF Sons
  <2>9. F(k + 1) \in Under(V(n + 1), m, Z)
    BY <2>5, <2>7, <2>8, UnderMember
  <2>10. V(n) = AtDepth(n, D[f]) \cup Under(V(n + 1), m, Z)
    BY LevelAbove
  <2> HIDE DEF V
  <2>. QED
    BY <2>4, <2>9, <2>10
<1> DEFINE T == {k \in 1..Len(P) : S(k)}
<1> HIDE DEF S
<1>8. 1 \in T
  BY <1>1, <1>2
<1>9. \A k \in 1..3 : k + 1 \in 1..Len(P) /\ k \in T => k + 1 \in T
  BY <1>1, <1>3
<1>10. \A k \in 1..Len(P) : S(k)
  <2> HIDE DEF T
  <2>1. 1..Len(P) \subseteq T
    BY <1>8, <1>9, AlongPath
  <2>. QED
    BY <2>1 DEF T
<1>. QED
  BY <1>1, <1>10 DEF S

\* The pointer at the end of the first k.
Ref(f, d, m, Z, P, k) == <<f, IF k = 1 THEN 0 ELSE Found(d, m, Z, P, k - 1), P[k]>>

\* What a path finds, the reference that its last pointer makes leads to.
LEMMA FoundRef ==
  ASSUME NEW D \in Inodes, NEW m \in Words, NEW Z, InTrees(D, m, Z),
         NEW f \in Files, NEW P, Proper(P), NEW k \in 1..Len(P), Found(D[f], m, Z, P, k) # 0
  PROVE  /\ Ref(f, D[f], m, Z, P, k) \in Refs(D, m, Z)
         /\ Target(Ref(f, D[f], m, Z, P, k), D, m) = Found(D[f], m, Z, P, k)
         /\ k > 1 => Found(D[f], m, Z, P, k - 1) \in Blocks
<1>1. CASE k = 1
  <2>1. D[f][P[1]] # 0 /\ P[1] \in Pointers /\ ~(k > 1)
    BY <1>1, FoundNext DEF Proper
  <2>2. Ref(f, D[f], m, Z, P, k) = <<f, 0, P[1]>> /\ Found(D[f], m, Z, P, k) = D[f][P[1]]
    BY <1>1, FoundNext DEF Ref
  <2>3. <<f, 0, P[1]>> \in Refs(D, m, Z)
    BY <2>1, RefForm
  <2>4. Target(<<f, 0, P[1]>>, D, m) = D[f][P[1]]
    <3>1. PICK p : p = P[1]
      OBVIOUS
    <3>2. Target(<<f, 0, p>>, D, m) = D[f][p]
      BY DEF Target
    <3>. QED
      BY <3>1, <3>2
  <2>. QED
    BY <2>1, <2>2, <2>3, <2>4
<1>2. CASE k # 1
  <2>1. PICK j \in 1..3 : /\ j = k - 1 /\ k = j + 1 /\ j \in 1..Len(P)
                          /\ Len(P) - j \in 1..3 /\ k \in 2..Len(P)
    <3>1. PICK L \in 1..4 : L = Len(P)
      BY DEF Proper
    <3>2. PICK j \in 1..3 : j = k - 1 /\ j + 1 \in 1..L
      BY <1>2, <3>1
    <3>. QED
      BY <3>1, <3>2, Shorter
  <2>2. PICK b : b = Found(D[f], m, Z, P, j)
    OBVIOUS
  <2>3. Found(D[f], m, Z, P, k) = Link(m, Z, b, P[k])
    <3>1. Found(D[f], m, Z, P, j + 1) = Link(m, Z, Found(D[f], m, Z, P, j), P[j + 1])
      BY FoundNext
    <3>. QED
      BY <2>1, <2>2, <3>1
  <2>4. b # 0 /\ b \notin Z /\ Found(D[f], m, Z, P, k) = m[b][P[k]]
    BY <2>3 DEF Link
  <2>5. b \in Level(Len(P) - j, D[f], m, Z)
    BY <2>1, <2>2, <2>4, FoundLevel
  <2>6. PICK n \in 1..3 : n = Len(P) - j
    BY <2>1
  <2>7. b \in Inner(D[f], m, Z) /\ b \in Blocks
    <3>1. n \in 0..3 /\ (n = 1 \/ n = 2 \/ n = 3)
      OBVIOUS
    <3>. QED
      BY <2>5, <2>6, <3>1 DEF Inner, InTrees
  <2>8. P[k] \in Offsets
    BY <2>1 DEF Proper
  <2>9. Ref(f, D[f], m, Z, P, k) = <<f, b, P[k]>>
    BY <1>2, <2>1, <2>2 DEF Ref
  <2>10. <<f, b, P[k]>> \in Refs(D, m, Z) /\ Target(<<f, b, P[k]>>, D, m) = m[b][P[k]]
    BY <2>4, <2>7, <2>8, RefForm, TargetForm
  <2>. QED
    BY <2>1, <2>2, <2>4, <2>7, <2>9, <2>10
<1>. QED
  BY <1>1, <1>2

\* Two paths that lead to the same block are the same as far as there.
LEMMA FoundPrefix ==
  ASSUME NEW D \in Inodes, NEW m \in Words, NEW Z, NEW B, NEW L, Owned(D, m, Z, B, L),
         NEW f \in Files, NEW g \in Files, NEW P, NEW Q, Proper(P), Proper(Q)
  PROVE  \A k \in 1..Len(P), j \in 1..Len(Q) :
           /\ Found(D[f], m, Z, P, k) # 0
           /\ Found(D[f], m, Z, P, k) = Found(D[g], m, Z, Q, j)
           => f = g /\ k = j /\ \A i \in 1..k : P[i] = Q[i]
<1> DEFINE F(k) == Found(D[f], m, Z, P, k)
           G(j) == Found(D[g], m, Z, Q, j)
           S(k) == \A j \in 1..Len(Q) :
                     F(k) # 0 /\ F(k) = G(j) => f = g /\ k = j /\ \A i \in 1..k : P[i] = Q[i]
<1>1. InTrees(D, m, Z) /\ 0 \notin Blocks
  BY OwnedInTrees, Numbers
<1>2. Len(P) \in 1..4 /\ Len(Q) \in 1..4
  BY DEF Proper
<1>3. ASSUME NEW k \in 1..Len(P), NEW j \in 1..Len(Q), F(k) # 0, F(k) = G(j)
      PROVE  /\ f = g /\ P[k] = Q[j] /\ (k = 1 <=> j = 1)
             /\ k > 1 => F(k - 1) # 0 /\ F(k - 1) = G(j - 1)
  <2> DEFINE r == Ref(f, D[f], m, Z, P, k)
             q == Ref(g, D[g], m, Z, Q, j)
  <2>1. r \in Refs(D, m, Z) /\ Target(r, D, m) = F(k) /\ (k > 1 => F(k - 1) \in Blocks)
    BY <1>1, <1>3, FoundRef
  <2>2. q \in Refs(D, m, Z) /\ Target(q, D, m) = G(j) /\ (j > 1 => G(j - 1) \in Blocks)
    BY <1>1, <1>3, FoundRef
  <2>3. r = q
    BY <1>3, <2>1, <2>2 DEF Owned
  <2>4. /\ f = g /\ P[k] = Q[j]
        /\ (IF k = 1 THEN 0 ELSE F(k - 1)) = (IF j = 1 THEN 0 ELSE G(j - 1))
    BY <2>3 DEF Ref
  <2> HIDE DEF F, G, r, q
  <2>5. (k = 1 \/ k > 1) /\ (j = 1 \/ j > 1)
    OBVIOUS
  <2>. QED
    BY <1>1, <2>1, <2>2, <2>4, <2>5
<1> HIDE DEF F, G
<1>4. S(1)
  <2>1. 1 \in 1..Len(P)
    BY <1>2
  <2>2. ASSUME NEW j \in 1..Len(Q), F(1) # 0, F(1) = G(j)
        PROVE  f = g /\ 1 = j /\ P[1] = Q[1]
    BY <1>3, <2>1, <2>2
  <2>. QED
    BY <2>2
<1>5. ASSUME NEW k \in 1..3, k + 1 \in 1..Len(P), S(k) PROVE S(k + 1)
  <2>1. k + 1 \in 1..Len(P) /\ k + 1 > 1 /\ (k + 1) - 1 = k /\ k + 1 # 1
    BY <1>2, <1>5
  <2>2. SUFFICES ASSUME NEW j \in 1..Len(Q), F(k + 1) # 0, F(k + 1) = G(j)
                 PROVE  f = g /\ k + 1 = j /\ \A i \in 1..(k + 1) : P[i] = Q[i]
    OBVIOUS
  <2>3. f = g /\ P[k + 1] = Q[j] /\ j # 1 /\ F(k) # 0 /\ F(k) = G(j - 1)
    BY <1>3, <2>1, <2>2
  <2>4. j - 1 \in 1..Len(Q)
    BY <1>2, <2>3
  <2>5. k = j - 1 /\ \A i \in 1..k : P[i] = Q[i]
    BY <1>5, <2>3, <2>4
  <2>6. k + 1 = j /\ \A i \in 1..(k + 1) : i \in 1..k \/ i = j
    BY <2>5
  <2>. QED
    BY <2>3, <2>5, <2>6
<1> DEFINE T == {k \in 1..Len(P) : S(k)}
<1> HIDE DEF S
<1>8. 1 \in T
  BY <1>1, <1>2, <1>4
<1>9. \A k \in 1..3 : k + 1 \in 1..Len(P) /\ k \in T => k + 1 \in T
  BY <1>1, <1>5
<1>10. \A k \in 1..Len(P) : S(k)
  <2> HIDE DEF T
  <2>1. 1..Len(P) \subseteq T
    BY <1>8, <1>9, AlongPath
  <2>. QED
    BY <2>1 DEF T
<1>. QED
  BY <1>1, <1>10 DEF S, F, G

\* A block of data has one place, in one file.
LEMMA FoundApart ==
  ASSUME NEW D \in Inodes, NEW m \in Words, NEW Z, NEW B, NEW L, Owned(D, m, Z, B, L),
         NEW f \in Files, NEW g \in Files, NEW P, NEW Q, Proper(P), Proper(Q),
         Found(D[f], m, Z, P, Len(P)) # 0,
         Found(D[f], m, Z, P, Len(P)) = Found(D[g], m, Z, Q, Len(Q))
  PROVE  f = g /\ P = Q
<1>1. /\ Len(P) \in 1..Len(P) /\ Len(Q) \in 1..Len(Q) /\ P \in Seq(Nat) /\ Q \in Seq(Nat)
      /\ DOMAIN P = 1..Len(P) /\ DOMAIN Q = 1..Len(Q)
  BY DEF Proper
<1>2. Len(P) = Len(Q) /\ f = g /\ \A i \in 1..Len(P) : P[i] = Q[i]
  <2>1. PICK k \in 1..Len(P), j \in 1..Len(Q) : k = Len(P) /\ j = Len(Q)
    BY <1>1
  <2>2. f = g /\ k = j /\ \A i \in 1..k : P[i] = Q[i]
    BY <2>1, FoundPrefix
  <2>. QED
    BY <2>1, <2>2
<1>. QED
  BY <1>1, <1>2

\* What is found stays if no pointer to it changes: all of them, or those that
\* are not 0.
LEMMA FoundStays ==
  ASSUME NEW D \in Inodes, NEW m \in Words, NEW Z, InTrees(D, m, Z), NEW f \in Files,
         NEW e, NEW l, NEW Y, NEW P, Proper(P),
         \A k \in Pointers : D[f][k] # 0 => e[k] = D[f][k],
         \A n \in 1..3 : \A b \in Level(n, D[f], m, Z) \ Z : \A o \in Offsets :
           m[b][o] # 0 => b \notin Y /\ l[b][o] = m[b][o]
  PROVE  \A k \in 1..Len(P) : Found(D[f], m, Z, P, k) # 0
           => Found(e, l, Y, P, k) = Found(D[f], m, Z, P, k)
<1> DEFINE F(k) == Found(D[f], m, Z, P, k)
           G(k) == Found(e, l, Y, P, k)
           S(k) == F(k) # 0 => G(k) = F(k)
<1>1. Len(P) \in 1..4 /\ P[1] \in Pointers
  BY DEF Proper
<1>2. S(1)
  BY <1>1, FoundNext
<1>3. ASSUME NEW k \in 1..3, k + 1 \in 1..Len(P), S(k) PROVE S(k + 1)
  <2>1. SUFFICES ASSUME F(k + 1) # 0 PROVE G(k + 1) = F(k + 1)
    OBVIOUS
  <2>2. F(k + 1) = Link(m, Z, F(k), P[k + 1]) /\ G(k + 1) = Link(l, Y, G(k), P[k + 1])
    BY FoundNext
  <2>3. F(k) # 0 /\ F(k) \notin Z /\ F(k + 1) = m[F(k)][P[k + 1]]
    BY <2>1, <2>2 DEF Link
  <2>4. k \in 1..Len(P) /\ k + 1 \in 2..Len(P) /\ Len(P) - k \in 1..3
    BY <1>1, <1>3, Shorter
  <2>5. F(k) \in Level(Len(P) - k, D[f], m, Z) /\ P[k + 1] \in Offsets
    BY <2>3, <2>4, FoundLevel DEF Proper
  <2> HIDE DEF F, G
  <2>6. F(k) \notin Y /\ l[F(k)][P[k + 1]] = m[F(k)][P[k + 1]] /\ G(k) = F(k)
    BY <1>3, <2>1, <2>3, <2>4, <2>5
  <2>. QED
    BY <2>2, <2>3, <2>6 DEF Link
<1> DEFINE T == {k \in 1..Len(P) : S(k)}
<1> HIDE DEF S
<1>8. 1 \in T
  BY <1>1, <1>2
<1>9. \A k \in 1..3 : k + 1 \in 1..Len(P) /\ k \in T => k + 1 \in T
  BY <1>1, <1>3
<1>10. \A k \in 1..Len(P) : S(k)
  <2> HIDE DEF T
  <2>1. 1..Len(P) \subseteq T
    BY <1>8, <1>9, AlongPath
  <2>. QED
    BY <2>1 DEF T
<1>. QED
  BY <1>1, <1>10 DEF S, F, G

\* A path finds the same as long as the indirect blocks of its file keep their
\* pointers.
LEMMA FoundSame ==
  ASSUME NEW D \in Inodes, NEW m \in Words, NEW Z, InTrees(D, m, Z), NEW f \in Files,
         NEW l, NEW Y, NEW P, Proper(P),
         \A n \in 1..3 : \A b \in Level(n, D[f], m, Z) : \A o \in Offsets :
           Link(l, Y, b, o) = Link(m, Z, b, o)
  PROVE  \A k \in 1..Len(P) : Found(D[f], l, Y, P, k) = Found(D[f], m, Z, P, k)
<1> DEFINE F(k) == Found(D[f], m, Z, P, k)
           G(k) == Found(D[f], l, Y, P, k)
           S(k) == G(k) = F(k)
<1>1. Len(P) \in 1..4
  BY DEF Proper
<1>2. S(1)
  BY FoundNext
<1>3. ASSUME NEW k \in 1..3, k + 1 \in 1..Len(P), S(k) PROVE S(k + 1)
  <2>1. F(k + 1) = Link(m, Z, F(k), P[k + 1]) /\ G(k + 1) = Link(l, Y, G(k), P[k + 1])
    BY FoundNext
  <2>2. k \in 1..Len(P) /\ k + 1 \in 2..Len(P) /\ Len(P) - k \in 1..3
    BY <1>1, <1>3, Shorter
  <2>3. P[k + 1] \in Offsets /\ (F(k) # 0 => F(k) \in Level(Len(P) - k, D[f], m, Z))
    BY <2>2, FoundLevel DEF Proper
  <2> HIDE DEF F, G
  <2>4. CASE F(k) # 0
    BY <1>3, <2>1, <2>2, <2>3, <2>4
  <2>5. CASE F(k) = 0
    BY <1>3, <2>1, <2>5 DEF Link
  <2>. QED
    BY <2>4, <2>5
<1> DEFINE T == {k \in 1..Len(P) : S(k)}
<1> HIDE DEF S
<1>8. 1 \in T
  BY <1>1, <1>2
<1>9. \A k \in 1..3 : k + 1 \in 1..Len(P) /\ k \in T => k + 1 \in T
  BY <1>1, <1>3
<1>10. \A k \in 1..Len(P) : S(k)
  <2> HIDE DEF T
  <2>1. 1..Len(P) \subseteq T
    BY <1>8, <1>9, AlongPath
  <2>. QED
    BY <2>1 DEF T
<1>. QED
  BY <1>1, <1>10 DEF S, F, G

-----------------------------------------------------------------------------
(* Which block of a file a path leads to, and which words are in it.        *)

\* A number is its quotient and its remainder, and these are no other's.
LEMMA DivMod ==
  ASSUME NEW Q \in Nat \ {0}, NEW x \in Nat
  PROVE  \E d \in Nat, y \in 0..(Q - 1) : d = x \div Q /\ y = x % Q /\ x = Q * d + y
<1>1. x \div Q \in Nat
  OBVIOUS
<1>2. x % Q \in 0..(Q - 1)
  OBVIOUS
<1>3. PICK d \in Nat, y \in 0..(Q - 1) : d = x \div Q /\ y = x % Q
  BY <1>1, <1>2
<1>4. x = Q * d + y
  BY <1>3
<1>. QED
  BY <1>3, <1>4

\* Division undoes multiplication.
LEMMA Quotient ==
  ASSUME NEW Q \in Nat \ {0}, NEW v \in Nat, NEW y \in 0..(Q - 1)
  PROVE  (Q * v + y) \div Q = v /\ (Q * v + y) % Q = y
<1>1. PICK x \in Nat : x = Q * v + y
  OBVIOUS
<1>2. PICK q \in Nat, s \in 0..(Q - 1) : q = x \div Q /\ s = x % Q /\ x = Q * q + s
  BY DivMod
<1>3. q >= v + 1 => Q * q >= Q * (v + 1)
  OBVIOUS
<1>4. v >= q + 1 => Q * v >= Q * (q + 1)
  OBVIOUS
<1>5. Q * (v + 1) = Q * v + Q /\ Q * (q + 1) = Q * q + Q /\ Q * v \in Nat /\ Q * q \in Nat
  OBVIOUS
<1>6. q = v
  BY <1>1, <1>2, <1>3, <1>4, <1>5
<1>. QED
  BY <1>1, <1>2, <1>5, <1>6

\* To divide by a square is to divide twice.
LEMMA DivTwice ==
  ASSUME NEW Q \in Nat \ {0}, NEW x \in Nat
  PROVE  x \div (Q * Q) = (x \div Q) \div Q
<1>1. PICK u \in Nat, r \in 0..(Q - 1) : u = x \div Q /\ x = Q * u + r
  BY DivMod
<1>2. PICK v \in Nat, w \in 0..(Q - 1) : v = u \div Q /\ u = Q * v + w
  BY DivMod
<1>3. PICK N \in Nat \ {0} : N = Q * Q
  OBVIOUS
<1>4. Q * u = Q * (Q * v) + Q * w
  BY <1>2
<1>5. Q * (Q * v) = N * v
  BY <1>3
<1>6. w <= Q - 1 /\ Q * w <= Q * (Q - 1) /\ Q * (Q - 1) = N - Q /\ Q * w \in Nat
  BY <1>3
<1>7. PICK y \in 0..(N - 1) : y = Q * w + r
  BY <1>1, <1>3, <1>6
<1>8. x = N * v + y
  BY <1>1, <1>4, <1>5, <1>7
<1>9. x \div N = v
  BY <1>8, Quotient
<1>. QED
  BY <1>1, <1>2, <1>3, <1>9

\* The number of the block.
Number(P) ==
    LET N == FS_BLKSIZ
    IN  CASE Len(P) = 1 -> P[1]
          [] Len(P) = 2 -> SINGLE_INDIRECT + P[2]
          [] Len(P) = 3 -> SINGLE_INDIRECT + N + N * P[2] + P[3]
          [] Len(P) = 4 -> SINGLE_INDIRECT + N + N * N + N * (N * P[2] + P[3]) + P[4]

\* From the path that get_data_blkno() takes to a block of a file one can tell
\* the block's number.
LEMMA PathNumber ==
  ASSUME NEW n \in Nat, Path(n) # <<>>
  PROVE  n = Number(Path(n)) /\ n \in DOMAIN Paths
<1>1. PICK N \in Nat \ {0} : N = FS_BLKSIZ
  BY Numbers
<1>2. PICK s \in Int : s = n - SINGLE_INDIRECT
  BY Numbers
<1>3. PICK NN \in Nat \ {0} : NN = N * N
  OBVIOUS
<1>4. PICK NNN \in Nat \ {0} : NNN = N * N * N /\ NNN = NN * N
  BY <1>3
<1>5. PICK d \in Int : d = s - N
  OBVIOUS
<1>6. PICK t \in Int : t = d - NN
  OBVIOUS
<1>7. Path(n) = CASE n < SINGLE_INDIRECT -> <<n>>
                  [] s \in 0..(N - 1) -> <<SINGLE_INDIRECT, s>>
                  [] d \in 0..(NN - 1) -> <<DOUBLE_INDIRECT, d \div N, d % N>>
                  [] t \in 0..(NNN - 1) -> <<TRIPLE_INDIRECT, t \div NN, (t \div N) % N, t % N>>
                  [] OTHER -> <<>>
  BY <1>1, <1>2, <1>3, <1>4, <1>5, <1>6 DEF Path, PTRS_PER_INDIRECT
<1>8. /\ DOMAIN Paths = 0..(SINGLE_INDIRECT + N + NN + NNN - 1)
      /\ SINGLE_INDIRECT \in Nat
  BY <1>1, <1>3, <1>4, Numbers DEF Paths, PTRS_PER_INDIRECT
<1>9. CASE n < SINGLE_INDIRECT
  <2>1. s \notin 0..(N - 1) /\ d \notin 0..(NN - 1) /\ t \notin 0..(NNN - 1)
    BY <1>2, <1>5, <1>6, <1>8, <1>9
  <2>2. Path(n) = <<n>>
    BY <1>7, <1>9, <2>1
  <2>3. n \in DOMAIN Paths
    BY <1>8, <1>9
  <2>. QED
    BY <2>2, <2>3 DEF Number
<1>10. CASE s \in 0..(N - 1)
  <2>1. ~(n < SINGLE_INDIRECT) /\ d \notin 0..(NN - 1) /\ t \notin 0..(NNN - 1)
    BY <1>2, <1>5, <1>6, <1>8, <1>10
  <2>2. Path(n) = <<SINGLE_INDIRECT, s>>
    BY <1>7, <1>10, <2>1
  <2>3. n \in DOMAIN Paths /\ n = SINGLE_INDIRECT + s
    BY <1>2, <1>8, <1>10
  <2>. QED
    BY <2>2, <2>3 DEF Number
<1>11. CASE d \in 0..(NN - 1)
  <2>1. ~(n < SINGLE_INDIRECT) /\ s \notin 0..(N - 1) /\ t \notin 0..(NNN - 1)
    BY <1>2, <1>5, <1>6, <1>8, <1>11
  <2>2. Path(n) = <<DOUBLE_INDIRECT, d \div N, d % N>>
    BY <1>7, <1>11, <2>1
  <2>3. n \in DOMAIN Paths /\ n = SINGLE_INDIRECT + N + d /\ d \in Nat
    BY <1>2, <1>5, <1>8, <1>11
  <2>4. PICK a \in Nat, b \in 0..(N - 1) : a = d \div N /\ b = d % N /\ d = N * a + b
    BY <2>3, DivMod
  <2>5. n = SINGLE_INDIRECT + N + N * a + b
    <3>1. N * a \in Nat
      OBVIOUS
    <3>. QED
      BY <1>8, <2>3, <2>4, <3>1
  <2>7. Number(<<DOUBLE_INDIRECT, a, b>>) = SINGLE_INDIRECT + N + N * a + b
    BY <1>1 DEF Number
  <2>. QED
    BY <2>2, <2>3, <2>4, <2>5, <2>7
<1>12. CASE t \in 0..(NNN - 1)
  <2>1. ~(n < SINGLE_INDIRECT) /\ s \notin 0..(N - 1) /\ d \notin 0..(NN - 1)
    BY <1>2, <1>5, <1>6, <1>8, <1>12
  <2>2. Path(n) = <<TRIPLE_INDIRECT, t \div NN, (t \div N) % N, t % N>>
    BY <1>7, <1>12, <2>1
  <2>3. n \in DOMAIN Paths /\ n = SINGLE_INDIRECT + N + NN + t /\ t \in Nat
    BY <1>2, <1>5, <1>6, <1>8, <1>12
  <2>4. PICK u \in Nat, c \in 0..(N - 1) : u = t \div N /\ c = t % N /\ t = N * u + c
    BY <2>3, DivMod
  <2>5. PICK a \in Nat, b \in 0..(N - 1) : a = u \div N /\ b = u % N /\ u = N * a + b
    BY DivMod
  <2>6. t \div NN = a
    BY <1>3, <2>3, <2>4, <2>5, DivTwice
  <2>7. Path(n) = <<TRIPLE_INDIRECT, a, b, c>>
    BY <2>2, <2>4, <2>5, <2>6
  <2>8. Number(<<TRIPLE_INDIRECT, a, b, c>>)
          = SINGLE_INDIRECT + N + N * N + N * (N * a + b) + c
    BY <1>1 DEF Number
  <2>9. N * (N * a + b) = N * u /\ N * u \in Nat
    BY <2>5
  <2>10. n = SINGLE_INDIRECT + N + NN + N * u + c
    BY <1>8, <2>3, <2>4, <2>9
  <2>. QED
    BY <1>3, <2>3, <2>7, <2>8, <2>9, <2>10
<1>. QED
  BY <1>7, <1>9, <1>10, <1>11, <1>12

\* Two blocks of a file have two paths.
LEMMA PathInjective ==
  ASSUME NEW n \in Nat, NEW k \in Nat, Path(n) = Path(k), Path(n) # <<>>
  PROVE  n = k
  BY PathNumber

\* The words in the block of position p, from there on.
LEMMA SameBlock ==
  ASSUME NEW p \in Nat, NEW i \in Nat, (p % FS_BLKSIZ) + i < FS_BLKSIZ
  PROVE  /\ (p + i) \div FS_BLKSIZ = p \div FS_BLKSIZ
         /\ (p + i) % FS_BLKSIZ = (p % FS_BLKSIZ) + i
<1>1. PICK N \in Nat \ {0} : N = FS_BLKSIZ
  BY Numbers
<1>2. PICK q \in Nat, r \in 0..(N - 1) : q = p \div N /\ r = p % N /\ p = N * q + r
  BY DivMod
<1>3. PICK y \in 0..(N - 1) : y = r + i
  <2>1. r + i < N
    BY <1>1, <1>2
  <2>. QED
    BY <2>1
<1>4. p + i = N * q + y
  BY <1>2, <1>3
<1>5. (p + i) \div N = q /\ (p + i) % N = y
  BY <1>4, Quotient
<1>. QED
  BY <1>1, <1>2, <1>3, <1>5

\* A word in that block at one of those places is one of those.
LEMMA SameWord ==
  ASSUME NEW p \in Nat, NEW j \in Nat, NEW i \in Nat, (p % FS_BLKSIZ) + i < FS_BLKSIZ,
         j \div FS_BLKSIZ = p \div FS_BLKSIZ, j % FS_BLKSIZ = (p + i) % FS_BLKSIZ
  PROVE  j = p + i
<1>1. PICK N \in Nat \ {0} : N = FS_BLKSIZ
  BY Numbers
<1>2. (p + i) \div N = p \div N
  BY <1>1, SameBlock
<1>3. PICK d \in Nat, y \in 0..(N - 1) : d = j \div N /\ y = j % N /\ j = N * d + y
  BY DivMod
<1>4. PICK k \in Nat : k = p + i
  OBVIOUS
<1>5. PICK e \in Nat, z \in 0..(N - 1) : e = k \div N /\ z = k % N /\ k = N * e + z
  BY DivMod
<1>6. e = d /\ z = y
  BY <1>1, <1>2, <1>3, <1>4, <1>5
<1>. QED
  BY <1>3, <1>4, <1>5, <1>6

-----------------------------------------------------------------------------
(* The greatest of finitely many numbers.                                   *)

\* A bounded set of numbers has a largest one.
LEMMA MaxBounded ==
  ASSUME NEW n \in Nat, NEW S \in SUBSET Nat, S # {}, \A x \in S : x <= n
  PROVE  Max(S) \in S /\ \A y \in S : Max(S) >= y
<1> DEFINE D == {n - x : x \in S}
<1>0. \A x \in S : n - x \in Nat
  OBVIOUS
<1>1. D \in SUBSET Nat /\ D # {}
  BY <1>0, Zenon
<1>2. Min(D) \in D /\ \A d \in D : Min(D) <= d
  BY <1>1, MinInSet
<1> DEFINE m == Min(D)
<1>3. PICK x \in S : m = n - x
  BY <1>2
<1> HIDE DEF m
<1>4. \A y \in S : m <= n - y
  BY <1>2 DEF m
<1>5. \A y \in S : x >= y
  BY <1>3, <1>4
<1>. QED
  BY <1>5 DEF Max

\* Numbers of finitely many tasks are bounded.
LEMMA FiniteBounded ==
  ASSUME NEW T, IsFiniteSet(T), NEW g \in [T -> Nat]
  PROVE  \E n \in Nat : \A t \in T : g[t] <= n
<1>1. PICK s \in Seq(T) : \A t \in T : \E i \in 1..Len(s) : s[i] = t
  BY DEF IsFiniteSet
<1> DEFINE Bound(k) == \E n \in Nat : \A i \in 1..k : g[s[i]] <= n
           Bad == {k \in 0..Len(s) : ~Bound(k)}
<1>2. Bound(0)
  OBVIOUS
<1>3. ASSUME NEW k \in 0..Len(s), k # 0, Bound(k - 1) PROVE Bound(k)
  <2>1. PICK n \in Nat : \A i \in 1..(k - 1) : g[s[i]] <= n
    BY <1>3
  <2>2. s[k] \in T /\ g[s[k]] \in Nat
    BY <1>3
  <2>3. PICK h \in Nat : h >= n /\ h >= g[s[k]]
    BY <2>2
  <2>4. \A i \in 1..k : i \in 1..(k - 1) \/ i = k
    BY <1>3
  <2>5. ASSUME NEW i \in 1..k PROVE g[s[i]] <= h
    <3>1. s[i] \in T /\ g[s[i]] \in Nat
      BY <1>3
    <3>. QED
      BY <2>1, <2>3, <2>4, <3>1
  <2>. QED
    BY <2>5
<1> HIDE DEF Bound
<1>4. ASSUME Bad # {} PROVE FALSE
  <2>1. Min(Bad) \in Bad /\ \A k \in Bad : Min(Bad) <= k
    <3>1. Bad \in SUBSET Nat
      OBVIOUS
    <3> HIDE DEF Bad
    <3>. QED
      BY <1>4, <3>1, MinInSet
  <2>2. PICK k \in 0..Len(s) : k \in Bad /\ \A j \in Bad : k <= j
    BY <2>1
  <2>3. k # 0 /\ ~Bound(k)
    BY <1>2, <2>2
  <2>4. k - 1 \in 0..Len(s) /\ k - 1 \notin Bad
    BY <2>2, <2>3
  <2>. QED
    BY <1>3, <2>3, <2>4
<1>5. Bound(Len(s))
  BY <1>4
<1>6. PICK n \in Nat : \A i \in 1..Len(s) : g[s[i]] <= n
  BY <1>5 DEF Bound
<1>. QED
  BY <1>1, <1>6

-----------------------------------------------------------------------------
(* The same, as the tasks find it.                                          *)

\* What tasks that have only begun to read or write cannot do; and where those are
\* that are on their way to the block of their position: behind k pointers of the
\* path to it, in the block to which these lead.
Led(f, P, k) == Found(inode[f].data, blk, Uncleared, P, k)
Underway(f, holder, path, P) ==
    \E k \in 0..Len(P) :
        /\ Len(path) = Len(P) - k /\ \A i \in 1..Len(path) : path[i] = P[k + i]
        /\ IF k = 0 THEN holder = 0 ELSE holder # 0 /\ holder = Led(f, P, k)
Way(f, c, p) ==
    /\ c.pc \in {"loop", "chunk", "given"} => c.op = "read"
    /\ c.pc \in {"alloc", "clear", "end", "set"} => c.op = "write"
    /\ c.pc = "copy" => c.path = <<>>
    /\ c.pc \in Walking =>
         /\ c.n <= FS_BLKSIZ - (p % FS_BLKSIZ)
         /\ Underway(f, c.holder, c.path, Path(p \div FS_BLKSIZ))
Ways == \A t \in Tasks : Way(file[t], call[t], pos[t])

\* Block n of file f, and its words.
Block(f, n) == IF Path(n) = <<>> THEN 0 ELSE Led(f, Path(n), Len(Path(n)))
WordAt(f, i) ==
    LET b == Block(f, i \div FS_BLKSIZ) IN IF b = 0 THEN Hole ELSE blk[b][i % FS_BLKSIZ]
Writes(c) == c.pc # "idle" /\ c.op = "write"

ExtentRight ==
    \A f \in Files :
      /\ Extent(f) \in Nat /\ inode[f].size <= Extent(f)
      /\ \A u \in Writers(f) : pos[u] <= Extent(f)
      /\ Extent(f) = inode[f].size \/ \E u \in Writers(f) : Extent(f) = pos[u]

\* A file ends where its length or the last writer's position says, whichever
\* is greater.
LEMMA ExtentIs == TypeOK => ExtentRight
<1>1. SUFFICES ASSUME TypeOK, NEW f \in Files
               PROVE  /\ Extent(f) \in Nat /\ inode[f].size <= Extent(f)
                      /\ \A u \in Writers(f) : pos[u] <= Extent(f)
                      /\ Extent(f) = inode[f].size \/ \E u \in Writers(f) : Extent(f) = pos[u]
  BY DEF ExtentRight
<1>2. PICK size \in Nat : size = inode[f].size
  BY <1>1 DEF TypeOK
<1>3. PICK n \in Nat : \A u \in Tasks : pos[u] <= n
  BY <1>1, FiniteBounded, ParametersAssumption DEF TypeOK
<1>4. PICK S : S = {size} \cup {pos[u] : u \in Writers(f)}
  OBVIOUS
<1>5. S \in SUBSET Nat /\ S # {}
  BY <1>1, <1>4 DEF TypeOK, Writers
<1>6. PICK h \in Nat : h >= n /\ h >= size
  OBVIOUS
<1>7. \A x \in S : x <= h
  <2>1. ASSUME NEW u \in Writers(f) PROVE pos[u] <= h
    <3>1. pos[u] \in Nat /\ pos[u] <= n
      BY <1>1, <1>3, <2>1 DEF TypeOK, Writers
    <3>. QED
      BY <1>6, <3>1
  <2>. QED
    BY <1>4, <1>6, <2>1
<1>8. Max(S) \in S /\ \A y \in S : Max(S) >= y
  BY <1>5, <1>7, MaxBounded
<1>9. Extent(f) = Max(S)
  BY <1>2, <1>4 DEF Extent
<1>10. PICK x \in Nat : x = Extent(f) /\ x \in S /\ \A y \in S : y \in Nat /\ x >= y
  BY <1>5, <1>8, <1>9
<1>11. \A u \in Writers(f) : pos[u] \in S
  BY <1>4
<1>12. size \in S /\ (x = size \/ \E u \in Writers(f) : x = pos[u])
  BY <1>4, <1>10
<1>. QED
  BY <1>2, <1>10, <1>11, <1>12

\* The walks of Content are those.
LEMMA BlockOf ==
  ASSUME NEW f, NEW P, Proper(P)
  PROVE  block_of(f, P) = Led(f, P, Len(P))
<1>1. Len(P) = 1 \/ Len(P) = 2 \/ Len(P) = 3 \/ Len(P) = 4
  BY DEF Proper
<1>2. \A b, o : Step(b, o) = Link(blk, Uncleared, b, o)
  BY DEF Step, Link
<1>. QED
  BY <1>1, <1>2 DEF block_of, Led, Found

\* The block at a number of a file, where the content of files looks for it.
LEMMA BlockAt ==
  ASSUME NEW f, NEW n \in Nat
  PROVE  (IF n \in DOMAIN Paths THEN block_of(f, Paths[n]) ELSE 0) = Block(f, n)
<1>1. \A k \in DOMAIN Paths : Paths[k] = Path(k)
  BY DEF Paths
<1>2. CASE Path(n) = <<>>
  <2>1. block_of(f, <<>>) = 0
    BY DEF block_of
  <2>. QED
    BY <1>1, <1>2, <2>1 DEF Block
<1>3. CASE Path(n) # <<>>
  <2>1. n \in DOMAIN Paths /\ Proper(Path(n))
    BY <1>3, PathNumber, PathProper
  <2>. QED
    BY <1>1, <1>3, <2>1, BlockOf DEF Block
<1>. QED
  BY <1>2, <1>3

ContentRight ==
    \A f \in Files : Content(f) = [i \in 1..Extent(f) |-> WordAt(f, i - 1)]

\* The content of a file is its words, up to its end.
LEMMA ContentIs == TypeOK => ContentRight
<1>1. SUFFICES ASSUME TypeOK, NEW f \in Files
               PROVE  Content(f) = [i \in 1..Extent(f) |-> WordAt(f, i - 1)]
  BY DEF ContentRight
<1> DEFINE B == [n \in DOMAIN Paths |-> block_of(f, Paths[n])]
           W(i) == LET n == i \div FS_BLKSIZ
                   IN  IF n \in DOMAIN Paths /\ B[n] # 0 THEN blk[B[n]][i % FS_BLKSIZ] ELSE Hole
<1>2. Content(f) = [i \in 1..Extent(f) |-> W(i - 1)]
  BY DEF Content
<1>3. Extent(f) \in Nat
  BY <1>1, ExtentIs DEF ExtentRight
<1>4. ASSUME NEW i \in Nat PROVE W(i) = WordAt(f, i)
  <2>1. i \div FS_BLKSIZ \in Nat
    BY InBlock
  <2>2. PICK n \in Nat : n = i \div FS_BLKSIZ
    BY <2>1
  <2>3. (IF n \in DOMAIN Paths THEN B[n] ELSE 0) = Block(f, n)
    BY BlockAt
  <2>4. W(i) = IF n \in DOMAIN Paths /\ B[n] # 0 THEN blk[B[n]][i % FS_BLKSIZ] ELSE Hole
    BY <2>2
  <2> HIDE DEF B, W
  <2>. QED
    BY <2>2, <2>3, <2>4 DEF WordAt
<1> HIDE DEF W
<1>5. \A i \in 1..Extent(f) : i - 1 \in Nat
  BY <1>3
<1>. QED
  BY <1>2, <1>4, <1>5

\* Both are so before and after every step.
Seen == ExtentRight /\ ContentRight
LEMMA SeenBoth == (TypeOK => Seen) /\ (TypeOK' => Seen')
<1>1. TypeOK => Seen
  BY ExtentIs, ContentIs DEF Seen
<1>. QED
  BY <1>1, PTL

\* Blocks of data are those of the tree at depth 0, and have one place.
LEMMA BlockOn ==
  ASSUME Good, NEW f \in Files, NEW n \in Nat, Block(f, n) # 0
  PROVE  /\ Block(f, n) \in On(f, 0) /\ Block(f, n) \in Blocks
         /\ \A g \in Files, k \in Nat : Block(g, k) = Block(f, n) => g = f /\ k = n
<1>1. /\ Data \in Inodes /\ blk \in Words /\ Owned(Data, blk, Uncleared, bitmap, lost)
      /\ \A g \in Files : Data[g] = inode[g].data
  BY Typed DEF Good, Owner, Data
<1>2. InTrees(Data, blk, Uncleared)
  BY <1>1, OwnedInTrees
<1>3. Proper(Path(n)) /\ Block(f, n) = Found(Data[f], blk, Uncleared, Path(n), Len(Path(n)))
  BY <1>1, PathProper DEF Block, Led
<1>4. Len(Path(n)) \in 1..Len(Path(n)) /\ Len(Path(n)) - Len(Path(n)) = 0
  BY <1>3 DEF Proper
<1>5. Block(f, n) \in Level(0, Data[f], blk, Uncleared)
  BY <1>1, <1>2, <1>3, <1>4, FoundLevel
<1>6. ASSUME NEW g \in Files, NEW k \in Nat, Block(g, k) = Block(f, n) PROVE g = f /\ k = n
  <2>1. Path(k) # <<>>
    BY <1>6 DEF Block
  <2>2. Proper(Path(k)) /\ Block(g, k) = Found(Data[g], blk, Uncleared, Path(k), Len(Path(k)))
    BY <1>1, <2>1, PathProper DEF Block, Led
  <2>3. f = g /\ Path(n) = Path(k)
    <3>1. PICK P, Q : P = Path(n) /\ Q = Path(k)
      OBVIOUS
    <3>2. /\ Found(Data[f], blk, Uncleared, P, Len(P)) # 0
          /\ Found(Data[f], blk, Uncleared, P, Len(P)) = Found(Data[g], blk, Uncleared, Q, Len(Q))
      BY <1>3, <1>6, <2>2, <3>1
    <3>3. Proper(P) /\ Proper(Q)
      BY <1>3, <2>2, <3>1
    <3>4. f = g /\ P = Q
      BY <1>1, <3>2, <3>3, FoundApart
    <3>. QED
      BY <3>1, <3>4
  <2>. QED
    BY <2>1, <2>3, PathInjective
<1>7. 0 \in 0..3 /\ On(f, 0) = Level(0, Data[f], blk, Uncleared)
  BY <1>1 DEF On
<1>. QED
  BY <1>2, <1>5, <1>6, <1>7 DEF InTrees

-----------------------------------------------------------------------------
(* What a step leaves as it is.                                             *)

\* What is found in f is found again; no block is found elsewhere; no word is
\* another.
Stays(f) ==
    \A P : Proper(P) => \A k \in 1..Len(P) : Led(f, P, k) # 0 => Led(f, P, k)' = Led(f, P, k)
SameBlocks(f) == \A n \in Nat : Block(f, n)' = Block(f, n)
SameWords(f) == \A i \in Nat : WordAt(f, i)' = WordAt(f, i)
SameExtent(f) == Extent(f)' = Extent(f)
Filled(f) == \A i \in Nat : WordAt(f, i)' = WordAt(f, i) \/ WordAt(f, i) = Hole

\* A file of the same words and the same end is the same file.
LEMMA SameContent ==
  ASSUME TypeOK, TypeOK', NEW f \in Files, SameWords(f), SameExtent(f)
  PROVE  Content(f)' = Content(f)
<1>1. /\ Content(f) = [i \in 1..Extent(f) |-> WordAt(f, i - 1)]
      /\ Content(f)' = [i \in 1..Extent(f)' |-> WordAt(f, i - 1)']
      /\ Extent(f) \in Nat
  BY SeenBoth DEF Seen, ExtentRight, ContentRight
<1>2. \A i \in 1..Extent(f) : i - 1 \in Nat
  BY <1>1
<1>3. \A i \in 1..Extent(f) : WordAt(f, i - 1)' = WordAt(f, i - 1)
  BY <1>2 DEF SameWords
<1>. QED
  BY <1>1, <1>3 DEF SameExtent

\* The same blocks with the same words in them are the same file.
LEMMA WordsSame ==
  ASSUME NEW f, SameBlocks(f),
         \A n \in Nat : Block(f, n) # 0 => blk'[Block(f, n)] = blk[Block(f, n)]
  PROVE  SameWords(f)
<1>1. SUFFICES ASSUME NEW i \in Nat PROVE WordAt(f, i)' = WordAt(f, i)
  BY DEF SameWords
<1>2. i \div FS_BLKSIZ \in Nat
  BY InBlock
<1>3. PICK n \in Nat : n = i \div FS_BLKSIZ
  BY <1>2
<1>4. Block(f, n)' = Block(f, n) /\ (Block(f, n) # 0 => blk'[Block(f, n)] = blk[Block(f, n)])
  BY DEF SameBlocks
<1>5. /\ WordAt(f, i) = IF Block(f, n) = 0 THEN Hole ELSE blk[Block(f, n)][i % FS_BLKSIZ]
      /\ WordAt(f, i)' = IF Block(f, n)' = 0 THEN Hole ELSE blk'[Block(f, n)'][i % FS_BLKSIZ]
  BY <1>3 DEF WordAt
<1>. QED
  BY <1>4, <1>5

\* If every path leads where it led, all walks stay where they are and the file
\* keeps its blocks.
LEMMA AllSame ==
  ASSUME NEW f, \A P : Proper(P) => \A k \in 1..Len(P) : Led(f, P, k)' = Led(f, P, k)
  PROVE  Stays(f) /\ SameBlocks(f)
<1>1. ASSUME NEW n \in Nat PROVE Block(f, n)' = Block(f, n)
  <2>1. CASE Path(n) = <<>>
    BY <2>1 DEF Block
  <2>2. CASE Path(n) # <<>>
    <3>1. PICK P : P = Path(n)
      OBVIOUS
    <3>2. Proper(P) /\ Len(P) \in 1..Len(P)
      BY <2>2, <3>1, PathProper DEF Proper
    <3>3. Led(f, P, Len(P))' = Led(f, P, Len(P))
      BY <3>2
    <3>4. Block(f, n) = Led(f, P, Len(P)) /\ Block(f, n)' = Led(f, P, Len(P))'
      BY <2>2, <3>1 DEF Block
    <3>. QED
      BY <3>3, <3>4
  <2>. QED
    BY <2>1, <2>2
<1>. QED
  BY <1>1 DEF Stays, SameBlocks

\* Nothing has been written on the disk.
LEMMA DiskSame ==
  ASSUME NEW f, inode'[f].data = inode[f].data, blk' = blk, Uncleared' = Uncleared
  PROVE  Stays(f) /\ SameWords(f)
<1>1. \A P : Proper(P) => \A k \in 1..Len(P) : Led(f, P, k)' = Led(f, P, k)
  BY DEF Led
<1>. QED
  BY <1>1, AllSame, WordsSame

\* The trees, and what they are made of.
LEMMA Trees ==
  ASSUME Good
  PROVE  /\ Data \in Inodes /\ blk \in Words /\ InTrees(Data, blk, Uncleared)
         /\ \A f \in Files : Data[f] = inode[f].data
         /\ \A f \in Files, n \in 0..3 : On(f, n) = Level(n, Data[f], blk, Uncleared)
         /\ \A f \in Files : \A P, k : Led(f, P, k) = Found(Data[f], blk, Uncleared, P, k)
<1>1. /\ Data \in Inodes /\ blk \in Words /\ Owned(Data, blk, Uncleared, bitmap, lost)
      /\ \A f \in Files : Data[f] = inode[f].data
  BY Typed DEF Good, Owner, Data
<1>2. InTrees(Data, blk, Uncleared)
  BY <1>1, OwnedInTrees
<1>3. \A f \in Files : \A P, k : Led(f, P, k) = Found(Data[f], blk, Uncleared, P, k)
  BY <1>1 DEF Led
<1>. QED
  BY <1>1, <1>2, <1>3 DEF On

\* Nothing has been written into the indirect blocks of f, but zeros into one
\* that was to be cleared.
LEMMA TreeSame ==
  ASSUME Good, NEW f \in Files, inode'[f].data = inode[f].data,
         \A n \in 1..3 : \A b \in On(f, n) : \A o \in Offsets :
           Link(blk', Uncleared', b, o) = Link(blk, Uncleared, b, o)
  PROVE  Stays(f) /\ SameBlocks(f)
<1>1. SUFFICES ASSUME NEW P, Proper(P), NEW k \in 1..Len(P)
               PROVE  Led(f, P, k)' = Led(f, P, k)
  BY AllSame
<1>2. /\ Data \in Inodes /\ blk \in Words /\ InTrees(Data, blk, Uncleared)
      /\ Data[f] = inode[f].data
      /\ \A n \in 0..3 : On(f, n) = Level(n, Data[f], blk, Uncleared)
  BY Trees
<1>3. \A n \in 1..3 : \A b \in Level(n, Data[f], blk, Uncleared) : \A o \in Offsets :
        Link(blk', Uncleared', b, o) = Link(blk, Uncleared, b, o)
  BY <1>2
<1>4. PICK l, Y : l = blk' /\ Y = Uncleared'
  OBVIOUS
<1>5. Found(Data[f], l, Y, P, k) = Found(Data[f], blk, Uncleared, P, k)
  <2>1. PICK D, m, Z : D = Data /\ m = blk /\ Z = Uncleared
    OBVIOUS
  <2>2. \A n \in 1..3 : \A b \in Level(n, D[f], m, Z) : \A o \in Offsets :
          Link(l, Y, b, o) = Link(m, Z, b, o)
    BY <1>3, <1>4, <2>1
  <2>3. D \in Inodes /\ m \in Words /\ InTrees(D, m, Z)
    BY <1>2, <2>1
  <2>4. \A i \in 1..Len(P) : Found(D[f], l, Y, P, i) = Found(D[f], m, Z, P, i)
    BY <1>1, <2>2, <2>3, FoundSame
  <2>. QED
    BY <1>1, <2>1, <2>4
<1>. QED
  BY <1>2, <1>4, <1>5 DEF Led

\* A block has been put into a pointer that was 0, and no other pointer of f is
\* another.
LEMMA TreeGrown ==
  ASSUME Good, NEW f \in Files,
         \A k \in Pointers : inode[f].data[k] # 0 => inode'[f].data[k] = inode[f].data[k],
         \A n \in 1..3 : \A b \in On(f, n) \ Uncleared : \A o \in Offsets :
           blk[b][o] # 0 => b \notin Uncleared' /\ blk'[b][o] = blk[b][o]
  PROVE  Stays(f)
<1>1. SUFFICES ASSUME NEW P, Proper(P), NEW k \in 1..Len(P), Led(f, P, k) # 0
               PROVE  Led(f, P, k)' = Led(f, P, k)
  BY DEF Stays
<1>2. /\ Data \in Inodes /\ blk \in Words /\ InTrees(Data, blk, Uncleared)
      /\ Data[f] = inode[f].data
      /\ \A n \in 0..3 : On(f, n) = Level(n, Data[f], blk, Uncleared)
  BY Trees
<1>3. PICK e, l, Y : e = inode'[f].data /\ l = blk' /\ Y = Uncleared'
  OBVIOUS
<1>4. \A n \in 1..3 : \A b \in Level(n, Data[f], blk, Uncleared) \ Uncleared : \A o \in Offsets :
        blk[b][o] # 0 => b \notin Y /\ l[b][o] = blk[b][o]
  BY <1>2, <1>3
<1>5. \A i \in Pointers : Data[f][i] # 0 => e[i] = Data[f][i]
  BY <1>2, <1>3
<1>6. Found(Data[f], blk, Uncleared, P, k) # 0
        => Found(e, l, Y, P, k) = Found(Data[f], blk, Uncleared, P, k)
  BY <1>1, <1>2, <1>4, <1>5, FoundStays
<1>. QED
  BY <1>1, <1>2, <1>3, <1>6 DEF Led

\* A task on its way stays there.
LEMMA UnderwayStays ==
  ASSUME NEW f, NEW holder, NEW path, NEW n \in Nat, Stays(f), Underway(f, holder, path, Path(n))
  PROVE  Underway(f, holder, path, Path(n))'
<1>1. PICK P : P = Path(n)
  OBVIOUS
<1>2. PICK k \in 0..Len(P) :
        /\ Len(path) = Len(P) - k /\ \A i \in 1..Len(path) : path[i] = P[k + i]
        /\ IF k = 0 THEN holder = 0 ELSE holder # 0 /\ holder = Led(f, P, k)
  BY <1>1 DEF Underway
<1>3. CASE k = 0
  BY <1>1, <1>2, <1>3 DEF Underway
<1>4. CASE k # 0
  <2>1. P # <<>> /\ k \in 1..Len(P)
    <3>1. Len(<<>>) = 0
      OBVIOUS
    <3>2. P \in Seq(Nat) /\ Len(P) \in Nat
      BY <1>1, PathLeads
    <3>3. k \in Nat /\ k <= Len(P)
      BY <3>2
    <3>. QED
      BY <1>4, <3>1, <3>2, <3>3
  <2>2. Proper(P)
    BY <1>1, <2>1, PathProper
  <2>3. Led(f, P, k)' = Led(f, P, k)
    BY <1>2, <1>4, <2>1, <2>2 DEF Stays
  <2>4. IF k = 0 THEN holder = 0 ELSE holder # 0 /\ holder = Led(f, P, k)'
    BY <1>2, <1>4, <2>3
  <2>. QED
    BY <1>1, <1>2, <2>4 DEF Underway
<1>. QED
  BY <1>3, <1>4

\* What stays leaves each call on its way.
LEMMA WayStays ==
  ASSUME NEW f, NEW c, NEW p \in Nat, Stays(f), Way(f, c, p)
  PROVE  Way(f, c, p)'
<1>1. p \div FS_BLKSIZ \in Nat
  BY InBlock
<1>2. c.pc \in Walking => Underway(f, c.holder, c.path, Path(p \div FS_BLKSIZ))'
  BY <1>1, UnderwayStays DEF Way
<1>. QED
  BY <1>2 DEF Way

\* So do all but the task that takes the step.
LEMMA WaysKept ==
  ASSUME Good, Ways, NEW t \in Tasks, NEW c, call' = [call EXCEPT ![t] = c], file' = file,
         \A u \in Tasks \ {t} : pos'[u] = pos[u],
         \A u \in Tasks \ {t} : call[u].pc \in Walking => Stays(file[u]),
         NEW f, NEW p, f = file[t], p = pos'[t], Way(f, c, p)'
  PROVE  Ways'
<1>1. call \in [Tasks -> Calls] /\ pos \in [Tasks -> Nat]
  BY DEF Good, TypeOK
<1>2. ASSUME NEW u \in Tasks PROVE Way(file[u], call[u], pos[u])'
  <2>1. CASE u = t
    <3>1. file'[u] = f /\ call'[u] = c /\ pos'[u] = p
      BY <1>1, <2>1
    <3>. QED
      BY <3>1 DEF Way
  <2>2. CASE u # t
    <3>1. PICK g, d, q : g = file[u] /\ d = call[u] /\ q = pos[u]
      OBVIOUS
    <3>2. file'[u] = g /\ call'[u] = d /\ pos'[u] = q /\ q \in Nat
      BY <1>1, <2>2, <3>1
    <3>3. Way(g, d, q)
      BY <3>1 DEF Ways
    <3>4. d.pc \in Walking => Stays(g)
      BY <2>2, <3>1
    <3>5. ASSUME d.pc \in Walking PROVE Way(g, d, q)'
      BY <3>2, <3>3, <3>4, <3>5, WayStays
    <3>6. ASSUME d.pc \notin Walking PROVE Way(g, d, q)'
      BY <3>3, <3>6 DEF Way
    <3>7. Way(g, d, q)'
      BY <3>5, <3>6
    <3>. QED
      BY <3>2, <3>7 DEF Way
  <2>. QED
    BY <2>1, <2>2
<1>. QED
  BY <1>2 DEF Ways

-----------------------------------------------------------------------------
(* Steps of FlatFiles.                                                      *)

\* Which one a step is, depends on what the task is doing then.
LEMMA TodoSet ==
  ASSUME TypeOK, NEW t \in Tasks, NEW c, call' = [call EXCEPT ![t] = c]
  PROVE  /\ todo' = [todo EXCEPT ![t] = Todo(c)] /\ view' = [view EXCEPT ![t] = View(c)]
         /\ todo[t] = Todo(call[t]) /\ todo'[t] = Todo(c) /\ view'[t] = View(c)
<1>1. \A u \in Tasks : call'[u] = IF u = t THEN c ELSE call[u]
  BY DEF TypeOK
<1>t. todo = [u \in Tasks |-> Todo(call[u])] /\ todo' = [u \in Tasks |-> Todo(call'[u])]
  BY DEF todo, Todo
<1>v. view = [u \in Tasks |-> View(call[u])] /\ view' = [u \in Tasks |-> View(call'[u])]
  BY DEF view, View
<1>2. todo' = [todo EXCEPT ![t] = Todo(c)]
  BY <1>1, <1>t
<1>3. view' = [view EXCEPT ![t] = View(c)]
  BY <1>1, <1>v
<1>4. todo[t] = Todo(call[t]) /\ todo'[t] = Todo(c) /\ view'[t] = View(c)
  BY <1>1, <1>t, <1>v
<1>. QED
  BY <1>2, <1>3, <1>4

\* The file of FlatFiles, before and after a step.
LEMMA ContentsAt == \A f \in Files : content[f] = Content(f) /\ content'[f] = Content(f)'
  BY DEF content

\* Only a task that truncates has that to do.
LEMMA TodoTruncates ==
  ASSUME Good, NEW t \in Tasks
  PROVE  Todo(call[t]).op = "truncate" => call[t].pc = "truncate"
<1>1. PICK c \in Calls : c = call[t]
  BY DEF Good, TypeOK
<1>2. c.pc = "idle" => Todo(c).op = "none"
  BY DEF Todo
<1>3. c.pc \in Walking => Todo(c).op \in {"read", "write"}
  BY CallForms DEF WalkCalls, Todo, Walking
<1>4. c.pc \in {"loop", "chunk", "end", "set"} => Todo(c).op \in {"read", "write"}
  BY CallForms DEF AtCalls, Todo
<1>5. c.pc = "given" => Todo(c).op = "read"
  BY CallForms DEF GivenCalls, Todo
<1>6. c.pc = "failed" => Todo(c).op = "failed"
  BY CallForms DEF FailedCalls, Todo
<1>7. c.pc \in {"idle", "loop", "chunk", "end", "set", "given", "truncate", "failed"} \cup Walking
  BY CallForms
<1>. QED
  BY <1>1, <1>2, <1>3, <1>4, <1>5, <1>6, <1>7

\* A step of a task that only it and, if it writes, the holes of its file
\* notice is FlatFiles' Move.
LEMMA MoveStep ==
  ASSUME Good, NEW t \in Tasks, NEW c, c.pc # "given", call' = [call EXCEPT ![t] = c],
         file' = file, pos' = pos, call[t].pc # "truncate" \/ Todo(c) = Todo(call[t]),
         \A g \in Files \ {file[t]} : Content(g)' = Content(g),
         \/ Content(file[t])' = Content(file[t])
         \/ /\ Writes(c) /\ Flat!Extends(Content(file[t])', Content(file[t]))
            /\ Len(Content(file[t])') >= Len(Content(file[t]))
  PROVE  Flat!Next
<1>1. TypeOK /\ file[t] \in Files
  BY DEF Good, TypeOK
<1>2. PICK old, new : old = content[file[t]] /\ new = content'[file[t]]
  OBVIOUS
<1>3. old = Content(file[t]) /\ new = Content(file[t])'
  BY <1>1, <1>2, ContentsAt
<1>4. /\ todo' = [todo EXCEPT ![t] = todo'[t]] /\ todo'[t] = Todo(c)
      /\ view' = [view EXCEPT ![t] = <<>>]
      /\ todo[t].op = "truncate" => todo'[t] = todo[t]
  <2>1. /\ todo' = [todo EXCEPT ![t] = todo'[t]] /\ todo'[t] = Todo(c) /\ todo[t] = Todo(call[t])
        /\ view' = [view EXCEPT ![t] = <<>>]
    BY <1>1, TodoSet DEF View
  <2>. QED
    BY <2>1, TodoTruncates
<1>5. new # old => Todo(c).op = "write" /\ Flat!Extends(new, old) /\ Len(new) >= Len(old)
  BY <1>3 DEF Todo, Writes
<1>6. Flat!Move(t, old, new)
  BY <1>4, <1>5 DEF Flat!Move
<1>7. Flat!Others(file[t])
  BY ContentsAt DEF Flat!Others
<1>. QED
  BY <1>2, <1>6, <1>7 DEF Flat!Next, Flat!Step

\* A walk that ends with words for the caller of read_file() is FlatFiles' step
\* of a read, if they are those of the file.
LEMMA ReadStep ==
  ASSUME Good, NEW t \in Tasks, call[t].pc \in Walking, call[t].op = "read",
         NEW n \in Nat, n <= call[t].len, NEW words, words \in Seq(Nat), Len(words) = n,
         call' = [call EXCEPT ![t] = Given(call[t].len - n, words)],
         file' = file, pos' = [pos EXCEPT ![t] = @ + n],
         \A g \in Files : Content(g)' = Content(g),
         \A i \in 1..n : words[i] = Flat!Word(WordAt(file[t], pos[t] + i - 1))
  PROVE  Flat!Next
<1>1. TypeOK /\ file[t] \in Files /\ pos[t] \in Nat
  BY DEF Good, TypeOK
<1>2. PICK f, p, l, c : f = file[t] /\ p = pos[t] /\ l = call[t].len /\ c = Given(l - n, words)
  OBVIOUS
<1>3. PICK old, new : old = content[f] /\ new = content'[f]
  OBVIOUS
<1>4. old = Content(f) /\ new = old
  BY <1>1, <1>2, <1>3, ContentsAt
<1>5. l \in Nat /\ n \in 0..l
  BY <1>2, WayForm
<1>6. c.pc = "given" /\ c.op = "read" /\ c.len = l - n /\ c.words = words
  BY <1>2 DEF Given
<1>7. /\ todo[t] = [op |-> "read", left |-> l]
      /\ todo' = [todo EXCEPT ![t] = [op |-> "read", left |-> l - n]]
      /\ view' = [view EXCEPT ![t] = view'[t]] /\ view'[t] = words
  <2>1. /\ todo' = [todo EXCEPT ![t] = Todo(c)] /\ view' = [view EXCEPT ![t] = View(c)]
        /\ todo[t] = Todo(call[t]) /\ view'[t] = View(c)
    BY <1>1, <1>2, TodoSet
  <2>2. Todo(c) = [op |-> "read", left |-> l - n] /\ View(c) = words
    BY <1>6 DEF Todo, View
  <2>3. Todo(call[t]) = [op |-> "read", left |-> l]
    BY <1>2 DEF Todo, Walking
  <2>. QED
    BY <2>1, <2>2, <2>3
<1>8. todo' = [todo EXCEPT ![t].left = @ - n]
  <2>1. [todo[t] EXCEPT !.left = @ - n] = [op |-> "read", left |-> l - n]
    BY <1>7
  <2>. QED
    BY <1>7, <2>1
<1>9. \A i \in 1..n : p + i \in DOMAIN old => words[i] = Flat!Word(old[p + i])
  <2>1. ContentRight /\ ExtentRight
    BY <1>1, SeenBoth DEF Seen
  <2>2. old = [i \in 1..Extent(f) |-> WordAt(f, i - 1)]
    BY <1>1, <1>2, <1>4, <2>1 DEF ContentRight
  <2>3. \A i \in 1..n : words[i] = Flat!Word(WordAt(f, p + i - 1))
    BY <1>2
  <2>4. p \in Nat /\ Extent(f) \in Nat
    BY <1>1, <1>2, <2>1 DEF ExtentRight
  <2>5. ASSUME NEW i \in 1..n, p + i \in DOMAIN old PROVE words[i] = Flat!Word(old[p + i])
    <3>1. old[p + i] = WordAt(f, (p + i) - 1)
      BY <2>2, <2>4, <2>5
    <3>2. p + i - 1 = (p + i) - 1
      BY <2>4
    <3>3. words[i] = Flat!Word(WordAt(f, p + i - 1))
      BY <2>3
    <3>. QED
      BY <3>1, <3>2, <3>3
  <2>. QED
    BY <2>5
<1>10. Flat!Read(t, n, old, new)
  <2>1. todo[t].op = "read" /\ n <= todo[t].left /\ Len(view'[t]) = n
    BY <1>5, <1>7
  <2>2. \A i \in 1..n : pos[t] + i \in DOMAIN old => view'[t][i] = Flat!Word(old[pos[t] + i])
    BY <1>2, <1>7, <1>9
  <2>3. view' = [view EXCEPT ![t] = view'[t]]
    BY <1>7
  <2>. QED
    BY <1>4, <1>8, <2>1, <2>2, <2>3 DEF Flat!Read
<1>11. Flat!Others(file[t])
  BY ContentsAt DEF Flat!Others
<1>12. n \in 0..todo[t].left
  BY <1>5, <1>7
<1>13. Flat!Step(t, old, new)
  BY <1>10, <1>12 DEF Flat!Step
<1>. QED
  BY <1>2, <1>3, <1>11, <1>13 DEF Flat!Next

\* No step that writes nothing on the disk and moves no task that writes changes
\* what files hold.
LEMMA StillContents ==
  ASSUME Good, TypeOK', NEW t \in Tasks, NEW c, call' = [call EXCEPT ![t] = c], file' = file,
         inode' = inode, blk' = blk, Uncleared' = Uncleared,
         Writes(c) <=> Writes(call[t]), \A u \in Tasks : Writes(call[u]) => pos'[u] = pos[u]
  PROVE  \A g \in Files : Stays(g) /\ SameWords(g) /\ Content(g)' = Content(g)
<1>1. SUFFICES ASSUME NEW g \in Files PROVE Stays(g) /\ SameWords(g) /\ Content(g)' = Content(g)
  OBVIOUS
<1>2. Stays(g) /\ SameWords(g)
  BY DiskSame
<1>3. \A u \in Tasks : Writes(call'[u]) <=> Writes(call[u])
  BY DEF Good, TypeOK
<1>4. Writers(g)' = Writers(g)
  BY <1>3 DEF Writers, Writes
<1>5. {pos'[u] : u \in Writers(g)} = {pos[u] : u \in Writers(g)}
  BY DEF Writers, Writes
<1>6. SameExtent(g)
  BY <1>4, <1>5 DEF SameExtent, Extent
<1>. QED
  BY <1>2, <1>6, SameContent DEF Good

-----------------------------------------------------------------------------
(* The pointers that a task follows.                                        *)

\* Where a path leads, pointer by pointer.
LEMMA LedNext ==
  ASSUME NEW f, NEW P
  PROVE  /\ Led(f, P, 1) = inode[f].data[P[1]]
         /\ \A k \in 1..3 : Led(f, P, k + 1) = Link(blk, Uncleared, Led(f, P, k), P[k + 1])
  BY FoundNext DEF Led

\* Nothing is behind a pointer that is 0.
LEMMA LedEnds ==
  ASSUME NEW f, NEW P, Proper(P), NEW k \in 1..Len(P), Led(f, P, k) = 0
  PROVE  Led(f, P, Len(P)) = 0
<1> DEFINE S == {j \in 1..Len(P) : j < k \/ Led(f, P, j) = 0}
<1>1. PICK L \in 1..4 : L = Len(P)
  BY DEF Proper
<1>2. 1 \in S
  <2>1. 1 < k \/ k = 1
    BY <1>1
  <2>. QED
    BY <1>1, <2>1
<1>3. ASSUME NEW j \in 1..3, j + 1 \in 1..Len(P), j \in S PROVE j + 1 \in S
  <2>1. Led(f, P, j + 1) = Link(blk, Uncleared, Led(f, P, j), P[j + 1])
    BY LedNext
  <2>2. j < k => j + 1 < k \/ j + 1 = k
    BY <1>1
  <2>3. Led(f, P, j) = 0 => Led(f, P, j + 1) = 0
    BY <2>1 DEF Link
  <2>. QED
    BY <1>3, <2>2, <2>3
<1> HIDE DEF S
<1>4. 1..Len(P) \subseteq S
  BY <1>2, <1>3, AlongPath
<1>5. L \in S
  BY <1>1, <1>4
<1>. QED
  BY <1>1, <1>5 DEF S

\* The pointer at which a task looks is the next one of its path.
LEMMA PointerLed ==
  ASSUME Good, NEW f \in Files, NEW n \in Nat, NEW path \in Seq(Nat), path # <<>>, NEW holder,
         Underway(f, holder, path, Path(n)), holder \notin Uncleared
  PROVE  /\ Proper(Path(n))
         /\ \E k \in 0..3 :
              /\ k + 1 \in 1..Len(Path(n)) /\ Len(path) = Len(Path(n)) - k
              /\ \A i \in 1..Len(path) : path[i] = Path(n)[k + i]
              /\ Pointer(f, holder, Head(path)) = Led(f, Path(n), k + 1)
<1>1. PICK P : P = Path(n)
  OBVIOUS
<1>2. PICK k \in 0..Len(P) :
        /\ Len(path) = Len(P) - k /\ \A i \in 1..Len(path) : path[i] = P[k + i]
        /\ IF k = 0 THEN holder = 0 ELSE holder # 0 /\ holder = Led(f, P, k)
  BY <1>1 DEF Underway
<1>3. P \in Seq(Nat) /\ Len(path) \in Nat \ {0} /\ Len(P) \in Nat /\ Head(path) = path[1]
  BY <1>1, PathLeads
<1>4. P # <<>>
  <2>1. Len(P) # 0
    BY <1>2, <1>3
  <2>. QED
    BY <2>1
<1>5. Proper(P)
  BY <1>1, <1>4, PathProper
<1>6. PICK L \in 1..4 : L = Len(P)
  BY <1>5 DEF Proper
<1>7. k \in 0..3 /\ k + 1 \in 1..L /\ 1 \in 1..Len(path)
  <2>1. k \in 0..L /\ Len(path) = L - k /\ Len(path) >= 1
    BY <1>2, <1>3, <1>6
  <2>. QED
    BY <2>1
<1>8. Head(path) = P[k + 1]
  BY <1>2, <1>3, <1>7
<1>9. Pointer(f, holder, Head(path)) = Led(f, P, k + 1)
  <2>1. CASE k = 0
    BY <1>2, <1>8, <2>1, LedNext DEF Pointer
  <2>2. CASE k # 0
    <3>1. k \in 1..3
      BY <1>7, <2>2
    <3>2. Led(f, P, k + 1) = Link(blk, Uncleared, holder, P[k + 1])
      <4>1. Led(f, P, k + 1) = Link(blk, Uncleared, Led(f, P, k), P[k + 1])
        BY <3>1, LedNext
      <4>. QED
        BY <1>2, <2>2, <4>1
    <3>3. holder # 0
      BY <1>2, <2>2
    <3>. QED
      BY <1>8, <3>2, <3>3 DEF Link, Pointer
  <2>. QED
    BY <2>1, <2>2
<1>. QED
  BY <1>1, <1>2, <1>5, <1>6, <1>7, <1>9

\* get_inode_blkno() and get_indirect_blkno(): the next pointer leads on, and
\* if it is 0 there is no block.
LEMMA UnderwayOn ==
  ASSUME Good, NEW f \in Files, NEW n \in Nat, NEW path \in Seq(Nat), path # <<>>, NEW holder,
         Underway(f, holder, path, Path(n)), holder \notin Uncleared,
         NEW b, b = Pointer(f, holder, Head(path))
  PROVE  /\ b # 0 => Underway(f, b, Tail(path), Path(n))
         /\ b = 0 => Block(f, n) = 0
<1>1. PICK P : P = Path(n)
  OBVIOUS
<1>2. Proper(P)
  BY <1>1, PointerLed
<1>3. PICK k \in 0..3 : /\ k + 1 \in 1..Len(P) /\ Len(path) = Len(P) - k
                        /\ \A i \in 1..Len(path) : path[i] = P[k + i]
                        /\ b = Led(f, P, k + 1)
  <2>1. PICK k \in 0..3 :
          /\ k + 1 \in 1..Len(Path(n)) /\ Len(path) = Len(Path(n)) - k
          /\ \A i \in 1..Len(path) : path[i] = Path(n)[k + i]
          /\ Pointer(f, holder, Head(path)) = Led(f, Path(n), k + 1)
    BY PointerLed
  <2>. QED
    BY <1>1, <2>1
<1>4. PICK L \in 1..4 : L = Len(P)
  BY <1>2 DEF Proper
<1>5. ASSUME b # 0 PROVE Underway(f, b, Tail(path), Path(n))
  <2>1. /\ Len(Tail(path)) = Len(path) - 1
        /\ \A i \in 1..(Len(path) - 1) : Tail(path)[i] = path[i + 1] /\ i + 1 \in 1..Len(path)
    OBVIOUS
  <2>2. PICK j \in 1..4 : j = k + 1
    BY <1>3
  <2>3. j \in 0..Len(P) /\ j # 0 /\ Len(Tail(path)) = Len(P) - j
    BY <1>3, <1>4, <2>1, <2>2
  <2>4. ASSUME NEW i \in 1..Len(Tail(path)) PROVE Tail(path)[i] = P[j + i]
    <3>1. Tail(path)[i] = path[i + 1] /\ i + 1 \in 1..Len(path)
      BY <2>1
    <3>2. path[i + 1] = P[k + (i + 1)] /\ k + (i + 1) = j + i
      BY <1>3, <2>2, <3>1
    <3>. QED
      BY <3>1, <3>2
  <2>. QED
    BY <1>1, <1>3, <1>5, <2>2, <2>3, <2>4 DEF Underway
<1>6. ASSUME b = 0 PROVE Block(f, n) = 0
  <2>1. Led(f, P, Len(P)) = 0
    BY <1>2, <1>3, <1>6, LedEnds
  <2>. QED
    BY <1>1, <2>1 DEF Block
<1>. QED
  BY <1>5, <1>6

\* At the end of its path a task has the block of its position.
LEMMA UnderwayEnds ==
  ASSUME NEW f, NEW n \in Nat, NEW holder, holder # 0, Underway(f, holder, <<>>, Path(n))
  PROVE  Block(f, n) = holder
<1>1. PICK P : P = Path(n)
  OBVIOUS
<1>2. PICK k \in 0..Len(P) :
        Len(<<>>) = Len(P) - k /\ IF k = 0 THEN holder = 0 ELSE holder = Led(f, P, k)
  BY <1>1 DEF Underway
<1>3. Len(P) \in Nat /\ Len(<<>>) = 0
  BY <1>1, PathLeads
<1>4. k = Len(P) /\ k # 0
  BY <1>2, <1>3
<1>5. P # <<>>
  BY <1>3, <1>4
<1>. QED
  BY <1>1, <1>2, <1>4, <1>5 DEF Block

\* At its beginning it has none.
LEMMA UnderwayBegins ==
  ASSUME NEW f, NEW n \in Nat
  PROVE  Underway(f, 0, Path(n), Path(n))
<1>1. Path(n) \in Seq(Nat)
  BY PathLeads
<1>2. 0 \in 0..Len(Path(n)) /\ Len(Path(n)) = Len(Path(n)) - 0
  BY <1>1
<1>3. \A i \in 1..Len(Path(n)) : Path(n)[i] = Path(n)[0 + i]
  BY <1>1
<1>. QED
  BY <1>2, <1>3 DEF Underway

-----------------------------------------------------------------------------
(* Every step keeps the tasks on their ways, and is one of FlatFiles.       *)

\* Only steps that begin or end at the clearing of a block change which blocks
\* are not cleared.
LEMMA UnclearedSame ==
  ASSUME TypeOK, NEW t \in Tasks, NEW c, call' = [call EXCEPT ![t] = c],
         call[t].pc # "clear", c.pc # "clear", garbled' = garbled
  PROVE  Uncleared' = Uncleared
<1>1. \A u \in Tasks : /\ call'[u].pc = "clear" <=> call[u].pc = "clear"
                       /\ call[u].pc = "clear" => call'[u] = call[u]
  BY DEF TypeOK
<1>. QED
  BY <1>1 DEF Uncleared

\* A task that changes nothing but what it is going to do.
LEMMA StillStep ==
  ASSUME Good, Good', Ways, NEW t \in Tasks, NEW c, call' = [call EXCEPT ![t] = c],
         Uncleared' = Uncleared, c.pc # "given", Writes(c) <=> Writes(call[t]),
         call[t].pc # "truncate" \/ Todo(c) = Todo(call[t]),
         inode' = inode, blk' = blk, file' = file, pos' = pos, Way(file[t], c, pos[t])
  PROVE  Ways' /\ Flat!Next
<1>1. TypeOK /\ TypeOK' /\ file \in [Tasks -> Files] /\ pos \in [Tasks -> Nat]
  BY DEF Good, TypeOK
<1>3. \A g \in Files : Stays(g) /\ SameWords(g) /\ Content(g)' = Content(g)
  BY <1>1, StillContents
<1>4. PICK f \in Files, p \in Nat : f = file[t] /\ p = pos[t]
  BY <1>1
<1>5. Way(f, c, p)'
  <2>1. Way(f, c, p)
    BY <1>4
  <2>. QED
    BY <1>3, <2>1, WayStays
<1>6. Ways'
  BY <1>1, <1>3, <1>4, <1>5, WaysKept
<1>7. Flat!Next
  <2>1. c.pc # "given" /\ file[t] \in Files /\ file'[t] = file[t]
    BY <1>1
  <2>2. \A g \in Files \ {file[t]} : Content(g)' = Content(g)
    BY <1>3
  <2>3. Content(file[t])' = Content(file[t])
    BY <1>3, <2>1
  <2>. QED
    BY <2>1, <2>2, <2>3, MoveStep
<1>. QED
  BY <1>6, <1>7

\* A walk begins at the inode, with the whole path before it.
LEMMA WayBegins ==
  ASSUME NEW f, NEW op, NEW len, NEW n, NEW p \in Nat, n <= FS_BLKSIZ - (p % FS_BLKSIZ)
  PROVE  Way(f, Walk("walk", op, len, n, 0, Path(p \div FS_BLKSIZ)), p)
<1>1. PICK c : c = Walk("walk", op, len, n, 0, Path(p \div FS_BLKSIZ))
  OBVIOUS
<1>2. c.pc = "walk" /\ c.n = n /\ c.holder = 0 /\ c.path = Path(p \div FS_BLKSIZ)
  BY <1>1 DEF Walk
<1>3. p \div FS_BLKSIZ \in Nat
  BY InBlock
<1>4. Underway(f, c.holder, c.path, Path(p \div FS_BLKSIZ))
  BY <1>2, <1>3, UnderwayBegins
<1>5. Way(f, c, p)
  BY <1>2, <1>4 DEF Way
<1>. QED
  BY <1>1, <1>5

\* The task has followed its pointer to b.
LEMMA WalkSet ==
  ASSUME NEW w \in WalkCalls, w.path # <<>>, NEW b \in Nat
  PROVE  LET q == IF Len(w.path) = 1 THEN "copy" ELSE "walk"
         IN  [w EXCEPT !.pc = q, !.holder = b, !.path = Tail(@)]
                = Walk(q, w.op, w.len, w.n, b, Tail(w.path))
<1> DEFINE q == IF Len(w.path) = 1 THEN "copy" ELSE "walk"
           p == Tail(w.path)
           c == [w EXCEPT !.pc = q, !.holder = b, !.path = Tail(@)]
<1>0. c = [w EXCEPT !.pc = q, !.holder = b, !.path = p]
  BY DEF WalkCalls
<1> HIDE DEF q, p, c
<1>1. [w EXCEPT !.pc = q, !.holder = b, !.path = p]
        = [[[w EXCEPT !.pc = q] EXCEPT !.holder = b] EXCEPT !.path = p]
  OBVIOUS
<1>2. [w EXCEPT !.pc = q] = Walk(q, w.op, w.len, w.n, w.holder, w.path)
  BY DEF WalkCalls, Walk
<1>3. [Walk(q, w.op, w.len, w.n, w.holder, w.path) EXCEPT !.holder = b]
        = Walk(q, w.op, w.len, w.n, b, w.path)
  BY DEF Walk
<1>4. [Walk(q, w.op, w.len, w.n, b, w.path) EXCEPT !.path = p]
        = Walk(q, w.op, w.len, w.n, b, p)
  BY DEF Walk
<1>5. c = Walk(q, w.op, w.len, w.n, b, p)
  BY <1>0, <1>1, <1>2, <1>3, <1>4
<1>. QED
  BY <1>5 DEF q, p, c

\* Behind the pointer to b a task is where the path has led it.
LEMMA WayGoes ==
  ASSUME NEW f, NEW w \in WalkCalls, NEW p, Way(f, w, p), NEW b \in Nat, w.path # <<>>,
         NEW q \in {"copy", "walk", "clear"}, q = "copy" => Len(w.path) = 1,
         q = "clear" => w.op = "write",
         Underway(f, b, Tail(w.path), Path(p \div FS_BLKSIZ))
  PROVE  Way(f, Walk(q, w.op, w.len, w.n, b, Tail(w.path)), p)
<1>1. PICK c : c = Walk(q, w.op, w.len, w.n, b, Tail(w.path))
  OBVIOUS
<1>2. c.pc = q /\ c.op = w.op /\ c.n = w.n /\ c.holder = b /\ c.path = Tail(w.path)
  BY <1>1 DEF Walk
<1>3. w.path \in Seq(Nat) /\ w.pc \in Walking
  BY DEF WalkCalls
<1>4. q = "copy" => c.path = <<>>
  <2>1. PICK s \in Seq(Nat) : s = w.path /\ s # <<>>
    BY <1>3
  <2>2. Len(s) = 1 => Len(Tail(s)) = 0 /\ Tail(s) \in Seq(Nat)
    BY <2>1
  <2>3. Len(s) = 1 => Tail(s) = <<>>
    <3>1. \A r \in Seq(Nat) : Len(r) = 0 => r = <<>>
      OBVIOUS
    <3>. QED
      BY <2>2, <3>1
  <2>. QED
    BY <1>2, <2>1, <2>3
<1>5. w.n <= FS_BLKSIZ - (p % FS_BLKSIZ)
  BY <1>3 DEF Way
<1>6. Way(f, c, p)
  BY <1>2, <1>4, <1>5 DEF Way
<1>. QED
  BY <1>1, <1>6

\* Unless it begins or ends at the clearing of a block, it changes nothing there.
LEMMA PlainStep ==
  ASSUME Good, Good', Ways, NEW t \in Tasks, NEW c, call' = [call EXCEPT ![t] = c],
         call[t].pc \notin {"clear", "truncate"}, c.pc \notin {"clear", "given"},
         Writes(c) <=> Writes(call[t]), UNCHANGED <<blk, garbled, inode, file, pos>>,
         Way(file[t], c, pos[t])
  PROVE  Ways' /\ Flat!Next
<1>1. Uncleared' = Uncleared
  BY UnclearedSame DEF Good
<1>. QED
  BY <1>1, StillStep

\* What read_file(), write_file() and truncate_file() do before, between and behind
\* their steps on the disk.
LEMMA StillSteps ==
  ASSUME Good, Good', Ways, NEW t \in Tasks, clash = "none", clash' = "none",
         \/ TooFar(t) \/ Follow(t) \/ NoSpace(t) \/ ReadTest(t) \/ ReadChunk(t)
         \/ Missing(t) /\ call[t].op # "read"
         \/ call[t].pc = "end" /\ pos[t] > inode[file[t]].size /\ WriteEnd(t)
         \/ \E len \in Lens : read_file(t, len)
         \/ NoBuffer(t) \/ truncate_file(t) \/ Enter(t) \/ TruncateFailed(t)
  PROVE  Ways' /\ Flat!Next
<1>0. /\ pos[t] \in Nat /\ file[t] \in Files /\ call[t] \in Calls /\ call \in [Tasks -> Calls]
      /\ inode \in [Files -> [size : Nat, data : [Pointers -> Nat]]]
      /\ Way(file[t], call[t], pos[t])
  BY DEF Good, TypeOK, Ways
<1>i. Idle.pc = "idle" /\ ~Writes(Idle) /\ Way(file[t], Idle, pos[t])
  BY DEF Idle, Writes, Way, Walking
<1>e. \A pc \in {"loop", "chunk"} : \A len : LET c == At(pc, "read", len) IN
        c.pc = pc /\ ~Writes(c) /\ Way(file[t], c, pos[t])
  BY DEF At, Writes, Way, Walking
<1>w. \A pc \in {"end", "set"} : LET c == At(pc, "write", 0) IN
        c.pc = pc /\ Writes(c) /\ Way(file[t], c, pos[t])
  BY DEF At, Writes, Way, Walking
<1>1. CASE TooFar(t)
  <2>1. /\ UNCHANGED <<blk, garbled, inode, file, pos>> /\ call[t].pc = "walk"
        /\ call' = [call EXCEPT ![t] = IF call[t].op = "read" THEN Idle ELSE At("end", "write", 0)]
    BY <1>1 DEF TooFar, GiveUp, Goto, disk
  <2>2. call[t].op \in {"read", "write"}
    BY <2>1, WayForm DEF Walking
  <2>3. PICK c : /\ call' = [call EXCEPT ![t] = c] /\ c.pc \in {"idle", "end"}
                 /\ (Writes(c) <=> Writes(call[t])) /\ Way(file[t], c, pos[t])
    <3>1. CASE call[t].op = "read"
      BY <1>i, <2>1, <3>1 DEF Writes
    <3>2. CASE call[t].op = "write"
      BY <1>w, <2>1, <3>2 DEF Writes
    <3>. QED
      BY <2>2, <3>1, <3>2
  <2>. QED
    BY <2>1, <2>3, PlainStep
<1>2. CASE NoSpace(t)
  <2>1. /\ UNCHANGED <<blk, garbled, inode, file, pos>> /\ call[t].pc = "alloc"
        /\ call' = [call EXCEPT ![t] = At("end", "write", 0)]
    BY <1>2 DEF NoSpace, Goto, disk
  <2>2. Writes(call[t])
    BY <1>0, <2>1 DEF Way, Writes
  <2>3. PICK c : c = At("end", "write", 0)
    OBVIOUS
  <2>4. c.pc = "end" /\ Writes(c) /\ Way(file[t], c, pos[t])
    BY <1>w, <2>3
  <2>. QED
    BY <2>1, <2>2, <2>3, <2>4, PlainStep
<1>3. CASE ReadTest(t)
  <2>1. /\ UNCHANGED <<blk, garbled, inode, file, pos>> /\ call[t].pc \in {"loop", "given"}
        /\ call' = [call EXCEPT ![t] = IF call[t].len > 0 /\ pos[t] < inode[file[t]].size
                                       THEN At("chunk", "read", call[t].len) ELSE Idle]
    BY <1>3 DEF ReadTest, Goto, disk
  <2>2. ~Writes(call[t]) /\ call[t].pc # "clear"
    BY <1>0, <2>1 DEF Way, Writes
  <2>3. PICK c : /\ call' = [call EXCEPT ![t] = c] /\ c.pc \in {"idle", "chunk"}
                 /\ ~Writes(c) /\ Way(file[t], c, pos[t])
    BY <1>i, <1>e, <2>1
  <2>. QED
    BY <2>1, <2>2, <2>3, PlainStep
<1>4. CASE \E len \in Lens : read_file(t, len)
  <2>1. PICK len \in Lens : /\ UNCHANGED <<blk, garbled, inode, file, pos>> /\ call[t] = Idle
                            /\ call' = [call EXCEPT ![t] = At("loop", "read", len)]
    BY <1>4 DEF read_file, Goto, disk
  <2>2. PICK c : c = At("loop", "read", len)
    OBVIOUS
  <2>3. /\ c.pc = "loop" /\ ~Writes(c) /\ Way(file[t], c, pos[t])
        /\ call[t].pc \notin {"clear", "truncate"} /\ ~Writes(call[t])
    BY <1>i, <1>e, <2>1, <2>2
  <2>. QED
    BY <2>1, <2>2, <2>3, PlainStep
<1>5. CASE call[t].pc = "end" /\ pos[t] > inode[file[t]].size /\ WriteEnd(t)
  <2>1. /\ UNCHANGED <<blk, garbled, inode, file, pos>> /\ call[t].pc = "end"
        /\ call' = [call EXCEPT ![t] = At("set", "write", 0)]
    BY <1>5 DEF WriteEnd, Goto, disk
  <2>2. Writes(call[t])
    BY <1>0, <2>1 DEF Way, Writes
  <2>3. PICK c : c = At("set", "write", 0)
    OBVIOUS
  <2>4. c.pc = "set" /\ Writes(c) /\ Way(file[t], c, pos[t])
    BY <1>w, <2>3
  <2>. QED
    BY <2>1, <2>2, <2>3, <2>4, PlainStep
<1>6. CASE ReadChunk(t)
  <2> DEFINE len == call[t].len
             rest == inode[file[t]].size - pos[t]
             n == Min({Chunk(t, len), rest})
             c == Start(t, "read", len, n)
  <2>1. len \in Nat
    BY <1>0, <1>6, CallForms DEF ReadChunk, AtCalls
  <2>2. rest \in Nat
    BY <1>0, <1>6 DEF ReadChunk, Clash
  <2>3. /\ UNCHANGED <<blk, garbled, inode, file, pos>> /\ call' = [call EXCEPT ![t] = c]
        /\ call[t].pc = "chunk"
    BY <1>6, <2>2 DEF ReadChunk, Clash, Goto, disk
  <2>4. Chunk(t, len) \in Nat /\ Chunk(t, len) <= FS_BLKSIZ - (pos[t] % FS_BLKSIZ)
    BY <1>0, <2>1, InBlock, Smaller DEF Chunk
  <2> HIDE DEF rest
  <2>5. n \in Nat /\ n <= FS_BLKSIZ - (pos[t] % FS_BLKSIZ)
    <3>1. n \in Nat /\ n <= Chunk(t, len)
      BY <2>2, <2>4, Smaller
    <3>2. FS_BLKSIZ - (pos[t] % FS_BLKSIZ) \in Nat
      BY <1>0, InBlock
    <3>. QED
      BY <2>4, <3>1, <3>2
  <2> HIDE DEF n, len
  <2>6. Way(file[t], c, pos[t]) /\ c.pc = "walk" /\ ~Writes(c)
    <3>1. Way(file[t], c, pos[t])
      BY <1>0, <2>5, WayBegins DEF Start
    <3>. QED
      BY <3>1 DEF Start, Walk, Writes
  <2>7. ~Writes(call[t])
    BY <1>0, <2>3 DEF Way, Writes
  <2> HIDE DEF c
  <2>. QED
    BY <2>3, <2>6, <2>7, PlainStep
<1>7. CASE Missing(t) /\ call[t].op # "read"
  <2>1. PICK w \in WalkCalls : w = call[t] /\ w.pc = "walk" /\ w.op = "write"
    BY <1>7, WayForm DEF Missing, Walking
  <2>2. PICK c : c = [w EXCEPT !.pc = "alloc"]
    OBVIOUS
  <2>3. UNCHANGED <<blk, garbled, inode, file, pos>> /\ call' = [call EXCEPT ![t] = c]
    BY <1>7, <2>1, <2>2 DEF Missing, Goto, disk
  <2>4. /\ c.pc = "alloc" /\ c.n = w.n /\ c.holder = w.holder /\ c.path = w.path
        /\ c.op = "write"
    BY <2>1, <2>2 DEF WalkCalls
  <2>5. Writes(c) /\ Writes(call[t])
    BY <2>1, <2>4 DEF Writes
  <2>6. Way(file[t], c, pos[t])
    <3>1. Way(file[t], w, pos[t]) /\ w.pc \in Walking
      BY <1>0, <2>1 DEF Walking
    <3>. QED
      BY <2>4, <3>1 DEF Way
  <2>. QED
    BY <2>1, <2>3, <2>4, <2>5, <2>6, PlainStep
<1>8. CASE Follow(t)
  <2>1. PICK w \in WalkCalls, f \in Files, p \in Nat :
          w = call[t] /\ w.pc = "walk" /\ f = file[t] /\ p = pos[t]
    BY <1>0, <1>8, WayForm DEF Follow, Walking
  <2>2. PICK b : b = Pointer(f, w.holder, Head(w.path))
    OBVIOUS
  <2>3. PICK q \in {"copy", "walk"} : q = IF Len(w.path) = 1 THEN "copy" ELSE "walk"
    OBVIOUS
  <2>4. PICK c : c = [w EXCEPT !.pc = q, !.holder = b, !.path = Tail(@)]
    OBVIOUS
  <2>5. /\ UNCHANGED <<blk, garbled, inode, file, pos>> /\ call' = [call EXCEPT ![t] = c]
        /\ b # 0 /\ w.path # <<>> /\ w.holder \notin Uncleared
    <3>1. w.holder \notin Uncleared
      BY <1>8, <2>1 DEF Follow, Clash
    <3>. QED
      BY <1>8, <2>1, <2>2, <2>3, <2>4, <3>1 DEF Follow, Goto, disk
  <2>6. w.path \in Seq(Nat) /\ w.pc \in Walking /\ w.op \in {"read", "write"}
    BY DEF WalkCalls
  <2>7. p \div FS_BLKSIZ \in Nat /\ Way(f, w, p)
    BY <1>0, <2>1, InBlock
  <2>8. Underway(f, b, Tail(w.path), Path(p \div FS_BLKSIZ))
    <3>1. Underway(f, w.holder, w.path, Path(p \div FS_BLKSIZ))
      BY <2>6, <2>7 DEF Way
    <3>. QED
      BY <2>2, <2>5, <2>6, <2>7, <3>1, UnderwayOn
  <2>9. b \in Nat
    <3>1. TypeOK /\ Leads(f, w.holder, w.path)
      BY <2>1, <2>5, <2>6, WayForm DEF OnWay, Good
    <3>2. b \in On(f, Len(w.path) - 1)
      BY <2>2, <2>5, <2>6, <3>1, PointerLeads
    <3>3. Len(w.path) - 1 \in 0..3
      BY <2>6, <3>1, LeadsForm
    <3>. QED
      BY <3>2, <3>3, OnApart
  <2>10. c = Walk(q, w.op, w.len, w.n, b, Tail(w.path))
    BY <2>3, <2>4, <2>5, <2>9, WalkSet
  <2>11. Way(f, c, p)
    BY <2>3, <2>5, <2>7, <2>8, <2>9, <2>10, WayGoes
  <2>12. c.pc = q /\ (Writes(c) <=> Writes(call[t]))
    BY <2>1, <2>10 DEF Walk, Writes
  <2>. QED
    BY <2>1, <2>3, <2>5, <2>11, <2>12, PlainStep
<1>9. CASE NoBuffer(t)
  <2>1. /\ UNCHANGED <<blk, inode, file, pos>> /\ call[t].pc \in Walking
        /\ call' = [call EXCEPT ![t] = IF call[t].op = "read" THEN Idle ELSE At("end", "write", 0)]
        /\ garbled' = garbled \cup (IF call[t].pc = "clear" THEN {call[t].holder} ELSE {})
    BY <1>9 DEF NoBuffer, GiveUp, Goto
  <2>2. call[t].op \in {"read", "write"} /\ call[t].pc \notin {"idle", "truncate"}
    BY <2>1, WayForm DEF Walking
  <2>3. PICK c : /\ call' = [call EXCEPT ![t] = c] /\ c.pc \in {"idle", "end"}
                 /\ (Writes(c) <=> Writes(call[t])) /\ Way(file[t], c, pos[t])
    <3>1. CASE call[t].op = "read"
      BY <1>i, <2>1, <2>2, <3>1 DEF Writes
    <3>2. CASE call[t].op = "write"
      BY <1>w, <2>1, <2>2, <3>2 DEF Writes
    <3>. QED
      BY <2>2, <3>1, <3>2
  <2>4. Uncleared' = Uncleared
    <3>1. CASE call[t].pc # "clear"
      BY <2>1, <2>3, <3>1, UnclearedSame DEF Good
    <3>2. CASE call[t].pc = "clear"
      <4>1. /\ call'[t].pc # "clear" /\ \A u \in Tasks \ {t} : call'[u] = call[u]
            /\ garbled' = garbled \cup {call[t].holder}
        BY <1>0, <2>1, <2>3, <3>2
      <4>2. ASSUME NEW y PROVE y \in Uncleared' <=> y \in Uncleared
        BY <3>2, <4>1 DEF Uncleared
      <4>. QED
        BY <4>2
    <3>. QED
      BY <3>1, <3>2
  <2>. QED
    BY <2>1, <2>2, <2>3, <2>4, StillStep
<1>10. CASE truncate_file(t)
  <2>1. /\ UNCHANGED <<blk, garbled, inode, file, pos>> /\ call[t] = Idle
        /\ call' = [call EXCEPT ![t] = Truncating(<<>>)]
    BY <1>10 DEF truncate_file, Clash, Goto, disk
  <2>2. PICK c : c = Truncating(<<>>)
    OBVIOUS
  <2>3. /\ c.pc = "truncate" /\ ~Writes(c) /\ Way(file[t], c, pos[t])
        /\ call[t].pc \notin {"clear", "truncate"} /\ ~Writes(call[t])
    BY <1>i, <2>1, <2>2 DEF Truncating, Writes, Way, Walking
  <2>. QED
    BY <2>1, <2>2, <2>3, PlainStep
<1>11. CASE TruncateFailed(t)
  <2>1. /\ UNCHANGED <<blk, garbled, inode, file, pos>> /\ call[t].pc = "failed"
        /\ call' = [call EXCEPT ![t] = Idle]
    BY <1>11 DEF TruncateFailed, Goto, disk
  <2>2. call[t] \in FailedCalls
    BY <1>0, <2>1, CallForms
  <2>3. ~Writes(call[t])
    BY <2>2 DEF FailedCalls, Writes
  <2>. QED
    BY <1>i, <2>1, <2>3, PlainStep
<1>12. CASE Enter(t)
  <2>1. PICK q : q = FirstLeft(file[t], call[t].path)
    OBVIOUS
  <2>2. PICK c : c = Truncating(q)
    OBVIOUS
  <2>3. /\ UNCHANGED <<blk, garbled, inode, file, pos>> /\ call[t].pc = "truncate"
        /\ call' = [call EXCEPT ![t] = c]
    BY <1>12, <2>1, <2>2 DEF Enter, Truncates, Clash, Goto, disk
  <2>4. call[t] \in TruncateCalls
    BY <1>0, <2>3, CallForms
  <2>5. /\ c.pc = "truncate" /\ ~Writes(c) /\ Way(file[t], c, pos[t])
        /\ ~Writes(call[t]) /\ Todo(c) = Todo(call[t])
    BY <2>2, <2>4 DEF TruncateCalls, Truncating, Writes, Way, Walking, Todo
  <2>6. Uncleared' = Uncleared
    BY <2>3, <2>5, UnclearedSame DEF Good
  <2>. QED
    BY <2>3, <2>5, <2>6, StillStep
<1>. QED
  BY <1>1, <1>2, <1>3, <1>4, <1>5, <1>6, <1>7, <1>8, <1>9, <1>10, <1>11, <1>12

\* A task is given what is there.
LEMMA GivenStep ==
  ASSUME Good, Good', Ways, NEW t \in Tasks, call[t].pc \in Walking, call[t].op = "read",
         NEW n \in Nat, n = call[t].n, NEW words \in Seq(Nat), Len(words) = n,
         call' = [call EXCEPT ![t] = Given(call[t].len - n, words)],
         inode' = inode, blk' = blk, garbled' = garbled, file' = file,
         pos' = [pos EXCEPT ![t] = @ + n],
         \A i \in 1..n : words[i] = Flat!Word(WordAt(file[t], pos[t] + i - 1))
  PROVE  Ways' /\ Flat!Next
<1>1. /\ TypeOK /\ TypeOK' /\ file \in [Tasks -> Files] /\ pos \in [Tasks -> Nat]
      /\ Way(file[t], call[t], pos[t])
  BY DEF Good, TypeOK, Ways
<1>2. PICK c : c = Given(call[t].len - n, words)
  OBVIOUS
<1>3. c.pc = "given" /\ c.op = "read" /\ ~Writes(c) /\ ~Writes(call[t]) /\ call[t].pc # "clear"
  BY <1>1, <1>2 DEF Given, Writes, Way
<1>4. Uncleared' = Uncleared
  BY <1>1, <1>2, <1>3, UnclearedSame
<1>5. \A u \in Tasks : Writes(call[u]) => pos'[u] = pos[u]
  BY <1>1, <1>3
<1>6. \A g \in Files : Stays(g) /\ SameWords(g) /\ Content(g)' = Content(g)
  BY <1>1, <1>2, <1>3, <1>4, <1>5, StillContents
<1>7. Ways'
  <2>1. PICK f, p : f = file[t] /\ p = pos'[t]
    OBVIOUS
  <2>2. Way(f, c, p)'
    BY <1>3 DEF Way, Walking
  <2>3. \A u \in Tasks \ {t} : pos'[u] = pos[u] /\ file[u] \in Files
    BY <1>1
  <2>. QED
    BY <1>2, <1>6, <2>1, <2>2, <2>3, WaysKept
<1>8. Flat!Next
  <2>1. n <= call[t].len
    BY WayForm
  <2>. QED
    BY <1>6, <2>1, ReadStep
<1>. QED
  BY <1>7, <1>8

\* read_file() returns the words of the file: from its block, or zeros when the
\* walk finds none.
LEMMA ReadSteps ==
  ASSUME Good, Good', Ways, NEW t \in Tasks,
         ReadCopy(t) \/ (Missing(t) /\ call[t].op = "read")
  PROVE  Ways' /\ Flat!Next
<1>0. call[t].pc \in Walking
  BY DEF ReadCopy, Missing, Walking
<1>1. PICK f \in Files, p \in Nat, n \in Nat, w \in WalkCalls :
        /\ f = file[t] /\ p = pos[t] /\ w = call[t] /\ n = w.n /\ w.op = "read"
        /\ w.holder \in Nat /\ w.path \in Seq(Nat) /\ w.pc \in Walking
  BY <1>0, WayForm DEF ReadCopy
<1>2. PICK k \in Nat : k = p \div FS_BLKSIZ
  BY InBlock
<1>3. /\ n <= FS_BLKSIZ - (p % FS_BLKSIZ) /\ Underway(f, w.holder, w.path, Path(k))
      /\ w.pc = "copy" => w.path = <<>>
  BY <1>1, <1>2 DEF Way, Ways
<1>4. \A i \in 1..n : /\ p + i - 1 \in Nat /\ (p + i - 1) \div FS_BLKSIZ = k
                      /\ (p + i - 1) % FS_BLKSIZ \in Offsets
  <2>1. SUFFICES ASSUME NEW i \in 1..n
                 PROVE  /\ p + i - 1 \in Nat /\ (p + i - 1) \div FS_BLKSIZ = k
                        /\ (p + i - 1) % FS_BLKSIZ \in Offsets
    OBVIOUS
  <2>2. PICK j \in Nat : j = i - 1
    OBVIOUS
  <2>3. p % FS_BLKSIZ \in Nat /\ FS_BLKSIZ \in Nat
    BY InBlock, Numbers DEF Offsets
  <2>4. (p % FS_BLKSIZ) + j < FS_BLKSIZ
    BY <1>3, <2>2, <2>3
  <2>5. p + i - 1 = p + j
    BY <2>2
  <2>6. PICK y \in Nat : y = p + j /\ y = p + i - 1
    BY <2>2
  <2>7. y \div FS_BLKSIZ = k
    BY <1>2, <2>4, <2>6, SameBlock
  <2>8. y % FS_BLKSIZ \in Offsets
    BY InBlock
  <2>. QED
    BY <2>6, <2>7, <2>8
<1>5. CASE ReadCopy(t)
  <2>1. PICK words : words = [i \in 1..n |-> blk[w.holder][(p + i - 1) % FS_BLKSIZ]]
    OBVIOUS
  <2>2. /\ UNCHANGED <<inode, blk, garbled, file>> /\ pos' = [pos EXCEPT ![t] = @ + n]
        /\ w.pc = "copy"
        /\ call' = [call EXCEPT ![t] = Given(call[t].len - n, words)]
    BY <1>1, <1>5, <2>1 DEF ReadCopy, Goto, disk
  <2>3. w.holder \in Blocks /\ w.holder # 0 /\ blk \in Words
    <3>1. w.holder \in On(f, 0) /\ 0 \in 0..3
      BY <1>1, <2>2, WayForm DEF OnWay
    <3>. QED
      BY <3>1, OnApart DEF Good, TypeOK, Words
  <2>4. words \in Seq(Nat) /\ Len(words) = n
    <3>1. \A i \in 1..n : blk[w.holder][(p + i - 1) % FS_BLKSIZ] \in Nat
      BY <1>4, <2>3 DEF Words
    <3>. QED
      BY <2>1, <3>1
  <2>5. Block(f, k) = w.holder
    BY <1>3, <2>2, <2>3, UnderwayEnds
  <2>6. ASSUME NEW i \in 1..n PROVE words[i] = Flat!Word(WordAt(f, p + i - 1))
    <3>1. WordAt(f, p + i - 1) = blk[w.holder][(p + i - 1) % FS_BLKSIZ]
      BY <1>4, <2>3, <2>5 DEF WordAt
    <3>2. words[i] = WordAt(f, p + i - 1) /\ words[i] \in Nat
      BY <2>1, <2>4, <3>1
    <3>3. words[i] # Hole
      BY <3>2 DEF Hole
    <3>. QED
      BY <3>2, <3>3 DEF Flat!Word
  <2>7. \A i \in 1..n : words[i] = Flat!Word(WordAt(file[t], pos[t] + i - 1))
    BY <1>1, <2>6
  <2>. QED
    BY <1>1, <2>2, <2>4, <2>7, GivenStep
<1>6. CASE Missing(t) /\ call[t].op = "read"
  <2>1. PICK words : words = [i \in 1..n |-> 0]
    OBVIOUS
  <2>2. /\ UNCHANGED <<inode, blk, garbled, file>> /\ pos' = [pos EXCEPT ![t] = @ + n]
        /\ w.path # <<>> /\ w.holder \notin Uncleared /\ Pointer(f, w.holder, Head(w.path)) = 0
        /\ call' = [call EXCEPT ![t] = Given(call[t].len - n, words)]
    BY <1>1, <1>6, <2>1 DEF Missing, Goto, disk
  <2>3. words \in Seq(Nat) /\ Len(words) = n
    BY <2>1
  <2>4. Block(f, k) = 0
    BY <1>1, <1>3, <2>2, UnderwayOn
  <2>5. ASSUME NEW i \in 1..n PROVE words[i] = Flat!Word(WordAt(f, p + i - 1))
    <3>1. WordAt(f, p + i - 1) = Hole
      BY <1>4, <2>4 DEF WordAt
    <3>. QED
      BY <2>1, <3>1 DEF Flat!Word
  <2>6. \A i \in 1..n : words[i] = Flat!Word(WordAt(file[t], pos[t] + i - 1))
    BY <1>1, <2>5
  <2>7. /\ call[t].pc \in Walking /\ call[t].op = "read" /\ n = call[t].n
        /\ inode' = inode /\ blk' = blk /\ garbled' = garbled /\ file' = file
    BY <1>1, <2>2
  <2>. QED
    BY <2>2, <2>3, <2>6, <2>7, GivenStep
<1>. QED
  BY <1>5, <1>6

-----------------------------------------------------------------------------
(* Steps by which a file may grow or shrink.                                *)

\* A file that keeps its words, or only has holes filled, extends what it was
\* as far as both go.
LEMMA Lengthened ==
  ASSUME TypeOK, TypeOK', NEW f \in Files
  PROVE  /\ Content(f) = [i \in 1..Extent(f) |-> WordAt(f, i - 1)]
         /\ Content(f)' = [i \in 1..Extent(f)' |-> WordAt(f, i - 1)']
         /\ Extent(f) \in Nat /\ Extent(f)' \in Nat
         /\ Len(Content(f)) = Extent(f) /\ Len(Content(f)') = Extent(f)'
         /\ SameWords(f) \/ Filled(f) => Flat!Extends(Content(f)', Content(f))
<1>1. /\ Content(f) = [i \in 1..Extent(f) |-> WordAt(f, i - 1)]
      /\ Content(f)' = [i \in 1..Extent(f)' |-> WordAt(f, i - 1)']
      /\ Extent(f) \in Nat /\ Extent(f)' \in Nat
  BY SeenBoth DEF Seen, ExtentRight, ContentRight
<1>2. Len(Content(f)) = Extent(f) /\ Len(Content(f)') = Extent(f)'
  BY <1>1
<1>3. ASSUME Filled(f) PROVE Flat!Extends(Content(f)', Content(f))
  <2>1. PICK old, new : old = Content(f) /\ new = Content(f)'
    OBVIOUS
  <2>x. PICK x \in Nat : x = Extent(f)
    BY <1>1
  <2>y. PICK y \in Nat : y = Extent(f)'
    BY <1>1
  <2>2. old = [i \in 1..x |-> WordAt(f, i - 1)] /\ new = [i \in 1..y |-> WordAt(f, i - 1)']
    BY <1>1, <2>1, <2>x, <2>y
  <2>3. ASSUME NEW i \in 1..x, i \in 1..y PROVE new[i] = old[i] \/ old[i] = Hole
    <3>1. i - 1 \in Nat
      OBVIOUS
    <3>2. WordAt(f, i - 1)' = WordAt(f, i - 1) \/ WordAt(f, i - 1) = Hole
      BY <1>3, <3>1 DEF Filled
    <3>. QED
      BY <2>2, <2>3, <3>2
  <2>4. Flat!Extends(new, old)
    BY <2>2, <2>3 DEF Flat!Extends
  <2>. QED
    BY <2>1, <2>4
<1>4. SameWords(f) => Filled(f)
  BY DEF SameWords, Filled
<1>. QED
  BY <1>1, <1>2, <1>3, <1>4

\* How far other files reach.
LEMMA OthersExtent ==
  ASSUME TypeOK, NEW t \in Tasks, NEW c, call' = [call EXCEPT ![t] = c], file' = file,
         \A u \in Tasks \ {t} : pos'[u] = pos[u],
         NEW g \in Files, g # file[t], inode'[g].size = inode[g].size
  PROVE  SameExtent(g)
<1>1. \A u \in Tasks \ {t} : call'[u] = call[u]
  BY DEF TypeOK
<1>2. t \notin Writers(g) /\ t \notin Writers(g)'
  BY DEF Writers
<1>3. Writers(g)' = Writers(g)
  BY <1>1, <1>2 DEF Writers
<1>4. {pos'[u] : u \in Writers(g)} = {pos[u] : u \in Writers(g)}
  BY <1>2 DEF Writers
<1>. QED
  BY <1>3, <1>4 DEF SameExtent, Extent

\* The words are those of before, and the task itself writes or has written.
LEMMA MarkStep ==
  ASSUME Good, Good', Ways, NEW t \in Tasks, NEW c, call' = [call EXCEPT ![t] = c],
         call[t].pc \notin {"clear", "truncate"}, c.pc \notin {"clear", "given"},
         \A g \in Files : inode'[g].data = inode[g].data /\
                          (g # file[t] => inode'[g].size = inode[g].size),
         blk' = blk, garbled' = garbled, file' = file, pos' = pos, Way(file[t], c, pos[t]),
         \/ SameExtent(file[t])
         \/ Writes(c) /\ Extent(file[t])' >= Extent(file[t])
  PROVE  Ways' /\ Flat!Next
<1>1. TypeOK /\ TypeOK' /\ file \in [Tasks -> Files] /\ pos \in [Tasks -> Nat]
  BY DEF Good, TypeOK
<1>2. Uncleared' = Uncleared
  BY <1>1, UnclearedSame
<1>3. \A g \in Files : Stays(g) /\ SameWords(g)
  BY <1>2, DiskSame
<1>4. PICK f \in Files, p \in Nat : f = file[t] /\ p = pos[t] /\ file'[t] = f
  BY <1>1
<1>5. Way(f, c, p)'
  <2>1. Way(f, c, p)
    BY <1>4
  <2>. QED
    BY <1>3, <2>1, WayStays
<1>6. Ways'
  BY <1>1, <1>3, <1>4, <1>5, WaysKept
<1>7. ASSUME NEW g \in Files \ {file[t]} PROVE Content(g)' = Content(g)
  <2>1. SameExtent(g)
    BY <1>1, <1>7, OthersExtent
  <2>. QED
    BY <1>1, <1>3, <2>1, SameContent
<1>8. \/ Content(f)' = Content(f)
      \/ /\ Writes(c) /\ Flat!Extends(Content(f)', Content(f))
         /\ Len(Content(f)') >= Len(Content(f))
  <2>1. CASE SameExtent(file[t])
    <3>1. SameExtent(f)
      BY <1>4, <2>1 DEF SameExtent
    <3>. QED
      BY <1>1, <1>3, <3>1, SameContent
  <2>2. CASE Writes(c) /\ Extent(file[t])' >= Extent(file[t])
    <3>1. Extent(f)' >= Extent(f)
      BY <1>4, <2>2
    <3>. QED
      BY <1>1, <1>3, <2>2, <3>1, Lengthened
  <2>. QED
    BY <2>1, <2>2
<1>9. Flat!Next
  <2>1. \/ Content(file[t])' = Content(file[t])
        \/ /\ Writes(c) /\ Flat!Extends(Content(file[t])', Content(file[t]))
           /\ Len(Content(file[t])') >= Len(Content(file[t]))
    BY <1>4, <1>8
  <2>2. c.pc # "given"
    OBVIOUS
  <2>. QED
    BY <1>7, <2>1, <2>2, MoveStep
<1>. QED
  BY <1>6, <1>9

\* write_file() and its end.
LEMMA MarkSteps ==
  ASSUME Good, Good', Ways, NEW t \in Tasks, clash = "none", clash' = "none",
         \/ \E len \in Lens : write_file(t, len)
         \/ call[t].pc = "end" /\ ~(pos[t] > inode[file[t]].size) /\ WriteEnd(t)
         \/ WriteSize(t)
  PROVE  Ways' /\ Flat!Next
<1>0. /\ pos \in [Tasks -> Nat] /\ file \in [Tasks -> Files] /\ call \in [Tasks -> Calls]
      /\ inode \in [Files -> [size : Nat, data : [Pointers -> Nat]]]
      /\ TypeOK /\ TypeOK' /\ Way(file[t], call[t], pos[t])
  BY DEF Good, TypeOK, Ways
<1>f. PICK f \in Files, p \in Nat : f = file[t] /\ p = pos[t]
  BY <1>0
<1>i. Idle.pc = "idle" /\ ~Writes(Idle) /\ Way(f, Idle, p)
  BY DEF Idle, Writes, Way, Walking
<1>x. PICK x \in Nat, y \in Nat, s \in Nat :
        x = Extent(f) /\ y = Extent(f)' /\ s = inode[f].size
  <2>1. Extent(f) \in Nat /\ Extent(f)' \in Nat
    BY <1>0, Lengthened
  <2>2. inode[f].size \in Nat
    BY <1>0
  <2>. QED
    BY <2>1, <2>2
<1>b. /\ s <= x /\ \A u \in Writers(f) : pos[u] <= x
      /\ x = s \/ \E u \in Writers(f) : x = pos[u]
      /\ inode'[f].size <= y /\ \A u \in Writers(f)' : pos'[u] <= y
      /\ y = inode'[f].size \/ \E u \in Writers(f)' : y = pos'[u]
  <2>1. ExtentRight /\ ExtentRight'
    BY <1>0, SeenBoth DEF Seen
  <2>2. /\ inode[f].size <= x /\ \A u \in Writers(f) : pos[u] <= x
        /\ x = inode[f].size \/ \E u \in Writers(f) : x = pos[u]
    BY <1>x, <2>1 DEF ExtentRight
  <2>3. /\ inode'[f].size <= y /\ \A u \in Writers(f)' : pos'[u] <= y
        /\ y = inode'[f].size \/ \E u \in Writers(f)' : y = pos'[u]
    BY <1>x, <2>1 DEF ExtentRight
  <2>. QED
    BY <1>x, <2>2, <2>3
<1>1. CASE \E len \in Lens : write_file(t, len)
  <2>1. PICK len \in Lens : write_file(t, len)
    BY <1>1
  <2> DEFINE n == Chunk(t, len)
  <2>2. PICK c : c = Start(t, "write", len, n)
    OBVIOUS
  <2>3. /\ UNCHANGED <<blk, garbled, inode, file, pos>> /\ call[t] = Idle
        /\ call' = [call EXCEPT ![t] = c]
    BY <2>1, <2>2 DEF write_file, Goto, Clash, disk
  <2>4. n <= FS_BLKSIZ - (p % FS_BLKSIZ)
    BY <1>f, ParametersAssumption, InBlock, Smaller DEF Chunk
  <2> HIDE DEF n
  <2>5. Way(f, c, p)
    BY <1>f, <2>2, <2>4, WayBegins DEF Start
  <2>6. c.pc = "walk" /\ Writes(c)
    BY <2>2 DEF Start, Walk, Writes
  <2>7. y >= x
    <3>1. \A u \in Writers(f) : u \in Tasks /\ u # t /\ call[u] = call'[u] /\ file[u] = file'[u]
      BY <1>0, <1>i, <2>3 DEF Writers
    <3>2. \A u \in Writers(f) : u \in Writers(f)' /\ pos'[u] = pos[u]
      BY <2>3, <3>1 DEF Writers
    <3>3. x = s => s <= y
      BY <1>b, <1>x, <2>3
    <3>4. \A u \in Writers(f) : x = pos[u] => x <= y
      BY <1>b, <3>2
    <3>. QED
      BY <1>b, <3>3, <3>4
  <2>8. Extent(file[t])' >= Extent(file[t])
    BY <1>f, <1>x, <2>3, <2>7
  <2>. QED
    BY <1>f, <1>i, <2>3, <2>5, <2>6, <2>8, MarkStep
<1>2. CASE call[t].pc = "end" /\ ~(pos[t] > inode[file[t]].size) /\ WriteEnd(t)
  <2>1. /\ UNCHANGED <<blk, garbled, inode, file, pos>> /\ call[t].pc = "end" /\ ~(p > s)
        /\ call' = [call EXCEPT ![t] = Idle]
    BY <1>2, <1>f, <1>x DEF WriteEnd, Goto, disk
  <2>2. \A u \in Tasks : u # t => call[u] = call'[u]
    BY <1>0, <2>1
  <2>3. \A u \in Writers(f) : u # t => u \in Writers(f)' /\ pos'[u] = pos[u]
    BY <2>1, <2>2 DEF Writers
  <2>4. call'[t] = Idle
    BY <1>0, <2>1
  <2>5. \A u \in Writers(f)' : u \in Writers(f) /\ pos'[u] = pos[u]
    <3>1. t \notin Writers(f)'
      BY <1>i, <2>4 DEF Writers
    <3>. QED
      BY <2>1, <2>2, <3>1 DEF Writers
  <2>6. x <= y
    <3>1. x = s => x <= y
      BY <1>b, <1>x, <2>1
    <3>2. \A u \in Writers(f) : x = pos[u] => x <= y
      <4>1. ASSUME NEW u \in Writers(f), x = pos[u] PROVE x <= y
        <5>1. CASE u = t
          BY <1>b, <1>f, <1>x, <2>1, <4>1, <5>1
        <5>2. CASE u # t
          BY <1>b, <2>3, <4>1, <5>2
        <5>. QED
          BY <5>1, <5>2
      <4>. QED
        BY <4>1
    <3>. QED
      BY <1>b, <3>1, <3>2
  <2>7. y <= x
    <3>1. inode'[f].size = s
      BY <1>x, <2>1
    <3>. QED
      BY <1>b, <2>5, <3>1
  <2>8. SameExtent(file[t])
    <3>1. Extent(f)' = Extent(f)
      BY <1>x, <2>6, <2>7
    <3>. QED
      BY <1>f, <2>1, <3>1 DEF SameExtent
  <2>. QED
    BY <1>f, <1>i, <2>1, <2>8, MarkStep
<1>3. CASE WriteSize(t)
  <2>1. /\ UNCHANGED <<blk, garbled, file, pos>> /\ call[t].pc = "set" /\ ~(s > p)
        /\ call' = [call EXCEPT ![t] = Idle] /\ inode' = [inode EXCEPT ![f].size = p]
    BY <1>3, <1>f, <1>x DEF WriteSize, Clash, Goto
  <2>2. \A u \in Tasks : u # t => call[u] = call'[u]
    BY <1>0, <2>1
  <2>3. \A u \in Writers(f) : u # t => u \in Writers(f)' /\ pos'[u] = pos[u]
    BY <2>1, <2>2 DEF Writers
  <2>4. call'[t] = Idle /\ inode'[f].size = p
    BY <1>0, <2>1
  <2>5. \A u \in Writers(f)' : u \in Writers(f) /\ pos'[u] = pos[u]
    <3>1. t \notin Writers(f)'
      BY <1>i, <2>4 DEF Writers
    <3>. QED
      BY <2>1, <2>2, <3>1 DEF Writers
  <2>w. t \in Writers(f) /\ pos[t] = p
    <3>1. call[t].op = "write"
      BY <1>0, <2>1 DEF Way
    <3>. QED
      BY <1>f, <2>1, <3>1 DEF Writers
  <2>6. x <= y
    <3>1. x = s => x <= y
      BY <1>b, <2>1, <2>4
    <3>2. \A u \in Writers(f) : x = pos[u] => x <= y
      <4>1. ASSUME NEW u \in Writers(f), x = pos[u] PROVE x <= y
        <5>1. CASE u = t
          BY <1>b, <1>f, <2>4, <4>1, <5>1
        <5>2. CASE u # t
          BY <1>b, <2>3, <4>1, <5>2
        <5>. QED
          BY <5>1, <5>2
      <4>. QED
        BY <4>1
    <3>. QED
      BY <1>b, <3>1, <3>2
  <2>7. y <= x
    BY <1>b, <2>4, <2>5, <2>w
  <2>8. SameExtent(file[t])
    <3>1. Extent(f)' = Extent(f)
      BY <1>x, <2>6, <2>7
    <3>. QED
      BY <1>f, <2>1, <3>1 DEF SameExtent
  <2>9. \A g \in Files : inode'[g].data = inode[g].data /\
                         (g # file[t] => inode'[g].size = inode[g].size)
    BY <1>0, <1>f, <2>1
  <2>. QED
    BY <1>f, <1>i, <2>1, <2>8, <2>9, MarkStep
<1>. QED
  BY <1>1, <1>2, <1>3

\* Calls that take one step.
LEMMA ResizeStep ==
  ASSUME Good, NEW t \in Tasks, call[t] = Idle, call' = call, file' = file, pos' = pos,
         \A g \in Files \ {file[t]} : Content(g)' = Content(g),
         NEW f \in Files, f = file[t], Flat!Extends(Content(f)', Content(f))
  PROVE  Flat!Next
<1>1. PICK old, new : old = content[f] /\ new = content'[f]
  OBVIOUS
<1>2. old = Content(f) /\ new = Content(f)'
  BY <1>1, ContentsAt
<1>3. todo' = todo /\ view' = view /\ todo[t] = Todo(call[t])
  BY DEF todo, view, Todo, View
<1>4. todo[t] = Flat!Idle
  BY <1>3 DEF Todo, Idle, Flat!Idle
<1>5. Flat!Resize(t, old, new)
  BY <1>2, <1>3, <1>4 DEF Flat!Resize
<1>6. Flat!Others(file[t])
  BY ContentsAt DEF Flat!Others
<1>. QED
  BY <1>1, <1>5, <1>6 DEF Flat!Next, Flat!Step

\* seek_file() and set_file_size() are steps of FlatFiles.
LEMMA CallSteps ==
  ASSUME Good, Good', Ways, NEW t \in Tasks,
         \/ \E p \in Places : seek_file(t, p)
         \/ \E n \in Sizes : set_file_size(t, n)
  PROVE  Ways' /\ Flat!Next
<1>0. /\ pos \in [Tasks -> Nat] /\ file \in [Tasks -> Files] /\ call \in [Tasks -> Calls]
      /\ inode \in [Files -> [size : Nat, data : [Pointers -> Nat]]]
      /\ TypeOK /\ TypeOK' /\ Places \subseteq Nat
  BY ParametersAssumption DEF Good, TypeOK
<1>1. /\ call[t] = Idle /\ call' = call /\ file' = file /\ blk' = blk /\ garbled' = garbled
      /\ \A g \in Files : inode'[g].data = inode[g].data
  <2>1. CASE \E p \in Places : seek_file(t, p)
    BY <2>1 DEF seek_file, disk
  <2>2. CASE \E n \in Sizes : set_file_size(t, n)
    <3>1. PICK n : /\ call[t] = Idle /\ call' = call /\ file' = file
                   /\ blk' = blk /\ garbled' = garbled
                   /\ inode' = [inode EXCEPT ![file[t]].size = n]
      BY <2>2 DEF set_file_size
    <3>. QED
      BY <1>0, <3>1
  <2>. QED
    BY <2>1, <2>2
<1>2. call' = [call EXCEPT ![t] = Idle] /\ Uncleared' = Uncleared
  BY <1>0, <1>1 DEF Uncleared
<1>3. \A g \in Files : Stays(g) /\ SameWords(g)
  BY <1>1, <1>2, DiskSame
<1>4. PICK f \in Files : f = file[t] /\ file'[t] = f
  BY <1>0, <1>1
<1>5. Idle.pc = "idle" /\ ~Writes(Idle) /\ \A q : Way(f, Idle, q)'
  BY DEF Idle, Writes, Way, Walking
<1>6. CASE \E p \in Places : seek_file(t, p)
  <2>1. PICK p \in Nat : p <= inode[f].size /\ pos' = [pos EXCEPT ![t] = p] /\ inode' = inode
    BY <1>0, <1>4, <1>6 DEF seek_file, disk
  <2>2. /\ \A u \in Tasks \ {t} : pos'[u] = pos[u]
        /\ \A u \in Tasks : Writes(call[u]) => pos'[u] = pos[u]
    BY <1>0, <1>1, <1>5, <2>1
  <2>3. \A g \in Files : Content(g)' = Content(g)
    BY <1>0, <1>1, <1>2, <1>5, <2>1, <2>2, StillContents
  <2>4. Ways'
    BY <1>0, <1>1, <1>2, <1>3, <1>4, <1>5, <2>2, WaysKept
  <2>5. PICK old, new : old = content[f] /\ new = content'[f]
    OBVIOUS
  <2>6. old = Content(f) /\ new = old
    BY <2>3, <2>5, ContentsAt
  <2>7. todo' = todo /\ view' = view /\ todo[t] = Todo(call[t])
    BY <1>1 DEF todo, view, Todo, View
  <2>8. todo[t] = Flat!Idle
    BY <1>1, <2>7 DEF Todo, Idle, Flat!Idle
  <2>9. p \in 0..Len(old)
    <3>1. PICK x \in Nat, s \in Nat : x = Extent(f) /\ s = inode[f].size /\ s <= x
      BY <1>0, SeenBoth DEF Seen, ExtentRight
    <3>2. Len(old) = x
      BY <1>0, <2>6, <3>1, Lengthened
    <3>. QED
      BY <2>1, <3>1, <3>2
  <2>10. Flat!Seek(t, old, new)
    BY <2>1, <2>6, <2>7, <2>8, <2>9 DEF Flat!Seek
  <2>11. Flat!Others(file[t])
    BY <2>3, ContentsAt DEF Flat!Others
  <2>12. Flat!Next
    BY <1>1, <1>4, <2>5, <2>10, <2>11 DEF Flat!Next, Flat!Step
  <2>. QED
    BY <2>4, <2>12
<1>7. CASE \E n \in Sizes : set_file_size(t, n)
  <2>1. pos' = pos /\ \A g \in Files : g # f => inode'[g].size = inode[g].size
    BY <1>0, <1>4, <1>7 DEF set_file_size
  <2>2. ASSUME NEW g \in Files \ {file[t]} PROVE Content(g)' = Content(g)
    <3>1. SameExtent(g)
      BY <1>0, <1>1, <1>2, <1>4, <2>1, <2>2, OthersExtent
    <3>. QED
      BY <1>0, <1>3, <2>2, <3>1, SameContent
  <2>3. Flat!Extends(Content(f)', Content(f))
    BY <1>0, <1>3, Lengthened
  <2>4. Ways'
    <3>1. \A u \in Tasks \ {t} : pos'[u] = pos[u]
      BY <2>1
    <3>2. PICK p : p = pos'[t]
      OBVIOUS
    <3>3. Way(f, Idle, p)'
      BY <1>5
    <3>. QED
      BY <1>0, <1>1, <1>2, <1>3, <1>4, <3>1, <3>2, <3>3, WaysKept
  <2>5. Flat!Next
    BY <1>1, <1>4, <2>1, <2>2, <2>3, ResizeStep
  <2>. QED
    BY <2>4, <2>5
<1>. QED
  BY <1>6, <1>7

-----------------------------------------------------------------------------
(* Steps of a truncation.                                                   *)

\* Where pointers have been set to 0, a path leads where it has led, or nowhere.
LEMMA FoundLess ==
  ASSUME NEW D \in Inodes, NEW m \in Words, NEW Z, InTrees(D, m, Z), NEW f \in Files,
         NEW e, NEW l, NEW P, Proper(P),
         \A k \in Pointers : e[k] \in {D[f][k], 0},
         \A b \in Blocks, o \in Offsets : l[b][o] \in {m[b][o], 0}
  PROVE  \A k \in 1..Len(P) : Found(e, l, Z, P, k) \in {Found(D[f], m, Z, P, k), 0}
<1> DEFINE F(k) == Found(D[f], m, Z, P, k)
           G(k) == Found(e, l, Z, P, k)
           S(k) == G(k) \in {F(k), 0}
           T == {k \in 1..Len(P) : S(k)}
<1>1. PICK L \in 1..4 : L = Len(P) /\ P[1] \in Pointers
  BY DEF Proper
<1>2. S(1)
  <2>1. F(1) = D[f][P[1]] /\ G(1) = e[P[1]]
    BY FoundNext
  <2>. QED
    BY <1>1, <2>1
<1>3. ASSUME NEW k \in 1..3, k + 1 \in 1..Len(P), S(k) PROVE S(k + 1)
  <2>1. F(k + 1) = Link(m, Z, F(k), P[k + 1]) /\ G(k + 1) = Link(l, Z, G(k), P[k + 1])
    BY FoundNext
  <2>2. k \in 1..Len(P) /\ k + 1 \in 2..Len(P) /\ Len(P) - k \in 1..3
    BY <1>1, <1>3, Shorter
  <2>3. P[k + 1] \in Offsets
    BY <2>2 DEF Proper
  <2>4. F(k) # 0 => F(k) \in Blocks
    <3>1. PICK n \in 1..3 : n = Len(P) - k
      BY <2>2
    <3>2. n \in 0..3
      OBVIOUS
    <3>3. F(k) # 0 => F(k) \in Level(n, D[f], m, Z)
      BY <2>2, <3>1, FoundLevel
    <3>. QED
      BY <3>2, <3>3 DEF InTrees
  <2>5. G(k) \in {F(k), 0}
    BY <1>3
  <2> HIDE DEF F, G
  <2>. QED
    BY <2>1, <2>3, <2>4, <2>5 DEF Link
<1> HIDE DEF S
<1>4. 1 \in T
  BY <1>1, <1>2
<1>5. \A k \in 1..3 : k + 1 \in 1..Len(P) /\ k \in T => k + 1 \in T
  BY <1>3
<1>6. \A k \in 1..Len(P) : S(k)
  <2> HIDE DEF T
  <2>1. 1..Len(P) \subseteq T
    BY <1>4, <1>5, AlongPath
  <2>. QED
    BY <2>1 DEF T
<1>. QED
  BY <1>6 DEF S

\* What it does: pointers of f are set to 0, and f may be said to be shorter.
Cuts(f) ==
    /\ \A k \in Pointers : inode'[f].data[k] \in {inode[f].data[k], 0}
    /\ \A b \in Blocks, o \in Offsets : blk'[b][o] \in {blk[b][o], 0}
    /\ \A g \in Files : \A b \in On(g, 0) : blk'[b] = blk[b]
    /\ inode'[f].size <= inode[f].size
    /\ \A g \in Files \ {f} : inode'[g] = inode[g]
    /\ ElsewhereSame(f)

\* The blocks of f that it does not lose it keeps, and their words.
LEMMA CutBlocks ==
  ASSUME Good, NEW f \in Files, Cuts(f), Uncleared' = Uncleared
  PROVE  /\ \A n \in Nat : Block(f, n)' \in {Block(f, n), 0}
         /\ \A i \in Nat : WordAt(f, i)' \in {WordAt(f, i), Hole}
<1>1. ASSUME NEW n \in Nat PROVE Block(f, n)' \in {Block(f, n), 0}
  <2>1. CASE Path(n) = <<>>
    BY <2>1 DEF Block
  <2>2. CASE Path(n) # <<>>
    <3>1. PICK P : P = Path(n)
      OBVIOUS
    <3>2. Proper(P) /\ Len(P) \in 1..Len(P)
      BY <2>2, <3>1, PathProper DEF Proper
    <3>3. /\ Data \in Inodes /\ blk \in Words /\ InTrees(Data, blk, Uncleared)
          /\ Data[f] = inode[f].data
      BY Trees
    <3>4. PICK D, m, Z, e, l : /\ D = Data /\ m = blk /\ Z = Uncleared
                               /\ e = inode'[f].data /\ l = blk'
      OBVIOUS
    <3>5. /\ \A k \in Pointers : e[k] \in {D[f][k], 0}
          /\ \A b \in Blocks, o \in Offsets : l[b][o] \in {m[b][o], 0}
      BY <3>3, <3>4 DEF Cuts
    <3>6. D \in Inodes /\ m \in Words /\ InTrees(D, m, Z)
      BY <3>3, <3>4
    <3>7. Found(e, l, Z, P, Len(P)) \in {Found(D[f], m, Z, P, Len(P)), 0}
      BY <3>2, <3>5, <3>6, FoundLess
    <3>8. /\ Block(f, n) = Found(D[f], m, Z, P, Len(P))
          /\ Block(f, n)' = Found(e, l, Z, P, Len(P))
      BY <2>2, <3>1, <3>3, <3>4 DEF Block, Led
    <3>. QED
      BY <3>7, <3>8
  <2>. QED
    BY <2>1, <2>2
<1>2. ASSUME NEW i \in Nat PROVE WordAt(f, i)' \in {WordAt(f, i), Hole}
  <2>1. PICK n \in Nat : n = i \div FS_BLKSIZ
    BY InBlock
  <2>2. /\ WordAt(f, i) = IF Block(f, n) = 0 THEN Hole ELSE blk[Block(f, n)][i % FS_BLKSIZ]
        /\ WordAt(f, i)' = IF Block(f, n)' = 0 THEN Hole ELSE blk'[Block(f, n)'][i % FS_BLKSIZ]
    BY <2>1 DEF WordAt
  <2>3. Block(f, n) # 0 => blk'[Block(f, n)] = blk[Block(f, n)]
    BY BlockOn DEF Cuts
  <2>4. Block(f, n)' \in {Block(f, n), 0}
    BY <1>1
  <2>. QED
    BY <2>2, <2>3, <2>4
<1>. QED
  BY <1>1, <1>2

\* Other files stay as they are.
LEMMA CutElsewhere ==
  ASSUME Good, NEW f \in Files, Cuts(f), Uncleared' = Uncleared, NEW g \in Files \ {f}
  PROVE  Stays(g) /\ SameWords(g)
<1>1. /\ inode'[g].data = inode[g].data
      /\ \A n \in 1..3 : \A b \in On(g, n) : blk'[b] = blk[b]
  BY DEF Cuts, ElsewhereSame
<1>2. \A n \in 1..3 : \A b \in On(g, n) : \A o \in Offsets :
        Link(blk', Uncleared', b, o) = Link(blk, Uncleared, b, o)
  BY <1>1 DEF Link
<1>3. Stays(g) /\ SameBlocks(g)
  BY <1>1, <1>2, TreeSame
<1>4. \A n \in Nat : Block(g, n) # 0 => blk'[Block(g, n)] = blk[Block(g, n)]
  BY BlockOn DEF Cuts
<1>. QED
  BY <1>3, <1>4, WordsSame

\* It is FlatFiles' Truncate, and no task is on its way in its file.
LEMMA CutStep ==
  ASSUME Good, Good', Ways, NEW t \in Tasks, Truncates(t), NEW c, call' = [call EXCEPT ![t] = c],
         c.pc \in {"truncate", "failed", "idle"}, c.pc # "idle" => c.op = c.pc,
         file' = file, pos' = pos, Uncleared' = Uncleared, NEW f \in Files, f = file[t], Cuts(f),
         c.pc = "idle" => \A n \in Nat : Block(f, n)' = 0
  PROVE  Ways' /\ Flat!Next
<1>0. /\ pos \in [Tasks -> Nat] /\ file \in [Tasks -> Files] /\ call \in [Tasks -> Calls]
      /\ inode \in [Files -> [size : Nat, data : [Pointers -> Nat]]]
      /\ inode' \in [Files -> [size : Nat, data : [Pointers -> Nat]]]
      /\ TypeOK /\ TypeOK' /\ Alone
  BY DEF Good, TypeOK
<1>1. call[t] \in TruncateCalls
  BY TruncatingIn
<1>2. /\ ~Writes(call[t]) /\ ~Writes(c) /\ View(call[t]) = <<>> /\ View(c) = <<>>
      /\ Todo(call[t]).op = "truncate" /\ Todo(c).op \in {"truncate", "none", "failed"}
      /\ Todo(c).op = "none" => c.pc = "idle"
  BY <1>1 DEF TruncateCalls, Writes, View, Todo
<1>3. Ways'
  <2>1. \A u \in Tasks \ {t} : call[u].pc \in Walking => file[u] \in Files \ {f}
    BY <1>0 DEF Alone
  <2>2. \A u \in Tasks \ {t} : call[u].pc \in Walking => Stays(file[u])
    BY <2>1, CutElsewhere
  <2>3. PICK p : p = pos'[t]
    OBVIOUS
  <2>4. Way(f, c, p)'
    BY DEF Way, Walking
  <2>5. \A u \in Tasks \ {t} : pos'[u] = pos[u]
    OBVIOUS
  <2>. QED
    BY <2>2, <2>3, <2>4, <2>5, WaysKept
<1>4. ASSUME NEW g \in Files \ {f} PROVE Content(g)' = Content(g)
  <2>1. SameWords(g) /\ inode'[g].size = inode[g].size
    BY <1>4, CutElsewhere DEF Cuts
  <2>2. SameExtent(g)
    BY <1>0, <1>4, <2>1, OthersExtent
  <2>. QED
    BY <1>0, <2>1, <2>2, SameContent
<1>5. PICK x \in Nat, y \in Nat : x = Extent(f) /\ y = Extent(f)'
  BY <1>0, Lengthened
<1>6. y <= x
  <2>1. Writers(f)' = Writers(f)
    <3>1. \A u \in Tasks : Writes(call'[u]) <=> Writes(call[u])
      BY <1>0, <1>2
    <3>. QED
      BY <3>1 DEF Writers, Writes
  <2>2. ExtentRight /\ ExtentRight'
    BY <1>0, SeenBoth DEF Seen
  <2>3. /\ inode[f].size <= x /\ \A u \in Writers(f) : pos[u] <= x
        /\ y = inode'[f].size \/ \E u \in Writers(f)' : y = pos'[u]
    BY <1>5, <2>2 DEF ExtentRight
  <2>4. PICK s \in Nat, r \in Nat : s = inode[f].size /\ r = inode'[f].size /\ r <= s
    BY <1>0 DEF Cuts
  <2>. QED
    BY <2>1, <2>3, <2>4
<1>7. PICK old, new : old = content[f] /\ new = content'[f]
  OBVIOUS
<1>8. old = Content(f) /\ new = Content(f)'
  BY <1>7, ContentsAt
<1>9. old = [i \in 1..x |-> WordAt(f, i - 1)] /\ new = [i \in 1..y |-> WordAt(f, i - 1)']
  BY <1>0, <1>5, <1>8, Lengthened
<1>10. ASSUME NEW i \in 1..y PROVE /\ new[i] \in {old[i], Hole}
                                   /\ c.pc = "idle" => new[i] = Hole
  <2>1. PICK j \in Nat : j = i - 1
    OBVIOUS
  <2>2. i \in 1..x /\ old[i] = WordAt(f, j) /\ new[i] = WordAt(f, j)'
    BY <1>6, <1>9, <2>1
  <2>3. WordAt(f, j)' \in {WordAt(f, j), Hole}
    BY CutBlocks
  <2>4. ASSUME c.pc = "idle" PROVE WordAt(f, j)' = Hole
    <3>1. j \div FS_BLKSIZ \in Nat
      BY InBlock
    <3>2. Block(f, j \div FS_BLKSIZ)' = 0
      BY <2>4, <3>1
    <3>. QED
      BY <3>2 DEF WordAt
  <2>. QED
    BY <2>2, <2>3, <2>4
<1>11. Len(new) <= Len(old) /\ DOMAIN new = 1..y
  BY <1>6, <1>9
<1>12. /\ todo' = [todo EXCEPT ![t] = todo'[t]] /\ todo'[t] = Todo(c) /\ todo[t] = Todo(call[t])
       /\ view' = view
  <2>1. /\ todo' = [todo EXCEPT ![t] = todo'[t]] /\ todo'[t] = Todo(c) /\ todo[t] = Todo(call[t])
        /\ view' = [view EXCEPT ![t] = <<>>]
    BY <1>0, <1>2, TodoSet
  <2>2. view = [u \in Tasks |-> View(call[u])]
    BY DEF view, View
  <2>3. view' = view
    BY <1>2, <2>1, <2>2
  <2>. QED
    BY <2>1, <2>3
<1>13. Flat!Truncate(t, old, new)
  <2>1. todo[t].op = "truncate" /\ todo'[t].op \in {"truncate", "none", "failed"}
    BY <1>2, <1>12
  <2>2. todo'[t].op = "none" => \A n \in DOMAIN new : new[n] = Hole
    BY <1>2, <1>10, <1>11, <1>12
  <2>3. \A n \in DOMAIN new : new[n] \in {old[n], Hole}
    BY <1>10, <1>11
  <2>. QED
    BY <1>11, <1>12, <2>1, <2>2, <2>3 DEF Flat!Truncate
<1>14. Flat!Others(file[t])
  BY <1>4, ContentsAt DEF Flat!Others
<1>15. Flat!Next
  BY <1>7, <1>13, <1>14 DEF Flat!Next, Flat!Step
<1>. QED
  BY <1>3, <1>15

\* One pointer is set to 0.
LEMMA CutAtCuts ==
  ASSUME Good, NEW f \in Files, NEW h, NEW o, CutAt(f, h, o), Uncleared' = Uncleared,
         <<f, h, o>> \in Refs(Data, blk, Uncleared)
  PROVE  Cuts(f)
<1>1. /\ inode \in [Files -> [size : Nat, data : [Pointers -> Nat]]] /\ blk \in Words
      /\ 0 \notin Blocks
  BY Typed, Numbers DEF Good, TypeOK
<1>2. \/ h = 0 /\ o \in Pointers
      \/ h \in Blocks /\ o \in Offsets /\ h \in Inner(Data[f], blk, Uncleared)
  <2>1. /\ <<f, h, o>> \in References
        /\ h = 0 \/ h \in Inner(Data[f], blk, Uncleared)
    BY DEF Refs
  <2>2. (h = 0 /\ o \in Pointers) \/ (h \in Blocks /\ o \in Offsets)
    BY <2>1 DEF References
  <2>. QED
    BY <1>1, <2>1, <2>2
<1>3. h # 0 => \E n \in 1..3 : h \in On(f, n)
  <2>1. \A n \in 0..3 : On(f, n) = Level(n, Data[f], blk, Uncleared)
    BY Trees
  <2>. QED
    BY <1>2, <2>1, 1 \in 1..3, 2 \in 1..3, 3 \in 1..3, 1..3 \subseteq 0..3 DEF Inner
<1>4. \A b \in Blocks : b # h => blk'[b] = blk[b]
  BY <1>1 DEF CutAt, Words
<1>5. ASSUME NEW g \in Files, NEW b \in On(g, 0) PROVE blk'[b] = blk[b]
  <2>1. b \in Blocks /\ 0 \in 0..3
    BY <1>5, OnApart
  <2>2. b # h
    <3>1. CASE h = 0
      BY <1>1, <2>1, <3>1
    <3>2. CASE h # 0
      <4>1. PICK n \in 0..3 : n # 0 /\ h \in On(f, n)
        BY <1>3, <3>2
      <4>. QED
        BY <1>5, <2>1, <4>1, OnApart
    <3>. QED
      BY <3>1, <3>2
  <2>. QED
    BY <1>4, <2>1, <2>2
<1>6. /\ \A k \in Pointers : inode'[f].data[k] \in {inode[f].data[k], 0}
      /\ inode'[f].size = inode[f].size
      /\ \A g \in Files \ {f} : inode'[g] = inode[g]
  <2>1. CASE h = 0
    <3>1. inode' = [inode EXCEPT ![f].data[o] = 0] /\ o \in Pointers
      BY <1>1, <1>2, <2>1 DEF CutAt
    <3>2. \A g \in Files \ {f} : inode'[g] = inode[g]
      BY <1>1, <3>1
    <3>3. PICK w \in [size : Nat, data : [Pointers -> Nat]] : w = inode[f]
      BY <1>1
    <3>4. inode'[f] = [w EXCEPT !.data[o] = 0]
      BY <1>1, <3>1, <3>3
    <3>. QED
      BY <3>1, <3>2, <3>3, <3>4
  <2>2. CASE h # 0
    BY <2>2 DEF CutAt
  <2>. QED
    BY <2>1, <2>2
<1>7. \A b \in Blocks, i \in Offsets : blk'[b][i] \in {blk[b][i], 0}
  <2>1. CASE h = 0
    BY <2>1 DEF CutAt
  <2>2. CASE h # 0
    BY <1>1, <1>2, <2>2 DEF CutAt, Words
  <2>. QED
    BY <2>1, <2>2
<1>8. ElsewhereSame(f)
  <2>1. h = 0 \/ \E n \in 0..3 : h \in On(f, n)
    BY <1>3
  <2>2. \A g \in Files \ {f} : inode'[g].data = inode[g].data
    BY <1>6
  <2>. QED
    BY <1>4, <2>1, <2>2, Elsewhere
<1>9. inode'[f].size <= inode[f].size
  BY <1>1, <1>6
<1>. QED
  BY <1>5, <1>6, <1>7, <1>8, <1>9 DEF Cuts

\* Only the inode of f changes.
LEMMA CutInode ==
  ASSUME Good, NEW f \in Files, blk' = blk, Uncleared' = Uncleared,
         \A k \in Pointers : inode'[f].data[k] \in {inode[f].data[k], 0},
         inode'[f].size <= inode[f].size, \A g \in Files \ {f} : inode'[g] = inode[g]
  PROVE  Cuts(f)
<1>1. ElsewhereSame(f)
  BY DEF ElsewhereSame
<1>. QED
  BY <1>1 DEF Cuts

\* truncate_file(), step by step.
LEMMA CutSteps ==
  ASSUME Good, Good', Ways, NEW t \in Tasks,
         FreeData(t) \/ FreeFails(t) \/ Leave(t) \/ EnterFails(t) \/ TruncateEnd(t)
  PROVE  Ways' /\ Flat!Next
<1>1. PICK f, p, c : f = file[t] /\ p = call[t].path /\ c = call[t]
  OBVIOUS
<1>2. /\ p \in Seq(Nat) /\ f \in Files /\ Descended(f, p) /\ Truncates(t)
      /\ c \in TruncateCalls /\ c.pc = "truncate"
      /\ call \in [Tasks -> Calls] /\ inode \in [Files -> [size : Nat, data : [Pointers -> Nat]]]
  <2>1. Truncates(t)
    BY DEF FreeData, FreeFails, Leave, EnterFails, TruncateEnd
  <2>. QED
    BY <1>1, <2>1, TruncatingIn DEF Good, TypeOK
<1>3. CASE FreeData(t) \/ FreeFails(t)
  <2>1. /\ Left(f, p) # {} /\ Cut(f, FirstLeft(f, p)) /\ UNCHANGED <<garbled, file, pos, call>>
    BY <1>1, <1>3 DEF FreeData, FreeFails
  <2>2. PICK h, o : h = Inside(f, p) /\ o = Last(FirstLeft(f, p))
    OBVIOUS
  <2>3. CutAt(f, h, o) /\ <<f, h, o>> \in Refs(Data, blk, Uncleared)
    BY <1>2, <2>1, <2>2, CutsNext, LeftIs
  <2>4. Uncleared' = Uncleared /\ call' = [call EXCEPT ![t] = c]
    BY <1>1, <1>2, <2>1 DEF Uncleared
  <2>5. Cuts(f)
    BY <1>2, <2>3, <2>4, CutAtCuts
  <2>6. c.op = c.pc
    BY <1>2 DEF TruncateCalls
  <2>. QED
    BY <1>1, <1>2, <2>1, <2>4, <2>5, <2>6, CutStep
<1>4. CASE Leave(t)
  <2>1. PICK g, h, o, d : g = Front(p) /\ h = Inside(f, g) /\ o = Last(p) /\ d = Truncating(g)
    OBVIOUS
  <2>2. /\ Left(f, p) = {} /\ p # <<>> /\ Cut(f, p) /\ call' = [call EXCEPT ![t] = d]
        /\ UNCHANGED <<garbled, file, pos>>
    BY <1>1, <1>4, <2>1 DEF Leave, Goto
  <2>3. /\ Len(p) = 1 => h = 0 /\ o = p[1]
        /\ Len(p) # 1 => h # 0
        /\ <<f, h, o>> \in Refs(Data, blk, Uncleared)
    BY <1>2, <2>1, <2>2, UpOne
  <2>4. CutAt(f, h, o)
    BY <1>2, <2>1, <2>2, <2>3, CutIs
  <2>5. d.pc = "truncate" /\ d.op = "truncate"
    BY <2>1 DEF Truncating
  <2>6. Uncleared' = Uncleared
    BY <1>1, <1>2, <2>2, <2>5, UnclearedSame DEF Good
  <2>7. Cuts(f)
    BY <1>2, <2>3, <2>4, <2>6, CutAtCuts
  <2>. QED
    BY <1>1, <1>2, <2>2, <2>5, <2>6, <2>7, CutStep
<1>5. CASE EnterFails(t)
  <2>1. PICK k, d : k = FirstLeft(f, p)[1] /\ d = At("failed", "failed", 0)
    OBVIOUS
  <2>2. /\ Left(f, p) # {} /\ inode' = [inode EXCEPT ![f].data[k] = 0, ![f].size = 0]
        /\ call' = [call EXCEPT ![t] = d] /\ UNCHANGED <<blk, garbled, file, pos>>
    BY <1>1, <1>5, <2>1 DEF EnterFails, Goto
  <2>3. k \in Pointers
    BY <1>2, <2>1, <2>2, LeftIs
  <2>4. \A g \in Files \ {f} : inode'[g] = inode[g]
    BY <1>2, <2>2
  <2>5. /\ \A i \in Pointers : inode'[f].data[i] \in {inode[f].data[i], 0}
        /\ inode'[f].size <= inode[f].size
    <3>1. inode'[f] = [[inode[f] EXCEPT !.data[k] = 0] EXCEPT !.size = 0]
      BY <1>2, <2>2
    <3>2. PICK w \in [size : Nat, data : [Pointers -> Nat]] : w = inode[f]
      BY <1>2
    <3>3. PICK z : z = [[w EXCEPT !.data[k] = 0] EXCEPT !.size = 0]
      OBVIOUS
    <3>4. z.size = 0 /\ \A i \in Pointers : z.data[i] \in {w.data[i], 0}
      BY <2>3, <3>3
    <3>. QED
      BY <3>1, <3>2, <3>3, <3>4
  <2>6. d.pc = "failed" /\ d.op = "failed"
    BY <2>1 DEF At
  <2>7. Uncleared' = Uncleared
    BY <1>1, <1>2, <2>2, <2>6, UnclearedSame DEF Good
  <2>8. Cuts(f)
    BY <1>2, <2>2, <2>4, <2>5, <2>7, CutInode
  <2>. QED
    BY <1>1, <1>2, <2>2, <2>6, <2>7, <2>8, CutStep
<1>6. CASE TruncateEnd(t)
  <2>1. /\ p = <<>> /\ Left(f, <<>>) = {} /\ inode' = [inode EXCEPT ![f].size = 0]
        /\ call' = [call EXCEPT ![t] = Idle] /\ UNCHANGED <<blk, garbled, file, pos>>
    BY <1>1, <1>6 DEF TruncateEnd, Goto
  <2>2. /\ \A g \in Files \ {f} : inode'[g] = inode[g]
        /\ inode'[f].data = inode[f].data /\ inode'[f].size <= inode[f].size
    BY <1>2, <2>1
  <2>3. Idle.pc = "idle"
    BY DEF Idle
  <2>4. Uncleared' = Uncleared
    BY <1>1, <1>2, <2>1, <2>3, UnclearedSame DEF Good
  <2>5. Cuts(f)
    BY <1>2, <2>1, <2>2, <2>4, CutInode
  <2>6. \A k \in Pointers : inode'[f].data[k] = 0
    BY <2>1, <2>2 DEF Left, Pointer, Inside
  <2>7. ASSUME NEW n \in Nat PROVE Block(f, n)' = 0
    <3>1. CASE Path(n) = <<>>
      BY <3>1 DEF Block
    <3>2. CASE Path(n) # <<>>
      <4>1. PICK P : P = Path(n)
        OBVIOUS
      <4>2. Proper(P)
        BY <3>2, <4>1, PathProper
      <4>3. PICK L \in 1..4 : L = Len(P) /\ P[1] \in Pointers
        BY <4>2 DEF Proper
      <4>4. PICK d, m, Z : d = inode'[f].data /\ m = blk' /\ Z = Uncleared'
        OBVIOUS
      <4>5. d[P[1]] = 0
        BY <2>6, <4>3, <4>4
      <4>6. Found(d, m, Z, P, L) = 0
        BY <4>5 DEF Found, Link
      <4>7. Block(f, n)' = Found(d, m, Z, P, L)
        BY <3>2, <4>1, <4>3, <4>4 DEF Block, Led
      <4>. QED
        BY <4>6, <4>7
    <3>. QED
      BY <3>1, <3>2
  <2>. QED
    BY <1>1, <1>2, <2>1, <2>3, <2>4, <2>5, <2>7, CutStep
<1>. QED
  BY <1>3, <1>4, <1>5, <1>6

-----------------------------------------------------------------------------
(* Steps that write on the disk.                                            *)

\* Zeros are written where nothing could be found.
LEMMA ClearStep ==
  ASSUME Good, Good', Ways, NEW t \in Tasks, Clear(t)
  PROVE  Ways' /\ Flat!Next
<1>0. /\ pos \in [Tasks -> Nat] /\ file \in [Tasks -> Files] /\ call \in [Tasks -> Calls]
      /\ TypeOK /\ TypeOK' /\ blk \in Words /\ ClearOnce
  BY DEF Good, TypeOK, Words
<1>w. call[t].pc = "clear" /\ call[t].pc \in Walking
  BY DEF Clear, Walking
<1>1. PICK w \in WalkCalls, f \in Files, p \in Nat, h \in Nat :
        /\ w = call[t] /\ f = file[t] /\ p = pos[t] /\ h = w.holder /\ OnWay(f, w)
        /\ w.pc = "clear"
  BY <1>w, WayForm
<1>2. PICK c : c = [w EXCEPT !.pc = "walk"]
  OBVIOUS
<1>3. /\ inode' = inode /\ garbled' = garbled /\ file' = file /\ pos' = pos
      /\ blk' = [blk EXCEPT ![h] = NoWords] /\ call' = [call EXCEPT ![t] = c]
  BY <1>1, <1>2 DEF Clear, Goto
<1>4. /\ c.pc = "walk" /\ c.op = w.op /\ c.n = w.n /\ c.holder = h /\ c.path = w.path
      /\ w.path \in Seq(Nat)
  BY <1>1, <1>2 DEF WalkCalls
<1>5. Way(f, w, p) /\ w.op = "write"
  <2>1. Way(f, w, p)
    BY <1>1 DEF Ways
  <2>. QED
    BY <1>1, <2>1 DEF Way
<1>6. h \in Blocks /\ h \in Uncleared /\ h \in On(f, Len(w.path)) /\ Len(w.path) \in 1..3
  <2>1. Leads(f, h, w.path) /\ h # 0
    BY <1>1 DEF OnWay
  <2>. QED
    BY <1>1, <1>4, <2>1, LeadsForm DEF Uncleared
<1>7. \A b : b # h => (b \in Uncleared' <=> b \in Uncleared)
  <2>1. /\ call'[t].pc # "clear" /\ \A u \in Tasks \ {t} : call'[u] = call[u]
        /\ \A u \in Tasks \ {t} : call[u].pc = "clear" => call[u].holder # h
    BY <1>0, <1>1, <1>3, <1>4 DEF ClearOnce
  <2>2. ASSUME NEW y, y # h PROVE y \in Uncleared' <=> y \in Uncleared
    BY <1>1, <1>3, <2>1, <2>2 DEF Uncleared
  <2>. QED
    BY <2>2
<1>8. blk'[h] = NoWords /\ \A b \in Blocks : b # h => blk'[b] = blk[b]
  BY <1>0, <1>3, <1>6 DEF Words
<1>9. ASSUME NEW g \in Files PROVE Stays(g) /\ Content(g)' = Content(g)
  <2>1. ASSUME NEW n \in 1..3, NEW b \in On(g, n), NEW o \in Offsets
        PROVE  Link(blk', Uncleared', b, o) = Link(blk, Uncleared, b, o)
    <3>1. b \in Blocks
      <4>1. n \in 0..3
        OBVIOUS
      <4>. QED
        BY <2>1, <4>1, OnApart
    <3>2. CASE b = h
      <4>1. blk'[h][o] = 0
        BY <1>8, <2>1 DEF NoWords
      <4>. QED
        BY <1>6, <1>7, <3>2, <4>1 DEF Link
    <3>3. CASE b # h
      BY <1>7, <1>8, <3>1, <3>3 DEF Link
    <3>. QED
      BY <3>2, <3>3
  <2>2. Stays(g) /\ SameBlocks(g)
    BY <1>3, <2>1, TreeSame
  <2>3. ASSUME NEW n \in Nat, Block(g, n) # 0 PROVE blk'[Block(g, n)] = blk[Block(g, n)]
    <3>1. Block(g, n) \in On(g, 0) /\ Block(g, n) \in Blocks
      BY <2>3, BlockOn
    <3>2. PICK l \in 0..3 : l = Len(w.path) /\ l # 0
      BY <1>6
    <3>3. Block(g, n) # h
      <4>1. 0 \in 0..3
        OBVIOUS
      <4>2. h \in On(f, l)
        BY <1>6, <3>2
      <4>3. ASSUME h \in On(g, 0) PROVE FALSE
        BY <3>2, <4>1, <4>2, <4>3, OnApart
      <4>. QED
        BY <3>1, <4>3
    <3>. QED
      BY <1>8, <3>1, <3>3
  <2>4. SameWords(g)
    BY <2>2, <2>3, WordsSame
  <2>5. SameExtent(g)
    <3>1. \A u \in Tasks : /\ call'[u].pc # "idle" <=> call[u].pc # "idle"
                           /\ call'[u].op = "write" <=> call[u].op = "write"
      BY <1>0, <1>1, <1>3, <1>4
    <3>2. Writers(g)' = Writers(g)
      BY <1>3, <3>1 DEF Writers
    <3>. QED
      BY <1>3, <3>2 DEF SameExtent, Extent
  <2>. QED
    BY <1>0, <2>2, <2>4, <2>5, SameContent
<1>10. Way(f, c, p)'
  <2>1. PICK k \in Nat : k = p \div FS_BLKSIZ
    BY InBlock
  <2>2. Underway(f, h, w.path, Path(k))
    BY <1>1, <1>5, <2>1 DEF Way, Walking
  <2>3. Underway(f, h, w.path, Path(k))'
    BY <1>9, <2>2, UnderwayStays
  <2>4. w.n <= FS_BLKSIZ - (p % FS_BLKSIZ)
    BY <1>1, <1>5 DEF Way, Walking
  <2>. QED
    BY <1>4, <2>1, <2>3, <2>4 DEF Way
<1>11. Ways'
  <2>1. \A u \in Tasks \ {t} : call[u].pc \in Walking => Stays(file[u])
    BY <1>0, <1>9
  <2>2. f = file[t] /\ p = pos'[t] /\ \A u \in Tasks \ {t} : pos'[u] = pos[u]
    BY <1>1, <1>3
  <2>. QED
    BY <1>3, <1>10, <2>1, <2>2, WaysKept
<1>12. Flat!Next
  <2>1. \A g \in Files \ {file[t]} : Content(g)' = Content(g)
    BY <1>9
  <2>2. Content(file[t])' = Content(file[t])
    <3>1. file'[t] = f /\ file[t] = f
      BY <1>1, <1>3
    <3>. QED
      BY <1>9, <3>1
  <2>3. c.pc # "given"
    BY <1>4
  <2>. QED
    BY <1>3, <1>w, <2>1, <2>2, <2>3, MoveStep
<1>. QED
  BY <1>11, <1>12

\* What is written are n words from p on, in the block of p.
Put(p, n) == {(p + i) % FS_BLKSIZ : i \in 0..(n - 1)}

\* The words that write_file() copies into a block are those from its position
\* on.
LEMMA Written ==
  ASSUME NEW p \in Nat, NEW n \in Nat, n <= FS_BLKSIZ - (p % FS_BLKSIZ), NEW i \in Nat
  PROVE  i \in p..(p + n - 1)
           <=> i \div FS_BLKSIZ = p \div FS_BLKSIZ /\ i % FS_BLKSIZ \in Put(p, n)
<1>1. PICK r \in Nat, N \in Nat : r = p % FS_BLKSIZ /\ N = FS_BLKSIZ
  <2>1. FS_BLKSIZ \in Nat
    BY Numbers
  <2>2. p % FS_BLKSIZ \in Nat
    BY <2>1, InBlock DEF Offsets
  <2>. QED
    BY <2>1, <2>2
<1>2. \A j \in 0..(n - 1) : j \in Nat /\ r + j < N
  BY <1>1
<1>3. ASSUME i \in p..(p + n - 1)
      PROVE  i \div FS_BLKSIZ = p \div FS_BLKSIZ /\ i % FS_BLKSIZ \in Put(p, n)
  <2>1. PICK j \in 0..(n - 1) : i = p + j
    <3>1. i - p \in 0..(n - 1) /\ i = p + (i - p)
      BY <1>3
    <3>. QED
      BY <3>1
  <2>2. i \div FS_BLKSIZ = p \div FS_BLKSIZ
    BY <1>1, <1>2, <2>1, SameBlock
  <2>. QED
    BY <2>1, <2>2 DEF Put
<1>4. ASSUME i \div FS_BLKSIZ = p \div FS_BLKSIZ, NEW j \in 0..(n - 1),
             i % FS_BLKSIZ = (p + j) % FS_BLKSIZ
      PROVE  i \in p..(p + n - 1)
  <2>1. i = p + j
    BY <1>1, <1>2, <1>4, SameWord
  <2>. QED
    BY <2>1
<1>. QED
  BY <1>3, <1>4 DEF Put

\* What is found is not moved by data that are written.
LEMMA DataWritten ==
  ASSUME Good, NEW f \in Files, NEW h \in On(f, 0), inode' = inode, Uncleared' = Uncleared,
         \A b \in Blocks : b # h => blk'[b] = blk[b]
  PROVE  \A g \in Files : Stays(g) /\ SameBlocks(g)
<1>1. SUFFICES ASSUME NEW g \in Files PROVE Stays(g) /\ SameBlocks(g)
  OBVIOUS
<1>2. ASSUME NEW n \in 1..3, NEW b \in On(g, n), NEW o \in Offsets
      PROVE  Link(blk', Uncleared', b, o) = Link(blk, Uncleared, b, o)
  <2>1. PICK j \in 0..3 : j = n /\ j # 0 /\ b \in On(g, j)
    BY <1>2
  <2>2. 0 \in 0..3
    OBVIOUS
  <2>3. b \in Blocks /\ b # h
    BY <2>1, <2>2, OnApart
  <2>. QED
    BY <2>3 DEF Link
<1>. QED
  BY <1>2, TreeSame

\* The words of f, when n times x has been written from p on, into block h.
Wrote(f, p, n, h, x) ==
    /\ p \in Nat /\ n \in Nat /\ n <= FS_BLKSIZ - (p % FS_BLKSIZ)
    /\ h # 0 /\ Block(f, p \div FS_BLKSIZ) = h
    /\ \A b \in Blocks : b # h => blk'[b] = blk[b]
    /\ \A o \in Offsets : blk'[h][o] = IF o \in Put(p, n) THEN x ELSE blk[h][o]

\* A copy into the block of one place of a file changes the words of that place
\* and no others.
LEMMA WordsWritten ==
  ASSUME Good, NEW f \in Files, NEW p, NEW n, NEW h, NEW x, Wrote(f, p, n, h, x),
         SameBlocks(f)
  PROVE  \A i \in Nat : WordAt(f, i)' = IF i \in p..(p + n - 1) THEN x ELSE WordAt(f, i)
<1>0. SUFFICES ASSUME NEW i \in Nat
               PROVE  WordAt(f, i)' = IF i \in p..(p + n - 1) THEN x ELSE WordAt(f, i)
  OBVIOUS
<1>1. PICK k \in Nat, m \in Nat, o \in Offsets :
        k = p \div FS_BLKSIZ /\ m = i \div FS_BLKSIZ /\ o = i % FS_BLKSIZ
  BY InBlock DEF Wrote
<1>2. Block(f, m)' = Block(f, m) /\ Block(f, k) = h
  BY <1>1 DEF SameBlocks, Wrote
<1>3. /\ WordAt(f, i) = IF Block(f, m) = 0 THEN Hole ELSE blk[Block(f, m)][o]
      /\ WordAt(f, i)' = IF Block(f, m)' = 0 THEN Hole ELSE blk'[Block(f, m)'][o]
  BY <1>1 DEF WordAt
<1>4. i \in p..(p + n - 1) <=> m = k /\ o \in Put(p, n)
  BY <1>1, Written DEF Wrote
<1>5. CASE m = k
  <2>1. WordAt(f, i) = blk[h][o] /\ WordAt(f, i)' = blk'[h][o]
    BY <1>2, <1>3, <1>5 DEF Wrote
  <2>. QED
    BY <1>4, <1>5, <2>1 DEF Wrote
<1>6. CASE m # k
  <2>1. i \notin p..(p + n - 1)
    BY <1>4, <1>6
  <2>2. CASE Block(f, m) = 0
    BY <1>2, <1>3, <2>1, <2>2
  <2>3. CASE Block(f, m) # 0
    <3>1. Block(f, m) # h
      <4>1. Block(f, k) # 0
        BY <1>2 DEF Wrote
      <4>2. Block(f, m) = Block(f, k) => m = k
        BY <1>1, <4>1, BlockOn
      <4>. QED
        BY <1>2, <1>6, <4>2
    <3>2. Block(f, m) \in Blocks
      BY <2>3, BlockOn
    <3>3. blk'[Block(f, m)] = blk[Block(f, m)]
      BY <3>1, <3>2 DEF Wrote
    <3>. QED
      BY <1>2, <1>3, <2>1, <2>3, <3>3
  <2>. QED
    BY <2>2, <2>3
<1>. QED
  BY <1>5, <1>6

\* How far t's file then reaches.
LEMMA ExtentWritten ==
  ASSUME TypeOK, TypeOK', NEW t \in Tasks, NEW f \in Files, f = file[t], file' = file,
         inode' = inode, NEW c, call' = [call EXCEPT ![t] = c], Writes(c), Writes(call[t]),
         NEW n \in Nat, pos' = [pos EXCEPT ![t] = @ + n]
  PROVE  /\ pos[t] <= Extent(f)
         /\ Extent(f)' = IF Extent(f) > pos[t] + n THEN Extent(f) ELSE pos[t] + n
<1>0. pos \in [Tasks -> Nat] /\ call \in [Tasks -> Calls]
  BY DEF TypeOK
<1>1. \A u \in Tasks \ {t} : call'[u] = call[u] /\ pos'[u] = pos[u]
  BY <1>0
<1>2. call'[t] = c /\ pos'[t] = pos[t] + n
  BY <1>0
<1>3. t \in Writers(f) /\ t \in Writers(f)'
  BY <1>2 DEF Writers, Writes
<1>4. \A u \in Tasks \ {t} : u \in Writers(f) <=> u \in Writers(f)'
  BY <1>1 DEF Writers
<1>5. Writers(f) \subseteq Tasks /\ Writers(f)' \subseteq Tasks
  BY DEF Writers
<1>6. PICK s \in Nat : s = inode[f].size /\ s = inode'[f].size
  BY DEF TypeOK
<1>7. PICK x \in Nat : x = Extent(f)
  BY Lengthened
<1>8. PICK y \in Nat : y = Extent(f)'
  BY Lengthened
<1>9. PICK p \in Nat : p = pos[t]
  BY <1>0
<1>10. /\ s <= x /\ \A u \in Writers(f) : pos[u] <= x
       /\ x = s \/ \E u \in Writers(f) : x = pos[u]
  BY <1>6, <1>7, SeenBoth DEF Seen, ExtentRight
<1>11. /\ s <= y /\ \A u \in Writers(f)' : pos'[u] <= y
       /\ y = s \/ \E u \in Writers(f)' : y = pos'[u]
  <2>1. ExtentRight'
    BY SeenBoth DEF Seen
  <2>. QED
    BY <1>6, <1>8, <2>1 DEF ExtentRight
<1>12. p <= x /\ p + n <= y
  BY <1>2, <1>3, <1>9, <1>10, <1>11
<1>13. x = s \/ x = p \/ \E u \in Writers(f) \ {t} : x = pos[u]
  BY <1>9, <1>10
<1>14. x <= y
  <2>1. \A u \in Writers(f) \ {t} : pos[u] <= y
    BY <1>1, <1>4, <1>5, <1>11
  <2>2. CASE x = s \/ x = p
    BY <1>11, <1>12, <2>2
  <2>. QED
    BY <1>13, <2>1, <2>2
<1>15. y = s \/ y = p + n \/ \E u \in Writers(f)' \ {t} : y = pos'[u]
  BY <1>2, <1>9, <1>11
<1>16. y <= x \/ y = p + n
  <2>1. \A u \in Writers(f)' \ {t} : pos'[u] <= x
    BY <1>1, <1>4, <1>5, <1>10
  <2>2. y = s => y <= x
    BY <1>10
  <2>. QED
    BY <1>15, <2>1, <2>2
<1>17. y = IF x > p + n THEN x ELSE p + n
  BY <1>12, <1>14, <1>16
<1>. QED
  BY <1>7, <1>8, <1>9, <1>12, <1>17

\* t's next n words are written.
LEMMA PutStep ==
  ASSUME Good, Good', NEW t \in Tasks, call[t].pc \in Walking, call[t].op = "write",
         NEW f \in Files, f = file[t], file' = file, NEW p \in Nat, p = pos[t],
         NEW n \in Nat, n = call[t].n, pos' = [pos EXCEPT ![t] = @ + n],
         NEW c, Todo(c) = [op |-> "write", left |-> call[t].len - n], c.pc # "given",
         call' = [call EXCEPT ![t] = c],
         \A g \in Files \ {f} : Content(g)' = Content(g),
         p <= Extent(f), Extent(f)' = IF Extent(f) > p + n THEN Extent(f) ELSE p + n,
         \A i \in Nat : WordAt(f, i)' = IF i \in p..(p + n - 1) THEN data[t] ELSE WordAt(f, i)
  PROVE  Flat!Next
<1>1. TypeOK /\ TypeOK'
  BY DEF Good
<1>2. PICK l \in Nat : l = call[t].len /\ n \in 0..l
  BY WayForm
<1>3. PICK old, new : old = content[f] /\ new = content'[f]
  OBVIOUS
<1>4. old = Content(f) /\ new = Content(f)'
  BY <1>3, ContentsAt
<1>5. PICK x \in Nat : x = Extent(f) /\ Len(old) = x
  BY <1>1, <1>4, Lengthened
<1>6. PICK y \in Nat : y = Extent(f)' /\ Len(new) = y
  BY <1>1, <1>4, Lengthened
<1>7. old = [i \in 1..x |-> WordAt(f, i - 1)] /\ new = [i \in 1..y |-> WordAt(f, i - 1)']
  BY <1>1, <1>4, <1>5, <1>6, Lengthened
<1>8. y = IF x > p + n THEN x ELSE p + n
  BY <1>5, <1>6
<1>9. p <= x
  BY <1>5
<1>10. ASSUME NEW i \in DOMAIN new
       PROVE  new[i] = IF i \in (p + 1)..(p + n) THEN data[t] ELSE old[i]
  <2>1. PICK j \in Nat : i \in 1..y /\ j = i - 1
    BY <1>7
  <2>2. new[i] = IF j \in p..(p + n - 1) THEN data[t] ELSE WordAt(f, j)
    <3>1. new[i] = WordAt(f, j)'
      BY <1>7, <2>1
    <3>. QED
      BY <3>1
  <2>3. j \in p..(p + n - 1) <=> i \in (p + 1)..(p + n)
    BY <2>1
  <2>4. i \notin (p + 1)..(p + n) => i \in 1..x
    BY <1>8, <1>9, <2>1
  <2>5. i \in 1..x => old[i] = WordAt(f, j)
    BY <1>7, <2>1
  <2>. QED
    BY <2>2, <2>3, <2>4, <2>5
<1>11. /\ todo' = [todo EXCEPT ![t] = Todo(c)] /\ view' = [view EXCEPT ![t] = <<>>]
       /\ todo[t] = Todo(call[t])
  BY <1>1, TodoSet DEF View
<1>12. todo[t] = [op |-> "write", left |-> l]
  BY <1>2, <1>11 DEF Todo, Walking
<1>13. todo' = [todo EXCEPT ![t].left = @ - n]
  <2>1. [todo[t] EXCEPT !.left = @ - n] = [op |-> "write", left |-> l - n]
    BY <1>12
  <2>2. todo' = [todo EXCEPT ![t] = [op |-> "write", left |-> l - n]]
    BY <1>2, <1>11
  <2>. QED
    BY <2>1, <2>2
<1>14. view' = view
  <2>1. view = [u \in Tasks |-> View(call[u])]
    BY DEF view, View
  <2>2. view[t] = <<>>
    BY <2>1 DEF View, Walking
  <2>. QED
    BY <1>11, <2>1, <2>2
<1>15. Flat!Write(t, n, old, new)
  <2>1. todo[t].op = "write" /\ n <= todo[t].left
    BY <1>2, <1>12
  <2>2. pos[t] <= Len(old) /\ Len(new) = IF Len(old) > pos[t] + n THEN Len(old) ELSE pos[t] + n
    BY <1>5, <1>6, <1>8, <1>9
  <2>3. \A i \in DOMAIN new :
          new[i] = IF i \in (pos[t] + 1)..(pos[t] + n) THEN data[t] ELSE old[i]
    BY <1>10
  <2>. QED
    BY <1>13, <1>14, <2>1, <2>2, <2>3 DEF Flat!Write
<1>16. Flat!Others(file[t])
  BY ContentsAt DEF Flat!Others
<1>17. n \in 0..todo[t].left
  BY <1>2, <1>12
<1>18. Flat!Step(t, old, new)
  BY <1>15, <1>17 DEF Flat!Step
<1>. QED
  BY <1>3, <1>16, <1>18 DEF Flat!Next

\* write_file() writes its words at its position, and nothing else.
LEMMA WriteStep ==
  ASSUME Good, Good', Ways, NEW t \in Tasks, WriteCopy(t)
  PROVE  Ways' /\ Flat!Next
<1>0. /\ pos \in [Tasks -> Nat] /\ file \in [Tasks -> Files] /\ call \in [Tasks -> Calls]
      /\ TypeOK /\ TypeOK' /\ blk \in Words
  BY DEF Good, TypeOK, Words
<1>w. call[t].pc = "copy" /\ call[t].pc \in Walking /\ call[t].op = "write"
  BY DEF WriteCopy, Walking
<1>1. PICK w \in WalkCalls, f \in Files, p \in Nat, h \in Nat, n \in Nat, l \in Nat :
        /\ w = call[t] /\ f = file[t] /\ p = pos[t] /\ h = w.holder /\ n = w.n /\ OnWay(f, w)
        /\ l = w.len - n /\ w.pc = "copy" /\ w.op = "write"
  BY <1>w, WayForm
<1>2. PICK put : put = Put(p, n)
  OBVIOUS
<1>3. /\ inode' = inode /\ garbled' = garbled /\ file' = file /\ pos' = [pos EXCEPT ![t] = @ + n]
      /\ blk' = [blk EXCEPT ![h] = [o \in Offsets |-> IF o \in put THEN data[t] ELSE blk[h][o]]]
      /\ call' = [call EXCEPT ![t] = WriteOn(t, l)]
  <2>1. h \in Blocks
    <3>1. h \in On(f, 0) /\ 0 \in 0..3
      BY <1>1 DEF OnWay
    <3>. QED
      BY <3>1, OnApart
  <2>. QED
    BY <1>0, <1>1, <1>2, <2>1 DEF WriteCopy, Goto, Words, Put
<1>4. h \in On(f, 0) /\ h \in Blocks /\ h # 0
  <2>1. h \in On(f, 0) /\ 0 \in 0..3
    BY <1>1 DEF OnWay
  <2>. QED
    BY <2>1, OnApart
<1>5. PICK k \in Nat : k = p \div FS_BLKSIZ
  BY InBlock
<1>6. n <= FS_BLKSIZ - (p % FS_BLKSIZ) /\ Block(f, k) = h
  <2>1. Way(f, w, p) /\ w.pc \in Walking
    BY <1>1, <1>w DEF Ways
  <2>2. n <= FS_BLKSIZ - (p % FS_BLKSIZ) /\ Underway(f, h, <<>>, Path(k))
    BY <1>1, <1>5, <2>1 DEF Way
  <2>. QED
    BY <1>4, <2>2, UnderwayEnds
<1>7. PICK q \in Nat : q = p + n /\ q = pos'[t]
  BY <1>0, <1>1, <1>3
<1>8. PICK c : c = WriteOn(t, l)
  OBVIOUS
<1>9. /\ Way(f, c, q) /\ Writes(c) /\ c.pc \notin {"given", "clear"}
      /\ Todo(c) = [op |-> "write", left |-> l]
  <2>1. CASE l = 0
    <3>1. c = At("end", "write", 0)
      BY <1>8, <2>1 DEF WriteOn
    <3>2. c.pc = "end" /\ c.op = "write" /\ c.len = l
      BY <2>1, <3>1 DEF At
    <3>. QED
      BY <3>2 DEF Way, Walking, Writes, Todo
  <2>2. CASE l # 0
    <3>1. PICK m : m = Min({l, FS_BLKSIZ - (q % FS_BLKSIZ)})
      OBVIOUS
    <3>2. c = Walk("walk", "write", l, m, 0, Path(q \div FS_BLKSIZ))
      BY <1>7, <1>8, <2>2, <3>1 DEF WriteOn
    <3>3. m <= FS_BLKSIZ - (q % FS_BLKSIZ)
      BY <3>1, InBlock, Smaller
    <3>4. Way(f, c, q)
      BY <3>2, <3>3, WayBegins
    <3>5. c.pc = "walk" /\ c.op = "write" /\ c.len = l
      BY <3>2 DEF Walk
    <3>. QED
      BY <3>4, <3>5 DEF Writes, Todo
  <2>. QED
    BY <2>1, <2>2
<1>10. call' = [call EXCEPT ![t] = c] /\ Writes(call[t])
  BY <1>3, <1>8, <1>w DEF Writes
<1>11. /\ \A b \in Blocks : b # h => blk'[b] = blk[b]
       /\ \A o \in Offsets : blk'[h][o] = IF o \in put THEN data[t] ELSE blk[h][o]
  BY <1>0, <1>3, <1>4 DEF Words
<1>12. Uncleared' = Uncleared
  BY <1>0, <1>3, <1>9, <1>10, <1>w, UnclearedSame
<1>13. \A g \in Files : Stays(g) /\ SameBlocks(g)
  BY <1>3, <1>4, <1>11, <1>12, DataWritten
<1>14. Ways'
  <2>1. Way(f, c, q)'
    BY <1>9, <1>13, WayStays
  <2>2. \A u \in Tasks \ {t} : call[u].pc \in Walking => Stays(file[u])
    BY <1>0, <1>13
  <2>3. f = file[t] /\ q = pos'[t] /\ \A u \in Tasks \ {t} : pos'[u] = pos[u]
    BY <1>0, <1>1, <1>3, <1>7
  <2>. QED
    BY <1>3, <1>10, <2>1, <2>2, <2>3, WaysKept
<1>15. ASSUME NEW g \in Files \ {f} PROVE Content(g)' = Content(g)
  <2>1. ASSUME NEW m \in Nat, Block(g, m) # 0 PROVE blk'[Block(g, m)] = blk[Block(g, m)]
    <3>1. Block(g, m) # h
      BY <1>4, <1>6, <1>15, BlockOn
    <3>2. Block(g, m) \in Blocks
      BY <2>1, BlockOn
    <3>. QED
      BY <1>11, <3>1, <3>2
  <2>2. SameWords(g)
    BY <1>13, <2>1, WordsSame
  <2>3. SameExtent(g)
    <3>1. \A u \in Tasks \ {t} : pos'[u] = pos[u]
      BY <1>0, <1>3
    <3>2. g # file[t] /\ inode'[g].size = inode[g].size
      BY <1>1, <1>3, <1>15
    <3>. QED
      BY <1>0, <1>3, <1>10, <3>1, <3>2, OthersExtent
  <2>. QED
    BY <1>0, <2>2, <2>3, SameContent
<1>16. p <= Extent(f) /\ Extent(f)' = IF Extent(f) > p + n THEN Extent(f) ELSE p + n
  BY <1>0, <1>1, <1>3, <1>9, <1>10, ExtentWritten
<1>17. \A i \in Nat : WordAt(f, i)' = IF i \in p..(p + n - 1) THEN data[t] ELSE WordAt(f, i)
  <2>1. Wrote(f, p, n, h, data[t])
    BY <1>1, <1>2, <1>4, <1>5, <1>6, <1>11 DEF Wrote
  <2>. QED
    BY <1>1, <1>13, <2>1, WordsWritten
<1>18. Flat!Next
  <2>1. /\ n = call[t].n /\ Todo(c) = [op |-> "write", left |-> call[t].len - n]
        /\ c.pc # "given" /\ f = file[t] /\ p = pos[t]
    BY <1>1, <1>9
  <2>2. /\ file' = file /\ pos' = [pos EXCEPT ![t] = @ + n] /\ call' = [call EXCEPT ![t] = c]
        /\ call[t].pc \in Walking /\ call[t].op = "write"
    BY <1>3, <1>10, <1>w
  <2>3. \A g \in Files \ {f} : Content(g)' = Content(g)
    BY <1>15
  <2>. QED
    BY <1>1, <1>16, <1>17, <2>1, <2>2, <2>3, PutStep
<1>. QED
  BY <1>14, <1>18

-----------------------------------------------------------------------------
(* A block is allocated.                                                    *)

\* The next state sees what UnderwayOn says, too.
Onward ==
    \A f \in Files, n \in Nat, path \in Seq(Nat) : \A holder, b :
      /\ path # <<>> /\ holder \notin Uncleared /\ Underway(f, holder, path, Path(n))
      /\ b = Pointer(f, holder, Head(path)) /\ b # 0
      => Underway(f, b, Tail(path), Path(n))

\* It does, before and after every step.
LEMMA OnwardBoth == (Good => Onward) /\ (Good' => Onward')
<1>1. ASSUME Good PROVE Onward
  <2>1. SUFFICES ASSUME NEW f \in Files, NEW n \in Nat, NEW path \in Seq(Nat), NEW holder, NEW b,
                        b = Pointer(f, holder, Head(path)), path # <<>>,
                        holder \notin Uncleared, b # 0, Underway(f, holder, path, Path(n))
                 PROVE  Underway(f, b, Tail(path), Path(n))
    BY DEF Onward
  <2>. QED
    BY <1>1, <2>1, UnderwayOn
<1>2. Good => Onward
  BY <1>1
<1>. QED
  BY <1>2, PTL

\* Blocks of data that were found hold what they held; others may now be found.
LEMMA HolesFilled ==
  ASSUME Good, NEW f \in Files, Stays(f), \A b \in On(f, 0) : blk'[b] = blk[b]
  PROVE  Filled(f)
<1>1. SUFFICES ASSUME NEW i \in Nat, WordAt(f, i) # Hole PROVE WordAt(f, i)' = WordAt(f, i)
  BY DEF Filled
<1>2. PICK m \in Nat : m = i \div FS_BLKSIZ
  BY InBlock
<1>3. PICK b : b = Block(f, m)
  OBVIOUS
<1>4. b # 0
  BY <1>1, <1>2, <1>3 DEF WordAt
<1>5. blk'[b] = blk[b]
  BY <1>3, <1>4, BlockOn
<1>6. Block(f, m)' = b
  <2>1. PICK P : P = Path(m)
    OBVIOUS
  <2>2. P # <<>> /\ b = Led(f, P, Len(P))
    BY <1>3, <1>4, <2>1 DEF Block
  <2>3. Proper(P)
    BY <2>1, <2>2, PathProper
  <2>4. Len(P) \in 1..Len(P)
    BY <2>3 DEF Proper
  <2>5. Led(f, P, Len(P))' = b
    BY <1>4, <2>2, <2>3, <2>4 DEF Stays
  <2>. QED
    BY <2>1, <2>2, <2>5 DEF Block
<1>7. /\ WordAt(f, i) = blk[b][i % FS_BLKSIZ]
      /\ WordAt(f, i)' = blk'[b][i % FS_BLKSIZ]
  BY <1>2, <1>3, <1>4, <1>6 DEF WordAt
<1>. QED
  BY <1>5, <1>7

\* The block a is put into pointer o of h, which was 0, and c is what t then does.
Stored(f, h, o, a) ==
    /\ a \in Blocks \ bitmap /\ a # 0
    /\ Pointer(f, h, o) = 0 /\ h \notin Uncleared
    /\ \A g \in Files : inode'[g].size = inode[g].size
    /\ \A g \in Files, k \in Pointers :
         inode'[g].data[k] = IF h = 0 /\ g = f /\ k = o THEN a ELSE inode[g].data[k]
    /\ \A b \in Blocks, i \in Offsets :
         blk'[b][i] = IF b = h /\ i = o THEN a ELSE blk[b][i]
    /\ \A b \in Blocks \ {h} : blk'[b] = blk[b]
    /\ \A g \in Files \ {f} : inode'[g] = inode[g]
    /\ h # 0 => h \in Blocks /\ o \in Offsets /\ \E n \in 1..3 : h \in On(f, n)
    /\ h = 0 => o \in Pointers
    /\ Uncleared \subseteq Uncleared' /\ Uncleared' \subseteq Uncleared \cup {a}

\* Nothing that could be found is lost, and nothing appears in another file.
LEMMA PutStays ==
  ASSUME Good, NEW f \in Files, NEW h, NEW o, NEW a, Stored(f, h, o, a)
  PROVE  /\ \A g \in Files : Stays(g) /\ \A b \in On(g, 0) : blk'[b] = blk[b]
         /\ \A g \in Files \ {f} : SameBlocks(g)
<1>0. /\ \A k \in Pointers : inode'[f].data[k] = IF h = 0 /\ k = o THEN a ELSE inode[f].data[k]
      /\ \A g \in Files \ {f} : inode'[g] = inode[g]
  BY DEF Stored
<1>1. ASSUME NEW g \in Files, NEW n \in 0..3, NEW b \in On(g, n)
      PROVE  b \in Blocks /\ b # a /\ (b \in Uncleared' <=> b \in Uncleared)
  <2>1. b \in Blocks /\ b \in bitmap
    BY <1>1, OnApart
  <2>. QED
    BY <2>1 DEF Stored
<1>2. ASSUME NEW g \in Files PROVE Stays(g)
  <2>1. ASSUME NEW k \in Pointers, inode[g].data[k] # 0
        PROVE  inode'[g].data[k] = inode[g].data[k]
    BY <1>2, <2>1 DEF Stored, Pointer
  <2>2. ASSUME NEW n \in 1..3, NEW b \in On(g, n) \ Uncleared, NEW i \in Offsets, blk[b][i] # 0
        PROVE  b \notin Uncleared' /\ blk'[b][i] = blk[b][i]
    <3>1. n \in 0..3
      OBVIOUS
    <3>2. b \in Blocks /\ b \notin Uncleared'
      BY <1>1, <1>2, <2>2, <3>1
    <3>3. b = h => h # 0
      BY <3>2, Numbers
    <3>. QED
      BY <2>2, <3>2, <3>3 DEF Stored, Pointer
  <2>. QED
    BY <2>1, <2>2, TreeGrown
<1>3. ASSUME NEW g \in Files, NEW b \in On(g, 0) PROVE b \in Blocks /\ b # h
  <2>0. 0 \in 0..3
    OBVIOUS
  <2>1. b \in Blocks /\ b # 0
    BY <1>3, <2>0, OnApart
  <2>2. CASE h = 0
    BY <2>1, <2>2
  <2>3. CASE h # 0
    <3>1. PICK n \in 0..3 : n # 0 /\ h \in On(f, n)
      BY <2>3 DEF Stored
    <3>2. ASSUME h \in On(g, 0) PROVE FALSE
      BY <1>3, <2>0, <3>1, <3>2, OnApart
    <3>. QED
      BY <1>3, <2>1, <3>2
  <2>. QED
    BY <2>2, <2>3
<1>4. \A g \in Files : \A b \in On(g, 0) : blk'[b] = blk[b]
  BY <1>3 DEF Stored
<1>5. ASSUME NEW g \in Files \ {f} PROVE SameBlocks(g)
  <2>1. ASSUME NEW n \in 1..3, NEW b \in On(g, n), NEW i \in Offsets
        PROVE  Link(blk', Uncleared', b, i) = Link(blk, Uncleared, b, i)
    <3>1. n \in 0..3
      OBVIOUS
    <3>2. b \in Blocks /\ (b \in Uncleared' <=> b \in Uncleared)
      BY <1>1, <1>5, <2>1, <3>1
    <3>3. b # h
      <4>1. CASE h = 0
        BY <3>2, <4>1, Numbers
      <4>2. CASE h # 0
        <5>1. PICK m \in 0..3 : h \in On(f, m)
          BY <4>2 DEF Stored
        <5>2. ASSUME h \in On(g, n) PROVE FALSE
          BY <1>5, <3>1, <5>1, <5>2, OnApart
        <5>. QED
          BY <2>1, <5>2
      <4>. QED
        BY <4>1, <4>2
    <3>4. blk'[b] = blk[b]
      BY <3>2, <3>3 DEF Stored
    <3>. QED
      BY <3>2, <3>4 DEF Link
  <2>2. inode'[g].data = inode[g].data
    BY <1>0, <1>5
  <2>. QED
    BY <1>5, <2>1, <2>2, TreeSame
<1>. QED
  BY <1>2, <1>4, <1>5

\* What Allocate does is that.
LEMMA AllocateStores ==
  ASSUME Good, NEW t \in Tasks, Allocate(t), clash = "none", clash' = "none",
         NEW w \in WalkCalls, w = call[t], NEW f \in Files, f = file[t]
  PROVE  \E a \in Nat :
           /\ Stored(f, w.holder, Head(w.path), a) /\ file' = file /\ pos' = pos
           /\ call' = [call EXCEPT ![t] = AfterAlloc(w, a)] /\ w.path # <<>>
           /\ w.pc = "alloc" /\ Pointer(f, w.holder, Head(w.path))' = a /\ w.holder \notin Uncleared'
<1>0. /\ TypeOK /\ blk \in Words /\ call \in [Tasks -> Calls]
      /\ inode \in [Files -> [size : Nat, data : [Pointers -> Nat]]]
  BY DEF Good, TypeOK, Words
<1>1. PICK h, p, o, a : h = w.holder /\ p = w.path /\ o = Head(p) /\ a = Min(Blocks \ bitmap)
  OBVIOUS
<1>2. /\ w.pc = "alloc" /\ Pointer(f, h, o) = 0 /\ bitmap # Blocks
      /\ file' = file /\ pos' = pos /\ garbled' = garbled
      /\ \/ /\ h = 0 /\ blk' = blk
            /\ inode' = [inode EXCEPT ![f].data[o] = a]
         \/ /\ h # 0 /\ inode' = inode
            /\ blk' = [blk EXCEPT ![h][o] = a]
      /\ call' = [call EXCEPT ![t] = AfterAlloc(w, a)]
  BY <1>1 DEF Allocate, alloc_block, Goto, Clash
<1>3. p \in Seq(Nat) /\ h \in Nat /\ Leads(f, h, p) /\ h \notin Uncleared
  <2>1. call[t].pc \in Walking
    BY <1>2 DEF Walking
  <2>2. OnWay(f, w)
    BY <2>1, WayForm
  <2>. QED
    BY <1>1, <1>2, <2>2 DEF OnWay, WalkCalls
<1>4. /\ p # <<>> /\ o = p[1]
      /\ h = 0 => o \in Pointers
      /\ h # 0 => o \in Offsets /\ h \in Blocks /\ \E n \in 1..3 : h \in On(f, n)
  BY <1>1, <1>3, LeadsForm
<1>5. a \in Blocks \ bitmap /\ a \in Nat \ {0}
  <2>1. Blocks \subseteq Nat \ {0} /\ bitmap \subseteq Blocks
    BY <1>0, Numbers DEF TypeOK
  <2>2. Blocks \ bitmap \in SUBSET Nat /\ Blocks \ bitmap # {}
    BY <1>2, <2>1
  <2>3. a \in Blocks \ bitmap
    BY <1>1, <2>2, MinInSet
  <2>. QED
    BY <2>1, <2>3
<1>6. h # a
  <2>1. h # 0 => h \in bitmap
    <3>1. ASSUME h # 0 PROVE h \in bitmap
      <4>1. PICK n \in 0..3 : h \in On(f, n)
        BY <1>4, <3>1
      <4>. QED
        BY <4>1, OnApart
    <3>. QED
      BY <3>1
  <2>. QED
    BY <1>5, <2>1
<1>7. PICK c : c = AfterAlloc(w, a) /\ call' = [call EXCEPT ![t] = c] /\ c.holder = a
  <2>1. AfterAlloc(w, a).holder = a
    BY <1>1, <1>4, <1>5, AfterAllocIs DEF Walk
  <2>. QED
    BY <1>2, <2>1
<1>8. Uncleared \subseteq Uncleared' /\ Uncleared' \subseteq Uncleared \cup {a}
  <2>1. call[t].pc # "clear" /\ call'[t] = c /\ \A u \in Tasks \ {t} : call'[u] = call[u]
    BY <1>0, <1>2, <1>7
  <2>2. ASSUME NEW y \in Uncleared PROVE y \in Uncleared'
    <3>1. CASE y \in garbled
      BY <1>2, <3>1 DEF Uncleared
    <3>2. CASE \E u \in Tasks : call[u].pc = "clear" /\ y = call[u].holder
      <4>1. PICK u \in Tasks : call[u].pc = "clear" /\ y = call[u].holder
        BY <3>2
      <4>2. call'[u] = call[u]
        BY <2>1, <4>1
      <4>. QED
        BY <4>1, <4>2 DEF Uncleared
    <3>. QED
      BY <2>2, <3>1, <3>2 DEF Uncleared
  <2>3. ASSUME NEW y \in Uncleared' PROVE y \in Uncleared \/ y = a
    <3>1. CASE y \in garbled
      BY <3>1 DEF Uncleared
    <3>2. CASE \E u \in Tasks : call'[u].pc = "clear" /\ y = call'[u].holder
      <4>1. PICK u \in Tasks : call'[u].pc = "clear" /\ y = call'[u].holder
        BY <3>2
      <4>2. CASE u = t
        BY <1>7, <2>1, <4>1, <4>2
      <4>3. CASE u # t
        BY <2>1, <4>1, <4>3 DEF Uncleared
      <4>. QED
        BY <4>2, <4>3
    <3>. QED
      BY <1>2, <2>3, <3>1, <3>2 DEF Uncleared
  <2>. QED
    BY <2>2, <2>3
<1>9. 0 \notin Blocks
  BY Numbers
<1>10. /\ \A g \in Files : inode'[g].size = inode[g].size
       /\ \A g \in Files, k \in Pointers :
            inode'[g].data[k] = IF h = 0 /\ g = f /\ k = o THEN a ELSE inode[g].data[k]
       /\ \A g \in Files \ {f} : inode'[g] = inode[g]
  <2>1. CASE h = 0 /\ inode' = [inode EXCEPT ![f].data[o] = a]
    <3>1. \A g \in Files \ {f} : inode'[g] = inode[g]
      BY <1>0, <2>1
    <3>2. inode'[f] = [inode[f] EXCEPT !.data[o] = a]
      BY <1>0, <2>1
    <3>3. /\ inode[f] \in [size : Nat, data : [Pointers -> Nat]]
          /\ inode[f].data \in [Pointers -> Nat]
      BY <1>0
    <3>4. /\ inode'[f].size = inode[f].size
          /\ inode'[f].data = [inode[f].data EXCEPT ![o] = a]
      BY <3>2, <3>3
    <3>5. \A k \in Pointers : inode'[f].data[k] = IF k = o THEN a ELSE inode[f].data[k]
      BY <3>3, <3>4
    <3>. QED
      BY <2>1, <3>1, <3>4, <3>5
  <2>2. CASE h # 0 /\ inode' = inode
    BY <2>2
  <2>. QED
    BY <1>2, <2>1, <2>2
<1>11. /\ \A b \in Blocks, i \in Offsets :
            blk'[b][i] = IF b = h /\ i = o THEN a ELSE blk[b][i]
       /\ \A b \in Blocks \ {h} : blk'[b] = blk[b]
  <2>1. CASE h = 0 /\ blk' = blk
    BY <1>9, <2>1
  <2>2. CASE h # 0 /\ blk' = [blk EXCEPT ![h][o] = a]
    BY <1>0, <1>4, <2>2 DEF Words
  <2>. QED
    BY <1>2, <2>1, <2>2
<1>12. Stored(f, h, o, a)
  BY <1>2, <1>3, <1>4, <1>5, <1>8, <1>10, <1>11 DEF Stored
<1>13. Pointer(f, h, o)' = a
  <2>1. CASE h = 0
    BY <1>4, <1>10, <2>1 DEF Pointer
  <2>2. CASE h # 0
    BY <1>4, <1>11, <2>2 DEF Pointer
  <2>. QED
    BY <2>1, <2>2
<1>14. h \notin Uncleared'
  BY <1>3, <1>6, <1>8
<1>. QED
  BY <1>1, <1>2, <1>4, <1>5, <1>12, <1>13, <1>14

\* alloc_block() behind a pointer that was 0 can only fill a hole, which nobody
\* else is walking over unless two tasks clash.
LEMMA AllocateStep ==
  ASSUME Good, Good', Ways, NEW t \in Tasks, Allocate(t), clash = "none", clash' = "none"
  PROVE  Ways' /\ Flat!Next
<1>0. /\ pos \in [Tasks -> Nat] /\ file \in [Tasks -> Files] /\ call \in [Tasks -> Calls]
      /\ TypeOK /\ TypeOK'
  BY DEF Good, TypeOK
<1>w. call[t].pc \in Walking
  BY DEF Allocate, Walking
<1>1. PICK w \in WalkCalls, f \in Files, p \in Nat :
        w = call[t] /\ f = file[t] /\ p = pos[t] /\ w.path \in Seq(Nat)
  BY <1>w, WayForm
<1>2. PICK a \in Nat :
        /\ Stored(f, w.holder, Head(w.path), a) /\ file' = file /\ pos' = pos
        /\ call' = [call EXCEPT ![t] = AfterAlloc(w, a)] /\ w.path # <<>>
        /\ w.pc = "alloc" /\ Pointer(f, w.holder, Head(w.path))' = a /\ w.holder \notin Uncleared'
  BY <1>1, AllocateStores
<1>3. /\ \A g \in Files : Stays(g) /\ \A b \in On(g, 0) : blk'[b] = blk[b]
      /\ \A g \in Files \ {f} : SameBlocks(g)
  BY <1>2, PutStays
<1>4. PICK q \in {"copy", "clear"} : q = IF Len(w.path) = 1 THEN "copy" ELSE "clear"
  OBVIOUS
<1>5. PICK c : c = Walk(q, w.op, w.len, w.n, a, Tail(w.path))
  OBVIOUS
<1>6. call' = [call EXCEPT ![t] = c]
  BY <1>2, <1>4, <1>5, AfterAllocIs
<1>7. /\ Way(f, w, p) /\ w.op = "write" /\ w.pc \in Walking
      /\ c.pc = q /\ c.op = "write" /\ Writes(c) /\ Writes(call[t])
  <2>1. Way(f, w, p) /\ w.pc \in Walking
    BY <1>1, <1>w DEF Ways
  <2>2. w.op = "write"
    BY <1>2, <2>1 DEF Way
  <2>. QED
    BY <1>1, <1>2, <1>5, <2>1, <2>2 DEF Walk, Writes
<1>8. PICK k \in Nat : k = p \div FS_BLKSIZ
  BY InBlock
<1>9. Underway(f, w.holder, w.path, Path(k))
  BY <1>7, <1>8 DEF Way
<1>10. Way(f, c, p)'
  <2>1. Underway(f, w.holder, w.path, Path(k))'
    BY <1>3, <1>9, UnderwayStays
  <2>2. a # 0
    BY <1>2 DEF Stored
  <2>3. Onward'
    BY OnwardBoth
  <2>4. Underway(f, a, Tail(w.path), Path(k))'
    <3>1. PICK h, s : h = w.holder /\ s = w.path /\ s \in Seq(Nat) /\ s # <<>>
      BY <1>1, <1>2
    <3>2. /\ Underway(f, h, s, Path(k))' /\ h \notin Uncleared'
          /\ Pointer(f, h, Head(s))' = a
      BY <1>2, <2>1, <3>1
    <3>3. Underway(f, a, Tail(s), Path(k))'
      BY <2>2, <2>3, <3>1, <3>2 DEF Onward
    <3>. QED
      BY <3>1, <3>3
  <2>5. c.n = w.n /\ c.holder = a /\ c.path = Tail(w.path)
    BY <1>5 DEF Walk
  <2>6. q = "copy" => c.path = <<>>
    <3>1. PICK s \in Seq(Nat) : s = w.path /\ s # <<>>
      BY <1>1, <1>2
    <3>2. Len(s) = 1 => Len(Tail(s)) = 0 /\ Tail(s) \in Seq(Nat)
      BY <3>1
    <3>3. \A r \in Seq(Nat) : Len(r) = 0 => r = <<>>
      OBVIOUS
    <3>. QED
      BY <1>4, <2>5, <3>1, <3>2, <3>3
  <2>7. w.n <= FS_BLKSIZ - (p % FS_BLKSIZ)
    BY <1>7 DEF Way
  <2>. QED
    BY <1>7, <1>8, <2>4, <2>5, <2>6, <2>7 DEF Way
<1>11. Ways'
  <2>1. \A u \in Tasks \ {t} : call[u].pc \in Walking => Stays(file[u])
    BY <1>0, <1>3
  <2>2. f = file[t] /\ p = pos'[t] /\ \A u \in Tasks \ {t} : pos'[u] = pos[u]
    BY <1>1, <1>2
  <2>. QED
    BY <1>2, <1>6, <1>10, <2>1, <2>2, WaysKept
<1>12. \A g \in Files : SameExtent(g)
  <2>1. \A u \in Tasks : Writes(call'[u]) <=> Writes(call[u])
    BY <1>0, <1>6, <1>7
  <2>2. \A g \in Files : Writers(g)' = Writers(g) /\ inode'[g].size = inode[g].size
    BY <1>2, <2>1 DEF Writers, Writes, Stored
  <2>. QED
    BY <1>2, <2>2 DEF SameExtent, Extent
<1>13. ASSUME NEW g \in Files \ {file[t]} PROVE Content(g)' = Content(g)
  <2>1. g \in Files \ {f}
    BY <1>1, <1>13
  <2>2. \A n \in Nat : Block(g, n) # 0 => blk'[Block(g, n)] = blk[Block(g, n)]
    BY <1>3, <2>1, BlockOn
  <2>3. SameWords(g)
    BY <1>3, <2>1, <2>2, WordsSame
  <2>. QED
    BY <1>0, <1>12, <2>1, <2>3, SameContent
<1>14. Flat!Next
  <2>1. Flat!Extends(Content(f)', Content(f)) /\ Len(Content(f)') >= Len(Content(f))
    <3>1. Filled(f)
      BY <1>3, HolesFilled
    <3>2. /\ Flat!Extends(Content(f)', Content(f))
          /\ Len(Content(f)) = Extent(f) /\ Len(Content(f)') = Extent(f)' /\ Extent(f) \in Nat
      BY <1>0, <3>1, Lengthened
    <3>3. Extent(f)' = Extent(f)
      BY <1>12 DEF SameExtent
    <3>. QED
      BY <3>2, <3>3
  <2>2. file'[t] = f /\ file[t] = f /\ c.pc # "given"
    BY <1>1, <1>2, <1>4, <1>7
  <2>3. /\ Flat!Extends(Content(file[t])', Content(file[t]))
        /\ Len(Content(file[t])') >= Len(Content(file[t]))
    BY <2>1, <2>2
  <2>. QED
    BY <1>1, <1>2, <1>6, <1>7, <1>13, <2>2, <2>3, MoveStep
<1>. QED
  BY <1>11, <1>14

-----------------------------------------------------------------------------
(* The refinement.                                                          *)

\* Whatever a task does, FlatFiles does, and each task stays on its way.
LEMMA TaskSteps ==
  ASSUME Good, Good', Ways, NEW t \in Tasks, clash = "none", clash' = "none",
         \/ get_data_blkno(t) \/ Reading(t) \/ WritingOn(t)
         \/ delete_inode_data(t) \/ Call(t) \/ Failing(t)
  PROVE  Ways' /\ Flat!Next
<1>1. CASE get_data_blkno(t)
  <2>1. CASE Missing(t) /\ call[t].op = "read"
    BY <2>1, ReadSteps
  <2>2. CASE \/ TooFar(t) \/ Follow(t) \/ NoSpace(t)
             \/ Missing(t) /\ call[t].op # "read"
    BY <2>2, StillSteps
  <2>3. CASE Allocate(t)
    BY <2>3, AllocateStep
  <2>4. CASE Clear(t)
    BY <2>4, ClearStep
  <2>. QED
    BY <1>1, <2>1, <2>2, <2>3, <2>4 DEF get_data_blkno
<1>2. CASE Reading(t)
  BY <1>2, StillSteps, ReadSteps DEF Reading
<1>3. CASE WritingOn(t)
  <2>1. CASE WriteCopy(t)
    BY <2>1, WriteStep
  <2>2. CASE WriteEnd(t)
    <3>1. call[t].pc = "end"
      BY <2>2 DEF WriteEnd
    <3>2. CASE pos[t] > inode[file[t]].size
      BY <2>2, <3>1, <3>2, StillSteps
    <3>3. CASE ~(pos[t] > inode[file[t]].size)
      BY <2>2, <3>1, <3>3, MarkSteps
    <3>. QED
      BY <3>2, <3>3
  <2>3. CASE WriteSize(t)
    BY <2>3, MarkSteps
  <2>. QED
    BY <1>3, <2>1, <2>2, <2>3 DEF WritingOn
<1>4. CASE Call(t)
  <2>1. CASE \E len \in Lens : read_file(t, len)
    BY <2>1, StillSteps
  <2>2. CASE \E len \in Lens : write_file(t, len)
    BY <2>2, MarkSteps
  <2>3. CASE truncate_file(t)
    BY <2>3, StillSteps
  <2>4. CASE (\E p \in Places : seek_file(t, p)) \/ (\E n \in Sizes : set_file_size(t, n))
    BY <2>4, CallSteps
  <2>. QED
    BY <1>4, <2>1, <2>2, <2>3, <2>4 DEF Call
<1>5. CASE delete_inode_data(t)
  <2>1. CASE Enter(t) \/ TruncateFailed(t)
    BY <2>1, StillSteps
  <2>2. CASE FreeData(t) \/ Leave(t) \/ TruncateEnd(t)
    BY <2>2, CutSteps
  <2>. QED
    BY <1>5, <2>1, <2>2 DEF delete_inode_data
<1>6. CASE Failing(t)
  <2>1. CASE NoBuffer(t)
    BY <2>1, StillSteps
  <2>2. CASE FreeFails(t) \/ EnterFails(t)
    BY <2>2, CutSteps
  <2>. QED
    BY <1>6, <2>1, <2>2 DEF Failing
<1>. QED
  BY <1>1, <1>2, <1>3, <1>4, <1>5, <1>6

\* Along with FInv: what the steps need of the other tasks.
WInv == clash = "none" => Ways

\* What leaves the files alone leaves their content alone.
LEMMA SeenUnchanged == UNCHANGED vars => UNCHANGED Flat!vars /\ (Ways => Ways')
<1>1. SUFFICES ASSUME UNCHANGED vars PROVE UNCHANGED Flat!vars /\ (Ways => Ways')
  OBVIOUS
<1>2. /\ blk' = blk /\ inode' = inode /\ file' = file /\ pos' = pos /\ call' = call
      /\ Uncleared' = Uncleared
  BY <1>1 DEF vars, disk, Uncleared
<1>3. ASSUME NEW f \in Files PROVE Content(f)' = Content(f)
  <2>1. Writers(f)' = Writers(f)
    BY <1>2 DEF Writers
  <2>2. Extent(f)' = Extent(f)
    BY <1>2, <2>1 DEF Extent
  <2>3. \A h, o : Step(h, o)' = Step(h, o)
    BY <1>2 DEF Step
  <2>4. ASSUME NEW p PROVE block_of(f, p)' = block_of(f, p)
    BY <1>2 DEF block_of, Step
  <2>5. [n \in DOMAIN Paths |-> block_of(f, Paths[n])]' = [n \in DOMAIN Paths |-> block_of(f, Paths[n])]
    BY <2>4
  <2>. QED
    BY <1>2, <2>2, <2>5 DEF Content
<1>4. content' = content
  BY <1>3 DEF content
<1>5. todo' = todo /\ view' = view
  BY <1>2 DEF todo, view, Todo, View
<1>6. Ways => Ways'
  BY <1>2 DEF Ways, Way, Underway, Led
<1>. QED
  BY <1>2, <1>4, <1>5, <1>6 DEF Flat!vars

\* Every step is one of FlatFiles or cannot be seen there, and each task stays
\* on its way.
LEMMA NextFlat ==
  FInv /\ WInv /\ [Next]_vars => WInv' /\ [clash' = "none" => Flat!Next]_Flat!vars
<1>1. SUFFICES ASSUME FInv, WInv, [Next]_vars
               PROVE  WInv' /\ [clash' = "none" => Flat!Next]_Flat!vars
  OBVIOUS
<1>2. FInv'
  BY <1>1, NextKeeps
<1>3. CASE UNCHANGED vars
  <2>1. clash' = clash
    BY <1>3 DEF vars
  <2>. QED
    BY <1>1, <1>3, <2>1, SeenUnchanged DEF WInv
<1>4. CASE clash' # "none"
  BY <1>4 DEF WInv
<1>5. CASE clash' = "none" /\ ~UNCHANGED vars
  <2>1. clash = "none" /\ \E t \in Tasks :
          \/ get_data_blkno(t) \/ Reading(t) \/ WritingOn(t)
          \/ delete_inode_data(t) \/ Call(t) \/ Failing(t)
    BY <1>1, <1>5 DEF Next
  <2>2. Good /\ Good' /\ Ways
    BY <1>1, <1>2, <1>5, <2>1, Meaning, MeaningNext DEF WInv
  <2>3. Ways' /\ Flat!Next
    BY <1>5, <2>1, <2>2, TaskSteps
  <2>. QED
    BY <2>3 DEF WInv
<1>. QED
  BY <1>3, <1>4, <1>5

\* What mkfs() leaves is what FlatFiles begins with: files of holes.
LEMMA InitFlat == Init => FInv /\ WInv /\ Flat!Init
<1>1. SUFFICES ASSUME Init PROVE FInv /\ WInv /\ Flat!Init
  OBVIOUS
<1>2. Good /\ TypeOK
  BY <1>1, InitGood DEF Good
<1>3. FInv
  BY <1>2, Meaning
<1>4. Ways
  <2>1. \A t \in Tasks : call[t] = Idle
    BY <1>1 DEF Init
  <2>2. \A f, p : Way(f, Idle, p)
    BY DEF Way, Idle, Walking
  <2>. QED
    BY <2>1, <2>2 DEF Ways
<1>5. ASSUME NEW f \in Files PROVE \A n \in DOMAIN Content(f) : Content(f)[n] = Hole
  <2>1. \A k \in Pointers : inode[f].data[k] = 0
    BY <1>1 DEF Init
  <2>2. ASSUME NEW n \in Nat PROVE Block(f, n) = 0
    <3>1. CASE Path(n) = <<>>
      BY <3>1 DEF Block
    <3>2. CASE Path(n) # <<>>
      <4>1. PICK P : P = Path(n)
        OBVIOUS
      <4>2. Proper(P)
        BY <3>2, <4>1, PathProper
      <4>3. 1 \in 1..Len(P) /\ Led(f, P, 1) = 0
        BY <2>1, <4>2, LedNext DEF Proper
      <4>4. Led(f, P, Len(P)) = 0
        BY <4>2, <4>3, LedEnds
      <4>. QED
        BY <4>1, <4>4 DEF Block
    <3>. QED
      BY <3>1, <3>2
  <2>3. PICK x \in Nat : x = Extent(f)
    BY <1>2, SeenBoth DEF Seen, ExtentRight
  <2>4. Content(f) = [i \in 1..x |-> WordAt(f, i - 1)]
    BY <1>2, <2>3, SeenBoth DEF Seen, ContentRight
  <2>5. \A i \in 1..x : WordAt(f, i - 1) = Hole
    <3>1. \A i \in 1..x : (i - 1) \div FS_BLKSIZ \in Nat
      BY InBlock
    <3>. QED
      BY <2>2, <3>1 DEF WordAt
  <2>. QED
    BY <2>4, <2>5
<1>6. Flat!Init
  <2>1. \A f \in Files : \A n \in DOMAIN content[f] : content[f][n] = Hole
    BY <1>5 DEF content
  <2>2. file \in [Tasks -> Files] /\ pos = [t \in Tasks |-> 0]
    BY <1>1, ParametersAssumption DEF Init
  <2>3. todo = [t \in Tasks |-> Flat!Idle] /\ view = [t \in Tasks |-> <<>>]
    <3>1. Todo(Idle) = Flat!Idle /\ View(Idle) = <<>>
      BY DEF Todo, View, Idle, Flat!Idle
    <3>2. \A t \in Tasks : call[t] = Idle
      BY <1>1 DEF Init
    <3>. QED
      BY <3>1, <3>2 DEF todo, view
  <2>. QED
    BY <2>1, <2>2, <2>3 DEF Flat!Init
<1>. QED
  BY <1>3, <1>4, <1>6 DEF WInv

\* As long as no two tasks have clashed and none has met an indirect block that was
\* linked and never cleared, files are what FlatFiles says: whatever the tasks do
\* between the steps of another's read_file(), write_file() or truncate_file(), and
\* wherever one of them finds no buffer, each of its steps is one of FlatFiles or
\* cannot be seen there.
THEOREM FilesFlat == Spec => ImplementsFlatFiles
<1>1. Init => FInv /\ WInv /\ Flat!Init
  BY InitFlat
<1>2. FInv /\ WInv /\ [Next]_vars
        => FInv' /\ WInv' /\ [clash' = "none" => Flat!Next]_Flat!vars
  BY NextKeeps, NextFlat
<1>. QED
  BY <1>1, <1>2, PTL DEF Spec, ImplementsFlatFiles
=============================================================================
