------------------------------ MODULE ListLemmas ------------------------------
(***************************************************************************)
(* Facts about the lists of vmm/lists.h, kept as sequences: inserting a    *)
(* node, taking one out, and the order and the elements of what results.   *)
(***************************************************************************)
EXTENDS Integers, SequencesExt, SequenceTheorems, WellFoundedInduction, TLAPS

\* Every node is in the list once.
NoRepeats(list) == \A i, j \in 1..Len(list) : i # j => list[i] # list[j]

\* The list is in the order of falling key.
Sorted(list, key) ==
    \A i, j \in 1..Len(list) : i < j => key[list[i]] >= key[list[j]]

\* NoRepeats is IsInjective, which the models use, with the positions for a
\* domain.
LEMMA NoRepeatsInjective ==
  ASSUME NEW T, NEW s \in Seq(T), NoRepeats(s)
  PROVE  IsInjective(s)
<1>1. DOMAIN s = 1..Len(s)
  OBVIOUS
<1>. QED
  BY <1>1 DEF IsInjective, NoRepeats

\* A set of naturals that is not empty has a least element, which Min chooses.
LEMMA MinInSet ==
  ASSUME NEW S \in SUBSET Nat, S # {}
  PROVE  Min(S) \in S /\ \A y \in S : Min(S) <= y
<1> DEFINE R == OpToRel(<, Nat)
<1>1. \A x, y \in S : y < x => <<y, x>> \in R
  BY DEF OpToRel
<1>2. IsWellFoundedOn(R, Nat)
  BY NatLessThanWellFounded
<1> HIDE DEF R
<1>3. PICK x \in S : \A y \in S : ~(<<y, x>> \in R)
  BY <1>2, WFMin
<1>4. \A y \in S : ~(y < x)
  BY <1>1, <1>3, Zenon
<1>5. \A y \in S : x <= y
  BY <1>4
<1>. QED
  BY <1>5 DEF Min

\* A set of naturals that is bounded and not empty has a greatest element.
LEMMA MaxInSet ==
  ASSUME NEW n \in Nat, NEW S \in SUBSET (1..n), S # {}
  PROVE  Max(S) \in S /\ \A y \in S : Max(S) >= y
<1> DEFINE D == {n - x : x \in S}
<1>0. \A x \in S : n - x \in Nat
  OBVIOUS
<1>1. D \in SUBSET Nat /\ D # {}
  BY <1>0, Zenon
<1>2. Min(D) \in D /\ \A d \in D : Min(D) <= d
  BY <1>1, MinInSet
<1> DEFINE m == Min(D)
<1>3. PICK x \in S : m = n - x
  BY <1>2
<1> HIDE DEF m
<1>4. \A y \in S : m <= n - y
  BY <1>2 DEF m
<1>5. \A y \in S : x >= y
  BY <1>3, <1>4
<1>. QED
  BY <1>5 DEF Max

\* InsertAt puts e in position i and moves the rest up.
LEMMA InsertAtElements ==
  ASSUME NEW T, NEW s \in Seq(T), NEW e \in T, NEW i \in 1..(Len(s) + 1)
  PROVE  /\ InsertAt(s, i, e) \in Seq(T)
         /\ Len(InsertAt(s, i, e)) = Len(s) + 1
         /\ \A n \in 1..(Len(s) + 1) :
              InsertAt(s, i, e)[n] = IF n < i THEN s[n]
                                     ELSE IF n = i THEN e ELSE s[n - 1]
<1>1. Len(s) \in Nat /\ i \in Nat /\ i >= 1 /\ i <= Len(s) + 1
  OBVIOUS
<1>2. \A n \in 1..Len(s) : s[n] \in T
  OBVIOUS
<1> DEFINE a == SubSeq(s, 1, i - 1)
           b == SubSeq(s, i, Len(s))
<1>3. /\ a \in Seq(T) /\ Len(a) = i - 1 /\ \A n \in 1..(i - 1) : a[n] = s[n]
  BY <1>1, <1>2, SubSeqProperties
<1>4. /\ b \in Seq(T) /\ Len(b) = Len(s) - i + 1
      /\ \A n \in 1..(Len(s) - i + 1) : b[n] = s[i + n - 1]
  BY <1>1, <1>2, SubSeqProperties
<1> HIDE DEF a, b
<1>5. /\ a \o <<e>> \in Seq(T) /\ Len(a \o <<e>>) = i
      /\ \A n \in 1..i : (a \o <<e>>)[n] = IF n < i THEN s[n] ELSE e
  BY <1>1, <1>3
<1> DEFINE ae == a \o <<e>>
<1>6. /\ ae \in Seq(T) /\ Len(ae) = i
      /\ \A n \in 1..i : ae[n] = IF n < i THEN s[n] ELSE e
  BY <1>5
<1>7. InsertAt(s, i, e) = ae \o b
  BY DEF InsertAt, a, b
<1> HIDE DEF ae
<1> DEFINE r == ae \o b
<1>8. /\ r \in Seq(T) /\ Len(r) = Len(ae) + Len(b)
      /\ \A n \in 1..(Len(ae) + Len(b)) :
           r[n] = IF n <= Len(ae) THEN ae[n] ELSE b[n - Len(ae)]
  BY <1>4, <1>6, ConcatProperties
<1> HIDE DEF r
<1>9. Len(r) = Len(s) + 1 /\ \A n \in 1..(Len(s) + 1) :
        r[n] = IF n <= i THEN ae[n] ELSE b[n - i]
  BY <1>1, <1>4, <1>6, <1>8
<1>10. ASSUME NEW n \in 1..(Len(s) + 1)
       PROVE r[n] = IF n < i THEN s[n] ELSE IF n = i THEN e ELSE s[n - 1]
  <2>1. CASE n <= i
    BY <1>1, <1>6, <1>9, <2>1
  <2>2. CASE n > i
    <3>1. n - i \in 1..(Len(s) - i + 1) /\ i + (n - i) - 1 = n - 1
      BY <1>1, <2>2
    <3>. QED  BY <1>1, <1>4, <1>9, <2>2, <3>1
  <2>. QED  BY <1>1, <2>1, <2>2
<1>. QED
  BY <1>7, <1>8, <1>9, <1>10 DEF r

\* RemoveAt takes position i out and moves the rest down.
LEMMA RemoveAtElements ==
  ASSUME NEW T, NEW s \in Seq(T), NEW i \in 1..Len(s)
  PROVE  /\ RemoveAt(s, i) \in Seq(T)
         /\ Len(RemoveAt(s, i)) = Len(s) - 1
         /\ \A n \in 1..(Len(s) - 1) :
              RemoveAt(s, i)[n] = IF n < i THEN s[n] ELSE s[n + 1]
<1>1. Len(s) \in Nat /\ i \in Nat /\ i >= 1 /\ i <= Len(s)
  OBVIOUS
<1>2. \A n \in 1..Len(s) : s[n] \in T
  OBVIOUS
<1> DEFINE a == SubSeq(s, 1, i - 1)
           b == SubSeq(s, i + 1, Len(s))
<1>3. /\ a \in Seq(T) /\ Len(a) = i - 1 /\ \A n \in 1..(i - 1) : a[n] = s[n]
  BY <1>1, <1>2, SubSeqProperties
<1>4. /\ b \in Seq(T) /\ Len(b) = Len(s) - i
      /\ \A n \in 1..(Len(s) - i) : b[n] = s[i + n]
  BY <1>1, <1>2, SubSeqProperties
<1>5. RemoveAt(s, i) = a \o b
  BY DEF RemoveAt
<1> HIDE DEF a, b
<1> DEFINE r == a \o b
<1>6. /\ r \in Seq(T) /\ Len(r) = Len(a) + Len(b)
      /\ \A n \in 1..(Len(a) + Len(b)) :
           r[n] = IF n <= Len(a) THEN a[n] ELSE b[n - Len(a)]
  BY <1>3, <1>4, ConcatProperties
<1> HIDE DEF r
<1>7. Len(r) = Len(s) - 1 /\ \A n \in 1..(Len(s) - 1) :
        r[n] = IF n < i THEN a[n] ELSE b[n - i + 1]
  <2>1. Len(a) + Len(b) = Len(s) - 1
    BY <1>1, <1>3, <1>4
  <2>2. \A n \in 1..(Len(s) - 1) :
          (n <= Len(a)) = (n < i) /\ n - Len(a) = n - i + 1
    BY <1>1, <1>3
  <2>. QED  BY <1>6, <2>1, <2>2
<1>8. ASSUME NEW n \in 1..(Len(s) - 1)
      PROVE r[n] = IF n < i THEN s[n] ELSE s[n + 1]
  <2>1. CASE n < i
    BY <1>1, <1>3, <1>7, <2>1
  <2>2. CASE n >= i
    <3>1. n - i + 1 \in 1..(Len(s) - i) /\ i + (n - i + 1) = n + 1
      BY <1>1, <2>2
    <3>. QED  BY <1>1, <1>4, <1>7, <2>2, <3>1
  <2>. QED  BY <1>1, <2>1, <2>2
<1>. QED
  BY <1>5, <1>6, <1>7, <1>8 DEF r

\* RemoveFirst leaves a list alone that does not hold e, else it takes one
\* position out.
LEMMA RemoveFirstCases ==
  ASSUME NEW T, NEW s \in Seq(T), NEW e
  PROVE  \/ e \notin ToSet(s) /\ RemoveFirst(s, e) = s
         \/ \E i \in 1..Len(s) : s[i] = e /\ RemoveFirst(s, e) = RemoveAt(s, i)
<1>1. CASE ~ \E i \in 1..Len(s) : s[i] = e
  BY <1>1 DEF RemoveFirst, ToSet
<1>2. CASE \E i \in 1..Len(s) : s[i] = e
  <2> DEFINE I == {i \in 1..Len(s) : s[i] = e}
  <2>1. I # {} /\ I \in SUBSET Nat
    BY <1>2
  <2>2. Min(I) \in I
    <3> HIDE DEF I
    <3>. QED  BY <2>1, MinInSet
  <2>3. RemoveFirst(s, e) = RemoveAt(s, Min(I))
    BY <1>2, <2>1 DEF RemoveFirst, SelectInSeq
  <2>. QED  BY <2>2, <2>3
<1>. QED  BY <1>1, <1>2

\* A node that is not in the list is put in.
LEMMA InsertNode ==
  ASSUME NEW T, NEW s \in Seq(T), NEW e \in T, NEW i \in 1..(Len(s) + 1),
         e \notin ToSet(s), NoRepeats(s)
  PROVE  /\ InsertAt(s, i, e) \in Seq(T)
         /\ NoRepeats(InsertAt(s, i, e))
         /\ ToSet(InsertAt(s, i, e)) = ToSet(s) \cup {e}
<1> DEFINE r == InsertAt(s, i, e)
<1>1. /\ r \in Seq(T) /\ Len(r) = Len(s) + 1 /\ Len(s) \in Nat
      /\ \A n \in 1..(Len(s) + 1) :
           r[n] = IF n < i THEN s[n] ELSE IF n = i THEN e ELSE s[n - 1]
  BY InsertAtElements
<1>2. DOMAIN r = 1..(Len(s) + 1) /\ DOMAIN s = 1..Len(s)
  BY <1>1
<1> HIDE DEF r
<1>3. \A n \in 1..Len(s) : s[n] # e
  BY <1>2 DEF ToSet
<1>4. ASSUME NEW m \in 1..Len(r), NEW n \in 1..Len(r), m < n PROVE r[m] # r[n]
  <2>0. CASE m = i
    <3>1. n \in 1..(Len(s) + 1) /\ m \in 1..(Len(s) + 1) /\ n > i /\ n # i /\ ~(n < i)
      BY <1>1, <1>4, <2>0
    <3>2. r[n] = s[n - 1] /\ r[m] = e
      BY <1>1, <2>0, <3>1
    <3>3. n - 1 \in 1..Len(s)
      BY <1>1, <3>1
    <3>. QED  BY <1>3, <3>2, <3>3
  <2>1. CASE n = i
    <3>1. n \in 1..(Len(s) + 1) /\ m \in 1..(Len(s) + 1) /\ m < i
      BY <1>1, <1>4, <2>1
    <3>2. r[m] = s[m] /\ r[n] = e
      BY <1>1, <2>1, <3>1
    <3>3. m \in 1..Len(s)
      BY <1>1, <3>1
    <3>. QED  BY <1>3, <3>2, <3>3
  <2>2. CASE m # i /\ n # i
    <3> DEFINE o(j) == IF j < i THEN j ELSE j - 1
    <3>0. /\ Len(s) \in Nat /\ i \in 1..(Len(s) + 1)
          /\ m \in 1..(Len(s) + 1) /\ n \in 1..(Len(s) + 1) /\ m < n
      BY <1>1, <1>4
    <3>1. /\ o(m) \in 1..Len(s) /\ o(n) \in 1..Len(s) /\ o(m) # o(n)
      BY <2>2, <3>0
    <3>2. r[m] = s[o(m)] /\ r[n] = s[o(n)]
      BY <1>1, <2>2, <3>0
    <3> HIDE DEF o
    <3>. QED  BY <3>1, <3>2 DEF NoRepeats
  <2>. QED  BY <2>0, <2>1, <2>2
<1>5. ToSet(r) \subseteq ToSet(s) \cup {e}
  BY <1>1, <1>2 DEF ToSet
<1>6. ToSet(s) \cup {e} \subseteq ToSet(r)
  <2>1. e \in ToSet(r)
    BY <1>1, <1>2 DEF ToSet
  <2>2. ASSUME NEW n \in 1..Len(s) PROVE s[n] \in ToSet(r)
    <3>1. CASE n < i
      BY <1>1, <1>2, <3>1 DEF ToSet
    <3>2. CASE n >= i
      <4>1. n + 1 \in 1..(Len(s) + 1) /\ r[n + 1] = s[n]
        BY <1>1, <3>2
      <4>. QED  BY <1>2, <4>1 DEF ToSet
    <3>. QED  BY <1>1, <3>1, <3>2
  <2>. QED  BY <1>2, <2>1, <2>2 DEF ToSet
<1>. QED
  BY <1>1, <1>4, <1>5, <1>6 DEF r, NoRepeats

\* The node at a position is taken out.
LEMMA RemoveAtNode ==
  ASSUME NEW T, NEW s \in Seq(T), NEW i \in 1..Len(s), NoRepeats(s)
  PROVE  /\ RemoveAt(s, i) \in Seq(T)
         /\ NoRepeats(RemoveAt(s, i))
         /\ ToSet(RemoveAt(s, i)) = ToSet(s) \ {s[i]}
<1> DEFINE r == RemoveAt(s, i)
<1>1. /\ r \in Seq(T) /\ Len(r) = Len(s) - 1 /\ Len(s) \in Nat
      /\ \A n \in 1..(Len(s) - 1) : r[n] = IF n < i THEN s[n] ELSE s[n + 1]
  BY RemoveAtElements
<1> HIDE DEF r
<1>2. DOMAIN r = 1..(Len(s) - 1) /\ DOMAIN s = 1..Len(s)
  BY <1>1
<1>3. ASSUME NEW m \in 1..Len(r), NEW n \in 1..Len(r), m # n PROVE r[m] # r[n]
  <2> DEFINE o(j) == IF j < i THEN j ELSE j + 1
  <2>0. /\ Len(s) \in Nat
        /\ m \in 1..(Len(s) - 1) /\ n \in 1..(Len(s) - 1) /\ m # n
    BY <1>1, <1>3
  <2>1. /\ o(m) \in 1..Len(s) /\ o(n) \in 1..Len(s) /\ o(m) # o(n)
    BY <2>0
  <2>2. r[m] = s[o(m)] /\ r[n] = s[o(n)]
    BY <1>1, <2>0
  <2> HIDE DEF o
  <2>. QED  BY <2>1, <2>2 DEF NoRepeats
<1>4. ASSUME NEW n \in 1..(Len(s) - 1) PROVE r[n] \in ToSet(s) /\ r[n] # s[i]
  <2> DEFINE m == IF n < i THEN n ELSE n + 1
  <2>1. m \in 1..Len(s) /\ m # i /\ r[n] = s[m]
    BY <1>1
  <2> HIDE DEF m
  <2>. QED  BY <1>2, <2>1 DEF ToSet, NoRepeats
<1>5. ASSUME NEW n \in 1..Len(s), n # i PROVE s[n] \in ToSet(r)
  <2>1. CASE n < i
    <3>1. n \in 1..(Len(s) - 1) /\ r[n] = s[n]
      BY <1>1, <2>1
    <3>. QED  BY <1>2, <3>1 DEF ToSet
  <2>2. CASE n > i
    <3>1. n - 1 \in 1..(Len(s) - 1) /\ r[n - 1] = s[n]
      BY <1>1, <2>2
    <3>. QED  BY <1>2, <3>1 DEF ToSet
  <2>. QED  BY <1>1, <1>5, <2>1, <2>2
<1>6. ToSet(r) = ToSet(s) \ {s[i]}
  BY <1>2, <1>4, <1>5 DEF ToSet
<1>. QED
  BY <1>1, <1>3, <1>6 DEF NoRepeats, r

\* A node is taken out, if it is there.
LEMMA RemoveNode ==
  ASSUME NEW T, NEW s \in Seq(T), NEW e, NoRepeats(s)
  PROVE  /\ RemoveFirst(s, e) \in Seq(T)
         /\ NoRepeats(RemoveFirst(s, e))
         /\ ToSet(RemoveFirst(s, e)) = ToSet(s) \ {e}
<1> DEFINE r == RemoveFirst(s, e)
<1>1. CASE e \notin ToSet(s) /\ r = s
  BY <1>1
<1>2. ASSUME NEW i \in 1..Len(s), s[i] = e, r = RemoveAt(s, i)
      PROVE  r \in Seq(T) /\ NoRepeats(r) /\ ToSet(r) = ToSet(s) \ {e}
  BY <1>2, RemoveAtNode
<1> HIDE DEF r
<1>3. r \in Seq(T) /\ NoRepeats(r) /\ ToSet(r) = ToSet(s) \ {e}
  BY <1>1, <1>2, RemoveFirstCases DEF r
<1>. QED
  BY <1>3 DEF r

\* The order of a list survives taking a node out ...
LEMMA RemoveSorted ==
  ASSUME NEW T, NEW s \in Seq(T), NEW e, NEW key \in [T -> Int], Sorted(s, key)
  PROVE  Sorted(RemoveFirst(s, e), key)
<1> DEFINE r == RemoveFirst(s, e)
<1>1. CASE r = s
  BY <1>1
<1>2. ASSUME NEW i \in 1..Len(s), r = RemoveAt(s, i)
      PROVE  Sorted(r, key)
  <2>0. /\ Len(RemoveAt(s, i)) = Len(s) - 1
        /\ \A n \in 1..(Len(s) - 1) :
             RemoveAt(s, i)[n] = IF n < i THEN s[n] ELSE s[n + 1]
    BY RemoveAtElements
  <2> HIDE DEF r
  <2>1. /\ Len(r) = Len(s) - 1 /\ Len(s) \in Nat
        /\ \A n \in 1..(Len(s) - 1) : r[n] = IF n < i THEN s[n] ELSE s[n + 1]
    BY <1>2, <2>0
  <2>2. ASSUME NEW m \in 1..Len(r), NEW n \in 1..Len(r), m < n
        PROVE  key[r[m]] >= key[r[n]]
    <3> DEFINE o(j) == IF j < i THEN j ELSE j + 1
    <3>0. /\ Len(s) \in Nat
          /\ m \in 1..(Len(s) - 1) /\ n \in 1..(Len(s) - 1) /\ m < n
      BY <2>1, <2>2
    <3>1. /\ o(m) \in 1..Len(s) /\ o(n) \in 1..Len(s) /\ o(m) < o(n)
      BY <3>0
    <3>2. r[m] = s[o(m)] /\ r[n] = s[o(n)]
      BY <2>1, <3>0
    <3> HIDE DEF o
    <3>. QED  BY <3>1, <3>2 DEF Sorted
  <2>. QED  BY <2>2 DEF Sorted
<1>. QED
  BY <1>1, <1>2, RemoveFirstCases

\* ... and putting one in behind those of a higher key and before those of a
\* lower one.
LEMMA InsertSorted ==
  ASSUME NEW T, NEW s \in Seq(T), NEW e \in T, NEW i \in 1..(Len(s) + 1),
         NEW key \in [T -> Int], Sorted(s, key),
         \A n \in 1..Len(s) : /\ n < i => key[s[n]] >= key[e]
                              /\ n >= i => key[s[n]] <= key[e]
  PROVE  Sorted(InsertAt(s, i, e), key)
<1> DEFINE r == InsertAt(s, i, e)
<1>1. /\ Len(r) = Len(s) + 1 /\ Len(s) \in Nat
      /\ \A n \in 1..(Len(s) + 1) :
           r[n] = IF n < i THEN s[n] ELSE IF n = i THEN e ELSE s[n - 1]
  BY InsertAtElements
<1> HIDE DEF r
<1>2. \A n \in 1..Len(s) : key[s[n]] \in Int
  OBVIOUS
<1>3. ASSUME NEW m \in 1..Len(r), NEW n \in 1..Len(r), m < n
      PROVE  key[r[m]] >= key[r[n]]
  <2>1. CASE n = i
    BY <1>1, <1>3, <2>1
  <2>2. CASE m = i
    <3>1. n - 1 \in 1..Len(s) /\ n - 1 >= i /\ r[n] = s[n - 1] /\ r[m] = e
      BY <1>1, <1>3, <2>2
    <3>. QED  BY <1>2, <3>1
  <2>3. CASE m # i /\ n # i
    <3> DEFINE o(j) == IF j < i THEN j ELSE j - 1
    <3>0. /\ Len(s) \in Nat /\ i \in 1..(Len(s) + 1)
          /\ m \in 1..(Len(s) + 1) /\ n \in 1..(Len(s) + 1) /\ m < n
      BY <1>1, <1>3
    <3>1. /\ o(m) \in 1..Len(s) /\ o(n) \in 1..Len(s) /\ o(m) < o(n)
      BY <2>3, <3>0
    <3>2. r[m] = s[o(m)] /\ r[n] = s[o(n)]
      BY <1>1, <2>3, <3>0
    <3> HIDE DEF o
    <3>. QED  BY <3>1, <3>2 DEF Sorted
  <2>. QED  BY <2>1, <2>2, <2>3
<1>. QED
  BY <1>3 DEF Sorted, r

\* A node that is not in the list is put at its end.
LEMMA AppendNode ==
  ASSUME NEW T, NEW s \in Seq(T), NEW e \in T, e \notin ToSet(s), NoRepeats(s)
  PROVE  /\ Append(s, e) \in Seq(T)
         /\ NoRepeats(Append(s, e))
         /\ ToSet(Append(s, e)) = ToSet(s) \cup {e}
<1> DEFINE r == Append(s, e)
<1>0. /\ r \in Seq(T) /\ Len(r) = Len(s) + 1 /\ Len(s) \in Nat
      /\ DOMAIN r = 1..(Len(s) + 1) /\ DOMAIN s = 1..Len(s)
      /\ r[Len(s) + 1] = e /\ \A i \in 1..Len(s) : r[i] = s[i]
  OBVIOUS
<1> HIDE DEF r
<1>1. ToSet(r) = ToSet(s) \cup {e}
  <2>1. ToSet(r) \subseteq ToSet(s) \cup {e}
    BY <1>0 DEF ToSet
  <2>2. ToSet(s) \subseteq ToSet(r)
    BY <1>0 DEF ToSet
  <2>3. e \in ToSet(r)
    BY <1>0 DEF ToSet
  <2>. QED  BY <2>1, <2>2, <2>3
<1>2. NoRepeats(r)
  BY <1>0 DEF ToSet, NoRepeats
<1>. QED
  BY <1>0, <1>1, <1>2 DEF r

\* A node that is not in the list is put at its head.
LEMMA ConsNode ==
  ASSUME NEW T, NEW s \in Seq(T), NEW e \in T, e \notin ToSet(s), NoRepeats(s)
  PROVE  /\ <<e>> \o s \in Seq(T)
         /\ NoRepeats(<<e>> \o s)
         /\ ToSet(<<e>> \o s) = ToSet(s) \cup {e}
<1> DEFINE r == <<e>> \o s
<1>0. /\ r \in Seq(T) /\ Len(r) = Len(s) + 1 /\ Len(s) \in Nat
      /\ DOMAIN r = 1..(Len(s) + 1) /\ DOMAIN s = 1..Len(s)
      /\ r[1] = e /\ \A i \in 2..(Len(s) + 1) : r[i] = s[i - 1]
  OBVIOUS
<1> HIDE DEF r
<1>1. ToSet(r) = ToSet(s) \cup {e}
  <2>1. ToSet(r) \subseteq ToSet(s) \cup {e}
    BY <1>0 DEF ToSet
  <2>2. ASSUME NEW i \in 1..Len(s) PROVE s[i] \in ToSet(r)
    <3>1. i + 1 \in 2..(Len(s) + 1) /\ r[i + 1] = s[i]
      BY <1>0
    <3>. QED  BY <1>0, <3>1 DEF ToSet
  <2>3. e \in ToSet(r)
    BY <1>0 DEF ToSet
  <2>. QED  BY <1>0, <2>1, <2>2, <2>3 DEF ToSet
<1>2. ASSUME NEW m \in 1..Len(r), NEW n \in 1..Len(r), m < n PROVE r[m] # r[n]
  <2>1. n - 1 \in 1..Len(s) /\ r[n] = s[n - 1] /\ s[n - 1] \in ToSet(s)
    BY <1>0, <1>2 DEF ToSet
  <2>2. CASE m = 1
    BY <1>0, <2>1, <2>2
  <2>3. CASE m # 1
    <3>1. m - 1 \in 1..Len(s) /\ r[m] = s[m - 1] /\ m - 1 # n - 1
      BY <1>0, <1>2, <2>3
    <3>. QED  BY <2>1, <3>1 DEF NoRepeats
  <2>. QED  BY <2>2, <2>3
<1>3. NoRepeats(r)
  BY <1>0, <1>2 DEF NoRepeats
<1>. QED
  BY <1>0, <1>1, <1>3 DEF r

\* The head of a list is taken.
LEMMA TailNode ==
  ASSUME NEW T, NEW s \in Seq(T), s # <<>>, NoRepeats(s)
  PROVE  /\ Tail(s) \in Seq(T) /\ NoRepeats(Tail(s))
         /\ Head(s) \in T /\ Head(s) \in ToSet(s)
         /\ ToSet(Tail(s)) = ToSet(s) \ {Head(s)}
<1> DEFINE r == Tail(s)
<1>0. /\ r \in Seq(T) /\ Len(r) = Len(s) - 1 /\ Len(s) \in Nat \ {0}
      /\ DOMAIN r = 1..(Len(s) - 1) /\ DOMAIN s = 1..Len(s)
      /\ Head(s) = s[1] /\ \A i \in 1..(Len(s) - 1) : r[i] = s[i + 1]
  OBVIOUS
<1> HIDE DEF r
<1>1. Head(s) \in T /\ Head(s) \in ToSet(s)
  BY <1>0 DEF ToSet
<1>2. NoRepeats(r)
  BY <1>0 DEF NoRepeats
<1>3. ToSet(r) = ToSet(s) \ {Head(s)}
  <2>1. ASSUME NEW i \in 1..(Len(s) - 1) PROVE r[i] \in ToSet(s) \ {Head(s)}
    <3>1. i + 1 \in 1..Len(s) /\ i + 1 # 1 /\ 1 \in 1..Len(s) /\ r[i] = s[i + 1]
      BY <1>0
    <3>2. s[i + 1] # s[1]
      BY <3>1 DEF NoRepeats
    <3>. QED  BY <1>0, <3>1, <3>2 DEF ToSet
  <2>2. ASSUME NEW i \in 1..Len(s), s[i] # Head(s) PROVE s[i] \in ToSet(r)
    <3>1. i - 1 \in 1..(Len(s) - 1) /\ r[i - 1] = s[i]
      BY <1>0, <2>2
    <3>. QED  BY <1>0, <3>1 DEF ToSet
  <2>3. ToSet(r) \subseteq ToSet(s) \ {Head(s)}
    BY <1>0, <2>1 DEF ToSet
  <2>4. ToSet(s) \ {Head(s)} \subseteq ToSet(r)
    BY <1>0, <2>2 DEF ToSet
  <2>. QED  BY <2>3, <2>4
<1>. QED
  BY <1>0, <1>1, <1>2, <1>3 DEF r
=============================================================================
