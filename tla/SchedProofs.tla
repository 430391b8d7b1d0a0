----------------------------- MODULE SchedProofs -----------------------------
(***************************************************************************)
(* The task lists and the current task, for any number of tasks, any       *)
(* priorities and any use of the kernel's functions.                       *)
(***************************************************************************)
EXTENDS Sched, ListLemmas, FiniteSetTheorems

\* The fields of k.
LEMMA KernelFields ==
  ASSUME NEW s \in KernelState
  PROVE  /\ s.running_tasks \in Seq(Slots) /\ s.suspended_tasks \in Seq(Slots)
         /\ s.zombie_tasks \in Seq(Slots) /\ s.zombies \in Nat
         /\ s.flags \in [Slots -> SUBSET Flags] /\ s.pri \in [Slots -> Int]
         /\ s.time_left \in [Slots -> Nat] /\ s.forbid_count \in [Slots -> Nat]
         /\ s.live \in SUBSET Slots /\ s.TaskCount \in Int
         /\ s.current_task \in Slots /\ s.need_resched \in BOOLEAN
  BY DEF KernelState

\* enqueue_task() puts a task behind those of a higher priority and before
\* those of a lower one; within its band, behind none whose time is used up
\* when it has time left itself, and behind all when it has none.
LEMMA EnqueuePosition ==
  ASSUME NEW s \in KernelState, NEW list \in Seq(Slots), NEW t \in Slots,
         Sorted(list, s.pri)
  PROVE  /\ enqueue_position(s, list, t) \in 1..(Len(list) + 1)
         /\ \A n \in 1..Len(list) :
              /\ n < enqueue_position(s, list, t) => s.pri[list[n]] >= s.pri[t]
              /\ n >= enqueue_position(s, list, t) => s.pri[list[n]] <= s.pri[t]
              /\ s.pri[list[n]] = s.pri[t] =>
                   /\ n < enqueue_position(s, list, t) /\ s.time_left[t] > 0
                        => s.time_left[list[n]] > 0
                   /\ n >= enqueue_position(s, list, t) => s.time_left[t] > 0
<1> DEFINE p == enqueue_position(s, list, t)
           end == Len(list) + 1
<1>1. /\ Len(list) \in Nat /\ s.pri \in [Slots -> Int]
      /\ \A n \in 1..Len(list) : list[n] \in Slots /\ s.pri[list[n]] \in Int
      /\ s.pri[t] \in Int /\ s.time_left[t] \in Nat
  BY KernelFields
<1>2. CASE s.time_left[t] <= 0
  <2> DEFINE S == {j \in 1..end : j = end \/ ~(s.pri[list[j]] >= s.pri[t])}
  <2>1. p = Min(S)
    BY <1>2 DEF enqueue_position, SkipWhile
  <2>2. S \in SUBSET Nat /\ end \in S
    BY <1>1
  <2>3. Min(S) \in S /\ \A y \in S : Min(S) <= y
    <3> HIDE DEF S
    <3>. QED  BY <2>2, MinInSet
  <2>4. /\ Min(S) \in 1..end
        /\ Min(S) # end => s.pri[list[Min(S)]] < s.pri[t]
    <3>1. Min(S) \in 1..end /\ (Min(S) = end \/ ~(s.pri[list[Min(S)]] >= s.pri[t]))
      BY <2>3
    <3> DEFINE q == Min(S)
    <3> HIDE DEF S, q
    <3>2. q \in 1..end /\ (q # end => s.pri[list[q]] < s.pri[t])
      BY <1>1, <3>1 DEF q
    <3>. QED  BY <3>2 DEF q
  <2>5. ASSUME NEW n \in 1..Len(list), n < Min(S)
        PROVE s.pri[list[n]] >= s.pri[t]
    <3>1. n \in 1..end /\ n # end
      BY <1>1
    <3>2. n \notin S
      <4> DEFINE q == Min(S)
      <4>1. q \in Nat /\ n \in Nat /\ n < q /\ \A y \in S : q <= y
        BY <1>1, <2>3, <2>4, <2>5
      <4> HIDE DEF S, q
      <4>. QED  BY <4>1
    <3>. QED  BY <3>1, <3>2
  <2> DEFINE q == Min(S)
  <2> HIDE DEF S
  <2>6. ASSUME NEW n \in 1..Len(list), n >= q
        PROVE s.pri[list[n]] < s.pri[t]
    <3>1. q \in 1..Len(list) /\ q # end /\ (q < n \/ q = n)
      BY <1>1, <2>4, <2>6
    <3>2. s.pri[list[q]] >= s.pri[list[n]] /\ s.pri[list[q]] < s.pri[t]
      BY <1>1, <2>4, <3>1 DEF Sorted
    <3>. QED  BY <1>1, <3>1, <3>2
  <2> HIDE DEF p, q
  <2>7. p = q /\ q \in 1..end
    BY <2>1, <2>4 DEF q
  <2>. QED
    BY <1>1, <1>2, <2>5, <2>6, <2>7 DEF p, q
<1>3. CASE ~(s.time_left[t] <= 0)
  <2> DEFINE S == {j \in 1..end : j = end \/ ~(s.pri[list[j]] > s.pri[t])}
             R(m) == {j \in m..end :
                     j = end \/ ~(s.pri[list[j]] = s.pri[t] /\ s.time_left[list[j]] > 0)}
  <2>1. p = Min(R(Min(S)))
    BY <1>3 DEF enqueue_position, SkipWhile
  <2>2. S \in SUBSET Nat /\ end \in S
    BY <1>1
  <2>3. Min(S) \in S /\ \A y \in S : Min(S) <= y
    <3> HIDE DEF S
    <3>. QED  BY <2>2, MinInSet
  <2>4. /\ Min(S) \in 1..end
        /\ \A n \in 1..Len(list) : n < Min(S) => s.pri[list[n]] > s.pri[t]
        /\ Min(S) # end => s.pri[list[Min(S)]] <= s.pri[t]
    <3>1. /\ Min(S) \in 1..end
          /\ Min(S) # end => s.pri[list[Min(S)]] <= s.pri[t]
      <4>1. Min(S) \in 1..end /\ (Min(S) = end \/ ~(s.pri[list[Min(S)]] > s.pri[t]))
        BY <2>3
      <4> DEFINE q == Min(S)
      <4> HIDE DEF S, q
      <4>2. q \in 1..end /\ (q # end => s.pri[list[q]] <= s.pri[t])
        BY <1>1, <4>1 DEF q
      <4>. QED  BY <4>2 DEF q
    <3>2. ASSUME NEW n \in 1..Len(list), n < Min(S)
          PROVE s.pri[list[n]] > s.pri[t]
      <4>1. n \in 1..end /\ n # end
        BY <1>1
      <4>2. n \notin S
        <5> DEFINE q == Min(S)
        <5>1. q \in Nat /\ n \in Nat /\ n < q /\ \A y \in S : q <= y
          BY <1>1, <2>3, <3>1, <3>2
        <5> HIDE DEF S, q
        <5>. QED  BY <5>1
      <4>. QED  BY <4>1, <4>2
    <3> HIDE DEF S
    <3>. QED  BY <3>1, <3>2
  <2> DEFINE m == Min(S)
  <2>5. R(m) \in SUBSET Nat /\ end \in R(m)
    <3> HIDE DEF S
    <3>. QED  BY <1>1, <2>4
  <2> HIDE DEF S, m
  <2>6. Min(R(m)) \in R(m) /\ \A y \in R(m) : Min(R(m)) <= y
    <3> HIDE DEF R
    <3>. QED  BY <2>5, MinInSet
  <2> DEFINE q == Min(R(m))
  <2>7. /\ q \in m..end
        /\ \A n \in m..Len(list) : n < q =>
             s.pri[list[n]] = s.pri[t] /\ s.time_left[list[n]] > 0
    <3>1. q \in m..end
      BY <1>1, <2>4, <2>6 DEF m
    <3>2. ASSUME NEW n \in m..Len(list), n < q
          PROVE s.pri[list[n]] = s.pri[t] /\ s.time_left[list[n]] > 0
      <4>1. m \in 1..end /\ n \in m..end /\ n # end /\ q \in Int
        BY <1>1, <2>4, <3>1, <3>2 DEF m
      <4>2. n \notin R(m)
        <5>1. \A y \in R(m) : q <= y
          BY <2>6
        <5> HIDE DEF R, q
        <5>. QED  BY <3>2, <4>1, <5>1
      <4>. QED  BY <4>1, <4>2
    <3> HIDE DEF R
    <3>. QED  BY <3>1, <3>2
  <2> HIDE DEF q, R
  <2>8. /\ q \in 1..end
        /\ \A n \in 1..Len(list) :
              /\ n < q => s.pri[list[n]] >= s.pri[t]
              /\ n >= q => s.pri[list[n]] <= s.pri[t]
              /\ n < q /\ s.pri[list[n]] = s.pri[t] => s.time_left[list[n]] > 0
    <3>1. /\ m \in 1..end /\ q \in 1..end /\ m <= q
          /\ \A n \in 1..Len(list) : n < m => s.pri[list[n]] > s.pri[t]
          /\ m # end => s.pri[list[m]] <= s.pri[t]
      BY <1>1, <2>4, <2>7 DEF m
    <3>2. ASSUME NEW n \in 1..Len(list), n < q PROVE s.pri[list[n]] >= s.pri[t]
      <4>1. CASE n < m
        BY <1>1, <3>1, <4>1
      <4>2. CASE n >= m
        <5>1. n \in m..Len(list)
          BY <1>1, <3>1, <4>2
        <5>. QED  BY <1>1, <2>7, <3>2, <5>1
      <4>. QED  BY <3>1, <4>1, <4>2
    <3>3. ASSUME NEW n \in 1..Len(list), n >= q PROVE s.pri[list[n]] <= s.pri[t]
      <4>1. m \in 1..Len(list) /\ m # end /\ (m < n \/ m = n)
        BY <1>1, <3>1, <3>3
      <4>2. s.pri[list[m]] >= s.pri[list[n]] /\ s.pri[list[m]] <= s.pri[t]
        BY <1>1, <3>1, <4>1 DEF Sorted
      <4>. QED  BY <1>1, <4>1, <4>2
    <3>4. ASSUME NEW n \in 1..Len(list), n < q, s.pri[list[n]] = s.pri[t]
          PROVE  s.time_left[list[n]] > 0
      <4>1. n >= m
        BY <1>1, <3>1, <3>4
      <4>2. n \in m..Len(list)
        BY <1>1, <3>1, <4>1
      <4>. QED  BY <2>7, <3>4, <4>2
    <3>. QED  BY <3>1, <3>2, <3>3, <3>4
  <2>9. p = q
    BY <2>1 DEF q, m
  <2> HIDE DEF p
  <2>10. s.time_left[t] > 0
    BY <1>1, <1>3
  <2>. QED  BY <2>8, <2>9, <2>10 DEF p
<1>. QED
  BY <1>2, <1>3

-----------------------------------------------------------------------------
(* The invariant of k, and what each kernel function does to it.            *)

\* ListsMatch, with NoRepeats for IsInjective.
Matches(s) ==
    /\ NoRepeats(s.running_tasks) /\ NoRepeats(s.suspended_tasks)
    /\ NoRepeats(s.zombie_tasks)
    /\ \A t \in ToSet(s.running_tasks) :
         t \in s.live /\ Running(s, t) /\ "ZOMBIE" \notin s.flags[t]
    /\ \A t \in ToSet(s.suspended_tasks) :
         t \in s.live /\ ~Running(s, t) /\ "ZOMBIE" \notin s.flags[t]
    /\ \A t \in ToSet(s.zombie_tasks) :
         t \in s.live /\ ~Running(s, t) /\ "ZOMBIE" \in s.flags[t]

\* Nodes and flags agree, the run queue is in order, and every zombie in the
\* list will be reclaimed.
Good(s) ==
    /\ s \in KernelState
    /\ Matches(s)
    /\ Sorted(s.running_tasks, s.pri)
    /\ s.zombies = Len(s.zombie_tasks)

\* A dead task that is still live is in zombie_tasks.
ZombieListed(s, t) ==
    t \in s.live /\ "ZOMBIE" \in s.flags[t] => t \in ToSet(s.zombie_tasks)

Ok(s) ==
    /\ Good(s)
    /\ \A t \in Slots : ZombieListed(s, t)
    /\ Idle \in ToSet(s.running_tasks)
    /\ Linked(s, s.current_task)

\* r and s say the same of the tasks themselves.
SameTasks(r, s) ==
    r.flags = s.flags /\ r.pri = s.pri /\ r.forbid_count = s.forbid_count

\* r differs from s in its lists at most.
SameBut(r, s) ==
    /\ SameTasks(r, s) /\ r.time_left = s.time_left
    /\ r.zombie_tasks = s.zombie_tasks /\ r.zombies = s.zombies
    /\ r.live = s.live /\ r.TaskCount = s.TaskCount
    /\ r.current_task = s.current_task /\ r.need_resched = s.need_resched

\* enqueue_task() of a running task that is in no list.
LEMMA EnqueueTask ==
  ASSUME NEW s, Good(s), NEW t \in s.live, ~Linked(s, t),
         Running(s, t), "ZOMBIE" \notin s.flags[t]
  PROVE  LET r == enqueue_task(s, t)
         IN  /\ Good(r) /\ SameBut(r, s)
             /\ ToSet(r.running_tasks) = ToSet(s.running_tasks) \cup {t}
             /\ r.suspended_tasks = s.suspended_tasks
<1> DEFINE i == enqueue_position(s, s.running_tasks, t)
           q == InsertAt(s.running_tasks, i, t)
           r == [s EXCEPT !.running_tasks = q]
<1>1. s \in KernelState /\ t \in Slots /\ t \notin ToSet(s.running_tasks)
  BY KernelFields DEF Good, Linked
<1>2. s.running_tasks \in Seq(Slots) /\ s.pri \in [Slots -> Int]
  BY <1>1, KernelFields
<1>3. /\ i \in 1..(Len(s.running_tasks) + 1)
      /\ \A n \in 1..Len(s.running_tasks) :
           /\ n < i => s.pri[s.running_tasks[n]] >= s.pri[t]
           /\ n >= i => s.pri[s.running_tasks[n]] <= s.pri[t]
  BY <1>1, <1>2, EnqueuePosition DEF Good
<1> HIDE DEF i
<1>4. /\ q \in Seq(Slots) /\ NoRepeats(q)
      /\ ToSet(q) = ToSet(s.running_tasks) \cup {t}
  BY <1>1, <1>2, <1>3, InsertNode DEF Good, Matches
<1>5. Sorted(q, s.pri)
  BY <1>1, <1>2, <1>3, InsertSorted DEF Good
<1>6. enqueue_task(s, t) = r
  BY DEF enqueue_task, i
<1> HIDE DEF q
<1>7. r \in KernelState /\ r.running_tasks = q
  BY <1>1, <1>4 DEF KernelState
<1>8. SameBut(r, s) /\ r.suspended_tasks = s.suspended_tasks
  BY <1>1 DEF KernelState, SameBut, SameTasks
<1> HIDE DEF r
<1>9. Matches(r)
  BY <1>4, <1>7, <1>8 DEF Good, Matches, SameBut, SameTasks, Running
<1>10. Good(r)
  BY <1>5, <1>7, <1>8, <1>9 DEF Good, SameBut, SameTasks
<1>. QED
  BY <1>4, <1>6, <1>7, <1>8, <1>10

\* remove_node() takes a task off the run queue or the suspended tasks.
LEMMA RemoveTaskNode ==
  ASSUME NEW s, Good(s), NEW t
  PROVE  LET r == remove_node(s, t)
         IN  /\ Good(r) /\ SameBut(r, s)
             /\ ToSet(r.running_tasks) = ToSet(s.running_tasks) \ {t}
             /\ ToSet(r.suspended_tasks) = ToSet(s.suspended_tasks) \ {t}
<1> DEFINE a == RemoveFirst(s.running_tasks, t)
           b == RemoveFirst(s.suspended_tasks, t)
           r == [s EXCEPT !.running_tasks = a, !.suspended_tasks = b]
<1>1. s \in KernelState
  BY DEF Good
<1>2. /\ s.running_tasks \in Seq(Slots) /\ s.suspended_tasks \in Seq(Slots)
      /\ s.pri \in [Slots -> Int]
  BY <1>1, KernelFields
<1>3. /\ a \in Seq(Slots) /\ NoRepeats(a) /\ ToSet(a) = ToSet(s.running_tasks) \ {t}
      /\ b \in Seq(Slots) /\ NoRepeats(b) /\ ToSet(b) = ToSet(s.suspended_tasks) \ {t}
  BY <1>2, RemoveNode DEF Good, Matches
<1>4. Sorted(a, s.pri)
  BY <1>2, RemoveSorted DEF Good
<1>5. remove_node(s, t) = r
  BY DEF remove_node
<1> HIDE DEF a, b
<1>6. r \in KernelState /\ r.running_tasks = a /\ r.suspended_tasks = b
  BY <1>1, <1>3 DEF KernelState
<1>7. SameBut(r, s)
  BY <1>1 DEF KernelState, SameBut, SameTasks
<1> HIDE DEF r
<1>8. Matches(r)
  BY <1>3, <1>6, <1>7 DEF Good, Matches, SameBut, SameTasks, Running
<1>9. Good(r)
  BY <1>4, <1>6, <1>7, <1>8 DEF Good, SameBut, SameTasks
<1>. QED
  BY <1>3, <1>5, <1>6, <1>7, <1>9

\* The number of tasks in a set of tasks.
LEMMA CardinalityNat ==
  ASSUME NEW T \in SUBSET Slots PROVE Cardinality(T) \in Nat
  BY SlotsAssumption, FS_Subset, FS_CardinalityType

\* schedule() first releases the structure of every task that is in
\* zombie_tasks.
LEMMA ReclaimZombies ==
  ASSUME NEW s, Good(s)
  PROVE  LET r == reclaim_zombies(s)
         IN  /\ Good(r) /\ SameTasks(r, s) /\ r.time_left = s.time_left
             /\ r.running_tasks = s.running_tasks
             /\ r.suspended_tasks = s.suspended_tasks
             /\ r.live = s.live \ ToSet(s.zombie_tasks)
             /\ r.TaskCount = s.TaskCount - Cardinality(ToSet(s.zombie_tasks))
             /\ r.zombie_tasks = <<>>
             /\ r.current_task = s.current_task
             /\ r.need_resched = s.need_resched
<1> DEFINE z == s.zombie_tasks
           T == ToSet(SubSeq(z, 1, s.zombies))
           n == s.TaskCount - Cardinality(T)
           rest == SubSeq(z, s.zombies + 1, Len(z))
           left == s.live \ T
           r == [s EXCEPT !.live = left, !.TaskCount = n,
                          !.zombie_tasks = rest, !.zombies = 0]
<1>1. /\ s \in KernelState /\ z \in Seq(Slots) /\ s.zombies = Len(z)
      /\ Len(z) \in Nat /\ s.TaskCount \in Int /\ s.live \in SUBSET Slots
  BY KernelFields DEF Good
<1>2. SubSeq(z, 1, s.zombies) = z
  BY <1>1, SubSeqFull
<1>3. T = ToSet(z) /\ T \in SUBSET Slots
  <2>1. ToSet(z) \in SUBSET Slots
    <3> HIDE DEF z
    <3>. QED  BY <1>1 DEF ToSet
  <2>. QED  BY <1>2, <2>1
<1>4. rest = <<>> /\ rest \in Seq(Slots) /\ left \in SUBSET Slots
  BY <1>1, SubSeqEmpty
<1>5. n \in Int
  BY <1>1, <1>3, CardinalityNat
<1>6. reclaim_zombies(s) = r
  BY <1>1 DEF reclaim_zombies, reclaim_task, KernelState
<1> HIDE DEF T, n, rest, left
<1>7. /\ r \in KernelState /\ SameTasks(r, s) /\ r.time_left = s.time_left
      /\ r.running_tasks = s.running_tasks
      /\ r.suspended_tasks = s.suspended_tasks
      /\ r.live = left /\ r.TaskCount = n
      /\ r.zombie_tasks = rest /\ r.zombies = 0
      /\ r.current_task = s.current_task
      /\ r.need_resched = s.need_resched
  BY <1>1, <1>4, <1>5 DEF KernelState, SameTasks
<1> HIDE DEF r
<1>8. ToSet(<<>>) = {} /\ Len(<<>>) = 0
  BY DEF ToSet
<1>9. NoRepeats(r.zombie_tasks) /\ ToSet(r.zombie_tasks) = {}
  BY <1>4, <1>7, <1>8 DEF NoRepeats
<1>10. Matches(r)
  BY <1>3, <1>7, <1>9 DEF left, Good, Matches, SameTasks, Running
<1>11. Good(r)
  BY <1>4, <1>7, <1>8, <1>10 DEF Good, SameTasks
<1>. QED
  BY <1>3, <1>4, <1>6, <1>7, <1>11 DEF left, n

\* schedule() then puts the current task, when it is runnable, in its place.
LEMMA RequeueCurrent ==
  ASSUME NEW s, Good(s), s.current_task \in s.live,
         Linked(s, s.current_task) \/ ~Running(s, s.current_task)
  PROVE  LET r == requeue_current(s)
         IN  /\ Good(r) /\ SameBut(r, s)
             /\ ToSet(r.running_tasks) = ToSet(s.running_tasks)
             /\ ToSet(r.suspended_tasks) = ToSet(s.suspended_tasks)
<1> DEFINE t == s.current_task
           a == remove_node(s, t)
           r == enqueue_task(a, t)
<1>1. CASE ~Running(s, t)
  BY <1>1 DEF requeue_current, SameBut, SameTasks
<1>2. CASE Running(s, t)
  <2>1. /\ t \in ToSet(s.running_tasks) /\ t \notin ToSet(s.suspended_tasks)
        /\ "ZOMBIE" \notin s.flags[t]
    BY <1>2 DEF Good, Matches, Linked
  <2>2. /\ Good(a) /\ SameBut(a, s)
        /\ ToSet(a.running_tasks) = ToSet(s.running_tasks) \ {t}
        /\ ToSet(a.suspended_tasks) = ToSet(s.suspended_tasks) \ {t}
    BY RemoveTaskNode
  <2> HIDE DEF a
  <2>3. /\ t \in a.live /\ ~Linked(a, t) /\ Running(a, t)
        /\ "ZOMBIE" \notin a.flags[t]
    BY <1>2, <2>1, <2>2 DEF SameBut, SameTasks, Linked, Running
  <2>4. /\ Good(r) /\ SameBut(r, a)
        /\ ToSet(r.running_tasks) = ToSet(a.running_tasks) \cup {t}
        /\ r.suspended_tasks = a.suspended_tasks
    <3> HIDE DEF t
    <3>. QED  BY <2>2, <2>3, EnqueueTask
  <2>5. requeue_current(s) = r
    BY <1>2 DEF requeue_current, a
  <2> HIDE DEF r
  <2>6. SameBut(r, s)
    BY <2>2, <2>4 DEF SameBut, SameTasks
  <2>. QED
    BY <2>1, <2>2, <2>4, <2>5, <2>6
<1>. QED
  BY <1>1, <1>2

\* schedule() last switches to the head of the run queue; a task that has died
\* is left to the next call.
LEMMA SwitchToHead ==
  ASSUME NEW s, Good(s), s.zombie_tasks = <<>>, s.running_tasks # <<>>,
         s.current_task \in s.live,
         \/ Linked(s, s.current_task)
         \/ "ZOMBIE" \in s.flags[s.current_task] /\ ~Running(s, s.current_task)
  PROVE  LET r == switch_to_head(s)
         IN  /\ Good(r) /\ SameTasks(r, s) /\ r.live = s.live
             /\ r.running_tasks = s.running_tasks
             /\ r.suspended_tasks = s.suspended_tasks
             /\ r.current_task = Head(s.running_tasks)
             /\ r.current_task \in ToSet(s.running_tasks)
             /\ r.time_left[r.current_task] > 0
             /\ \A x \in Slots \ {r.current_task} : r.time_left[x] = s.time_left[x]
             /\ r.TaskCount = s.TaskCount
             /\ "ZOMBIE" \in s.flags[s.current_task]
                   => s.current_task \in ToSet(r.zombie_tasks)
<1> DEFINE t == s.current_task
           next == Head(s.running_tasks)
           dies == t # next /\ "ZOMBIE" \in s.flags[t]
           left == [s.time_left EXCEPT ![next] = IF @ <= 0 THEN Quantum ELSE @]
           z == IF dies THEN <<t>> ELSE <<>>
           m == IF dies THEN 1 ELSE 0
           r == [s EXCEPT !.time_left = left, !.zombie_tasks = z,
                          !.zombies = m, !.current_task = next]
<1>1. /\ s \in KernelState /\ s.running_tasks \in Seq(Slots)
      /\ s.time_left \in [Slots -> Nat] /\ t \in Slots /\ s.zombies = 0
  BY KernelFields DEF Good
<1>2. next \in ToSet(s.running_tasks) /\ next \in Slots
  BY <1>1 DEF ToSet
<1>3. /\ left \in [Slots -> Nat] /\ left[next] > 0
      /\ \A x \in Slots \ {next} : left[x] = s.time_left[x]
  BY <1>1, <1>2, QuantumAssumption
<1>4. z \in Seq(Slots) /\ m \in Nat /\ Len(z) = m
  BY <1>1
<1>5. NoRepeats(z) /\ ToSet(z) = (IF dies THEN {t} ELSE {})
  BY DEF NoRepeats, ToSet
<1>6. switch_to_head(s) = r
  <2>1. Append(s.zombie_tasks, t) = <<t>> /\ s.zombies + 1 = 1
    BY <1>1
  <2>. QED  BY <1>1, <2>1 DEF switch_to_head, KernelState
<1> HIDE DEF left, z, m, dies, next
<1>7. /\ r \in KernelState /\ SameTasks(r, s) /\ r.live = s.live
      /\ r.running_tasks = s.running_tasks
      /\ r.suspended_tasks = s.suspended_tasks
      /\ r.zombie_tasks = z /\ r.zombies = m
      /\ r.current_task = next /\ r.time_left = left
      /\ r.TaskCount = s.TaskCount
  BY <1>1, <1>2, <1>3, <1>4 DEF KernelState, SameTasks
<1> HIDE DEF r
<1>8. dies => ~Running(s, t) /\ "ZOMBIE" \in s.flags[t]
  BY DEF Good, Matches, Linked, dies
<1>9. Matches(r)
  BY <1>5, <1>7, <1>8 DEF Good, Matches, SameTasks, Running
<1>10. Good(r)
  BY <1>4, <1>7, <1>9 DEF Good, SameTasks
<1>11. "ZOMBIE" \in s.flags[t] => dies
  BY <1>2 DEF dies, Good, Matches
<1>12. "ZOMBIE" \in s.flags[t] => t \in ToSet(r.zombie_tasks)
  BY <1>5, <1>7, <1>11
<1>. QED
  BY <1>2, <1>3, <1>6, <1>7, <1>10, <1>12 DEF next

\* need_resched is in no other part of the invariant.
LEMMA SetResched ==
  ASSUME NEW s, Good(s), NEW b \in BOOLEAN
  PROVE  LET r == [s EXCEPT !.need_resched = b]
         IN  /\ Good(r) /\ SameTasks(r, s) /\ r.time_left = s.time_left
             /\ r.running_tasks = s.running_tasks
             /\ r.suspended_tasks = s.suspended_tasks
             /\ r.zombie_tasks = s.zombie_tasks /\ r.live = s.live
             /\ r.TaskCount = s.TaskCount
             /\ r.current_task = s.current_task /\ r.need_resched = b
<1> DEFINE r == [s EXCEPT !.need_resched = b]
<1>1. s \in KernelState
  BY DEF Good
<1>2. /\ r \in KernelState /\ SameTasks(r, s) /\ r.time_left = s.time_left
      /\ r.running_tasks = s.running_tasks
      /\ r.suspended_tasks = s.suspended_tasks
      /\ r.zombie_tasks = s.zombie_tasks /\ r.zombies = s.zombies
      /\ r.live = s.live /\ r.TaskCount = s.TaskCount
      /\ r.current_task = s.current_task /\ r.need_resched = b
  BY <1>1 DEF KernelState, SameTasks
<1> HIDE DEF r
<1>3. Good(r)
  BY <1>2 DEF Good, Matches, SameTasks, Running
<1>. QED
  BY <1>2, <1>3 DEF r

\* schedule() called by a task that is in a list, or has just died.
LEMMA ScheduleOk ==
  ASSUME NEW s, Good(s), Idle \in ToSet(s.running_tasks),
         s.current_task \in s.live,
         \/ Linked(s, s.current_task)
         \/ /\ "ZOMBIE" \in s.flags[s.current_task] /\ ~Running(s, s.current_task)
            /\ s.current_task \notin ToSet(s.zombie_tasks),
         \A t \in Slots \ {s.current_task} : ZombieListed(s, t)
  PROVE  Ok(schedule(s)) /\ SameTasks(schedule(s), s)
<1> DEFINE t == s.current_task
           r == reclaim_zombies(s)
           u == [r EXCEPT !.need_resched = FALSE]
           q == requeue_current(u)
           w == switch_to_head(q)
<1>1. /\ Good(r) /\ SameTasks(r, s)
      /\ r.running_tasks = s.running_tasks
      /\ r.suspended_tasks = s.suspended_tasks
      /\ r.live = s.live \ ToSet(s.zombie_tasks)
      /\ r.zombie_tasks = <<>> /\ r.current_task = t
  BY ReclaimZombies
<1>2. ToSet(<<>>) = {}
  BY DEF ToSet
<1>3. t \in r.live
  BY <1>1 DEF Good, Matches, Linked
<1>4. \A x \in Slots \ {t} : x \in r.live => "ZOMBIE" \notin r.flags[x]
  BY <1>1 DEF ZombieListed, SameTasks
<1>5. Linked(r, t) <=> Linked(s, t)
  BY <1>1 DEF Linked
<1> HIDE DEF r
<1>6. CASE r.forbid_count[r.current_task] > 0 /\ Running(r, r.current_task)
  <2>1. schedule(s) = r
    BY <1>6 DEF schedule, r
  <2>2. Linked(r, t) /\ "ZOMBIE" \notin r.flags[t]
    BY <1>1, <1>5, <1>6 DEF Good, Matches, Linked, Running, SameTasks
  <2>3. Ok(r)
    BY <1>1, <1>4, <2>2 DEF Ok, ZombieListed
  <2>. QED  BY <1>1, <2>1, <2>3
<1>7. CASE ~(r.forbid_count[r.current_task] > 0 /\ Running(r, r.current_task))
  <2>1. /\ Good(u) /\ SameTasks(u, r) /\ u.running_tasks = r.running_tasks
        /\ u.suspended_tasks = r.suspended_tasks
        /\ u.zombie_tasks = <<>> /\ u.live = r.live /\ u.current_task = t
    BY <1>1, SetResched
  <2> HIDE DEF u
  <2>2. /\ Linked(u, t) \/ ~Running(u, t)
        /\ Linked(u, t) \/ ("ZOMBIE" \in u.flags[t] /\ ~Running(u, t))
        /\ u.current_task \in u.live
    BY <1>1, <1>3, <1>5, <2>1 DEF Linked, SameTasks, Running
  <2>3. /\ Good(q) /\ SameBut(q, u)
        /\ ToSet(q.running_tasks) = ToSet(u.running_tasks)
        /\ ToSet(q.suspended_tasks) = ToSet(u.suspended_tasks)
    BY <2>1, <2>2, RequeueCurrent
  <2> HIDE DEF q
  <2>4. /\ q.zombie_tasks = <<>> /\ q.running_tasks # <<>>
        /\ q.current_task = t /\ q.current_task \in q.live
        /\ Linked(q, t) \/ ("ZOMBIE" \in q.flags[t] /\ ~Running(q, t))
        /\ Idle \in ToSet(q.running_tasks)
    BY <1>1, <1>2, <2>1, <2>2, <2>3 DEF SameBut, SameTasks, Linked, Running
  <2>5. /\ Good(w) /\ SameTasks(w, q) /\ w.live = q.live
        /\ w.running_tasks = q.running_tasks
        /\ w.current_task \in ToSet(q.running_tasks)
        /\ "ZOMBIE" \in q.flags[t] => t \in ToSet(w.zombie_tasks)
    BY <2>3, <2>4, SwitchToHead
  <2>6. schedule(s) = w
    BY <1>7, <2>4 DEF schedule, r, u, q
  <2> HIDE DEF w
  <2>7. SameTasks(w, s) /\ w.live = r.live /\ w.flags = r.flags
    BY <1>1, <2>1, <2>3, <2>5 DEF SameBut, SameTasks
  <2>8. Ok(w)
    BY <1>4, <2>3, <2>4, <2>5, <2>7 DEF Ok, ZombieListed, Linked, SameTasks
  <2>. QED  BY <2>6, <2>7, <2>8
<1>. QED
  BY <1>6, <1>7

\* schedule() in a state that satisfies the invariant.
LEMMA ScheduleKeepsOk ==
  ASSUME NEW s, Ok(s)
  PROVE  Ok(schedule(s)) /\ SameTasks(schedule(s), s)
<1>1. s.current_task \in s.live
  BY DEF Ok, Good, Matches, Linked
<1>. QED
  BY <1>1, ScheduleOk DEF Ok

\* A new set of flags that suits the list the task is in.
LEMMA SetFlags ==
  ASSUME NEW s, Good(s), NEW t \in Slots, NEW f \in SUBSET Flags,
         t \in ToSet(s.running_tasks) => "RUNNING" \in f /\ "ZOMBIE" \notin f,
         t \in ToSet(s.suspended_tasks) => "RUNNING" \notin f /\ "ZOMBIE" \notin f,
         t \in ToSet(s.zombie_tasks) => "RUNNING" \notin f /\ "ZOMBIE" \in f
  PROVE  LET r == [s EXCEPT !.flags[t] = f]
         IN  /\ Good(r) /\ r.flags = [s.flags EXCEPT ![t] = f]
             /\ r.pri = s.pri /\ r.forbid_count = s.forbid_count
             /\ r.running_tasks = s.running_tasks
             /\ r.suspended_tasks = s.suspended_tasks
             /\ r.zombie_tasks = s.zombie_tasks /\ r.live = s.live
             /\ r.current_task = s.current_task
             /\ r.time_left = s.time_left /\ r.TaskCount = s.TaskCount
             /\ r.need_resched = s.need_resched
<1> DEFINE fl == [s.flags EXCEPT ![t] = f]
           r == [s EXCEPT !.flags = fl]
<1>1. s \in KernelState /\ s.flags \in [Slots -> SUBSET Flags]
  BY KernelFields DEF Good
<1>2. /\ fl \in [Slots -> SUBSET Flags] /\ fl[t] = f
      /\ \A x \in Slots \ {t} : fl[x] = s.flags[x]
  BY <1>1
<1>3. [s EXCEPT !.flags[t] = f] = r
  BY <1>1 DEF KernelState
<1> HIDE DEF fl
<1>4. /\ r \in KernelState /\ r.flags = fl
      /\ r.pri = s.pri /\ r.forbid_count = s.forbid_count
      /\ r.running_tasks = s.running_tasks
      /\ r.suspended_tasks = s.suspended_tasks
      /\ r.zombie_tasks = s.zombie_tasks /\ r.zombies = s.zombies
      /\ r.live = s.live /\ r.current_task = s.current_task
      /\ r.time_left = s.time_left /\ r.TaskCount = s.TaskCount
      /\ r.need_resched = s.need_resched
  BY <1>1, <1>2 DEF KernelState
<1> HIDE DEF r
<1>5. s.live \in SUBSET Slots
  BY <1>1, KernelFields
<1>6. Matches(r)
  BY <1>2, <1>4, <1>5 DEF Good, Matches, Running
<1>7. Good(r)
  BY <1>4, <1>6 DEF Good
<1>. QED
  BY <1>3, <1>4, <1>7 DEF fl

\* The ends of append_task() and wake_task().
LEMMA PreferOk ==
  ASSUME NEW s, Ok(s), NEW t, NEW n
  PROVE  Ok(prefer(s, t, n)) /\ SameTasks(prefer(s, t, n), s)
<1> DEFINE r == [s EXCEPT !.need_resched = TRUE]
<1>1. Ok(schedule(s)) /\ SameTasks(schedule(s), s)
  BY ScheduleKeepsOk
<1>2. Ok(r) /\ SameTasks(r, s)
  BY SetResched DEF Ok, ZombieListed, Linked, SameTasks
<1>3. SameTasks(s, s)
  BY DEF SameTasks
<1> HIDE DEF r
<1>4. prefer(s, t, n) \in {s, schedule(s), r}
  BY DEF prefer, r
<1>. QED
  BY <1>1, <1>2, <1>3, <1>4

\* A runnable task joins the run queue.
LEMMA EnqueueOk ==
  ASSUME NEW s, Good(s), NEW t \in s.live, ~Linked(s, t), Running(s, t),
         "ZOMBIE" \notin s.flags[t], \A x \in Slots : ZombieListed(s, x),
         Idle \in ToSet(s.running_tasks) \cup {t},
         s.current_task = t \/ Linked(s, s.current_task)
  PROVE  Ok(enqueue_task(s, t)) /\ SameTasks(enqueue_task(s, t), s)
<1> DEFINE r == enqueue_task(s, t)
<1>1. /\ Good(r) /\ SameBut(r, s)
      /\ ToSet(r.running_tasks) = ToSet(s.running_tasks) \cup {t}
      /\ r.suspended_tasks = s.suspended_tasks
  BY EnqueueTask
<1> HIDE DEF r
<1>2. Ok(r) /\ SameTasks(r, s)
  BY <1>1 DEF Ok, SameBut, SameTasks, ZombieListed, Linked
<1>. QED
  BY <1>2 DEF r

\* A task joins the suspended tasks.
LEMMA AppendSuspended ==
  ASSUME NEW s, Good(s), NEW t \in s.live, ~Linked(s, t), ~Running(s, t),
         "ZOMBIE" \notin s.flags[t], \A x \in Slots : ZombieListed(s, x),
         Idle \in ToSet(s.running_tasks),
         s.current_task = t \/ Linked(s, s.current_task)
  PROVE  LET r == [s EXCEPT !.suspended_tasks = Append(@, t)]
         IN  Ok(r) /\ SameTasks(r, s)
<1> DEFINE a == Append(s.suspended_tasks, t)
           r == [s EXCEPT !.suspended_tasks = a]
<1>1. s \in KernelState /\ s.suspended_tasks \in Seq(Slots) /\ t \in Slots
  BY KernelFields DEF Good
<1>2. t \notin ToSet(s.suspended_tasks) /\ NoRepeats(s.suspended_tasks)
  BY DEF Good, Matches, Linked
<1>3. a \in Seq(Slots) /\ ToSet(a) = ToSet(s.suspended_tasks) \cup {t}
  BY <1>1, <1>2, AppendNode
<1>4. NoRepeats(a)
  BY <1>1, <1>2, AppendNode
<1> HIDE DEF a
<1>5. /\ r \in KernelState /\ SameBut(r, s) /\ r.suspended_tasks = a
      /\ r.running_tasks = s.running_tasks
  BY <1>1, <1>3 DEF KernelState, SameBut, SameTasks
<1> HIDE DEF r
<1>6. Matches(r)
  BY <1>3, <1>4, <1>5 DEF Good, Matches, SameBut, SameTasks, Running
<1>7. Good(r)
  BY <1>5, <1>6 DEF Good, SameBut, SameTasks
<1>8. Ok(r) /\ SameTasks(r, s)
  BY <1>3, <1>5, <1>7 DEF Ok, SameBut, SameTasks, ZombieListed, Linked
<1>. QED
  BY <1>8 DEF r, a

\* append_task() of an entry that is in no list.
LEMMA AppendTaskOk ==
  ASSUME NEW s, Ok(s), NEW t \in s.live, ~Linked(s, t),
         t \notin ToSet(s.zombie_tasks)
  PROVE  Ok(append_task(s, t)) /\ SameTasks(append_task(s, t), s)
<1>1. "ZOMBIE" \notin s.flags[t] /\ t \in Slots
  BY KernelFields DEF Ok, ZombieListed, Good
<1>2. CASE Running(s, t)
  <2>1. Ok(enqueue_task(s, t)) /\ SameTasks(enqueue_task(s, t), s)
    BY <1>1, <1>2, EnqueueOk DEF Ok
  <2> DEFINE e == enqueue_task(s, t)
  <2>2. append_task(s, t) = prefer(e, t, 0)
    BY <1>2 DEF append_task
  <2> HIDE DEF e
  <2>3. Ok(prefer(e, t, 0)) /\ SameTasks(prefer(e, t, 0), e)
    BY <2>1, PreferOk DEF e
  <2>. QED  BY <2>1, <2>2, <2>3 DEF SameTasks, e
<1>3. CASE ~Running(s, t)
  BY <1>1, <1>3, AppendSuspended DEF append_task, Ok
<1>. QED
  BY <1>2, <1>3

\* The masked section of wake_task(), of a task that is in a list, whatever
\* its flags are by then.
LEMMA WakeSectionOk ==
  ASSUME NEW s, Ok(s), NEW t \in Slots, Linked(s, t), NEW n
  PROVE  LET r == wake_section(s, t, n)
         IN  Ok(r) /\ r.forbid_count = s.forbid_count /\ r.pri = s.pri
<1> DEFINE a == remove_node(s, t)
           f == a.flags[t] \cup {"RUNNING"}
           b == [a EXCEPT !.flags[t] = f]
           e == enqueue_task(b, t)
<1>1. /\ Good(a) /\ SameBut(a, s)
      /\ ToSet(a.running_tasks) = ToSet(s.running_tasks) \ {t}
      /\ ToSet(a.suspended_tasks) = ToSet(s.suspended_tasks) \ {t}
  BY RemoveTaskNode DEF Ok
<1> HIDE DEF a
<1>2. /\ t \in a.live /\ t \notin ToSet(a.zombie_tasks)
      /\ "ZOMBIE" \notin a.flags[t] /\ a.flags[t] \in SUBSET Flags
  <2>1. a.flags \in [Slots -> SUBSET Flags]
    BY <1>1, KernelFields DEF Good
  <2>. QED
    BY <1>1, <2>1 DEF Ok, Good, Matches, Linked, SameBut, SameTasks
<1>3. f \in SUBSET Flags /\ "RUNNING" \in f /\ "ZOMBIE" \notin f
  BY <1>2 DEF Flags
<1> HIDE DEF f
<1>4. /\ Good(b) /\ b.flags = [a.flags EXCEPT ![t] = f]
      /\ b.pri = a.pri /\ b.forbid_count = a.forbid_count
      /\ b.running_tasks = a.running_tasks
      /\ b.suspended_tasks = a.suspended_tasks
      /\ b.zombie_tasks = a.zombie_tasks /\ b.live = a.live
      /\ b.current_task = a.current_task
  BY <1>1, <1>2, <1>3, SetFlags
<1>5. a.flags \in [Slots -> SUBSET Flags]
  BY <1>1, KernelFields DEF Good
<1>6. b.flags[t] = f /\ \A x \in Slots \ {t} : b.flags[x] = s.flags[x]
  BY <1>1, <1>4, <1>5 DEF SameBut, SameTasks
<1>7. wake_section(s, t, n) = prefer(e, t, n)
  BY DEF wake_section, a, b, f
<1> HIDE DEF b
<1>8. /\ t \in b.live /\ ~Linked(b, t) /\ Running(b, t) /\ "ZOMBIE" \notin b.flags[t]
      /\ \A x \in Slots : ZombieListed(b, x)
      /\ Idle \in ToSet(b.running_tasks) \cup {t}
      /\ b.current_task = t \/ Linked(b, b.current_task)
  BY <1>1, <1>2, <1>3, <1>4, <1>6 DEF Ok, Linked, Running, ZombieListed, SameBut
<1>9. Ok(e) /\ SameTasks(e, b)
  BY <1>4, <1>8, EnqueueOk
<1> HIDE DEF e
<1>10. Ok(prefer(e, t, n)) /\ SameTasks(prefer(e, t, n), e)
  BY <1>9, PreferOk
<1>. QED
  BY <1>1, <1>4, <1>7, <1>9, <1>10 DEF SameTasks, SameBut

\* wake_task() of a task that, when it can be woken, is in a list.
LEMMA WakeTaskOk ==
  ASSUME NEW s, Ok(s), NEW t \in Slots, wakeable(s, t) => Linked(s, t), NEW n
  PROVE  LET r == wake_task(s, t, n)
         IN  Ok(r) /\ r.forbid_count = s.forbid_count /\ r.pri = s.pri
  BY WakeSectionOk DEF wake_task

\* suspend_task() of a task other than the idle task.
LEMMA SuspendTaskOk ==
  ASSUME NEW s, Ok(s), NEW t \in Slots \ {Idle}, Running(s, t) => Linked(s, t)
  PROVE  LET r == suspend_task(s, t)
         IN  Ok(r) /\ r.forbid_count = s.forbid_count /\ r.pri = s.pri
<1> DEFINE a == remove_node(s, t)
           f == a.flags[t] \ {"RUNNING"}
           b == [a EXCEPT !.flags[t] = f]
           d == [b EXCEPT !.suspended_tasks = Append(@, t)]
           r == [d EXCEPT !.need_resched = TRUE]
<1>1. CASE ~Running(s, t)
  BY <1>1 DEF suspend_task
<1>2. CASE Running(s, t)
  <2>1. /\ Good(a) /\ SameBut(a, s)
        /\ ToSet(a.running_tasks) = ToSet(s.running_tasks) \ {t}
        /\ ToSet(a.suspended_tasks) = ToSet(s.suspended_tasks) \ {t}
    BY RemoveTaskNode DEF Ok
  <2>2. suspend_task(s, t) = r
    <3>1. a \in KernelState
      BY <2>1 DEF Good
    <3> HIDE DEF a
    <3>. QED  BY <1>2, <3>1 DEF suspend_task, KernelState, a
  <2> HIDE DEF a
  <2>3. a.flags \in [Slots -> SUBSET Flags]
    BY <2>1, KernelFields DEF Good
  <2>4. /\ t \in a.live /\ t \notin ToSet(a.zombie_tasks)
        /\ "ZOMBIE" \notin a.flags[t]
    BY <1>2, <2>1 DEF Ok, Good, Matches, Linked, SameBut, SameTasks
  <2>5. f \in SUBSET Flags /\ "RUNNING" \notin f /\ "ZOMBIE" \notin f
    BY <2>3, <2>4
  <2> HIDE DEF f
  <2>6. /\ Good(b) /\ b.flags = [a.flags EXCEPT ![t] = f]
        /\ b.pri = a.pri /\ b.forbid_count = a.forbid_count
        /\ b.running_tasks = a.running_tasks
        /\ b.suspended_tasks = a.suspended_tasks
        /\ b.zombie_tasks = a.zombie_tasks /\ b.live = a.live
        /\ b.current_task = a.current_task
    BY <2>1, <2>4, <2>5, SetFlags
  <2> HIDE DEF b
  <2>7. b.flags[t] = f /\ \A x \in Slots \ {t} : b.flags[x] = s.flags[x]
    BY <2>1, <2>3, <2>6 DEF SameBut, SameTasks
  <2>8. /\ t \in b.live /\ ~Linked(b, t) /\ ~Running(b, t)
        /\ "ZOMBIE" \notin b.flags[t]
        /\ \A x \in Slots : ZombieListed(b, x)
        /\ Idle \in ToSet(b.running_tasks)
        /\ b.current_task = t \/ Linked(b, b.current_task)
    BY <2>1, <2>4, <2>5, <2>6, <2>7
       DEF Ok, Linked, Running, ZombieListed, SameBut
  <2>9. Ok(d) /\ SameTasks(d, b)
    BY <2>6, <2>8, AppendSuspended
  <2> HIDE DEF d
  <2>10. Ok(r) /\ SameTasks(r, d)
    BY <2>9, SetResched DEF Ok, ZombieListed, Linked, SameTasks
  <2> HIDE DEF r
  <2>. QED
    BY <2>1, <2>2, <2>6, <2>9, <2>10 DEF SameTasks, SameBut
<1>. QED
  BY <1>1, <1>2

\* A change to the counters of the tasks or to need_resched.
LEMMA CountersOk ==
  ASSUME NEW s, Ok(s), NEW r \in KernelState, r.flags = s.flags, r.pri = s.pri,
         r.running_tasks = s.running_tasks,
         r.suspended_tasks = s.suspended_tasks,
         r.zombie_tasks = s.zombie_tasks, r.zombies = s.zombies,
         r.live = s.live, r.current_task = s.current_task
  PROVE  Ok(r)
<1>1. Good(r)
  BY DEF Ok, Good, Matches, Running
<1>. QED
  BY <1>1 DEF Ok, ZombieListed, Linked

\* forbid() in a state that satisfies the invariant.
LEMMA ForbidOk ==
  ASSUME NEW s, Ok(s)
  PROVE  LET r == forbid(s)
         IN  /\ Ok(r) /\ r.current_task = s.current_task
             /\ r.forbid_count = [s.forbid_count EXCEPT ![s.current_task] = @ + 1]
<1> DEFINE fc == [s.forbid_count EXCEPT ![s.current_task] = @ + 1]
           r == [s EXCEPT !.forbid_count = fc]
<1>1. /\ s \in KernelState /\ s.forbid_count \in [Slots -> Nat]
      /\ s.current_task \in Slots
  BY KernelFields DEF Ok, Good
<1>2. fc \in [Slots -> Nat]
  BY <1>1
<1>3. forbid(s) = r
  BY <1>1 DEF forbid, KernelState
<1> HIDE DEF fc
<1>4. /\ r \in KernelState /\ r.flags = s.flags /\ r.pri = s.pri
      /\ r.running_tasks = s.running_tasks
      /\ r.suspended_tasks = s.suspended_tasks
      /\ r.zombie_tasks = s.zombie_tasks /\ r.zombies = s.zombies
      /\ r.live = s.live /\ r.current_task = s.current_task
      /\ r.forbid_count = fc
  BY <1>1, <1>2 DEF KernelState
<1> HIDE DEF r
<1>5. Ok(r)
  BY <1>4, CountersOk
<1>. QED
  BY <1>3, <1>4, <1>5 DEF fc

\* permit() by a task that has called forbid().
LEMMA PermitOk ==
  ASSUME NEW s, Ok(s), s.forbid_count[s.current_task] > 0
  PROVE  LET r == permit(s)
         IN  /\ Ok(r)
             /\ r.forbid_count = [s.forbid_count EXCEPT ![s.current_task] = @ - 1]
<1> DEFINE fc == [s.forbid_count EXCEPT ![s.current_task] = @ - 1]
           r == [s EXCEPT !.forbid_count = fc]
           p == [s EXCEPT !.forbid_count[s.current_task] = @ - 1]
<1>1. /\ s \in KernelState /\ s.forbid_count \in [Slots -> Nat]
      /\ s.current_task \in Slots
  BY KernelFields DEF Ok, Good
<1>2. fc \in [Slots -> Nat]
  BY <1>1
<1>3. p = r
  BY <1>1 DEF KernelState
<1>4. permit(s) \in {p, schedule(p)}
  BY DEF permit
<1> HIDE DEF fc, p
<1>5. /\ r \in KernelState /\ r.flags = s.flags /\ r.pri = s.pri
      /\ r.running_tasks = s.running_tasks
      /\ r.suspended_tasks = s.suspended_tasks
      /\ r.zombie_tasks = s.zombie_tasks /\ r.zombies = s.zombies
      /\ r.live = s.live /\ r.current_task = s.current_task
      /\ r.forbid_count = fc
  BY <1>1, <1>2 DEF KernelState
<1> HIDE DEF r
<1>6. Ok(p) /\ p.forbid_count = fc
  BY <1>3, <1>5, CountersOk
<1>7. Ok(schedule(p)) /\ SameTasks(schedule(p), p)
  BY <1>6, ScheduleKeepsOk
<1>. QED
  BY <1>4, <1>6, <1>7 DEF SameTasks, fc

\* One tick of the clock.
LEMMA TickOk ==
  ASSUME NEW s, Ok(s)
  PROVE  Ok(tick(s)) /\ tick(s).forbid_count = s.forbid_count
<1> DEFINE left == IF s.time_left[s.current_task] > 0
                   THEN s.time_left[s.current_task] - 1 ELSE 0
           tl == [s.time_left EXCEPT ![s.current_task] = left]
           b == s.need_resched \/ left <= 0
           r == [s EXCEPT !.time_left = tl, !.need_resched = b]
<1>1. /\ s \in KernelState /\ s.time_left \in [Slots -> Nat]
      /\ s.current_task \in Slots
  BY KernelFields DEF Ok, Good
<1>2. left \in Nat
  BY <1>1
<1> HIDE DEF left
<1>3. tl \in [Slots -> Nat]
  BY <1>1, <1>2
<1>4. b \in BOOLEAN
  <2>1. (s.need_resched \/ left <= 0) \in BOOLEAN
    BY Zenon
  <2>. QED  BY <2>1
<1>5. tick(s) = r
  BY <1>1 DEF tick, KernelState, left
<1> HIDE DEF tl, b
<1>6. /\ r \in KernelState /\ r.flags = s.flags /\ r.pri = s.pri
      /\ r.running_tasks = s.running_tasks
      /\ r.suspended_tasks = s.suspended_tasks
      /\ r.zombie_tasks = s.zombie_tasks /\ r.zombies = s.zombies
      /\ r.live = s.live /\ r.current_task = s.current_task
      /\ r.forbid_count = s.forbid_count
  BY <1>1, <1>3, <1>4 DEF KernelState
<1> HIDE DEF r
<1>. QED
  BY <1>5, <1>6, CountersOk

\* The end of an interrupt.
LEMMA IntrReturnOk ==
  ASSUME NEW s, Ok(s)
  PROVE  Ok(intr_return(s)) /\ intr_return(s).forbid_count = s.forbid_count
  BY ScheduleKeepsOk DEF intr_return, SameTasks

\* A change to an entry of TaskArray that is free, which may bring it to life.
LEMMA FreeEntryOk ==
  ASSUME NEW s, Ok(s), NEW t \in Slots \ s.live, NEW r \in KernelState,
         \A x \in Slots \ {t} : r.flags[x] = s.flags[x] /\ r.pri[x] = s.pri[x],
         "ZOMBIE" \notin r.flags[t],
         s.live \subseteq r.live, r.live \subseteq s.live \cup {t},
         r.running_tasks = s.running_tasks,
         r.suspended_tasks = s.suspended_tasks,
         r.zombie_tasks = s.zombie_tasks, r.zombies = s.zombies,
         r.current_task = s.current_task
  PROVE  Ok(r)
<1>1. /\ t \notin ToSet(s.running_tasks) /\ t \notin ToSet(s.suspended_tasks)
      /\ t \notin ToSet(s.zombie_tasks)
  BY DEF Ok, Good, Matches
<1>2. /\ s.running_tasks \in Seq(Slots) /\ s.suspended_tasks \in Seq(Slots)
      /\ s.zombie_tasks \in Seq(Slots) /\ s.live \in SUBSET Slots
  BY KernelFields DEF Ok, Good
<1>3. Matches(r)
  BY <1>1, <1>2 DEF Ok, Good, Matches, Running
<1>4. \A n \in 1..Len(s.running_tasks) :
        s.running_tasks[n] \in Slots \ {t}
  <2> DEFINE z == s.running_tasks
  <2> HIDE DEF z
  <2>1. z \in Seq(Slots) /\ t \notin ToSet(z) =>
          \A n \in 1..Len(z) : z[n] \in Slots \ {t}
    BY DEF ToSet
  <2>. QED  BY <1>1, <1>2, <2>1 DEF z
<1>5. Sorted(r.running_tasks, r.pri)
  BY <1>4 DEF Ok, Good, Sorted
<1>6. Good(r)
  BY <1>3, <1>5 DEF Ok, Good
<1>. QED
  BY <1>6 DEF Ok, ZombieListed, Linked

\* A change to the flags FROZEN and IMMORTAL.
LEMMA OtherFlagsOk ==
  ASSUME NEW s, Ok(s), NEW t \in Slots, NEW f \in SUBSET Flags,
         "RUNNING" \in f <=> "RUNNING" \in s.flags[t],
         "ZOMBIE" \in f <=> "ZOMBIE" \in s.flags[t]
  PROVE  LET r == [s EXCEPT !.flags[t] = f]
         IN  /\ Ok(r) /\ r.forbid_count = s.forbid_count
             /\ Running(r, t) = Running(s, t) /\ Linked(r, t) = Linked(s, t)
             /\ r.current_task = s.current_task
<1> DEFINE r == [s EXCEPT !.flags[t] = f]
<1>1. /\ Good(r) /\ r.flags = [s.flags EXCEPT ![t] = f]
      /\ r.pri = s.pri /\ r.forbid_count = s.forbid_count
      /\ r.running_tasks = s.running_tasks
      /\ r.suspended_tasks = s.suspended_tasks
      /\ r.zombie_tasks = s.zombie_tasks /\ r.live = s.live
      /\ r.current_task = s.current_task
  <2>1. /\ t \in ToSet(s.running_tasks) => "RUNNING" \in f /\ "ZOMBIE" \notin f
        /\ t \in ToSet(s.suspended_tasks) => "RUNNING" \notin f /\ "ZOMBIE" \notin f
        /\ t \in ToSet(s.zombie_tasks) => "RUNNING" \notin f /\ "ZOMBIE" \in f
    BY DEF Ok, Good, Matches, Running
  <2>. QED  BY <2>1, SetFlags DEF Ok
<1>2. s.flags \in [Slots -> SUBSET Flags]
  BY KernelFields DEF Ok, Good
<1> HIDE DEF r
<1>3. r.flags[t] = f /\ \A x \in Slots \ {t} : r.flags[x] = s.flags[x]
  BY <1>1, <1>2
<1>4. Ok(r)
  BY <1>1, <1>3 DEF Ok, ZombieListed, Linked
<1>5. (Running(r, t) <=> Running(s, t)) /\ (Linked(r, t) <=> Linked(s, t))
  BY <1>1, <1>3 DEF Running, Linked
<1>. QED
  BY <1>1, <1>4, <1>5 DEF r, Running, Linked

\* The end of kill_task(): of the current task, which leaves its structure to
\* the next schedule(), or of another.
LEMMA KillTaskOk ==
  ASSUME NEW s, Ok(s), NEW t \in Slots \ {Idle}, Linked(s, t)
  PROVE  LET r == remove_task(s, t)
             q == IF t = s.current_task THEN schedule(r) ELSE reclaim_task(r, {t})
         IN  Ok(q) /\ q.forbid_count = s.forbid_count
<1> DEFINE a == remove_node(s, t)
           f == (a.flags[t] \cup {"ZOMBIE"}) \ {"RUNNING"}
           r == [a EXCEPT !.flags[t] = f]
           q == [r EXCEPT !.live = @ \ {t}, !.TaskCount = @ - Cardinality({t})]
<1>1. /\ Good(a) /\ SameBut(a, s)
      /\ ToSet(a.running_tasks) = ToSet(s.running_tasks) \ {t}
      /\ ToSet(a.suspended_tasks) = ToSet(s.suspended_tasks) \ {t}
  BY RemoveTaskNode DEF Ok
<1>2. remove_task(s, t) = r
  BY DEF remove_task
<1> HIDE DEF a
<1>3. a.flags \in [Slots -> SUBSET Flags]
  BY <1>1, KernelFields DEF Good
<1>4. f \in SUBSET Flags /\ "ZOMBIE" \in f /\ "RUNNING" \notin f
  BY <1>3 DEF Flags
<1>5. t \in a.live /\ t \notin ToSet(a.zombie_tasks)
  BY <1>1 DEF Ok, Good, Matches, Linked, SameBut, SameTasks
<1> HIDE DEF f
<1>6. /\ Good(r) /\ r.flags = [a.flags EXCEPT ![t] = f]
      /\ r.pri = a.pri /\ r.forbid_count = a.forbid_count
      /\ r.running_tasks = a.running_tasks
      /\ r.suspended_tasks = a.suspended_tasks
      /\ r.zombie_tasks = a.zombie_tasks /\ r.live = a.live
      /\ r.current_task = a.current_task
  BY <1>1, <1>4, <1>5, SetFlags
<1> HIDE DEF r
<1>7. r.flags[t] = f /\ \A x \in Slots \ {t} : r.flags[x] = s.flags[x]
  BY <1>1, <1>3, <1>6 DEF SameBut, SameTasks
<1>8. /\ Idle \in ToSet(r.running_tasks) /\ t \in r.live
      /\ "ZOMBIE" \in r.flags[t] /\ ~Running(r, t)
      /\ t \notin ToSet(r.zombie_tasks) /\ ~Linked(r, t)
      /\ \A x \in Slots \ {t} : ZombieListed(r, x)
      /\ r.current_task = s.current_task
      /\ r.current_task # t => Linked(r, r.current_task)
      /\ r.forbid_count = s.forbid_count
  BY <1>1, <1>4, <1>5, <1>6, <1>7
     DEF Ok, Linked, Running, ZombieListed, SameBut, SameTasks
<1>9. CASE t = s.current_task
  <2>1. Ok(schedule(r)) /\ SameTasks(schedule(r), r)
    BY <1>6, <1>8, <1>9, ScheduleOk
  <2>. QED  BY <1>2, <1>8, <1>9, <2>1 DEF SameTasks
<1>10. CASE t # s.current_task
  <2> DEFINE left == r.live \ {t}
             n == r.TaskCount - Cardinality({t})
  <2>1. r \in KernelState /\ left \in SUBSET Slots /\ n \in Int
    <3>1. r \in KernelState /\ r.live \in SUBSET Slots /\ r.TaskCount \in Int
      BY <1>6, KernelFields DEF Good
    <3>2. Cardinality({t}) \in Nat
      BY CardinalityNat
    <3>. QED  BY <3>1, <3>2
  <2>2. q = [r EXCEPT !.live = left, !.TaskCount = n]
    BY <2>1 DEF KernelState
  <2> HIDE DEF n, q
  <2>3. /\ q \in KernelState /\ q.live = left /\ SameTasks(q, r)
        /\ q.running_tasks = r.running_tasks
        /\ q.suspended_tasks = r.suspended_tasks
        /\ q.zombie_tasks = r.zombie_tasks /\ q.zombies = r.zombies
        /\ q.current_task = r.current_task
    BY <2>1, <2>2 DEF KernelState, SameTasks
  <2>4. Good(q)
    BY <1>6, <1>8, <2>3 DEF Good, Matches, SameTasks, Running, Linked
  <2>5. Ok(q)
    BY <1>8, <1>10, <2>3, <2>4 DEF Ok, ZombieListed, Linked, SameTasks
  <2>6. reclaim_task(r, {t}) = q
    BY DEF reclaim_task, q
  <2>. QED  BY <1>2, <1>8, <1>10, <2>3, <2>5, <2>6 DEF SameTasks
<1>. QED
  BY <1>9, <1>10

-----------------------------------------------------------------------------
(* The invariant of the specification.                                     *)

\* A task that has still to call permit() has called forbid(), which is why
\* forbid_count never falls below zero; nobody kills the idle task.
CallsMatch ==
    /\ \A t \in Slots : call[t].op = "kill" =>
         /\ call[t].arg # Idle
         /\ call[t].arg # t => k.forbid_count[t] > 0
    /\ \A t \in Slots : todo[t] \in {<<"schedule", "permit">>, <<"permit">>} =>
         k.forbid_count[t] > 0 /\ call[t].op = "none"

IInv == TypeOK /\ Ok(k) /\ CallsMatch

\* What the actions use of the invariant.
LEMMA CurrentTask ==
  ASSUME IInv
  PROVE  /\ c \in Slots /\ c \in k.live /\ Linked(k, c)
         /\ k.forbid_count \in [Slots -> Nat]
         /\ k.flags \in [Slots -> SUBSET Flags]
         /\ call \in [Slots -> Calls]
<1>1. k \in KernelState
  BY DEF IInv, TypeOK
<1>2. /\ c \in Slots /\ k.forbid_count \in [Slots -> Nat]
      /\ k.flags \in [Slots -> SUBSET Flags]
  BY <1>1, KernelFields DEF c
<1>3. Linked(k, c) /\ c \in k.live
  BY DEF IInv, Ok, c, Good, Matches, Linked
<1>. QED
  BY <1>2, <1>3 DEF IInv, TypeOK

\* The values of todo, told apart by their lengths and elements.
LEMMA Todos ==
  /\ <<>> \notin {<<"schedule">>, <<"schedule", "permit">>, <<"permit">>}
  /\ <<"schedule">> \notin {<<"schedule", "permit">>, <<"permit">>}
  /\ <<"schedule", "permit">> # <<"permit">>
  /\ Head(<<"schedule">>) = "schedule" /\ Tail(<<"schedule">>) = <<>>
  /\ Head(<<"schedule", "permit">>) = "schedule"
  /\ Tail(<<"schedule", "permit">>) = <<"permit">>
  /\ Head(<<"permit">>) = "permit" /\ Tail(<<"permit">>) = <<>>
<1>1. <<>> \notin {<<"schedule">>, <<"schedule", "permit">>, <<"permit">>}
  OBVIOUS
<1>2. <<"schedule">> # <<"schedule", "permit">> /\ <<"schedule", "permit">> # <<"permit">>
  OBVIOUS
<1>3. <<"schedule">>[1] = "schedule" /\ <<"permit">>[1] = "permit"
  OBVIOUS
<1>4. <<"schedule">> # <<"permit">>
  BY <1>3
<1>5. Tail(<<"schedule">>) = <<>> /\ Tail(<<"permit">>) = <<>>
  OBVIOUS
<1>6. Tail(<<"schedule", "permit">>) = <<"permit">>
  OBVIOUS
<1>. QED
  BY <1>1, <1>2, <1>4, <1>5, <1>6

\* A step that changes neither the calls nor forbid_count.
LEMMA KernelStep ==
  ASSUME IInv, Ok(k'), k'.forbid_count = k.forbid_count,
         UNCHANGED <<call, todo, clash>>
  PROVE  IInv'
<1>1. k' \in KernelState
  BY DEF Ok, Good
<1>. QED
  BY <1>1 DEF IInv, TypeOK, CallsMatch, Calls

\* Initially the idle task runs alone.
LEMMA InitIInv == Init => IInv
<1> SUFFICES ASSUME Init PROVE IInv
  OBVIOUS
<1> USE SlotsAssumption, PrisAssumption
<1>1. /\ k \in KernelState
      /\ k.running_tasks = <<Idle>> /\ k.suspended_tasks = <<>>
      /\ k.zombie_tasks = <<>> /\ k.zombies = 0 /\ k.live = {Idle}
      /\ k.current_task = Idle
      /\ k.flags = [t \in Slots |-> IF t = Idle THEN {"RUNNING", "IMMORTAL"} ELSE {}]
  BY DEF Init, KernelState, Flags
<1>2. /\ ToSet(<<Idle>>) = {Idle} /\ ToSet(<<>>) = {}
      /\ Len(<<Idle>>) = 1 /\ Len(<<>>) = 0
  BY DEF ToSet
<1>3. NoRepeats(<<Idle>>) /\ NoRepeats(<<>>) /\ Sorted(<<Idle>>, k.pri)
  BY <1>2 DEF NoRepeats, Sorted
<1>4. k.flags[Idle] = {"RUNNING", "IMMORTAL"}
  BY <1>1
<1>5. Good(k)
  BY <1>1, <1>2, <1>3, <1>4 DEF Good, Matches, Running
<1>6. Ok(k)
  BY <1>1, <1>2, <1>4, <1>5 DEF Ok, ZombieListed, Linked
<1>7. TypeOK
  <2>1. clash \in BOOLEAN
    BY Zenon DEF Init
  <2>2. call \in [Slots -> Calls]
    BY DEF Init, NoCall, Calls
  <2>3. todo \in [Slots -> {<<>>, <<"schedule">>, <<"schedule", "permit">>, <<"permit">>}]
    BY DEF Init
  <2>. QED  BY <1>1, <2>1, <2>2, <2>3 DEF TypeOK
<1>8. CallsMatch
  BY DEF Init, NoCall, CallsMatch
<1>. QED
  BY <1>6, <1>7, <1>8 DEF IInv

\* Each action preserves the invariant.  Interrupts first.
LEMMA DeviceIrqStep ==
  ASSUME IInv, NEW t \in Slots, DeviceIrq(t) PROVE IInv'
<1> DEFINE w == wake_task(k, t, 1)
<1>1. Ok(w) /\ w.forbid_count = k.forbid_count
  BY WakeTaskOk DEF IInv, DeviceIrq, LinkedTasks
<1> HIDE DEF w
<1>2. Ok(intr_return(w)) /\ intr_return(w).forbid_count = w.forbid_count
  BY <1>1, IntrReturnOk
<1>. QED
  BY <1>1, <1>2, KernelStep DEF DeviceIrq, w

\* A tick of the clock.
LEMMA TimerIrqStep ==
  ASSUME IInv, TimerIrq PROVE IInv'
<1> DEFINE w == tick(k)
<1>1. Ok(w) /\ w.forbid_count = k.forbid_count
  BY TickOk DEF IInv
<1> HIDE DEF w
<1>2. Ok(intr_return(w)) /\ intr_return(w).forbid_count = w.forbid_count
  BY <1>1, IntrReturnOk
<1>. QED
  BY <1>1, <1>2, KernelStep DEF TimerIrq, w

\* forbid() by the current task.
LEMMA ForbidStep ==
  ASSUME IInv, Forbid PROVE IInv'
<1>1. /\ Ok(k') /\ k'.forbid_count = [k.forbid_count EXCEPT ![c] = @ + 1]
  BY ForbidOk DEF Forbid, IInv, c
<1>2. k' \in KernelState
  BY <1>1 DEF Ok, Good
<1>3. \A t \in Slots : k.forbid_count[t] > 0 => k'.forbid_count[t] > 0
  BY <1>1, CurrentTask
<1>. QED
  BY <1>1, <1>2, <1>3 DEF Forbid, IInv, TypeOK, CallsMatch

\* permit() by the current task.
LEMMA PermitStep ==
  ASSUME IInv, Permit PROVE IInv'
<1>1. call[c].op = "none" /\ todo[c] = <<>> /\ k.forbid_count[c] > 0
  BY DEF Permit, Makes, At
<1>2. /\ Ok(k') /\ k'.forbid_count = [k.forbid_count EXCEPT ![c] = @ - 1]
  BY <1>1, PermitOk DEF Permit, IInv, c
<1>3. k' \in KernelState
  BY <1>2 DEF Ok, Good
<1>4. \A t \in Slots \ {c} : k'.forbid_count[t] = k.forbid_count[t]
  BY <1>2, CurrentTask
<1>. QED
  BY <1>1, <1>2, <1>3, <1>4, Todos DEF Permit, IInv, TypeOK, CallsMatch

\* suspend_current_task().
LEMMA SuspendCurrentStep ==
  ASSUME IInv, SuspendCurrent PROVE IInv'
<1> DEFINE f == forbid(k)
<1>1. call[c].op = "none" /\ c # Idle /\ c \in Slots
  BY CurrentTask, CallersAssumption DEF SuspendCurrent, Makes, At
<1>2. /\ Ok(f) /\ f.current_task = c
      /\ f.forbid_count = [k.forbid_count EXCEPT ![c] = @ + 1]
  BY ForbidOk DEF IInv, c
<1>3. k' = suspend_task(f, c)
  BY DEF SuspendCurrent
<1> HIDE DEF f
<1>4. Linked(f, c)
  BY <1>2 DEF Ok
<1>5. Ok(k') /\ k'.forbid_count = f.forbid_count
  BY <1>1, <1>2, <1>3, <1>4, SuspendTaskOk
<1>6. k' \in KernelState
  BY <1>5 DEF Ok, Good
<1>7. /\ k'.forbid_count[c] > 0
      /\ \A t \in Slots : k.forbid_count[t] > 0 => k'.forbid_count[t] > 0
  BY <1>2, <1>5, CurrentTask
<1>8. todo' = [todo EXCEPT ![c] = <<"schedule", "permit">>] /\ UNCHANGED <<call, clash>>
  BY DEF SuspendCurrent
<1>9. TypeOK'
  BY <1>1, <1>6, <1>8 DEF IInv, TypeOK
<1>10. CallsMatch'
  BY <1>1, <1>7, <1>8 DEF IInv, TypeOK, CallsMatch
<1>. QED
  BY <1>5, <1>9, <1>10 DEF IInv

\* sleep_in_task_list().
LEMMA SleepInTaskListStep ==
  ASSUME IInv, SleepInTaskList PROVE IInv'
<1>1. c # Idle /\ c \in Slots /\ Linked(k, c)
  BY CurrentTask, CallersAssumption DEF SleepInTaskList, MaySleep
<1>2. Ok(k') /\ k'.forbid_count = k.forbid_count
  BY <1>1, SuspendTaskOk DEF SleepInTaskList, IInv
<1>3. k' \in KernelState
  BY <1>2 DEF Ok, Good
<1>4. todo' = [todo EXCEPT ![c] = <<"schedule">>] /\ UNCHANGED <<call, clash>>
  BY DEF SleepInTaskList
<1>5. TypeOK'
  BY <1>1, <1>3, <1>4 DEF IInv, TypeOK
<1>6. CallsMatch'
  BY <1>1, <1>2, <1>4 DEF IInv, TypeOK, CallsMatch
<1>. QED
  BY <1>2, <1>5, <1>6 DEF IInv

\* The schedule() or permit() that is left to call.
LEMMA FinishCallStep ==
  ASSUME IInv, FinishCall PROVE IInv'
<1>1. c \in Slots /\ todo[c] # <<>>
      /\ todo[c] \in {<<"schedule">>, <<"schedule", "permit">>, <<"permit">>}
  BY CurrentTask DEF FinishCall, IInv, TypeOK
<1>2. todo' = [todo EXCEPT ![c] = Tail(@)] /\ UNCHANGED <<call, clash>>
  BY DEF FinishCall
<1>3. CASE todo[c] = <<"permit">>
  <2>1. k.forbid_count[c] > 0 /\ call[c].op = "none" /\ Tail(todo[c]) = <<>>
    BY <1>1, <1>3, Todos DEF IInv, CallsMatch
  <2>2. k' = permit(k)
    BY <1>3 DEF FinishCall
  <2>3. /\ Ok(k') /\ k'.forbid_count = [k.forbid_count EXCEPT ![c] = @ - 1]
    BY <2>1, <2>2, PermitOk DEF IInv, c
  <2>4. k' \in KernelState
    BY <2>3 DEF Ok, Good
  <2>5. \A t \in Slots \ {c} : k'.forbid_count[t] = k.forbid_count[t]
    BY <2>3, CurrentTask
  <2>6. todo' = [todo EXCEPT ![c] = <<>>]
    BY <1>2, <2>1
  <2>7. TypeOK'
    BY <1>1, <1>2, <2>4, <2>6 DEF IInv, TypeOK
  <2>8. CallsMatch'
    BY <1>1, <1>2, <2>1, <2>5, <2>6, Todos DEF IInv, TypeOK, CallsMatch
  <2>. QED  BY <2>3, <2>7, <2>8 DEF IInv
<1>4. CASE todo[c] # <<"permit">>
  <2>1. Head(todo[c]) = "schedule" /\ Tail(todo[c]) \in {<<>>, <<"permit">>}
        /\ (Tail(todo[c]) = <<"permit">> => todo[c] = <<"schedule", "permit">>)
    BY <1>1, <1>4, Todos
  <2>2. k' = schedule(k)
    BY <2>1 DEF FinishCall
  <2>3. Ok(k') /\ k'.forbid_count = k.forbid_count
    BY <2>2, ScheduleKeepsOk DEF IInv, SameTasks
  <2>4. k' \in KernelState
    BY <2>3 DEF Ok, Good
  <2> DEFINE rest == Tail(todo[c])
  <2>5. todo' = [todo EXCEPT ![c] = rest]
    BY <1>2
  <2> HIDE DEF rest
  <2>6. TypeOK'
    BY <1>1, <1>2, <2>1, <2>4, <2>5 DEF IInv, TypeOK, rest
  <2>7. CallsMatch'
    BY <1>1, <1>2, <2>1, <2>3, <2>5, Todos DEF IInv, TypeOK, CallsMatch, rest
  <2>. QED  BY <2>3, <2>6, <2>7 DEF IInv
<1>. QED
  BY <1>3, <1>4

\* wake_up_first_task().
LEMMA WakeUpFirstTaskStep ==
  ASSUME IInv, NEW t \in Slots, WakeUpFirstTask(t) PROVE IInv'
<1>1. Ok(k') /\ k'.forbid_count = k.forbid_count
  BY WakeTaskOk DEF IInv, WakeUpFirstTask, LinkedTasks
<1>. QED
  BY <1>1, KernelStep DEF WakeUpFirstTask

\* A step of the current task from one call to another that leaves k alone.
LEMMA CallStep ==
  ASSUME IInv, todo[c] = <<>>, NEW m \in Calls, m.op # "kill",
         call' = [call EXCEPT ![c] = m], UNCHANGED <<k, todo, clash>>
  PROVE  IInv'
<1>1. c \in Slots
  BY CurrentTask
<1>2. TypeOK'
  BY <1>1 DEF IInv, TypeOK
<1>3. CallsMatch'
  BY <1>1, Todos DEF IInv, TypeOK, CallsMatch
<1>. QED
  BY <1>2, <1>3 DEF IInv

\* The test of wake_task().
LEMMA WakeTestStep ==
  ASSUME IInv, NEW t \in Slots, WakeTest(t) PROVE IInv'
<1> DEFINE m == [op |-> "wake", arg |-> t]
<1>1. m \in Calls /\ m.op # "kill"
  BY DEF Calls
<1>2. todo[c] = <<>> /\ call' = [call EXCEPT ![c] = m] /\ UNCHANGED <<k, todo, clash>>
  BY DEF WakeTest, Makes, At
<1> HIDE DEF m
<1>. QED
  BY <1>1, <1>2, CallStep

\* An operation that meets a changed task structure.
LEMMA ClashStep ==
  ASSUME IInv, Clash PROVE IInv'
<1>1. clash' \in BOOLEAN
  BY Zenon DEF Clash
<1>. QED
  BY <1>1 DEF Clash, IInv, TypeOK, CallsMatch

\* A step of the current task that ends its call or moves it on.
LEMMA KernelCallStep ==
  ASSUME IInv, todo[c] = <<>>, Ok(k'), k'.forbid_count = k.forbid_count,
         NEW m \in Calls, m.op # "kill",
         call' = [call EXCEPT ![c] = m], UNCHANGED <<todo, clash>>
  PROVE  IInv'
<1>1. c \in Slots /\ k' \in KernelState
  BY CurrentTask DEF Ok, Good
<1>2. TypeOK'
  BY <1>1 DEF IInv, TypeOK
<1>3. CallsMatch'
  BY <1>1, Todos DEF IInv, TypeOK, CallsMatch
<1>. QED
  BY <1>2, <1>3 DEF IInv

\* The argument of a call, and the records a call changes to.
LEMMA CallArg ==
  ASSUME IInv
  PROVE  /\ call[c].arg \in Slots /\ NoCall \in Calls /\ NoCall.op = "none"
         /\ \A op \in {"none", "wake", "alloc", "append", "count"} :
              /\ [op |-> op, arg |-> call[c].arg] \in Calls
              /\ [call EXCEPT ![c].op = op] =
                   [call EXCEPT ![c] = [op |-> op, arg |-> call[c].arg]]
<1>1. c \in Slots /\ call \in [Slots -> Calls]
  BY CurrentTask
<1>2. call[c] \in Calls /\ call[c].arg \in Slots
  BY <1>1 DEF Calls
<1>3. NoCall \in Calls /\ NoCall.op = "none"
  BY SlotsAssumption DEF NoCall, Calls
<1>4. ASSUME NEW op \in {"none", "wake", "alloc", "append", "count"}
      PROVE  /\ [op |-> op, arg |-> call[c].arg] \in Calls
             /\ [call EXCEPT ![c].op = op] =
                  [call EXCEPT ![c] = [op |-> op, arg |-> call[c].arg]]
  <2>1. [op |-> op, arg |-> call[c].arg] \in Calls
    BY <1>2 DEF Calls
  <2>2. [call[c] EXCEPT !.op = op] = [op |-> op, arg |-> call[c].arg]
    BY <1>2 DEF Calls
  <2>. QED  BY <1>1, <2>1, <2>2
<1>. QED
  BY <1>2, <1>3, <1>4

\* The masked section of wake_task().
LEMMA WakeSectionStep ==
  ASSUME IInv, WakeSection PROVE IInv'
<1> DEFINE t == call[c].arg
<1>1. CASE ~Linked(k, t)
  BY <1>1, ClashStep DEF WakeSection
<1>2. CASE Linked(k, t)
  <2>1. /\ k' = wake_section(k, t, 0) /\ call' = [call EXCEPT ![c] = NoCall]
        /\ UNCHANGED <<todo, clash>> /\ todo[c] = <<>>
    BY <1>2 DEF WakeSection, At
  <2>2. t \in Slots
    BY CallArg
  <2> HIDE DEF t
  <2>3. Ok(k') /\ k'.forbid_count = k.forbid_count
    BY <1>2, <2>1, <2>2, WakeSectionOk DEF IInv
  <2>. QED  BY <2>1, <2>3, CallArg, KernelCallStep
<1>. QED
  BY <1>1, <1>2

\* alloc_task().
LEMMA AddAllocStep ==
  ASSUME IInv, NEW t \in Slots, AddAlloc(t) PROVE IInv'
<1> DEFINE fl == [k.flags EXCEPT ![t] = {}]
           tl == [k.time_left EXCEPT ![t] = 0]
           fc == [k.forbid_count EXCEPT ![t] = 0]
           r == [k EXCEPT !.flags = fl, !.time_left = tl, !.forbid_count = fc]
           m == [op |-> "alloc", arg |-> t]
<1>1. /\ k \in KernelState /\ k.flags \in [Slots -> SUBSET Flags]
      /\ k.time_left \in [Slots -> Nat] /\ k.forbid_count \in [Slots -> Nat]
  BY KernelFields DEF IInv, TypeOK
<1>2. /\ fl \in [Slots -> SUBSET Flags] /\ fl[t] = {}
      /\ \A x \in Slots \ {t} : fl[x] = k.flags[x]
  BY <1>1
<1>3. tl \in [Slots -> Nat] /\ fc \in [Slots -> Nat]
      /\ \A x \in Slots \ {t} : fc[x] = k.forbid_count[x]
  BY <1>1
<1>4. k' = r
  BY <1>1 DEF AddAlloc, KernelState
<1> HIDE DEF fl, tl, fc
<1>5. /\ k' \in KernelState /\ k'.flags = fl /\ k'.pri = k.pri
      /\ k'.forbid_count = fc /\ k'.live = k.live
      /\ k'.running_tasks = k.running_tasks
      /\ k'.suspended_tasks = k.suspended_tasks
      /\ k'.zombie_tasks = k.zombie_tasks /\ k'.zombies = k.zombies
      /\ k'.current_task = k.current_task
  BY <1>1, <1>2, <1>3, <1>4 DEF KernelState
<1>6. t \in Slots \ k.live /\ t # c /\ c \in Slots /\ todo[c] = <<>>
  BY CurrentTask DEF AddAlloc, Makes, At
<1>7. Ok(k')
  BY <1>2, <1>5, <1>6, FreeEntryOk DEF IInv
<1>8. m \in Calls /\ m.op = "alloc" /\ NoCall \in Calls /\ NoCall.op = "none"
  BY SlotsAssumption DEF Calls, NoCall
<1>9. /\ call' = [call EXCEPT ![t] = NoCall, ![c] = m]
      /\ todo' = [todo EXCEPT ![t] = <<>>] /\ clash' = clash
  BY DEF AddAlloc
<1> HIDE DEF m
<1>10. TypeOK'
  BY <1>5, <1>6, <1>8, <1>9 DEF IInv, TypeOK
<1>11. /\ call'[t] = NoCall /\ call'[c] = m /\ todo'[t] = <<>> /\ todo'[c] = <<>>
       /\ \A x \in Slots \ {t, c} : call'[x] = call[x] /\ todo'[x] = todo[x]
  BY <1>6, <1>9 DEF IInv, TypeOK
<1>12. ASSUME NEW x \in Slots
       PROVE  /\ call'[x].op = "kill" =>
                   call'[x].arg # Idle /\ (call'[x].arg # x => k'.forbid_count[x] > 0)
              /\ todo'[x] \in {<<"schedule", "permit">>, <<"permit">>} =>
                   k'.forbid_count[x] > 0 /\ call'[x].op = "none"
  <2>1. CASE x \in {t, c}
    BY <1>8, <1>11, <2>1, Todos
  <2>2. CASE x \notin {t, c}
    <3>1. /\ k'.forbid_count[x] = k.forbid_count[x]
          /\ call'[x] = call[x] /\ todo'[x] = todo[x]
      BY <1>3, <1>5, <1>11, <2>2
    <3>. QED  BY <3>1 DEF IInv, CallsMatch
  <2>. QED  BY <2>1, <2>2
<1>13. CallsMatch'
  BY <1>12 DEF CallsMatch
<1>. QED
  BY <1>7, <1>10, <1>13 DEF IInv

\* add_task() without memory.
LEMMA AddFailStep ==
  ASSUME IInv, AddFail PROVE IInv'
<1>1. CASE call[c].arg \in k.live
  BY <1>1, ClashStep DEF AddFail
<1>2. CASE call[c].arg \notin k.live
  BY <1>2, CallArg, CallStep DEF AddFail, At
<1>. QED
  BY <1>1, <1>2

\* add_task() up to fs->dup().
LEMMA AddFillStep ==
  ASSUME IInv, NEW fl \in NewFlags, NEW p \in Pris, AddFill(fl, p) PROVE IInv'
<1> DEFINE t == call[c].arg
           fs == [k.flags EXCEPT ![t] = fl]
           ps == [k.pri EXCEPT ![t] = p]
           ls == k.live \cup {t}
           r == [k EXCEPT !.live = ls, !.flags = fs, !.pri = ps]
           m == [op |-> "append", arg |-> t]
<1>1. CASE t \in k.live
  BY <1>1, ClashStep DEF AddFill
<1>2. CASE t \notin k.live
  <2>1. /\ k \in KernelState /\ k.flags \in [Slots -> SUBSET Flags]
        /\ k.pri \in [Slots -> Int] /\ k.live \in SUBSET Slots
    BY KernelFields DEF IInv, TypeOK
  <2>2. /\ k' = r /\ call' = [call EXCEPT ![c].op = "append"]
        /\ UNCHANGED <<todo, clash>> /\ todo[c] = <<>>
    BY <1>2, <2>1 DEF AddFill, At, KernelState
  <2>3. t \in Slots /\ call' = [call EXCEPT ![c] = m] /\ m \in Calls /\ m.op # "kill"
    BY <2>2, CallArg
  <2> HIDE DEF t, m
  <2>4. fl \in SUBSET Flags /\ "ZOMBIE" \notin fl /\ p \in Int
    BY NewFlagsAssumption, PrisAssumption DEF Flags
  <2>5. /\ fs \in [Slots -> SUBSET Flags] /\ fs[t] = fl
        /\ ps \in [Slots -> Int] /\ ls \in SUBSET Slots
        /\ \A x \in Slots \ {t} : fs[x] = k.flags[x] /\ ps[x] = k.pri[x]
    BY <2>1, <2>3, <2>4
  <2> HIDE DEF fs, ps, ls
  <2>6. /\ k' \in KernelState /\ k'.flags = fs /\ k'.pri = ps
        /\ k'.forbid_count = k.forbid_count /\ k'.live = ls
        /\ k'.running_tasks = k.running_tasks
        /\ k'.suspended_tasks = k.suspended_tasks
        /\ k'.zombie_tasks = k.zombie_tasks /\ k'.zombies = k.zombies
        /\ k'.current_task = k.current_task
    BY <2>1, <2>2, <2>5 DEF KernelState
  <2>7. k.live \subseteq k'.live /\ k'.live \subseteq k.live \cup {t}
    BY <2>6 DEF ls
  <2>8. Ok(k')
    BY <1>2, <2>3, <2>4, <2>5, <2>6, <2>7, FreeEntryOk DEF IInv
  <2>. QED  BY <2>2, <2>3, <2>6, <2>8, KernelCallStep
<1>. QED
  BY <1>1, <1>2

\* append_task().
LEMMA AddAppendStep ==
  ASSUME IInv, AddAppend PROVE IInv'
<1> DEFINE t == call[c].arg
           m == [op |-> "count", arg |-> t]
           free == t \in k.live /\ ~Linked(k, t) /\ t \notin ToSet(k.zombie_tasks)
<1>1. CASE ~free
  BY <1>1, ClashStep DEF AddAppend
<1>2. CASE free
  <2>1. /\ k' = append_task(k, t) /\ call' = [call EXCEPT ![c].op = "count"]
        /\ UNCHANGED <<todo, clash>> /\ todo[c] = <<>>
    BY <1>2 DEF AddAppend, At
  <2>2. call' = [call EXCEPT ![c] = m] /\ m \in Calls /\ m.op # "kill"
    BY <2>1, CallArg
  <2> HIDE DEF t, m
  <2>3. Ok(k') /\ k'.forbid_count = k.forbid_count
    BY <1>2, <2>1, AppendTaskOk DEF IInv, SameTasks
  <2>. QED  BY <2>1, <2>2, <2>3, KernelCallStep
<1>. QED
  BY <1>1, <1>2

\* The end of add_task().
LEMMA AddCountStep ==
  ASSUME IInv, AddCount PROVE IInv'
<1> DEFINE n == k.TaskCount + 1
           r == [k EXCEPT !.TaskCount = n]
<1>1. k \in KernelState /\ n \in Int
  BY KernelFields DEF IInv, TypeOK
<1>2. /\ k' = r /\ call' = [call EXCEPT ![c] = NoCall]
      /\ UNCHANGED <<todo, clash>> /\ todo[c] = <<>>
  BY DEF AddCount, At
<1> HIDE DEF n
<1>3. /\ k' \in KernelState /\ k'.flags = k.flags /\ k'.pri = k.pri
      /\ k'.forbid_count = k.forbid_count /\ k'.live = k.live
      /\ k'.running_tasks = k.running_tasks
      /\ k'.suspended_tasks = k.suspended_tasks
      /\ k'.zombie_tasks = k.zombie_tasks /\ k'.zombies = k.zombies
      /\ k'.current_task = k.current_task
  BY <1>1, <1>2 DEF KernelState
<1>4. Ok(k')
  BY <1>3, CountersOk DEF IInv
<1>. QED
  BY <1>2, <1>3, <1>4, CallArg, KernelCallStep

\* kill_current_task() up to fs->close().
LEMMA ExitBeginStep ==
  ASSUME IInv, ExitBegin PROVE IInv'
<1> DEFINE f == k.flags[c] \ {"IMMORTAL"}
           m == [op |-> "kill", arg |-> c]
<1>1. c \in Slots /\ c # Idle /\ todo[c] = <<>> /\ k.flags[c] \in SUBSET Flags
  BY CurrentTask, CallersAssumption DEF ExitBegin, Makes, At
<1>2. /\ f \in SUBSET Flags
      /\ "RUNNING" \in f <=> "RUNNING" \in k.flags[c]
      /\ "ZOMBIE" \in f <=> "ZOMBIE" \in k.flags[c]
  BY <1>1
<1>3. /\ k' = [k EXCEPT !.flags[c] = f] /\ call' = [call EXCEPT ![c] = m]
      /\ UNCHANGED <<todo, clash>>
  BY DEF ExitBegin
<1>4. m \in Calls /\ m.op = "kill" /\ m.arg = c
  BY <1>1 DEF Calls
<1> HIDE DEF f, m
<1>5. Ok(k') /\ k'.forbid_count = k.forbid_count
  BY <1>1, <1>2, <1>3, OtherFlagsOk DEF IInv
<1>6. k' \in KernelState
  BY <1>5 DEF Ok, Good
<1>7. TypeOK'
  BY <1>1, <1>3, <1>4, <1>6 DEF IInv, TypeOK
<1>8. CallsMatch'
  BY <1>1, <1>3, <1>4, <1>5, Todos DEF IInv, TypeOK, CallsMatch
<1>. QED
  BY <1>5, <1>7, <1>8 DEF IInv

\* kill_task() up to fs->close().
LEMMA KillBeginStep ==
  ASSUME IInv, NEW t \in Slots, KillBegin(t) PROVE IInv'
<1> DEFINE m == [op |-> "kill", arg |-> t]
<1>1. c \in Slots /\ t # Idle /\ todo[c] = <<>>
  BY CurrentTask, CallersAssumption DEF KillBegin, Makes, At
<1>2. /\ Ok(k') /\ k'.forbid_count = [k.forbid_count EXCEPT ![c] = @ + 1]
  BY ForbidOk DEF KillBegin, IInv, c
<1>3. k' \in KernelState
  BY <1>2 DEF Ok, Good
<1>4. /\ k'.forbid_count[c] > 0
      /\ \A x \in Slots : k.forbid_count[x] > 0 => k'.forbid_count[x] > 0
  BY <1>2, CurrentTask
<1>5. call' = [call EXCEPT ![c] = m] /\ UNCHANGED <<todo, clash>>
  BY DEF KillBegin
<1>6. m \in Calls /\ m.op = "kill" /\ m.arg = t
  BY DEF Calls
<1> HIDE DEF m
<1>7. TypeOK'
  BY <1>1, <1>3, <1>5, <1>6 DEF IInv, TypeOK
<1>8. CallsMatch'
  BY <1>1, <1>4, <1>5, <1>6, Todos DEF IInv, TypeOK, CallsMatch
<1>. QED
  BY <1>2, <1>7, <1>8 DEF IInv

\* kill_task() of an immortal task.
LEMMA KillRefusedStep ==
  ASSUME IInv, KillRefused PROVE IInv'
<1>1. c \in Slots /\ call[c].op = "none"
  BY CurrentTask DEF KillRefused, Makes, At
<1>2. /\ Ok(k') /\ k'.forbid_count = [k.forbid_count EXCEPT ![c] = @ + 1]
  BY ForbidOk DEF KillRefused, IInv, c
<1>3. k' \in KernelState
  BY <1>2 DEF Ok, Good
<1>4. /\ k'.forbid_count[c] > 0
      /\ \A x \in Slots : k.forbid_count[x] > 0 => k'.forbid_count[x] > 0
  BY <1>2, CurrentTask
<1>5. todo' = [todo EXCEPT ![c] = <<"permit">>] /\ UNCHANGED <<call, clash>>
  BY DEF KillRefused
<1>6. TypeOK'
  BY <1>1, <1>3, <1>5 DEF IInv, TypeOK
<1>7. CallsMatch'
  BY <1>1, <1>4, <1>5 DEF IInv, TypeOK, CallsMatch
<1>. QED
  BY <1>2, <1>6, <1>7 DEF IInv

\* The end of kill_task().
LEMMA KillFinishStep ==
  ASSUME IInv, KillFinish PROVE IInv'
<1> DEFINE t == call[c].arg
<1>1. /\ c \in Slots /\ t \in Slots /\ t # Idle /\ todo[c] = <<>>
      /\ t # c => k.forbid_count[c] > 0
  BY CurrentTask, CallArg DEF KillFinish, At, IInv, CallsMatch
<1>2. CASE ~Linked(k, t)
  BY <1>2, ClashStep DEF KillFinish
<1>3. CASE Linked(k, t)
  <2>1. Ok(k') /\ k'.forbid_count = k.forbid_count
    <3>1. k' = IF t = c THEN schedule(remove_task(k, t))
               ELSE reclaim_task(remove_task(k, t), {t})
      BY <1>3 DEF KillFinish
    <3> HIDE DEF t
    <3>. QED  BY <1>1, <1>3, <3>1, KillTaskOk DEF IInv, c
  <2>2. /\ call' = [call EXCEPT ![c] = NoCall, ![t] = NoCall]
        /\ todo' = IF t = c THEN todo
                   ELSE [todo EXCEPT ![c] = <<"permit">>, ![t] = <<>>]
        /\ clash' = clash
    BY <1>3 DEF KillFinish
  <2>3. k' \in KernelState /\ NoCall \in Calls /\ NoCall.op = "none"
    BY <2>1, CallArg DEF Ok, Good
  <2> HIDE DEF t
  <2>4. TypeOK'
    BY <1>1, <2>2, <2>3 DEF IInv, TypeOK
  <2>5. /\ call'[c] = NoCall /\ call'[t] = NoCall
        /\ t # c => todo'[c] = <<"permit">> /\ todo'[t] = <<>>
        /\ t = c => todo'[c] = <<>>
        /\ \A x \in Slots \ {t, c} : call'[x] = call[x] /\ todo'[x] = todo[x]
    BY <1>1, <2>2 DEF IInv, TypeOK
  <2>6. ASSUME NEW x \in Slots
        PROVE  /\ call'[x].op = "kill" =>
                    /\ call'[x].arg # Idle
                    /\ call'[x].arg # x => k'.forbid_count[x] > 0
               /\ todo'[x] \in {<<"schedule", "permit">>, <<"permit">>} =>
                    k'.forbid_count[x] > 0 /\ call'[x].op = "none"
    <3>1. CASE x = c
      BY <1>1, <2>1, <2>3, <2>5, <3>1, Todos
    <3>2. CASE x = t /\ x # c
      BY <2>3, <2>5, <3>2, Todos
    <3>3. CASE x \notin {t, c}
      BY <2>1, <2>5, <3>3 DEF IInv, CallsMatch
    <3>. QED  BY <3>1, <3>2, <3>3
  <2>7. CallsMatch'
    BY <2>6 DEF CallsMatch
  <2>. QED  BY <2>1, <2>4, <2>7 DEF IInv
<1>. QED
  BY <1>2, <1>3

\* cmd_freeze().
LEMMA FreezeStep ==
  ASSUME IInv, NEW t \in Slots, Freeze(t) PROVE IInv'
<1> DEFINE f == k.flags[t] \cup {"FROZEN"}
           s == [k EXCEPT !.flags[t] = f]
<1>1. CASE Running(k, t) /\ ~Linked(k, t)
  BY <1>1, ClashStep DEF Freeze
<1>2. CASE ~(Running(k, t) /\ ~Linked(k, t))
  <2>1. k' = suspend_task(s, t) /\ UNCHANGED <<call, todo, clash>> /\ t # Idle
    BY <1>2, CallersAssumption DEF Freeze
  <2>2. k.flags[t] \in SUBSET Flags
    BY CurrentTask
  <2>3. /\ f \in SUBSET Flags
        /\ "RUNNING" \in f <=> "RUNNING" \in k.flags[t]
        /\ "ZOMBIE" \in f <=> "ZOMBIE" \in k.flags[t]
    BY <2>2 DEF Flags
  <2> HIDE DEF f
  <2>4. /\ Ok(s) /\ s.forbid_count = k.forbid_count
        /\ Running(s, t) = Running(k, t) /\ Linked(s, t) = Linked(k, t)
    BY <2>3, OtherFlagsOk DEF IInv
  <2> HIDE DEF s
  <2>5. Ok(k') /\ k'.forbid_count = s.forbid_count
    BY <1>2, <2>1, <2>4, SuspendTaskOk
  <2>. QED  BY <2>1, <2>4, <2>5, KernelStep
<1>. QED
  BY <1>1, <1>2

\* cmd_thaw().
LEMMA ThawStep ==
  ASSUME IInv, NEW t \in Slots, Thaw(t) PROVE IInv'
<1> DEFINE f == k.flags[t] \ {"FROZEN"}
           s == [k EXCEPT !.flags[t] = f]
<1>1. CASE wakeable(s, t) /\ ~Linked(k, t)
  BY <1>1, ClashStep DEF Thaw
<1>2. CASE ~(wakeable(s, t) /\ ~Linked(k, t))
  <2>1. k' = wake_task(s, t, 0) /\ UNCHANGED <<call, todo, clash>>
    BY <1>2 DEF Thaw
  <2>2. k.flags[t] \in SUBSET Flags
    BY CurrentTask
  <2>3. /\ f \in SUBSET Flags
        /\ "RUNNING" \in f <=> "RUNNING" \in k.flags[t]
        /\ "ZOMBIE" \in f <=> "ZOMBIE" \in k.flags[t]
    BY <2>2
  <2> HIDE DEF f
  <2>4. /\ Ok(s) /\ s.forbid_count = k.forbid_count
        /\ Running(s, t) = Running(k, t) /\ Linked(s, t) = Linked(k, t)
    BY <2>3, OtherFlagsOk DEF IInv
  <2> HIDE DEF s
  <2>5. Ok(k') /\ k'.forbid_count = s.forbid_count
    BY <1>2, <2>1, <2>4, WakeTaskOk
  <2>. QED  BY <2>1, <2>4, <2>5, KernelStep
<1>. QED
  BY <1>1, <1>2

\* All of them.
LEMMA NextIInv == IInv /\ [Next]_vars => IInv'
<1> SUFFICES ASSUME IInv, [Next]_vars PROVE IInv'
  OBVIOUS
<1>1. CASE UNCHANGED vars
  BY <1>1 DEF vars, IInv, TypeOK, CallsMatch
<1>2. CASE Halted
  BY <1>1, <1>2 DEF Halted
<1>. QED
  BY <1>1, <1>2, DeviceIrqStep, TimerIrqStep, ForbidStep, PermitStep,
     SuspendCurrentStep, SleepInTaskListStep, FinishCallStep,
     WakeUpFirstTaskStep, WakeTestStep, WakeSectionStep, AddAllocStep,
     AddFailStep, AddFillStep, AddAppendStep, AddCountStep, ExitBeginStep,
     KillBeginStep, KillRefusedStep, KillFinishStep, FreezeStep, ThawStep
     DEF Next

\* The invariant holds in every state the kernel reaches.
LEMMA Invariance == Spec => []IInv
  BY InitIInv, NextIInv, PTL DEF Spec

-----------------------------------------------------------------------------
\* The types of the task table; forbid_count never falls below zero, whatever
\* forbid(), permit(), kill and suspend_current_task() are mixed (vmm/tasks.h).
THEOREM TypeCorrect == Spec => []TypeOK
<1>1. IInv => TypeOK
  BY DEF IInv
<1>. QED
  BY Invariance, <1>1, PTL

\* Every task is in the one list its flags say, for any number of tasks
\* (append_task, remove_task, suspend_task, wake_task and schedule).
THEOREM ListsSafe == Spec => []ListsMatchFlags
<1>1. IInv => ListsMatchFlags
  <2> SUFFICES ASSUME IInv PROVE ListsMatchFlags
    OBVIOUS
  <2>1. Matches(k) /\ k \in KernelState
    BY DEF IInv, Ok, Good
  <2>2. /\ k.running_tasks \in Seq(Slots) /\ k.suspended_tasks \in Seq(Slots)
        /\ k.zombie_tasks \in Seq(Slots)
    BY <2>1 DEF KernelState
  <2>3. /\ IsInjective(k.running_tasks) /\ IsInjective(k.suspended_tasks)
        /\ IsInjective(k.zombie_tasks)
    BY <2>1, <2>2, NoRepeatsInjective DEF Matches
  <2>. QED  BY <2>1, <2>3 DEF Matches, ListsMatchFlags, ListsMatch
<1>. QED
  BY Invariance, <1>1, PTL

\* The run queue is in the order of falling priority (enqueue_task).
THEOREM QueueSafe == Spec => []RunQueueOrdered
<1>1. IInv => RunQueueOrdered
  BY DEF IInv, Ok, Good, Sorted, RunQueueOrdered
<1>. QED
  BY Invariance, <1>1, PTL

\* The processor never runs a task whose structure is free or about to be
\* (kill_task, kill_current_task and schedule).
THEOREM CurrentSafe == Spec => []CurrentNotReclaimed
<1>1. IInv => CurrentNotReclaimed
  BY DEF IInv, Ok, Good, Matches, Linked, CurrentNotReclaimed
<1>. QED
  BY Invariance, <1>1, PTL

-----------------------------------------------------------------------------
(* The order within a priority band, the switches and the counts of the     *)
(* task table, on top of the invariant above.                               *)

\* Within a band those with time left come first, the tasks in E apart.
InBands(list, pri, left, E) ==
    \A i, j \in 1..Len(list) :
        i < j /\ list[i] \notin E /\ pri[list[i]] = pri[list[j]]
            => (left[list[j]] > 0 => left[list[i]] > 0)

\* A task taken out of the list no longer needs to be excepted ...
LEMMA RemoveInBands ==
  ASSUME NEW T, NEW s \in Seq(T), NEW e, NEW pri, NEW left, NEW E,
         NoRepeats(s), InBands(s, pri, left, E \cup {e})
  PROVE  InBands(RemoveFirst(s, e), pri, left, E)
<1> DEFINE r == RemoveFirst(s, e)
<1>1. e \notin ToSet(r) /\ r \in Seq(T)
  BY RemoveNode
<1>2. CASE r = s
  BY <1>1, <1>2 DEF InBands, ToSet
<1>3. ASSUME NEW i \in 1..Len(s), r = RemoveAt(s, i)
      PROVE  InBands(r, pri, left, E)
  <2>0. /\ Len(RemoveAt(s, i)) = Len(s) - 1
        /\ \A n \in 1..(Len(s) - 1) :
             RemoveAt(s, i)[n] = IF n < i THEN s[n] ELSE s[n + 1]
    BY RemoveAtElements
  <2> HIDE DEF r
  <2>1. /\ Len(r) = Len(s) - 1 /\ Len(s) \in Nat
        /\ \A n \in 1..(Len(s) - 1) : r[n] = IF n < i THEN s[n] ELSE s[n + 1]
    BY <1>3, <2>0
  <2>2. ASSUME NEW m \in 1..Len(r), NEW n \in 1..Len(r), m < n, r[m] \notin E,
               pri[r[m]] = pri[r[n]]
        PROVE  left[r[n]] > 0 => left[r[m]] > 0
    <3> DEFINE o(j) == IF j < i THEN j ELSE j + 1
    <3>0. /\ Len(s) \in Nat
          /\ m \in 1..(Len(s) - 1) /\ n \in 1..(Len(s) - 1) /\ m < n
      BY <2>1, <2>2
    <3>1. /\ o(m) \in 1..Len(s) /\ o(n) \in 1..Len(s) /\ o(m) < o(n)
      BY <3>0
    <3>2. r[m] = s[o(m)] /\ r[n] = s[o(n)]
      BY <2>1, <3>0
    <3>3. r[m] # e
      BY <1>1 DEF ToSet
    <3> HIDE DEF o
    <3>. QED  BY <2>2, <3>1, <3>2, <3>3 DEF InBands
  <2>. QED  BY <2>2 DEF InBands
<1>. QED
  BY <1>2, <1>3, RemoveFirstCases

\* ... and one is put in behind those with time left, when it has time left
\* itself, or behind its whole band.
LEMMA InsertInBands ==
  ASSUME NEW T, NEW s \in Seq(T), NEW e \in T, NEW i \in 1..(Len(s) + 1),
         NEW pri, NEW left, NEW E, InBands(s, pri, left, E),
         \A n \in 1..Len(s) : pri[s[n]] = pri[e] =>
             /\ n < i /\ left[e] > 0 => left[s[n]] > 0
             /\ n >= i => left[e] > 0
  PROVE  InBands(InsertAt(s, i, e), pri, left, E)
<1> DEFINE r == InsertAt(s, i, e)
<1>1. /\ Len(r) = Len(s) + 1
      /\ \A n \in 1..(Len(s) + 1) :
           r[n] = IF n < i THEN s[n] ELSE IF n = i THEN e ELSE s[n - 1]
  BY InsertAtElements
<1>0. Len(s) \in Nat
  OBVIOUS
<1> HIDE DEF r
<1> USE <1>0
<1>2. ASSUME NEW m \in 1..Len(r), NEW n \in 1..Len(r), m < n, r[m] \notin E,
             pri[r[m]] = pri[r[n]]
      PROVE  left[r[n]] > 0 => left[r[m]] > 0
  <2>1. CASE n = i
    <3>1. m \in 1..Len(s) /\ m < i /\ r[m] = s[m] /\ r[n] = e
      BY <1>1, <1>2, <2>1
    <3>. QED  BY <1>2, <3>1
  <2>2. CASE m = i
    <3>1. n - 1 \in 1..Len(s) /\ n - 1 >= i /\ r[n] = s[n - 1] /\ r[m] = e
      BY <1>1, <1>2, <2>2
    <3>. QED  BY <1>2, <3>1
  <2>3. CASE m # i /\ n # i
    <3> DEFINE o(j) == IF j < i THEN j ELSE j - 1
    <3>0. /\ Len(s) \in Nat /\ i \in 1..(Len(s) + 1)
          /\ m \in 1..(Len(s) + 1) /\ n \in 1..(Len(s) + 1) /\ m < n
      BY <1>1, <1>2
    <3>1. /\ o(m) \in 1..Len(s) /\ o(n) \in 1..Len(s) /\ o(m) < o(n)
      BY <2>3, <3>0
    <3>2. r[m] = s[o(m)] /\ r[n] = s[o(n)]
      BY <1>1, <2>3, <3>0
    <3> HIDE DEF o
    <3>. QED  BY <1>2, <3>1, <3>2 DEF InBands
  <2>. QED  BY <2>1, <2>2, <2>3
<1>. QED
  BY <1>2 DEF InBands, r

-----------------------------------------------------------------------------
(* What a kernel function leaves behind.                                    *)

\* The run queue of s, the tasks in E apart.
Bands(s, E) == InBands(s.running_tasks, s.pri, s.time_left, E)

\* BandOrdered and SuspendedLeaves, of any value of k.
Banded(s) == Bands(s, {s.current_task})
Leaves(s) == Running(s, s.current_task) \/ s.need_resched

\* If x has lost the processor it went to a task of the highest priority, with
\* time left, and x did not hold on to it with forbid().
Fair(s, x) ==
    s.current_task # x =>
        /\ \A t \in ToSet(s.running_tasks) : s.pri[t] <= s.pri[s.current_task]
        /\ s.time_left[s.current_task] > 0
        /\ s.forbid_count[x] > 0 => ~Running(s, x)

\* Live entries that are in no list, and the part of TaskCount that live
\* entries do not account for.
Unlinked(s) == {t \in s.live : ~Linked(s, t) /\ t \notin ToSet(s.zombie_tasks)}
Balance(s) == s.TaskCount - Cardinality(s.live)

\* From s to r no live entry drops out of the lists and none is miscounted.
Keeps(r, s) ==
    /\ \A t \in Slots : Linked(s, t) => Linked(r, t)
    /\ Unlinked(r) \subseteq Unlinked(s)
    /\ Balance(r) = Balance(s)

\* A kernel function called in s may return in r.
Result(r, s) == Banded(r) /\ Leaves(r) /\ Fair(r, s.current_task) /\ Keeps(r, s)

\* One function after another, the first of which does not switch.
LEMMA ResultTrans ==
  ASSUME NEW q, NEW r, NEW s, Result(q, r), Keeps(r, s),
         r.current_task = s.current_task
  PROVE  Result(q, s)
  BY DEF Result, Keeps

\* A change that takes no task out of the lists.
LEMMA KeepsLists ==
  ASSUME NEW r, NEW s, r.live = s.live, r.TaskCount = s.TaskCount,
         r.zombie_tasks = s.zombie_tasks,
         ToSet(s.running_tasks) \cup ToSet(s.suspended_tasks)
           \subseteq ToSet(r.running_tasks) \cup ToSet(r.suspended_tasks)
  PROVE  Keeps(r, s)
  BY DEF Keeps, Unlinked, Balance, Linked

\* enqueue_task() keeps every band in order.
LEMMA EnqueueBands ==
  ASSUME NEW s, Good(s), NEW t \in s.live, NEW E, Bands(s, E)
  PROVE  Bands(enqueue_task(s, t), E)
<1> DEFINE i == enqueue_position(s, s.running_tasks, t)
           q == InsertAt(s.running_tasks, i, t)
           r == [s EXCEPT !.running_tasks = q]
<1>1. s \in KernelState /\ t \in Slots /\ s.running_tasks \in Seq(Slots)
  BY KernelFields DEF Good
<1>2. /\ i \in 1..(Len(s.running_tasks) + 1)
      /\ \A n \in 1..Len(s.running_tasks) :
           s.pri[s.running_tasks[n]] = s.pri[t] =>
             /\ n < i /\ s.time_left[t] > 0 => s.time_left[s.running_tasks[n]] > 0
             /\ n >= i => s.time_left[t] > 0
  BY <1>1, EnqueuePosition DEF Good
<1> HIDE DEF i
<1>3. InBands(q, s.pri, s.time_left, E)
  BY <1>1, <1>2, InsertInBands DEF Bands
<1>4. enqueue_task(s, t) = r
  BY DEF enqueue_task, i
<1> HIDE DEF q
<1>5. r.running_tasks = q /\ r.pri = s.pri /\ r.time_left = s.time_left
  BY <1>1 DEF KernelState
<1>. QED
  BY <1>3, <1>4, <1>5 DEF Bands

\* remove_node() too, and the task it takes out need not be in order.
LEMMA RemoveBands ==
  ASSUME NEW s, Good(s), NEW t, NEW E, Bands(s, E \cup {t})
  PROVE  Bands(remove_node(s, t), E)
<1> DEFINE a == RemoveFirst(s.running_tasks, t)
           b == RemoveFirst(s.suspended_tasks, t)
           r == [s EXCEPT !.running_tasks = a, !.suspended_tasks = b]
<1>1. s \in KernelState /\ s.running_tasks \in Seq(Slots) /\ NoRepeats(s.running_tasks)
  BY KernelFields DEF Good, Matches
<1>2. InBands(a, s.pri, s.time_left, E)
  BY <1>1, RemoveInBands DEF Bands
<1>3. remove_node(s, t) = r
  BY DEF remove_node
<1> HIDE DEF a, b
<1>4. r.running_tasks = a /\ r.pri = s.pri /\ r.time_left = s.time_left
  BY <1>1 DEF KernelState
<1>. QED
  BY <1>2, <1>3, <1>4 DEF Bands

\* Excepting more tasks asks for less.
LEMMA BandsWeaken ==
  ASSUME NEW s, NEW E, NEW F, E \subseteq F, Bands(s, E) PROVE Bands(s, F)
  BY DEF Bands, InBands

\* schedule() first takes every zombie off the count.
LEMMA ReclaimKeeps ==
  ASSUME NEW s, Good(s)
  PROVE  Keeps(reclaim_zombies(s), s)
<1> DEFINE r == reclaim_zombies(s)
           Z == ToSet(s.zombie_tasks)
<1>1. /\ r.running_tasks = s.running_tasks /\ r.suspended_tasks = s.suspended_tasks
      /\ r.live = s.live \ Z /\ r.TaskCount = s.TaskCount - Cardinality(Z)
      /\ r.zombie_tasks = <<>>
  BY ReclaimZombies
<1>2. s.live \in SUBSET Slots /\ s.TaskCount \in Int /\ Z \subseteq s.live
  BY KernelFields DEF Good, Matches
<1>3. IsFiniteSet(s.live)
  BY <1>2, SlotsAssumption, FS_Subset
<1>4. Cardinality(s.live \ Z) = Cardinality(s.live) - Cardinality(Z)
  <2>1. s.live \cap Z = Z
    BY <1>2
  <2>. QED  BY <1>3, <2>1, FS_Difference
<1>5. Cardinality(s.live) \in Nat /\ Cardinality(Z) \in Nat
  BY <1>2, CardinalityNat
<1> HIDE DEF r, Z
<1>6. Balance(r) = Balance(s)
  <2> DEFINE n == Cardinality(s.live)
             z == Cardinality(Z)
  <2>1. /\ n \in Nat /\ z \in Nat /\ s.TaskCount \in Int
        /\ r.TaskCount = s.TaskCount - z /\ Cardinality(r.live) = n - z
    BY <1>1, <1>2, <1>4, <1>5
  <2> HIDE DEF n, z
  <2>2. r.TaskCount - Cardinality(r.live) = s.TaskCount - n
    BY <2>1
  <2>. QED  BY <2>2 DEF Balance, n
<1>7. Unlinked(r) \subseteq Unlinked(s)
  BY <1>1 DEF Unlinked, Linked, Z
<1>8. \A t \in Slots : Linked(s, t) => Linked(r, t)
  BY <1>1 DEF Linked
<1>. QED
  BY <1>6, <1>7, <1>8 DEF Keeps, r

\* Once the current task has been put in its place no task is out of order.
LEMMA RequeueBands ==
  ASSUME NEW s, Good(s), s.current_task \in s.live, Banded(s)
  PROVE  Bands(requeue_current(s), {})
<1> DEFINE t == s.current_task
<1>1. CASE Running(s, t)
  <2> DEFINE a == remove_node(s, t)
  <2>1. {} \cup {t} = {t}
    OBVIOUS
  <2>2. Bands(a, {})
    BY <2>1, RemoveBands DEF Banded
  <2>3. Good(a) /\ t \in a.live
    BY RemoveTaskNode DEF SameBut
  <2>4. requeue_current(s) = enqueue_task(a, t)
    BY <1>1 DEF requeue_current
  <2> HIDE DEF a, t
  <2>. QED  BY <2>2, <2>3, <2>4, EnqueueBands
<1>2. CASE ~Running(s, t)
  <2> DEFINE z == s.running_tasks
  <2>1. requeue_current(s) = s /\ t \notin ToSet(z) /\ z \in Seq(Slots)
    BY <1>2, KernelFields DEF requeue_current, Good, Matches
  <2>2. InBands(z, s.pri, s.time_left, {t})
    BY DEF Banded, Bands
  <2> HIDE DEF z, t
  <2>3. InBands(z, s.pri, s.time_left, {})
    BY <2>1, <2>2 DEF InBands, ToSet
  <2>. QED  BY <2>1, <2>3 DEF Bands, z
<1>. QED  BY <1>1, <1>2

\* The head of an ordered list has the highest key.
LEMMA SortedHead ==
  ASSUME NEW T, NEW z \in Seq(T), z # <<>>, NEW key \in [T -> Int], Sorted(z, key)
  PROVE  \A t \in ToSet(z) : key[t] <= key[Head(z)]
<1> SUFFICES ASSUME NEW t \in ToSet(z) PROVE key[t] <= key[Head(z)]
  OBVIOUS
<1>1. Len(z) \in Nat /\ Len(z) # 0 /\ Head(z) = z[1] /\ DOMAIN z = 1..Len(z)
  OBVIOUS
<1>2. PICK n \in 1..Len(z) : z[n] = t
  BY <1>1 DEF ToSet
<1>3. key[z[n]] \in Int
  OBVIOUS
<1>4. CASE n = 1
  BY <1>1, <1>2, <1>3, <1>4
<1>5. CASE n # 1
  <2>1. 1 \in 1..Len(z) /\ 1 < n
    BY <1>1, <1>5
  <2>2. key[z[1]] >= key[z[n]] /\ key[z[1]] \in Int
    BY <2>1 DEF Sorted
  <2>. QED  BY <1>1, <1>2, <1>3, <2>2
<1>. QED  BY <1>4, <1>5

\* The time given to the head of the list puts nobody out of order: it is the
\* current task from now on.
LEMMA HeadInBands ==
  ASSUME NEW T, NEW z \in Seq(T), z # <<>>, NoRepeats(z), NEW pri, NEW left,
         InBands(z, pri, left, {}), NEW l2,
         \A x \in T \ {Head(z)} : l2[x] = left[x]
  PROVE  InBands(z, pri, l2, {Head(z)})
<1>1. Len(z) \in Nat /\ Len(z) # 0 /\ Head(z) = z[1] /\ 1 \in 1..Len(z)
  OBVIOUS
<1>2. ASSUME NEW i \in 1..Len(z), NEW j \in 1..Len(z), i < j, z[i] # Head(z),
             pri[z[i]] = pri[z[j]]
      PROVE  l2[z[j]] > 0 => l2[z[i]] > 0
  <2>1. j # 1
    BY <1>1, <1>2
  <2>2. z[j] # Head(z) /\ z[i] \in T /\ z[j] \in T
    BY <1>1, <2>1 DEF NoRepeats
  <2>3. l2[z[j]] = left[z[j]] /\ l2[z[i]] = left[z[i]]
    BY <1>2, <2>2
  <2>. QED  BY <1>2, <2>3 DEF InBands
<1>. QED
  BY <1>2 DEF InBands

\* schedule() called by a task that is in a list, or has just died: the task
\* that runs next is runnable, and the switch is fair.
LEMMA ScheduleResult ==
  ASSUME NEW s, Good(s), Idle \in ToSet(s.running_tasks),
         s.current_task \in s.live,
         \/ Linked(s, s.current_task)
         \/ /\ "ZOMBIE" \in s.flags[s.current_task] /\ ~Running(s, s.current_task)
            /\ s.current_task \notin ToSet(s.zombie_tasks),
         Banded(s)
  PROVE  LET r == schedule(s)
         IN  /\ Result(r, s)
             /\ "ZOMBIE" \in s.flags[s.current_task]
                  => s.current_task \notin Unlinked(r)
<1> DEFINE t == s.current_task
           r == reclaim_zombies(s)
           u == [r EXCEPT !.need_resched = FALSE]
           q == requeue_current(u)
           w == switch_to_head(q)
<1>1. /\ Good(r) /\ SameTasks(r, s) /\ r.time_left = s.time_left
      /\ r.running_tasks = s.running_tasks
      /\ r.suspended_tasks = s.suspended_tasks
      /\ r.live = s.live \ ToSet(s.zombie_tasks)
      /\ r.zombie_tasks = <<>> /\ r.current_task = t
  BY ReclaimZombies
<1>2. ToSet(<<>>) = {} /\ Keeps(r, s)
  BY ReclaimKeeps DEF ToSet
<1>3. t \in r.live
  BY <1>1 DEF Good, Matches, Linked
<1>4. Linked(r, t) <=> Linked(s, t)
  BY <1>1 DEF Linked
<1>5. Banded(r)
  BY <1>1 DEF Banded, Bands, SameTasks
<1> HIDE DEF r
<1>6. CASE r.forbid_count[r.current_task] > 0 /\ Running(r, r.current_task)
  <2>1. schedule(s) = r
    BY <1>6 DEF schedule, r
  <2>2. Linked(r, t) /\ "ZOMBIE" \notin s.flags[t]
    BY <1>1, <1>4, <1>6 DEF Good, Matches, Linked, Running, SameTasks
  <2>3. Result(r, s)
    BY <1>1, <1>2, <1>5, <1>6 DEF Result, Leaves, Fair
  <2>. QED  BY <2>1, <2>2, <2>3
<1>7. CASE ~(r.forbid_count[r.current_task] > 0 /\ Running(r, r.current_task))
  <2>1. /\ Good(u) /\ SameTasks(u, r) /\ u.running_tasks = r.running_tasks
        /\ u.suspended_tasks = r.suspended_tasks /\ u.time_left = r.time_left
        /\ u.zombie_tasks = <<>> /\ u.live = r.live /\ u.current_task = t
        /\ u.TaskCount = r.TaskCount
    BY <1>1, SetResched
  <2> HIDE DEF u
  <2>2. /\ Linked(u, t) \/ ~Running(u, t)
        /\ Linked(u, t) \/ ("ZOMBIE" \in u.flags[t] /\ ~Running(u, t))
        /\ u.current_task \in u.live /\ Banded(u)
    BY <1>1, <1>3, <1>4, <1>5, <2>1 DEF Linked, SameTasks, Running, Banded, Bands
  <2>3. /\ Good(q) /\ SameBut(q, u)
        /\ ToSet(q.running_tasks) = ToSet(u.running_tasks)
        /\ ToSet(q.suspended_tasks) = ToSet(u.suspended_tasks)
    BY <2>1, <2>2, RequeueCurrent
  <2>4. Bands(q, {})
    BY <2>1, <2>2, RequeueBands
  <2> HIDE DEF q
  <2>5. /\ q.zombie_tasks = <<>> /\ q.running_tasks # <<>>
        /\ q.current_task = t /\ q.current_task \in q.live
        /\ Linked(q, t) \/ ("ZOMBIE" \in q.flags[t] /\ ~Running(q, t))
    BY <1>1, <1>2, <2>1, <2>2, <2>3 DEF SameBut, SameTasks, Linked, Running
  <2>6. /\ Good(w) /\ SameTasks(w, q) /\ w.live = q.live
        /\ w.running_tasks = q.running_tasks
        /\ w.suspended_tasks = q.suspended_tasks
        /\ w.current_task = Head(q.running_tasks)
        /\ w.current_task \in ToSet(q.running_tasks)
        /\ w.time_left[w.current_task] > 0
        /\ \A x \in Slots \ {w.current_task} : w.time_left[x] = q.time_left[x]
        /\ w.TaskCount = q.TaskCount
        /\ "ZOMBIE" \in q.flags[t] => t \in ToSet(w.zombie_tasks)
    BY <2>3, <2>5, SwitchToHead
  <2>7. schedule(s) = w
    BY <1>7, <2>5 DEF schedule, r, u, q
  <2> HIDE DEF w
  <2>8. /\ q.running_tasks \in Seq(Slots) /\ q.pri \in [Slots -> Int]
        /\ NoRepeats(q.running_tasks) /\ Sorted(q.running_tasks, q.pri)
    BY <2>3, KernelFields DEF Good, Matches
  <2>9. Banded(w)
    <3>1. InBands(q.running_tasks, q.pri, q.time_left, {})
      BY <2>4 DEF Bands
    <3>2. \A x \in Slots \ {Head(q.running_tasks)} : w.time_left[x] = q.time_left[x]
      BY <2>6
    <3>3. InBands(q.running_tasks, q.pri, w.time_left, {Head(q.running_tasks)})
      BY <2>5, <2>8, <3>1, <3>2, HeadInBands
    <3>. QED  BY <2>6, <3>3 DEF Banded, Bands, SameTasks
  <2>10. Running(w, w.current_task)
    BY <2>6 DEF Good, Matches
  <2>11. \A x \in ToSet(w.running_tasks) : w.pri[x] <= w.pri[w.current_task]
    BY <2>5, <2>6, <2>8, SortedHead DEF SameTasks
  <2>12. w.forbid_count[t] > 0 => ~Running(w, t)
    BY <1>1, <1>7, <2>1, <2>3, <2>6 DEF SameTasks, SameBut, Running
  <2>13. /\ w.live = r.live /\ w.TaskCount = r.TaskCount
         /\ ToSet(w.running_tasks) = ToSet(r.running_tasks)
         /\ ToSet(w.suspended_tasks) = ToSet(r.suspended_tasks)
    BY <2>1, <2>3, <2>6 DEF SameBut
  <2>14. Keeps(w, r)
    BY <1>1, <1>2, <2>13 DEF Keeps, Unlinked, Balance, Linked
  <2>15. Keeps(w, s)
    BY <1>2, <2>14 DEF Keeps
  <2>16. "ZOMBIE" \in s.flags[t] => t \notin Unlinked(w)
    BY <1>1, <2>1, <2>3, <2>6 DEF SameTasks, SameBut, Unlinked
  <2>. QED
    BY <2>6, <2>7, <2>9, <2>10, <2>11, <2>12, <2>15, <2>16 DEF Result, Leaves, Fair
<1>. QED
  BY <1>6, <1>7

Well(s) == Ok(s) /\ Banded(s) /\ Leaves(s)

\* schedule() between calls.
LEMMA ScheduleWell ==
  ASSUME NEW s, Ok(s), Banded(s)
  PROVE  Result(schedule(s), s)
<1>1. s.current_task \in s.live
  BY DEF Ok, Good, Matches, Linked
<1>. QED
  BY <1>1, ScheduleResult DEF Ok

\* A function that does not switch.
LEMMA StaysResult ==
  ASSUME NEW r, NEW s, Banded(r), Leaves(r), Keeps(r, s),
         r.current_task = s.current_task
  PROVE  Result(r, s)
  BY DEF Result, Fair

\* A change to the counters of the tasks other than time_left.
LEMMA SameQueueResult ==
  ASSUME NEW s, Banded(s), NEW r, r.pri = s.pri, r.time_left = s.time_left,
         r.running_tasks = s.running_tasks,
         r.suspended_tasks = s.suspended_tasks,
         r.zombie_tasks = s.zombie_tasks, r.live = s.live,
         r.TaskCount = s.TaskCount, r.current_task = s.current_task, Leaves(r)
  PROVE  Result(r, s)
<1>1. Keeps(r, s)
  BY KeepsLists
<1>. QED
  BY <1>1, StaysResult DEF Banded, Bands

\* The ends of append_task() and wake_task(); in an interrupt they do not switch.
LEMMA PreferResult ==
  ASSUME NEW s, Well(s), NEW t, NEW n
  PROVE  /\ Result(prefer(s, t, n), s)
         /\ n # 0 => prefer(s, t, n).current_task = s.current_task
<1> DEFINE r == [s EXCEPT !.need_resched = TRUE]
<1>1. Result(schedule(s), s)
  BY ScheduleWell DEF Well
<1>2. Result(r, s) /\ r.current_task = s.current_task
  <2>1. /\ SameTasks(r, s) /\ r.time_left = s.time_left
        /\ r.running_tasks = s.running_tasks
        /\ r.suspended_tasks = s.suspended_tasks
        /\ r.zombie_tasks = s.zombie_tasks /\ r.live = s.live
        /\ r.TaskCount = s.TaskCount
        /\ r.current_task = s.current_task /\ r.need_resched = TRUE
    BY SetResched DEF Well, Ok
  <2> HIDE DEF r
  <2>. QED  BY <2>1, SameQueueResult DEF Well, Leaves, SameTasks
<1>3. Result(s, s)
  BY StaysResult DEF Well, Keeps
<1> HIDE DEF r
<1>4. prefer(s, t, n) \in {s, r} \/ (n = 0 /\ prefer(s, t, n) = schedule(s))
  BY DEF prefer, r
<1>. QED
  BY <1>1, <1>2, <1>3, <1>4

\* append_task() links an entry that was in no list.
LEMMA AppendTaskResult ==
  ASSUME NEW s, Well(s), NEW t \in s.live, ~Linked(s, t),
         t \notin ToSet(s.zombie_tasks)
  PROVE  Result(append_task(s, t), s) /\ t \notin Unlinked(append_task(s, t))
<1>1. "ZOMBIE" \notin s.flags[t] /\ t \in Slots
  BY KernelFields DEF Well, Ok, ZombieListed, Good
<1>2. CASE Running(s, t)
  <2> DEFINE e == enqueue_task(s, t)
  <2>1. /\ Good(e) /\ SameBut(e, s)
        /\ ToSet(e.running_tasks) = ToSet(s.running_tasks) \cup {t}
        /\ e.suspended_tasks = s.suspended_tasks
    BY <1>1, <1>2, EnqueueTask DEF Well, Ok
  <2>2. Bands(e, {s.current_task})
    BY EnqueueBands DEF Well, Ok, Banded
  <2>3. Ok(e)
    BY <1>1, <1>2, EnqueueOk DEF Well, Ok
  <2>4. append_task(s, t) = prefer(e, t, 0)
    BY <1>2 DEF append_task
  <2> HIDE DEF e
  <2>5. Well(e)
    BY <2>1, <2>2, <2>3 DEF Well, Banded, Leaves, SameBut, SameTasks, Running
  <2>6. Result(prefer(e, t, 0), e)
    BY <2>5, PreferResult
  <2>7. Keeps(e, s) /\ e.current_task = s.current_task /\ Linked(e, t)
    BY <2>1, KeepsLists DEF SameBut, Linked
  <2>8. Linked(prefer(e, t, 0), t)
    BY <1>1, <2>6, <2>7 DEF Result, Keeps
  <2>. QED  BY <2>4, <2>6, <2>7, <2>8, ResultTrans DEF Unlinked
<1>3. CASE ~Running(s, t)
  <2> DEFINE a == Append(s.suspended_tasks, t)
             r == [s EXCEPT !.suspended_tasks = a]
  <2>1. s \in KernelState /\ s.suspended_tasks \in Seq(Slots)
    BY KernelFields DEF Well, Ok, Good
  <2>2. ToSet(a) = ToSet(s.suspended_tasks) \cup {t}
    BY <1>1, <2>1, AppendNode DEF Well, Ok, Good, Matches, Linked
  <2>3. append_task(s, t) = r
    BY <1>3 DEF append_task
  <2> HIDE DEF a
  <2>4. SameBut(r, s) /\ r.suspended_tasks = a /\ r.running_tasks = s.running_tasks
    BY <2>1 DEF KernelState, SameBut, SameTasks
  <2> HIDE DEF r
  <2>5. Banded(r) /\ Leaves(r)
    BY <2>4 DEF Well, Banded, Bands, Leaves, SameBut, SameTasks, Running
  <2>6. Keeps(r, s) /\ Linked(r, t)
    BY <2>2, <2>4, KeepsLists DEF SameBut, Linked
  <2>. QED  BY <2>3, <2>4, <2>5, <2>6, StaysResult DEF SameBut, Unlinked
<1>. QED
  BY <1>2, <1>3

\* The masked section of wake_task().
LEMMA WakeSectionResult ==
  ASSUME NEW s, Well(s), NEW t \in Slots, Linked(s, t), NEW n
  PROVE  /\ Result(wake_section(s, t, n), s)
         /\ n # 0 => wake_section(s, t, n).current_task = s.current_task
<1> DEFINE a == remove_node(s, t)
           f == a.flags[t] \cup {"RUNNING"}
           b == [a EXCEPT !.flags[t] = f]
           e == enqueue_task(b, t)
<1>1. /\ Good(a) /\ SameBut(a, s)
      /\ ToSet(a.running_tasks) = ToSet(s.running_tasks) \ {t}
      /\ ToSet(a.suspended_tasks) = ToSet(s.suspended_tasks) \ {t}
  BY RemoveTaskNode DEF Well, Ok
<1>2. Bands(a, {s.current_task})
  <2>1. Bands(s, {s.current_task} \cup {t})
    BY BandsWeaken DEF Well, Banded
  <2>. QED  BY <2>1, RemoveBands DEF Well, Ok
<1>3. a.flags \in [Slots -> SUBSET Flags]
  BY <1>1, KernelFields DEF Good
<1>4. wake_section(s, t, n) = prefer(e, t, n)
  BY DEF wake_section
<1> HIDE DEF a
<1>5. /\ t \in a.live /\ t \notin ToSet(a.zombie_tasks)
      /\ "ZOMBIE" \notin a.flags[t] /\ t \notin ToSet(a.running_tasks)
      /\ t \notin ToSet(a.suspended_tasks)
  BY <1>1 DEF Well, Ok, Good, Matches, Linked, SameBut, SameTasks
<1>6. f \in SUBSET Flags /\ "RUNNING" \in f /\ "ZOMBIE" \notin f
  BY <1>3, <1>5 DEF Flags
<1> HIDE DEF f
<1>7. /\ Good(b) /\ b.flags = [a.flags EXCEPT ![t] = f]
      /\ b.pri = a.pri /\ b.forbid_count = a.forbid_count
      /\ b.running_tasks = a.running_tasks
      /\ b.suspended_tasks = a.suspended_tasks
      /\ b.zombie_tasks = a.zombie_tasks /\ b.live = a.live
      /\ b.current_task = a.current_task
      /\ b.time_left = a.time_left /\ b.TaskCount = a.TaskCount
      /\ b.need_resched = a.need_resched
  BY <1>1, <1>5, <1>6, SetFlags
<1> HIDE DEF b
<1>8. b.flags[t] = f /\ \A x \in Slots \ {t} : b.flags[x] = s.flags[x]
  BY <1>1, <1>3, <1>7 DEF SameBut, SameTasks
<1>9. Bands(b, {s.current_task})
  BY <1>2, <1>7 DEF Bands
<1>10. /\ t \in b.live /\ ~Linked(b, t) /\ Running(b, t) /\ "ZOMBIE" \notin b.flags[t]
       /\ \A x \in Slots : ZombieListed(b, x)
       /\ Idle \in ToSet(b.running_tasks) \cup {t}
       /\ b.current_task = t \/ Linked(b, b.current_task)
  BY <1>1, <1>5, <1>6, <1>7, <1>8
     DEF Well, Ok, Linked, Running, ZombieListed, SameBut
<1>11. Ok(e)
  BY <1>7, <1>10, EnqueueOk
<1>12. /\ SameBut(e, b) /\ e.suspended_tasks = b.suspended_tasks
       /\ ToSet(e.running_tasks) = ToSet(b.running_tasks) \cup {t}
  BY <1>7, <1>10, EnqueueTask
<1>13. Bands(e, {s.current_task})
  BY <1>7, <1>9, <1>10, EnqueueBands
<1> HIDE DEF e
<1>14. e.current_task = s.current_task /\ s.current_task \in Slots
  BY <1>1, <1>7, <1>12, KernelFields DEF SameBut, Well, Ok, Good
<1>15. Leaves(e)
  BY <1>1, <1>6, <1>7, <1>8, <1>12, <1>14 DEF Leaves, Well, Running, SameBut, SameTasks
<1>16. Well(e)
  BY <1>11, <1>13, <1>14, <1>15 DEF Well, Banded
<1>17. /\ Result(prefer(e, t, n), e)
       /\ n # 0 => prefer(e, t, n).current_task = e.current_task
  BY <1>16, PreferResult
<1>18. Keeps(e, s)
  <2>1. /\ e.live = s.live /\ e.TaskCount = s.TaskCount
        /\ e.zombie_tasks = s.zombie_tasks
    BY <1>1, <1>7, <1>12 DEF SameBut
  <2>2. ToSet(s.running_tasks) \cup ToSet(s.suspended_tasks)
          \subseteq ToSet(e.running_tasks) \cup ToSet(e.suspended_tasks)
    BY <1>1, <1>7, <1>12
  <2>. QED  BY <2>1, <2>2, KeepsLists
<1>. QED
  BY <1>4, <1>14, <1>17, <1>18, ResultTrans

\* wake_task() of a task that, when it can be woken, is in a list.
LEMMA WakeTaskResult ==
  ASSUME NEW s, Well(s), NEW t \in Slots, wakeable(s, t) => Linked(s, t), NEW n
  PROVE  /\ Result(wake_task(s, t, n), s)
         /\ n # 0 => wake_task(s, t, n).current_task = s.current_task
<1>1. Result(s, s)
  BY StaysResult DEF Well, Keeps
<1>. QED  BY <1>1, WakeSectionResult DEF wake_task

\* suspend_task() of a task other than the idle task sets need_resched.
LEMMA SuspendTaskResult ==
  ASSUME NEW s, Well(s), NEW t \in Slots \ {Idle}, Running(s, t) => Linked(s, t)
  PROVE  Result(suspend_task(s, t), s)
<1> DEFINE a == remove_node(s, t)
           f == a.flags[t] \ {"RUNNING"}
           b == [a EXCEPT !.flags[t] = f]
           d == Append(b.suspended_tasks, t)
           r == [b EXCEPT !.suspended_tasks = d, !.need_resched = TRUE]
<1>1. CASE ~Running(s, t)
  BY <1>1, StaysResult DEF suspend_task, Well, Keeps
<1>2. CASE Running(s, t)
  <2>1. /\ Good(a) /\ SameBut(a, s)
        /\ ToSet(a.running_tasks) = ToSet(s.running_tasks) \ {t}
        /\ ToSet(a.suspended_tasks) = ToSet(s.suspended_tasks) \ {t}
    BY RemoveTaskNode DEF Well, Ok
  <2>2. Bands(a, {s.current_task})
    <3>1. Bands(s, {s.current_task} \cup {t})
      BY BandsWeaken DEF Well, Banded
    <3>. QED  BY <3>1, RemoveBands DEF Well, Ok
  <2>3. suspend_task(s, t) = r
    <3>1. a \in KernelState
      BY <2>1 DEF Good
    <3> HIDE DEF a
    <3>. QED  BY <1>2, <3>1 DEF suspend_task, KernelState, a
  <2> HIDE DEF a
  <2>4. a.flags \in [Slots -> SUBSET Flags]
    BY <2>1, KernelFields DEF Good
  <2>5. /\ t \in a.live /\ t \notin ToSet(a.zombie_tasks)
        /\ "ZOMBIE" \notin a.flags[t]
    BY <1>2, <2>1 DEF Well, Ok, Good, Matches, Linked, SameBut, SameTasks
  <2>6. f \in SUBSET Flags /\ "RUNNING" \notin f /\ "ZOMBIE" \notin f
    BY <2>4, <2>5
  <2> HIDE DEF f
  <2>7. /\ Good(b) /\ b.pri = a.pri
        /\ b.running_tasks = a.running_tasks
        /\ b.suspended_tasks = a.suspended_tasks
        /\ b.zombie_tasks = a.zombie_tasks /\ b.live = a.live
        /\ b.current_task = a.current_task
        /\ b.time_left = a.time_left /\ b.TaskCount = a.TaskCount
    BY <2>1, <2>5, <2>6, SetFlags
  <2> HIDE DEF b
  <2>8. b \in KernelState /\ b.suspended_tasks \in Seq(Slots)
    BY <2>7, KernelFields DEF Good
  <2>9. ToSet(d) = ToSet(b.suspended_tasks) \cup {t}
    <3>1. t \notin ToSet(b.suspended_tasks) /\ NoRepeats(b.suspended_tasks)
      BY <2>1, <2>7 DEF Good, Matches
    <3>. QED  BY <2>8, <3>1, AppendNode
  <2> HIDE DEF d
  <2>10. /\ r.pri = b.pri /\ r.time_left = b.time_left
         /\ r.running_tasks = b.running_tasks /\ r.suspended_tasks = d
         /\ r.zombie_tasks = b.zombie_tasks /\ r.live = b.live
         /\ r.TaskCount = b.TaskCount /\ r.current_task = b.current_task
         /\ r.need_resched = TRUE
    BY <2>8 DEF KernelState
  <2> HIDE DEF r
  <2>11. r.current_task = s.current_task /\ Banded(r) /\ Leaves(r)
    BY <2>1, <2>2, <2>7, <2>10 DEF Banded, Bands, Leaves, SameBut
  <2>12. Keeps(r, s)
    <3>1. /\ r.live = s.live /\ r.TaskCount = s.TaskCount
          /\ r.zombie_tasks = s.zombie_tasks
      BY <2>1, <2>7, <2>10 DEF SameBut
    <3>2. ToSet(s.running_tasks) \cup ToSet(s.suspended_tasks)
            \subseteq ToSet(r.running_tasks) \cup ToSet(r.suspended_tasks)
      BY <2>1, <2>7, <2>9, <2>10
    <3>. QED  BY <3>1, <3>2, KeepsLists
  <2>. QED
    BY <2>3, <2>11, <2>12, StaysResult
<1>. QED
  BY <1>1, <1>2

\* forbid() changes a counter.
LEMMA ForbidResult ==
  ASSUME NEW s, Well(s)
  PROVE  Result(forbid(s), s)
<1> DEFINE fc == [s.forbid_count EXCEPT ![s.current_task] = @ + 1]
           r == [s EXCEPT !.forbid_count = fc]
<1>1. s \in KernelState
  BY DEF Well, Ok, Good
<1>2. forbid(s) = r
  BY <1>1 DEF forbid, KernelState
<1> HIDE DEF fc
<1>3. /\ r.pri = s.pri /\ r.time_left = s.time_left
      /\ r.running_tasks = s.running_tasks
      /\ r.suspended_tasks = s.suspended_tasks
      /\ r.zombie_tasks = s.zombie_tasks /\ r.live = s.live
      /\ r.TaskCount = s.TaskCount /\ r.current_task = s.current_task
      /\ r.flags = s.flags /\ r.need_resched = s.need_resched
  BY <1>1 DEF KernelState
<1> HIDE DEF r
<1>. QED
  BY <1>2, <1>3, SameQueueResult DEF Well, Leaves, Running

\* permit() may end in schedule(), with the counter at zero.
LEMMA PermitResult ==
  ASSUME NEW s, Well(s), s.forbid_count[s.current_task] > 0
  PROVE  Result(permit(s), s)
<1> DEFINE fc == [s.forbid_count EXCEPT ![s.current_task] = @ - 1]
           r == [s EXCEPT !.forbid_count = fc]
           p == [s EXCEPT !.forbid_count[s.current_task] = @ - 1]
<1>1. /\ s \in KernelState /\ s.forbid_count \in [Slots -> Nat]
      /\ s.current_task \in Slots
  BY KernelFields DEF Well, Ok, Good
<1>2. fc \in [Slots -> Nat]
  BY <1>1
<1>3. p = r
  BY <1>1 DEF KernelState
<1>4. permit(s) \in {p, schedule(p)}
  BY DEF permit
<1> HIDE DEF fc, p
<1>5. /\ r \in KernelState /\ r.pri = s.pri /\ r.time_left = s.time_left
      /\ r.running_tasks = s.running_tasks
      /\ r.suspended_tasks = s.suspended_tasks
      /\ r.zombie_tasks = s.zombie_tasks /\ r.live = s.live
      /\ r.TaskCount = s.TaskCount /\ r.current_task = s.current_task
      /\ r.flags = s.flags /\ r.need_resched = s.need_resched
      /\ r.zombies = s.zombies
  BY <1>1, <1>2 DEF KernelState
<1> HIDE DEF r
<1>6. Result(r, s)
  BY <1>5, SameQueueResult DEF Well, Leaves, Running
<1>7. Ok(r)
  BY <1>5, CountersOk DEF Well
<1>8. Result(schedule(r), r)
  BY <1>6, <1>7, ScheduleWell DEF Result
<1>9. Result(schedule(r), s)
  BY <1>5, <1>6, <1>8, ResultTrans DEF Result
<1>. QED
  BY <1>3, <1>4, <1>6, <1>9

\* The current task's time runs down where it stands.
LEMMA TickResult ==
  ASSUME NEW s, Well(s)
  PROVE  Result(tick(s), s) /\ tick(s).current_task = s.current_task
<1> DEFINE left == IF s.time_left[s.current_task] > 0
                   THEN s.time_left[s.current_task] - 1 ELSE 0
           tl == [s.time_left EXCEPT ![s.current_task] = left]
           b == s.need_resched \/ left <= 0
           r == [s EXCEPT !.time_left = tl, !.need_resched = b]
<1>1. /\ s \in KernelState /\ s.time_left \in [Slots -> Nat]
      /\ s.current_task \in Slots /\ s.running_tasks \in Seq(Slots)
  BY KernelFields DEF Well, Ok, Good
<1>2. left \in Nat /\ (s.time_left[s.current_task] = 0 => left = 0)
  BY <1>1
<1>3. tick(s) = r
  BY <1>1 DEF tick, KernelState, left
<1>4. s.need_resched => b
  OBVIOUS
<1> HIDE DEF left
<1>5. /\ tl[s.current_task] = left
      /\ \A x \in Slots \ {s.current_task} : tl[x] = s.time_left[x]
  BY <1>1
<1> HIDE DEF tl, b
<1>6. /\ r.pri = s.pri /\ r.time_left = tl /\ r.need_resched = b
      /\ r.running_tasks = s.running_tasks
      /\ r.suspended_tasks = s.suspended_tasks
      /\ r.zombie_tasks = s.zombie_tasks /\ r.live = s.live
      /\ r.TaskCount = s.TaskCount /\ r.current_task = s.current_task
      /\ r.flags = s.flags
  BY <1>1 DEF KernelState
<1> HIDE DEF r
<1>7. Banded(r)
  <2> DEFINE z == s.running_tasks
  <2>1. z \in Seq(Slots) /\ InBands(z, s.pri, s.time_left, {s.current_task})
    BY <1>1 DEF Well, Banded, Bands
  <2> HIDE DEF z
  <2>2. ASSUME NEW i \in 1..Len(z), NEW j \in 1..Len(z), i < j,
               z[i] # s.current_task, s.pri[z[i]] = s.pri[z[j]], tl[z[j]] > 0
        PROVE  tl[z[i]] > 0
    <3>1. z[i] \in Slots /\ z[j] \in Slots
      BY <2>1
    <3>2. s.time_left[z[j]] \in Nat /\ s.time_left[z[j]] # 0
      BY <1>1, <1>2, <1>5, <2>2, <3>1
    <3>3. s.time_left[z[i]] > 0
      BY <2>1, <2>2, <3>2 DEF InBands
    <3>. QED  BY <1>5, <2>2, <3>1, <3>3
  <2>3. InBands(z, s.pri, tl, {s.current_task})
    BY <2>2 DEF InBands
  <2>. QED  BY <1>6, <2>3 DEF Banded, Bands, z
<1>8. Leaves(r) /\ Keeps(r, s)
  BY <1>4, <1>6, KeepsLists DEF Leaves, Well, Running
<1>. QED
  BY <1>3, <1>6, <1>7, <1>8, StaysResult

\* The end of an interrupt, whose handler has taken s to r.
LEMMA IntrReturnResult ==
  ASSUME NEW r, NEW s, Ok(r), Result(r, s), r.current_task = s.current_task
  PROVE  Result(intr_return(r), s)
<1>1. Result(schedule(r), s)
  BY ScheduleWell, ResultTrans DEF Result
<1>. QED  BY <1>1 DEF intr_return

\* A change to the flags FROZEN and IMMORTAL.
LEMMA OtherFlagsResult ==
  ASSUME NEW s, Well(s), NEW t \in Slots, NEW f \in SUBSET Flags,
         "RUNNING" \in f <=> "RUNNING" \in s.flags[t],
         "ZOMBIE" \in f <=> "ZOMBIE" \in s.flags[t]
  PROVE  LET r == [s EXCEPT !.flags[t] = f]
         IN  Result(r, s) /\ Well(r) /\ r.current_task = s.current_task
<1> DEFINE r == [s EXCEPT !.flags[t] = f]
<1>1. /\ t \in ToSet(s.running_tasks) => "RUNNING" \in f /\ "ZOMBIE" \notin f
      /\ t \in ToSet(s.suspended_tasks) => "RUNNING" \notin f /\ "ZOMBIE" \notin f
      /\ t \in ToSet(s.zombie_tasks) => "RUNNING" \notin f /\ "ZOMBIE" \in f
  BY DEF Well, Ok, Good, Matches, Running
<1>2. /\ r.flags = [s.flags EXCEPT ![t] = f] /\ r.pri = s.pri
      /\ r.running_tasks = s.running_tasks
      /\ r.suspended_tasks = s.suspended_tasks
      /\ r.zombie_tasks = s.zombie_tasks /\ r.live = s.live
      /\ r.current_task = s.current_task
      /\ r.time_left = s.time_left /\ r.TaskCount = s.TaskCount
      /\ r.need_resched = s.need_resched
  BY <1>1, SetFlags DEF Well, Ok
<1>3. s.flags \in [Slots -> SUBSET Flags] /\ s.current_task \in Slots
  BY KernelFields DEF Well, Ok, Good
<1>4. Ok(r)
  BY OtherFlagsOk DEF Well
<1> HIDE DEF r
<1>5. Leaves(r)
  BY <1>2, <1>3 DEF Well, Leaves, Running
<1>6. Result(r, s)
  BY <1>2, <1>5, SameQueueResult DEF Well
<1>. QED
  BY <1>2, <1>4, <1>6 DEF r, Well, Result

\* A change to an entry of TaskArray that is free.
LEMMA FreeEntryBands ==
  ASSUME NEW s, Well(s), NEW t \in Slots \ s.live, NEW r,
         \A x \in Slots \ {t} : /\ r.flags[x] = s.flags[x] /\ r.pri[x] = s.pri[x]
                                /\ r.time_left[x] = s.time_left[x],
         r.running_tasks = s.running_tasks, r.need_resched = s.need_resched,
         r.current_task = s.current_task
  PROVE  Banded(r) /\ Leaves(r) /\ Fair(r, s.current_task)
<1>1. t \notin ToSet(s.running_tasks) /\ t # s.current_task
  BY DEF Well, Ok, Good, Matches, Linked
<1>2. s.running_tasks \in Seq(Slots) /\ s.current_task \in Slots
  BY KernelFields DEF Well, Ok, Good
<1> DEFINE z == s.running_tasks
<1>3. InBands(z, s.pri, s.time_left, {s.current_task})
  BY DEF Well, Banded, Bands
<1>4. \A n \in 1..Len(z) : z[n] \in Slots \ {t}
  <2> HIDE DEF z
  <2>1. z \in Seq(Slots) /\ t \notin ToSet(z) =>
          \A n \in 1..Len(z) : z[n] \in Slots \ {t}
    BY DEF ToSet
  <2>. QED  BY <1>1, <1>2, <2>1 DEF z
<1> HIDE DEF z
<1>5. InBands(z, r.pri, r.time_left, {s.current_task})
  BY <1>3, <1>4 DEF InBands
<1>6. Banded(r)
  BY <1>5 DEF Banded, Bands, z
<1>7. Leaves(r)
  BY <1>1, <1>2 DEF Leaves, Well, Running
<1>. QED
  BY <1>6, <1>7 DEF Fair

\* The end of kill_task(): the structure that goes is off the count now, or is
\* on the list of those that will be.
LEMMA KillTaskResult ==
  ASSUME NEW s, Well(s), NEW t \in Slots \ {Idle}, Linked(s, t)
  PROVE  LET r == remove_task(s, t)
             q == IF t = s.current_task THEN schedule(r) ELSE reclaim_task(r, {t})
         IN  /\ Banded(q) /\ Leaves(q) /\ Fair(q, s.current_task)
             /\ \A x \in Slots \ {t} : Linked(s, x) => Linked(q, x)
             /\ Unlinked(q) \subseteq Unlinked(s)
             /\ Balance(q) = Balance(s)
<1> DEFINE a == remove_node(s, t)
           f == (a.flags[t] \cup {"ZOMBIE"}) \ {"RUNNING"}
           r == [a EXCEPT !.flags[t] = f]
           q == [r EXCEPT !.live = @ \ {t}, !.TaskCount = @ - Cardinality({t})]
<1>1. /\ Good(a) /\ SameBut(a, s)
      /\ ToSet(a.running_tasks) = ToSet(s.running_tasks) \ {t}
      /\ ToSet(a.suspended_tasks) = ToSet(s.suspended_tasks) \ {t}
  BY RemoveTaskNode DEF Well, Ok
<1>2. Bands(a, {s.current_task})
  <2>1. Bands(s, {s.current_task} \cup {t})
    BY BandsWeaken DEF Well, Banded
  <2>. QED  BY <2>1, RemoveBands DEF Well, Ok
<1>3. remove_task(s, t) = r
  BY DEF remove_task
<1> HIDE DEF a
<1>4. a.flags \in [Slots -> SUBSET Flags]
  BY <1>1, KernelFields DEF Good
<1>5. f \in SUBSET Flags /\ "ZOMBIE" \in f /\ "RUNNING" \notin f
  BY <1>4 DEF Flags
<1>6. t \in a.live /\ t \notin ToSet(a.zombie_tasks)
  BY <1>1 DEF Well, Ok, Good, Matches, Linked, SameBut, SameTasks
<1> HIDE DEF f
<1>7. /\ Good(r) /\ r.flags = [a.flags EXCEPT ![t] = f]
      /\ r.pri = a.pri /\ r.forbid_count = a.forbid_count
      /\ r.running_tasks = a.running_tasks
      /\ r.suspended_tasks = a.suspended_tasks
      /\ r.zombie_tasks = a.zombie_tasks /\ r.live = a.live
      /\ r.current_task = a.current_task
      /\ r.time_left = a.time_left /\ r.TaskCount = a.TaskCount
      /\ r.need_resched = a.need_resched
  BY <1>1, <1>5, <1>6, SetFlags
<1> HIDE DEF r
<1>8. r.flags[t] = f /\ \A x \in Slots \ {t} : r.flags[x] = s.flags[x]
  BY <1>1, <1>4, <1>7 DEF SameBut, SameTasks
<1>9. r.current_task = s.current_task /\ Banded(r)
  BY <1>1, <1>2, <1>7 DEF Banded, Bands, SameBut
<1>10. /\ \A x \in Slots \ {t} : Linked(s, x) => Linked(r, x)
       /\ Unlinked(r) \subseteq Unlinked(s) \cup {t} /\ Balance(r) = Balance(s)
  BY <1>1, <1>7 DEF Linked, Unlinked, Balance, SameBut
<1>11. CASE t = s.current_task
  <2>1. /\ Idle \in ToSet(r.running_tasks) /\ t \in r.live
        /\ "ZOMBIE" \in r.flags[t] /\ ~Running(r, t)
        /\ t \notin ToSet(r.zombie_tasks)
    BY <1>1, <1>5, <1>6, <1>7, <1>8 DEF Well, Ok, Running
  <2>2. Result(schedule(r), r) /\ t \notin Unlinked(schedule(r))
    BY <1>7, <1>9, <1>11, <2>1, ScheduleResult
  <2>. QED
    BY <1>3, <1>9, <1>10, <1>11, <2>2 DEF Result, Keeps
<1>12. CASE t # s.current_task
  <2> DEFINE left == r.live \ {t}
             n == r.TaskCount - Cardinality({t})
  <2>1. r \in KernelState /\ r.live \in SUBSET Slots /\ r.TaskCount \in Int
    BY <1>7, KernelFields DEF Good
  <2>2. q = [r EXCEPT !.live = left, !.TaskCount = n]
    BY <2>1 DEF KernelState
  <2>3. Cardinality({t}) = 1 /\ IsFiniteSet(r.live) /\ t \in r.live
    BY <1>6, <1>7, <2>1, SlotsAssumption, FS_Singleton, FS_Subset
  <2>4. Cardinality(left) = Cardinality(r.live) - 1 /\ Cardinality(r.live) \in Nat
    BY <2>1, <2>3, FS_RemoveElement, CardinalityNat
  <2>5. n - Cardinality(left) = r.TaskCount - Cardinality(r.live)
    BY <2>1, <2>3, <2>4
  <2> HIDE DEF n, q
  <2>6. /\ q.live = left /\ q.TaskCount = n /\ SameTasks(q, r)
        /\ q.running_tasks = r.running_tasks /\ q.time_left = r.time_left
        /\ q.suspended_tasks = r.suspended_tasks
        /\ q.zombie_tasks = r.zombie_tasks
        /\ q.current_task = r.current_task /\ q.need_resched = r.need_resched
    BY <2>1, <2>2 DEF KernelState, SameTasks
  <2>7. Balance(q) = Balance(s)
    BY <1>10, <2>5, <2>6 DEF Balance
  <2>8. Banded(q) /\ Fair(q, s.current_task)
    BY <1>9, <2>6 DEF Banded, Bands, SameTasks, Fair
  <2>9. Leaves(q)
    <3>1. s.current_task \in Slots
      BY KernelFields DEF Well, Ok, Good
    <3>. QED
      BY <1>1, <1>7, <1>8, <1>9, <1>12, <2>6, <3>1
         DEF Leaves, Well, Running, SameTasks, SameBut
  <2>10. /\ \A x \in Slots \ {t} : Linked(s, x) => Linked(q, x)
         /\ Unlinked(q) \subseteq Unlinked(s)
    <3>1. \A x \in Slots \ {t} : Linked(s, x) => Linked(q, x)
      BY <1>10, <2>6 DEF Linked
    <3>2. Unlinked(q) \subseteq Unlinked(r) \ {t}
      BY <2>6 DEF Linked, Unlinked
    <3>. QED  BY <1>10, <3>1, <3>2
  <2>11. reclaim_task(r, {t}) = q
    BY DEF reclaim_task, q
  <2>. QED  BY <1>3, <1>12, <2>7, <2>8, <2>9, <2>10, <2>11
<1>. QED
  BY <1>11, <1>12

-----------------------------------------------------------------------------
(* What each action does to k.                                              *)

Right == IInv /\ Banded(k) /\ Leaves(k)

\* The interrupts.
LEMMA IrqResult ==
  ASSUME Right, TimerIrq \/ \E t \in Slots : DeviceIrq(t)
  PROVE  Result(k', k)
<1>1. Well(k)
  BY DEF Right, IInv, Well
<1>2. CASE TimerIrq
  <2>1. Result(tick(k), k) /\ tick(k).current_task = k.current_task /\ Ok(tick(k))
    BY <1>1, TickResult, TickOk DEF Well
  <2>. QED  BY <1>2, <2>1, IntrReturnResult DEF TimerIrq
<1>3. ASSUME NEW t \in Slots, DeviceIrq(t) PROVE Result(k', k)
  <2> DEFINE w == wake_task(k, t, 1)
  <2>1. Result(w, k) /\ Ok(w) /\ w.current_task = k.current_task
    BY <1>1, <1>3, WakeTaskResult, WakeTaskOk DEF DeviceIrq, LinkedTasks, Well
  <2>. QED  BY <1>3, <2>1, IntrReturnResult DEF DeviceIrq
<1>. QED  BY <1>2, <1>3

\* The steps of the current task that change neither live nor TaskCount, except
\* through schedule().
LEMMA CallResult ==
  ASSUME Right,
         \/ Forbid \/ Permit \/ SuspendCurrent \/ SleepInTaskList \/ FinishCall
         \/ ExitBegin \/ KillRefused \/ \E t \in Slots : KillBegin(t)
  PROVE  Result(k', k)
<1>1. Well(k) /\ IInv
  BY DEF Right, IInv, Well
<1>2. c = k.current_task /\ c \in Slots /\ Linked(k, c) /\ k.flags[c] \in SUBSET Flags
  BY <1>1, CurrentTask DEF c
<1>3. CASE Forbid \/ KillRefused \/ \E t \in Slots : KillBegin(t)
  BY <1>1, <1>3, ForbidResult DEF Forbid, KillRefused, KillBegin
<1>4. CASE Permit
  BY <1>1, <1>2, <1>4, PermitResult DEF Permit
<1>5. CASE SuspendCurrent
  <2> DEFINE f == forbid(k)
  <2>1. c # Idle
    BY <1>5, CallersAssumption DEF SuspendCurrent, Makes
  <2>2. Result(f, k) /\ Ok(f) /\ f.current_task = k.current_task
    BY <1>1, ForbidResult, ForbidOk DEF Well
  <2>3. k' = suspend_task(f, c)
    BY <1>5 DEF SuspendCurrent
  <2> HIDE DEF f
  <2>4. Well(f) /\ Linked(f, c)
    BY <1>2, <2>2 DEF Well, Result, Ok
  <2>5. Result(k', f)
    BY <1>2, <2>1, <2>3, <2>4, SuspendTaskResult
  <2>. QED  BY <2>2, <2>5, ResultTrans DEF Result
<1>6. CASE SleepInTaskList
  <2>1. c # Idle /\ k' = suspend_task(k, c)
    BY <1>6, CallersAssumption DEF SleepInTaskList, MaySleep
  <2>. QED  BY <1>1, <1>2, <2>1, SuspendTaskResult
<1>7. CASE FinishCall
  <2>1. todo[c] \in {<<"schedule">>, <<"schedule", "permit">>, <<"permit">>}
    BY <1>1, <1>2, <1>7 DEF FinishCall, IInv, TypeOK
  <2>2. CASE todo[c] = <<"permit">>
    <3>1. k.forbid_count[c] > 0 /\ k' = permit(k)
      BY <1>1, <1>2, <1>7, <2>2, Todos DEF IInv, CallsMatch, FinishCall
    <3>. QED  BY <1>1, <1>2, <3>1, PermitResult
  <2>3. CASE todo[c] # <<"permit">>
    <3>1. k' = schedule(k)
      BY <1>7, <2>1, <2>3, Todos DEF FinishCall
    <3>. QED  BY <1>1, <3>1, ScheduleWell DEF Well
  <2>. QED  BY <2>2, <2>3
<1>8. CASE ExitBegin
  <2> DEFINE f == k.flags[c] \ {"IMMORTAL"}
  <2>1. k' = [k EXCEPT !.flags[c] = f]
    BY <1>8 DEF ExitBegin
  <2>2. /\ f \in SUBSET Flags
        /\ "RUNNING" \in f <=> "RUNNING" \in k.flags[c]
        /\ "ZOMBIE" \in f <=> "ZOMBIE" \in k.flags[c]
    BY <1>2
  <2> HIDE DEF f
  <2>. QED  BY <1>1, <1>2, <2>1, <2>2, OtherFlagsResult
<1>. QED
  BY <1>3, <1>4, <1>5, <1>6, <1>7, <1>8

\* The steps that name another task.
LEMMA TargetResult ==
  ASSUME Right,
         \/ WakeSection \/ AddAppend
         \/ \E t \in Slots : WakeUpFirstTask(t) \/ Freeze(t) \/ Thaw(t)
  PROVE  Result(k', k)
<1>1. Well(k) /\ IInv
  BY DEF Right, IInv, Well
<1>2. Result(k, k)
  BY <1>1, StaysResult DEF Well, Keeps
<1>3. k.flags \in [Slots -> SUBSET Flags] /\ call[c].arg \in Slots
  BY <1>1, CurrentTask, CallArg
<1>4. CASE Clash
  BY <1>2, <1>4 DEF Clash
<1>5. CASE WakeSection
  BY <1>1, <1>3, <1>4, <1>5, WakeSectionResult DEF WakeSection
<1>6. CASE AddAppend
  BY <1>1, <1>4, <1>6, AppendTaskResult DEF AddAppend
<1>7. ASSUME NEW t \in Slots, WakeUpFirstTask(t) PROVE Result(k', k)
  BY <1>1, <1>7, WakeTaskResult DEF WakeUpFirstTask, LinkedTasks
<1>8. ASSUME NEW t \in Slots, Freeze(t) PROVE Result(k', k)
  <2> DEFINE f == k.flags[t] \cup {"FROZEN"}
             s == [k EXCEPT !.flags[t] = f]
  <2>1. CASE Running(k, t) /\ ~Linked(k, t)
    BY <1>4, <1>8, <2>1 DEF Freeze
  <2>2. CASE ~(Running(k, t) /\ ~Linked(k, t))
    <3>1. k' = suspend_task(s, t) /\ t # Idle
      BY <1>8, <2>2, CallersAssumption DEF Freeze
    <3>2. /\ f \in SUBSET Flags
          /\ "RUNNING" \in f <=> "RUNNING" \in k.flags[t]
          /\ "ZOMBIE" \in f <=> "ZOMBIE" \in k.flags[t]
      BY <1>3 DEF Flags
    <3> HIDE DEF f
    <3>3. /\ Result(s, k) /\ Well(s) /\ s.current_task = k.current_task
          /\ Running(s, t) = Running(k, t) /\ Linked(s, t) = Linked(k, t)
      BY <1>1, <3>2, OtherFlagsResult, OtherFlagsOk DEF Well
    <3> HIDE DEF s
    <3>4. Result(k', s)
      BY <2>2, <3>1, <3>3, SuspendTaskResult
    <3>. QED  BY <3>3, <3>4, ResultTrans DEF Result
  <2>. QED  BY <2>1, <2>2
<1>9. ASSUME NEW t \in Slots, Thaw(t) PROVE Result(k', k)
  <2> DEFINE f == k.flags[t] \ {"FROZEN"}
             s == [k EXCEPT !.flags[t] = f]
  <2>1. CASE wakeable(s, t) /\ ~Linked(k, t)
    BY <1>4, <1>9, <2>1 DEF Thaw
  <2>2. CASE ~(wakeable(s, t) /\ ~Linked(k, t))
    <3>1. k' = wake_task(s, t, 0)
      BY <1>9, <2>2 DEF Thaw
    <3>2. /\ f \in SUBSET Flags
          /\ "RUNNING" \in f <=> "RUNNING" \in k.flags[t]
          /\ "ZOMBIE" \in f <=> "ZOMBIE" \in k.flags[t]
      BY <1>3
    <3> HIDE DEF f
    <3>3. /\ Result(s, k) /\ Well(s) /\ s.current_task = k.current_task
          /\ Linked(s, t) = Linked(k, t)
      BY <1>1, <3>2, OtherFlagsResult, OtherFlagsOk DEF Well
    <3> HIDE DEF s
    <3>4. Result(k', s)
      BY <2>2, <3>1, <3>3, WakeTaskResult
    <3>. QED  BY <3>3, <3>4, ResultTrans DEF Result
  <2>. QED  BY <2>1, <2>2
<1>. QED
  BY <1>5, <1>6, <1>7, <1>8, <1>9

\* alloc_task() clears a free entry.
LEMMA AddAllocKernel ==
  ASSUME Right, NEW t \in Slots, AddAlloc(t)
  PROVE  Result(k', k)
<1> DEFINE fl == [k.flags EXCEPT ![t] = {}]
           tl == [k.time_left EXCEPT ![t] = 0]
           fc == [k.forbid_count EXCEPT ![t] = 0]
           r == [k EXCEPT !.flags = fl, !.time_left = tl, !.forbid_count = fc]
<1>1. /\ k \in KernelState /\ k.flags \in [Slots -> SUBSET Flags]
      /\ k.time_left \in [Slots -> Nat] /\ k.forbid_count \in [Slots -> Nat]
  BY KernelFields DEF Right, IInv, TypeOK
<1>2. k' = r
  BY <1>1 DEF AddAlloc, KernelState
<1>3. \A x \in Slots \ {t} : fl[x] = k.flags[x] /\ tl[x] = k.time_left[x]
  BY <1>1
<1> HIDE DEF fl, tl, fc
<1>4. /\ k'.flags = fl /\ k'.pri = k.pri /\ k'.time_left = tl
      /\ k'.live = k.live /\ k'.TaskCount = k.TaskCount
      /\ k'.running_tasks = k.running_tasks
      /\ k'.suspended_tasks = k.suspended_tasks
      /\ k'.zombie_tasks = k.zombie_tasks
      /\ k'.current_task = k.current_task /\ k'.need_resched = k.need_resched
  BY <1>1, <1>2 DEF KernelState
<1>5. t \in Slots \ k.live /\ Well(k)
  BY DEF AddAlloc, Right, IInv, Well
<1>6. Banded(k') /\ Leaves(k')
  BY <1>3, <1>4, <1>5, FreeEntryBands
<1>. QED
  BY <1>4, <1>6, KeepsLists, StaysResult

\* add_task() up to fs->dup() brings an entry to life that is in no list yet.
LEMMA AddFillKernel ==
  ASSUME Right, NEW fl \in NewFlags, NEW p \in Pris, AddFill(fl, p),
         call[c].arg \notin k.live
  PROVE  /\ Banded(k') /\ Leaves(k') /\ Fair(k', k.current_task)
         /\ \A x \in Slots : Linked(k, x) => Linked(k', x)
         /\ Unlinked(k') \subseteq Unlinked(k) \cup {call[c].arg}
         /\ Balance(k') = Balance(k) - 1
<1> DEFINE t == call[c].arg
           fs == [k.flags EXCEPT ![t] = fl]
           ps == [k.pri EXCEPT ![t] = p]
           ls == k.live \cup {t}
           r == [k EXCEPT !.live = ls, !.flags = fs, !.pri = ps]
<1>1. /\ k \in KernelState /\ k.flags \in [Slots -> SUBSET Flags]
      /\ k.pri \in [Slots -> Int] /\ k.live \in SUBSET Slots /\ k.TaskCount \in Int
  BY KernelFields DEF Right, IInv, TypeOK
<1>2. k' = r
  BY <1>1 DEF AddFill, KernelState
<1>3. t \in Slots /\ t \notin k.live
  BY CallArg DEF Right
<1> HIDE DEF t
<1>4. \A x \in Slots \ {t} : fs[x] = k.flags[x] /\ ps[x] = k.pri[x]
  BY <1>1
<1> HIDE DEF fs, ps
<1>5. /\ k'.flags = fs /\ k'.pri = ps /\ k'.time_left = k.time_left
      /\ k'.live = ls /\ k'.TaskCount = k.TaskCount
      /\ k'.running_tasks = k.running_tasks
      /\ k'.suspended_tasks = k.suspended_tasks
      /\ k'.zombie_tasks = k.zombie_tasks
      /\ k'.current_task = k.current_task /\ k'.need_resched = k.need_resched
  BY <1>1, <1>2 DEF KernelState
<1>6. Banded(k') /\ Leaves(k') /\ Fair(k', k.current_task)
  BY <1>3, <1>4, <1>5, FreeEntryBands DEF Right, IInv, Well
<1>7. IsFiniteSet(k.live) /\ Cardinality(k.live) \in Nat
  BY <1>1, SlotsAssumption, FS_Subset, CardinalityNat
<1>8. Cardinality(ls) = Cardinality(k.live) + 1
  BY <1>3, <1>7, FS_AddElement
<1>9. Balance(k') = Balance(k) - 1
  BY <1>1, <1>5, <1>7, <1>8 DEF Balance
<1>10. \A x \in Slots : Linked(k, x) => Linked(k', x)
  BY <1>5 DEF Linked
<1>11. Unlinked(k') \subseteq Unlinked(k) \cup {t}
  BY <1>5 DEF Linked, Unlinked
<1>. QED
  BY <1>6, <1>9, <1>10, <1>11 DEF t

\* The last statement of add_task().
LEMMA AddCountKernel ==
  ASSUME Right, AddCount
  PROVE  /\ Banded(k') /\ Leaves(k') /\ Fair(k', k.current_task)
         /\ \A x \in Slots : Linked(k, x) => Linked(k', x)
         /\ Unlinked(k') = Unlinked(k) /\ Balance(k') = Balance(k) + 1
<1> DEFINE n == k.TaskCount + 1
<1>1. k \in KernelState /\ k.TaskCount \in Int /\ k.live \in SUBSET Slots
  BY KernelFields DEF Right, IInv, TypeOK
<1>2. k' = [k EXCEPT !.TaskCount = n]
  BY DEF AddCount
<1>3. Cardinality(k.live) \in Nat
  BY <1>1, CardinalityNat
<1>4. n - Cardinality(k.live) = (k.TaskCount - Cardinality(k.live)) + 1
  BY <1>1, <1>3
<1> HIDE DEF n
<1>5. /\ k'.flags = k.flags /\ k'.pri = k.pri /\ k'.time_left = k.time_left
      /\ k'.live = k.live /\ k'.TaskCount = n
      /\ k'.running_tasks = k.running_tasks
      /\ k'.suspended_tasks = k.suspended_tasks
      /\ k'.zombie_tasks = k.zombie_tasks
      /\ k'.current_task = k.current_task /\ k'.need_resched = k.need_resched
  BY <1>1, <1>2 DEF KernelState
<1>6. Banded(k') /\ Leaves(k') /\ Fair(k', k.current_task)
  BY <1>5 DEF Right, Banded, Bands, Leaves, Running, Fair
<1>7. Unlinked(k') = Unlinked(k) /\ \A x \in Slots : Linked(k, x) => Linked(k', x)
  BY <1>5 DEF Linked, Unlinked
<1>8. Balance(k') = Balance(k) + 1
  BY <1>4, <1>5 DEF Balance
<1>. QED
  BY <1>6, <1>7, <1>8

\* Every step keeps the bands in order, and its switch, if any, is fair.
LEMMA StepRight ==
  ASSUME Right, [Next]_vars
  PROVE  Banded(k') /\ Leaves(k') /\ Fair(k', k.current_task)
<1>1. CASE UNCHANGED k
  BY <1>1 DEF Right, Fair
<1>2. CASE AddFail \/ Halted \/ \E t \in Slots : WakeTest(t)
  BY <1>1, <1>2 DEF AddFail, Halted, WakeTest, Clash, vars
<1>3. ASSUME NEW fl \in NewFlags, NEW p \in Pris, AddFill(fl, p)
      PROVE  Banded(k') /\ Leaves(k') /\ Fair(k', k.current_task)
  <2>1. CASE call[c].arg \in k.live
    BY <1>1, <1>3, <2>1 DEF AddFill, Clash
  <2>. QED  BY <1>3, <2>1, AddFillKernel
<1>4. CASE KillFinish
  <2> DEFINE t == call[c].arg
  <2>1. CASE ~Linked(k, t)
    BY <1>1, <1>4, <2>1 DEF KillFinish, Clash
  <2>2. CASE Linked(k, t)
    <3>1. k' = IF t = c THEN schedule(remove_task(k, t))
               ELSE reclaim_task(remove_task(k, t), {t})
      BY <1>4, <2>2 DEF KillFinish
    <3>2. t \in Slots /\ t # Idle /\ Well(k)
      BY <1>4, CurrentTask, CallArg DEF KillFinish, At, Right, IInv, CallsMatch, Well
    <3> HIDE DEF t
    <3>. QED  BY <2>2, <3>1, <3>2, KillTaskResult DEF c
  <2>. QED  BY <2>1, <2>2
<1>5. CASE UNCHANGED vars
  BY <1>1, <1>5 DEF vars
<1>. QED
  BY <1>2, <1>3, <1>4, <1>5, IrqResult, CallResult, TargetResult, AddAllocKernel,
     AddCountKernel DEF Next, Result

\* The states a step that leaves the counts alone starts from.
LEMMA InitRight == Init => Right
<1> SUFFICES ASSUME Init PROVE Right
  OBVIOUS
<1>1. /\ k.running_tasks = <<Idle>> /\ k.current_task = Idle
      /\ k.flags[Idle] = {"RUNNING", "IMMORTAL"}
  BY SlotsAssumption DEF Init
<1>2. Banded(k)
  BY <1>1 DEF Banded, Bands, InBands
<1>3. Leaves(k)
  BY <1>1 DEF Leaves, Running
<1>. QED
  BY <1>2, <1>3, InitIInv DEF Right

\* The invariant of the order within a band, and of the current task.
LEMMA RightInvariance == Spec => []Right
<1>1. Right /\ [Next]_vars => Right'
  <2> SUFFICES ASSUME Right, [Next]_vars PROVE Right'
    OBVIOUS
  <2>1. IInv'
    BY NextIInv DEF Right
  <2>. QED  BY <2>1, StepRight DEF Right, Banded, Leaves, Bands, InBands, Running
<1>. QED
  BY InitRight, <1>1, PTL DEF Spec

\* Among the tasks of one priority those whose time is used up wait behind the
\* others, and a current task that cannot run is about to leave the processor
\* (enqueue_task, schedule, suspend_task), for any number of tasks.
THEOREM BandsSafe == Spec => [](BandOrdered /\ SuspendedLeaves)
<1>1. Right => BandOrdered /\ SuspendedLeaves
  BY DEF Right, Banded, Bands, InBands, Leaves, BandOrdered, SuspendedLeaves
<1>. QED
  BY RightInvariance, <1>1, PTL

\* Whenever the processor changes hands it goes to a task of the highest
\* priority, with time to run, and a task in forbid() only loses it by giving
\* up being runnable (schedule, switch_to_head).
THEOREM SwitchSafe == Spec => SwitchIsFair
<1>1. Right /\ [Next]_vars =>
        [k'.current_task # k.current_task =>
           /\ \A t \in ToSet(k'.running_tasks) :
                k'.pri[t] <= k'.pri[k'.current_task]
           /\ k'.time_left[k'.current_task] > 0
           /\ k.forbid_count[k.current_task] > 0
                /\ k'.forbid_count[k.current_task] > 0
                 => ~Running(k', k.current_task)]_vars
  BY StepRight DEF Fair
<1>. QED
  BY RightInvariance, <1>1, PTL DEF Spec, SwitchIsFair

-----------------------------------------------------------------------------
(* The counts.                                                              *)

\* The tasks in add_task() that have set the pid of the new entry and have not
\* counted it yet, in a value f of call.
Adding(f) == {t \in Slots : f[t].op \in {"append", "count"}}

\* CountsMatch, of any values of k and call.
CountsOf(s, f) ==
    /\ \A t \in Unlinked(s) : \E m \in Slots : f[m] = [op |-> "append", arg |-> t]
    /\ Balance(s) = 0 - Cardinality(Adding(f))

\* No task that creates others is named in kill: killed in the middle of
\* add_task() it would leave an entry that is never linked or counted.
AddersNotKilled == \A t \in Targets : "add" \notin Uses[t]

\* A task in add_task() is one that makes this call, and is in a list; kill is
\* under way of the caller itself or of a task an operator may name.
CallersMatch ==
    /\ \A t \in Slots : call[t].op \in {"alloc", "append", "count"} =>
         "add" \in Uses[t] /\ Linked(k, t)
    /\ \A t \in Slots : call[t].op = "kill" =>
         call[t].arg = t \/ call[t].arg \in Targets

\* The inductive invariant of the counts.
CInv == Right /\ CountsMatch /\ CallersMatch

\* CountsOf says what CountsMatch says.
LEMMA CountsForm ==
  ASSUME NEW s \in KernelState, NEW f
  PROVE  /\ Balance(s) \in Int /\ Cardinality(Adding(f)) \in Nat
         /\ Balance(s) = 0 - Cardinality(Adding(f)) <=>
              s.TaskCount = Cardinality(s.live) - Cardinality(Adding(f))
<1>1. s.TaskCount \in Int /\ s.live \in SUBSET Slots
  BY DEF KernelState
<1>2. Adding(f) \in SUBSET Slots
  BY DEF Adding
<1>3. Cardinality(s.live) \in Nat /\ Cardinality(Adding(f)) \in Nat
  BY <1>1, <1>2, CardinalityNat
<1>. QED
  BY <1>1, <1>3 DEF Balance

\* CountsMatch, of the state k and the calls as they are ...
LEMMA CountsNow == ASSUME TypeOK PROVE CountsMatch <=> CountsOf(k, call)
  BY CountsForm DEF TypeOK, CountsMatch, CountsOf, Unlinked, Adding

\* ... and as they will be.
LEMMA CountsNext == ASSUME TypeOK' PROVE CountsMatch' <=> CountsOf(k', call')
  BY CountsForm DEF TypeOK, CountsMatch, CountsOf, Unlinked, Adding, Linked

\* Nobody enters or leaves the uncounted part of add_task().
LEMMA CountsKept ==
  ASSUME NEW r, NEW s, NEW f, NEW g, CountsOf(s, f),
         Unlinked(r) \subseteq Unlinked(s), Balance(r) = Balance(s),
         \A x \in Slots : \/ g[x] = f[x]
                          \/ /\ f[x].op \notin {"append", "count"}
                             /\ g[x].op \notin {"append", "count"}
  PROVE  CountsOf(r, g)
<1>1. Adding(g) = Adding(f)
  BY DEF Adding
<1>2. ASSUME NEW t \in Unlinked(r)
      PROVE  \E m \in Slots : g[m] = [op |-> "append", arg |-> t]
  <2>1. PICK m \in Slots : f[m] = [op |-> "append", arg |-> t]
    BY DEF CountsOf
  <2>. QED  BY <2>1
<1>. QED
  BY <1>1, <1>2 DEF CountsOf

\* The current task moves on to w, and is in the uncounted part of add_task()
\* neither before nor after.
LEMMA OneCall ==
  ASSUME CInv, Keeps(k', k), NEW w, call' = [call EXCEPT ![c] = w],
         call[c].op \notin {"append", "count"}, w.op \notin {"append", "count"},
         w.op = "alloc" => "add" \in Uses[c],
         w.op = "kill" => w.arg = c \/ w.arg \in Targets
  PROVE  CountsOf(k', call') /\ CallersMatch'
<1>1. c \in Slots /\ Linked(k, c) /\ call \in [Slots -> Calls] /\ TypeOK
  BY CurrentTask DEF CInv, Right, IInv
<1>2. call'[c] = w /\ \A x \in Slots \ {c} : call'[x] = call[x]
  BY <1>1
<1>3. CountsOf(k, call)
  BY <1>1, CountsNow DEF CInv
<1>4. CountsOf(k', call')
  <2>1. \A x \in Slots : \/ call'[x] = call[x]
                         \/ /\ call[x].op \notin {"append", "count"}
                            /\ call'[x].op \notin {"append", "count"}
    BY <1>2
  <2>2. Unlinked(k') \subseteq Unlinked(k) /\ Balance(k') = Balance(k)
    BY DEF Keeps
  <2>. QED  BY <1>3, <2>1, <2>2, CountsKept
<1>5. CallersMatch'
  BY <1>1, <1>2 DEF CInv, CallersMatch, Keeps
<1>. QED
  BY <1>4, <1>5

\* A step that leaves the calls and the live tasks alone keeps what they are counted for.
LEMMA SameCalls ==
  ASSUME CInv, Keeps(k', k), call' = call
  PROVE  CountsOf(k', call') /\ CallersMatch'
<1>1. CountsOf(k, call)
  BY CountsNow DEF CInv, Right, IInv
<1>2. CountsOf(k', call')
  BY <1>1, CountsKept DEF Keeps
<1>3. CallersMatch'
  BY DEF CInv, CallersMatch, Keeps
<1>. QED
  BY <1>2, <1>3

\* An entry that is allocated is not in the middle of anything.
LEMMA AddAllocCounts ==
  ASSUME CInv, NEW t \in Slots, AddAlloc(t)
  PROVE  CountsOf(k', call') /\ CallersMatch'
<1>1. Keeps(k', k)
  BY AddAllocKernel DEF CInv, Result
<1>2. c \in Slots /\ c \in k.live /\ Linked(k, c) /\ call \in [Slots -> Calls]
  BY CurrentTask DEF CInv, Right
<1>3. t # c /\ "add" \in Uses[c] /\ call[c].op = "none"
  BY <1>2 DEF AddAlloc, Makes, At
<1>4. ~Linked(k, t)
  BY DEF AddAlloc, CInv, Right, IInv, Ok, Good, Matches, Linked
<1>5. call[t].op \notin {"append", "count"}
  BY <1>4 DEF CInv, CallersMatch
<1>6. /\ call'[t] = NoCall /\ call'[c] = [op |-> "alloc", arg |-> t]
      /\ \A x \in Slots \ {c, t} : call'[x] = call[x]
  BY <1>2, <1>3 DEF AddAlloc
<1>7. CountsOf(k, call)
  BY CountsNow DEF CInv, Right, IInv
<1>8. CountsOf(k', call')
  BY <1>1, <1>3, <1>5, <1>6, <1>7, CountsKept DEF Keeps, NoCall
<1>9. CallersMatch'
  BY <1>1, <1>2, <1>3, <1>6 DEF CInv, CallersMatch, Keeps, NoCall
<1>. QED
  BY <1>8, <1>9

\* The entry is alive, is in no list, and is not counted: its creator says so.
LEMMA AddFillCounts ==
  ASSUME CInv, NEW fl \in NewFlags, NEW p \in Pris, AddFill(fl, p),
         call[c].arg \notin k.live
  PROVE  CountsOf(k', call') /\ CallersMatch'
<1>1. /\ \A x \in Slots : Linked(k, x) => Linked(k', x)
      /\ Unlinked(k') \subseteq Unlinked(k) \cup {call[c].arg}
      /\ Balance(k') = Balance(k) - 1
  BY AddFillKernel DEF CInv
<1>2. c \in Slots /\ Linked(k, c) /\ call \in [Slots -> Calls] /\ k \in KernelState
  BY CurrentTask DEF CInv, Right, IInv, TypeOK
<1>3. call[c].op = "alloc"
  BY DEF AddFill, At
<1>4. call' = [call EXCEPT ![c].op = "append"]
  BY DEF AddFill
<1>5. /\ call'[c] = [op |-> "append", arg |-> call[c].arg]
      /\ \A x \in Slots \ {c} : call'[x] = call[x]
  BY <1>2, <1>4 DEF Calls
<1>6. CountsOf(k, call)
  BY CountsNow DEF CInv, Right, IInv
<1>7. Adding(call') = Adding(call) \cup {c} /\ c \notin Adding(call)
  BY <1>2, <1>3, <1>5 DEF Adding
<1>8. IsFiniteSet(Adding(call)) /\ Cardinality(Adding(call)) \in Nat
  BY SlotsAssumption, FS_Subset, CardinalityNat DEF Adding
<1>9. Cardinality(Adding(call')) = Cardinality(Adding(call)) + 1
  BY <1>7, <1>8, FS_AddElement
<1>10. Balance(k) \in Int /\ Balance(k) = 0 - Cardinality(Adding(call))
  BY <1>2, <1>6, CountsForm DEF CountsOf
<1>11. Balance(k') = 0 - Cardinality(Adding(call'))
  BY <1>1, <1>8, <1>9, <1>10
<1>12. ASSUME NEW t \in Unlinked(k')
       PROVE  \E m \in Slots : call'[m] = [op |-> "append", arg |-> t]
  <2>1. CASE t = call[c].arg
    BY <1>2, <1>5, <2>1
  <2>2. CASE t # call[c].arg
    <3>1. PICK m \in Slots : call[m] = [op |-> "append", arg |-> t]
      BY <1>1, <1>6, <2>2 DEF CountsOf
    <3>. QED  BY <1>3, <1>5, <3>1
  <2>. QED  BY <2>1, <2>2
<1>13. CallersMatch'
  BY <1>1, <1>2, <1>3, <1>5 DEF CInv, CallersMatch
<1>. QED
  BY <1>11, <1>12, <1>13 DEF CountsOf

\* append_task() puts the entry in a list.
LEMMA AddAppendCounts ==
  ASSUME CInv, AddAppend, ~Clash
  PROVE  CountsOf(k', call') /\ CallersMatch'
<1> DEFINE t == call[c].arg
<1>1. /\ t \in k.live /\ ~Linked(k, t) /\ t \notin ToSet(k.zombie_tasks)
      /\ k' = append_task(k, t) /\ call' = [call EXCEPT ![c].op = "count"]
      /\ call[c].op = "append"
  BY DEF AddAppend, At
<1>2. c \in Slots /\ Linked(k, c) /\ call \in [Slots -> Calls]
  BY CurrentTask DEF CInv, Right
<1>3. Keeps(k', k) /\ t \notin Unlinked(k')
  <2>1. Well(k)
    BY DEF CInv, Right, IInv, Well
  <2> HIDE DEF t
  <2>. QED  BY <1>1, <2>1, AppendTaskResult DEF Result
<1>4. /\ call[c] = [op |-> "append", arg |-> t]
      /\ call'[c] = [op |-> "count", arg |-> t]
      /\ \A x \in Slots \ {c} : call'[x] = call[x]
  BY <1>1, <1>2 DEF Calls
<1> HIDE DEF t
<1>5. CountsOf(k, call)
  BY CountsNow DEF CInv, Right, IInv
<1>6. Adding(call') = Adding(call)
  BY <1>4 DEF Adding
<1>7. ASSUME NEW x \in Unlinked(k')
      PROVE  \E m \in Slots : call'[m] = [op |-> "append", arg |-> x]
  <2>1. PICK m \in Slots : call[m] = [op |-> "append", arg |-> x]
    BY <1>3, <1>5 DEF CountsOf, Keeps
  <2>2. m # c
    BY <1>3, <1>4, <2>1
  <2>. QED  BY <1>4, <2>1, <2>2
<1>8. CallersMatch'
  BY <1>2, <1>3, <1>4 DEF CInv, CallersMatch, Keeps
<1>. QED
  BY <1>3, <1>5, <1>6, <1>7, <1>8 DEF CountsOf, Keeps

\* The entry is counted, and its creator leaves add_task().
LEMMA AddCountCounts ==
  ASSUME CInv, AddCount
  PROVE  CountsOf(k', call') /\ CallersMatch'
<1>1. /\ \A x \in Slots : Linked(k, x) => Linked(k', x)
      /\ Unlinked(k') = Unlinked(k) /\ Balance(k') = Balance(k) + 1
  BY AddCountKernel DEF CInv
<1>2. c \in Slots /\ Linked(k, c) /\ call \in [Slots -> Calls] /\ k \in KernelState
  BY CurrentTask DEF CInv, Right, IInv, TypeOK
<1>3. /\ call[c].op = "count" /\ call'[c] = NoCall
      /\ \A x \in Slots \ {c} : call'[x] = call[x]
  BY <1>2 DEF AddCount, At
<1>4. CountsOf(k, call)
  BY CountsNow DEF CInv, Right, IInv
<1>5. Adding(call') = Adding(call) \ {c} /\ c \in Adding(call)
  BY <1>2, <1>3 DEF Adding, NoCall
<1>6. IsFiniteSet(Adding(call)) /\ Cardinality(Adding(call)) \in Nat
  BY SlotsAssumption, FS_Subset, CardinalityNat DEF Adding
<1>7. Cardinality(Adding(call')) = Cardinality(Adding(call)) - 1
  BY <1>5, <1>6, FS_RemoveElement
<1>8. Balance(k) \in Int /\ Balance(k) = 0 - Cardinality(Adding(call))
  BY <1>2, <1>4, CountsForm DEF CountsOf
<1>9. Balance(k') = 0 - Cardinality(Adding(call'))
  BY <1>1, <1>6, <1>7, <1>8
<1>10. ASSUME NEW t \in Unlinked(k')
       PROVE  \E m \in Slots : call'[m] = [op |-> "append", arg |-> t]
  <2>1. PICK m \in Slots : call[m] = [op |-> "append", arg |-> t]
    BY <1>1, <1>4 DEF CountsOf
  <2>. QED  BY <1>3, <2>1
<1>11. CallersMatch'
  BY <1>1, <1>2, <1>3 DEF CInv, CallersMatch, NoCall
<1>. QED
  BY <1>9, <1>10, <1>11 DEF CountsOf

\* The task that is killed is not in add_task(): it is the caller itself, or
\* one that creates no tasks.
LEMMA KillFinishCounts ==
  ASSUME CInv, AddersNotKilled, KillFinish, ~Clash
  PROVE  CountsOf(k', call') /\ CallersMatch'
<1> DEFINE t == call[c].arg
<1>1. /\ call[c].op = "kill" /\ Linked(k, t)
      /\ k' = IF t = c THEN schedule(remove_task(k, t))
              ELSE reclaim_task(remove_task(k, t), {t})
      /\ call' = [call EXCEPT ![c] = NoCall, ![t] = NoCall]
  BY DEF KillFinish, At
<1>2. c \in Slots /\ Linked(k, c) /\ call \in [Slots -> Calls] /\ t \in Slots
  BY CurrentTask, CallArg DEF CInv, Right
<1>3. /\ \A x \in Slots \ {t} : Linked(k, x) => Linked(k', x)
      /\ Unlinked(k') \subseteq Unlinked(k) /\ Balance(k') = Balance(k)
  <2>1. t # Idle /\ Well(k)
    BY <1>1, <1>2 DEF CInv, Right, IInv, CallsMatch, Well
  <2> HIDE DEF t
  <2>. QED  BY <1>1, <1>2, <2>1, KillTaskResult DEF c
<1>4. call[t].op \notin {"alloc", "append", "count"}
  BY <1>1, <1>2 DEF CInv, CallersMatch, AddersNotKilled
<1> HIDE DEF t
<1>5. /\ call'[c] = NoCall /\ call'[t] = NoCall
      /\ \A x \in Slots \ {c, t} : call'[x] = call[x]
  BY <1>1, <1>2
<1>6. CountsOf(k', call')
  <2>1. \A x \in Slots : \/ call'[x] = call[x]
                         \/ /\ call[x].op \notin {"append", "count"}
                            /\ call'[x].op \notin {"append", "count"}
    <3>1. call[c].op \notin {"append", "count"}
      BY <1>1
    <3>2. NoCall.op \notin {"append", "count"}
      BY DEF NoCall
    <3>. QED  BY <1>4, <1>5, <3>1, <3>2
  <2>2. CountsOf(k, call)
    BY CountsNow DEF CInv, Right, IInv
  <2>. QED  BY <1>3, <2>1, <2>2, CountsKept
<1>7. CallersMatch'
  BY <1>3, <1>4, <1>5 DEF CInv, CallersMatch, NoCall
<1>. QED
  BY <1>6, <1>7

\* The other steps of a call.
LEMMA CallCounts ==
  ASSUME CInv,
         \/ ExitBegin \/ \E t \in Slots : KillBegin(t) \/ WakeTest(t)
         \/ (WakeSection \/ AddFail) /\ ~Clash
  PROVE  CountsOf(k', call') /\ CallersMatch'
<1>1. Right /\ Keeps(k, k)
  BY DEF CInv, Keeps
<1>2. CASE ExitBegin
  <2>1. Keeps(k', k)
    BY <1>1, <1>2, CallResult DEF Result
  <2>. QED  BY <1>2, <2>1, OneCall DEF ExitBegin, Makes, At
<1>3. ASSUME NEW t \in Slots, KillBegin(t)
      PROVE  CountsOf(k', call') /\ CallersMatch'
  <2>1. Keeps(k', k)
    BY <1>1, <1>3, CallResult DEF Result
  <2>. QED  BY <1>3, <2>1, OneCall DEF KillBegin, Makes, At
<1>4. ASSUME NEW t \in Slots, WakeTest(t)
      PROVE  CountsOf(k', call') /\ CallersMatch'
  BY <1>1, <1>4, OneCall DEF WakeTest, Makes, At
<1>5. CASE WakeSection /\ ~Clash
  <2>1. Keeps(k', k)
    BY <1>1, <1>5, TargetResult DEF Result
  <2>. QED  BY <1>5, <2>1, OneCall DEF WakeSection, At, NoCall
<1>6. CASE AddFail /\ ~Clash
  BY <1>1, <1>6, OneCall DEF AddFail, At, NoCall
<1>. QED
  BY <1>2, <1>3, <1>4, <1>5, <1>6

\* Every step keeps the counts.
LEMMA NextCounts ==
  ASSUME CInv, AddersNotKilled, [Next]_vars
  PROVE  CInv'
<1>0. Right
  BY DEF CInv
<1>1. Right'
  BY <1>0, StepRight, NextIInv
     DEF Right, Banded, Leaves, Bands, InBands, Running
<1>2. ASSUME CountsOf(k', call'), CallersMatch' PROVE CInv'
  BY <1>1, <1>2, CountsNext DEF CInv, Right, IInv
<1>3. CASE call' = call /\ k' = k
  <2>1. Keeps(k', k)
    BY <1>3 DEF Keeps
  <2>. QED  BY <1>2, <1>3, <2>1, SameCalls
<1>4. CASE Clash \/ UNCHANGED vars \/ Halted
  BY <1>2, <1>4, <1>3 DEF Clash, vars, Halted
<1>5. CASE \/ TimerIrq \/ \E t \in Slots : DeviceIrq(t)
  <2>1. Keeps(k', k) /\ call' = call
    BY <1>0, <1>5, IrqResult DEF Result, TimerIrq, DeviceIrq
  <2>. QED  BY <1>2, <2>1, SameCalls
<1>6. CASE \/ Forbid \/ Permit \/ SuspendCurrent \/ SleepInTaskList \/ FinishCall
           \/ KillRefused
  <2>1. Keeps(k', k) /\ call' = call
    BY <1>0, <1>6, CallResult
       DEF Result, Forbid, Permit, SuspendCurrent, SleepInTaskList, FinishCall,
           KillRefused
  <2>. QED  BY <1>2, <2>1, SameCalls
<1>7. CASE \E t \in Slots : WakeUpFirstTask(t) \/ Freeze(t) \/ Thaw(t)
  <2>1. Keeps(k', k) /\ call' = call
    BY <1>0, <1>7, TargetResult DEF Result, WakeUpFirstTask, Freeze, Thaw, Clash
  <2>. QED  BY <1>2, <2>1, SameCalls
<1>8. CASE \/ ExitBegin \/ WakeSection \/ AddFail
           \/ \E t \in Slots : KillBegin(t) \/ WakeTest(t)
  BY <1>2, <1>4, <1>8, CallCounts
<1>9. CASE \E t \in Slots : AddAlloc(t)
  BY <1>2, <1>9, AddAllocCounts
<1>10. ASSUME NEW fl \in NewFlags, NEW p \in Pris, AddFill(fl, p) PROVE CInv'
  <2>1. CASE call[c].arg \in k.live
    BY <1>4, <1>10, <2>1 DEF AddFill
  <2>. QED  BY <1>2, <1>10, <2>1, AddFillCounts
<1>11. CASE AddAppend
  BY <1>2, <1>4, <1>11, AddAppendCounts
<1>12. CASE AddCount
  BY <1>2, <1>12, AddCountCounts
<1>13. CASE KillFinish
  BY <1>2, <1>4, <1>13, KillFinishCounts
<1>. QED
  BY <1>4, <1>5, <1>6, <1>7, <1>8, <1>9, <1>10, <1>11, <1>12, <1>13 DEF Next

\* The counts at the start.
LEMMA InitCounts == Init => CInv
<1> SUFFICES ASSUME Init PROVE CInv
  OBVIOUS
<1>1. Right
  BY InitRight
<1>2. /\ k.live = {Idle} /\ k.TaskCount = 1 /\ k.running_tasks = <<Idle>>
      /\ \A t \in Slots : call[t].op = "none"
  BY DEF Init, NoCall
<1>3. Adding(call) = {} /\ Unlinked(k) = {}
  BY <1>2 DEF Adding, Unlinked, Linked, ToSet
<1>4. Cardinality(Adding(call)) = 0 /\ Cardinality(k.live) = 1
  BY <1>2, <1>3, FS_EmptySet, FS_Singleton
<1>5. CountsOf(k, call)
  BY <1>2, <1>3, <1>4 DEF CountsOf, Balance
<1>. QED
  BY <1>1, <1>2, <1>5, CountsNow DEF CInv, CallersMatch, Right, IInv

\* Provided nobody kills a task that creates tasks, every live entry is in a
\* list or about to be put in one by add_task(), TaskCount is the number of
\* live entries less those add_task() has still to count, and the order of the
\* bands and of a suspended task's leaving hold with it: for any number of
\* tasks, priorities and callers (task.c, sched.c).
THEOREM AccountsSafe == AddersNotKilled => (Spec => []TasksAccounted)
<1> SUFFICES ASSUME AddersNotKilled PROVE Spec => []TasksAccounted
  OBVIOUS
<1>1. CInv /\ [Next]_vars => CInv'
  BY NextCounts
<1>2. CInv => TasksAccounted
  BY DEF CInv, Right, Banded, Bands, InBands, Leaves, BandOrdered,
         SuspendedLeaves, TasksAccounted
<1>. QED
  BY InitCounts, <1>1, <1>2, PTL DEF Spec
=============================================================================
