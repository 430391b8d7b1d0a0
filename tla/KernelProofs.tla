----------------------------- MODULE KernelProofs ----------------------------
(***************************************************************************)
(* Six parts of the kernel that share no state, each for any value of its  *)
(* constants: semaphores (Semaphore), the queue of interrupts (IrqQueue),  *)
(* the timers (Timers), the devices of the file system (Mounts), virtual   *)
(* machines (Machines) and the system log (Syslog).                        *)
(***************************************************************************)
EXTENDS Semaphore, IrqQueue, Timers, Mounts, Machines, Syslog, ListLemmas,
        FiniteSetTheorems

-----------------------------------------------------------------------------
(* Mutual exclusion and hand-over, for any set of tasks.                    *)

\* What mutual exclusion rests on: the listed tasks are between add_task_list()
\* and the return of schedule(), none of them can return before it has been
\* taken off the list, and signal() only takes its second branch with a waiter.
WaitersListed ==
    /\ \A t \in ToSet(waiting) :
         /\ t \in Tasks
         /\ pc[t] = "suspend" \/ (pc[t] = "schedule" /\ ~runnable[t])
    /\ \A t \in Tasks : pc[t] = "wake" => waiting # <<>>

SemInv == SemTypeOK /\ WaitersListed /\ HandOver

\* Appending a task that is not in the list.
LEMMA AppendListed ==
  ASSUME NEW s \in Seq(Tasks), NEW t \in Tasks, t \notin ToSet(s),
         \A i, j \in 1..Len(s) : s[i] = s[j] => i = j
  PROVE  /\ Append(s, t) \in Seq(Tasks) /\ Append(s, t) # <<>>
         /\ ToSet(Append(s, t)) = ToSet(s) \cup {t}
         /\ \A i, j \in 1..Len(Append(s, t)) :
              Append(s, t)[i] = Append(s, t)[j] => i = j
  BY DEF ToSet

\* Taking the first task off the list.
LEMMA TailListed ==
  ASSUME NEW s \in Seq(Tasks), s # <<>>,
         \A i, j \in 1..Len(s) : s[i] = s[j] => i = j
  PROVE  /\ Tail(s) \in Seq(Tasks) /\ Head(s) \in Tasks /\ Head(s) \in ToSet(s)
         /\ ToSet(Tail(s)) = ToSet(s) \ {Head(s)}
         /\ \A i, j \in 1..Len(Tail(s)) : Tail(s)[i] = Tail(s)[j] => i = j
<1>1. Len(s) \in Nat /\ Len(s) # 0 /\ Head(s) = s[1] /\ DOMAIN s = 1..Len(s)
  OBVIOUS
<1>2. /\ Tail(s) \in Seq(Tasks) /\ Len(Tail(s)) = Len(s) - 1
      /\ DOMAIN Tail(s) = 1..(Len(s) - 1)
      /\ \A i \in 1..(Len(s) - 1) : Tail(s)[i] = s[i + 1]
  BY <1>1
<1>3. ToSet(Tail(s)) \subseteq ToSet(s) \ {Head(s)}
  BY <1>1, <1>2 DEF ToSet
<1>4. ASSUME NEW x \in ToSet(s) \ {Head(s)} PROVE x \in ToSet(Tail(s))
  <2>1. PICK i \in 1..Len(s) : s[i] = x /\ i # 1
    BY <1>1, <1>4 DEF ToSet
  <2>2. i - 1 \in 1..(Len(s) - 1) /\ Tail(s)[i - 1] = x
    BY <1>1, <1>2, <2>1
  <2>. QED  BY <1>2, <2>2 DEF ToSet
<1>. QED  BY <1>1, <1>2, <1>3, <1>4 DEF ToSet

\* Initially the semaphore is open and nobody waits.
LEMMA InitSemInv == SemInit => SemInv
<1> SUFFICES ASSUME SemInit PROVE SemInv
  OBVIOUS
<1>1. ToSet(waiting) = {} /\ Len(waiting) = 0 /\ waiting \in Seq(Tasks)
  BY DEF SemInit, ToSet
<1>2. SemTypeOK
  <2>1. blocked \in BOOLEAN
    BY Zenon DEF SemInit
  <2>2. \A i, j \in 1..Len(waiting) : waiting[i] = waiting[j] => i = j
    <3>1. 1..Len(waiting) = {}
      BY <1>1
    <3>. QED  BY <3>1
  <2>3. runnable \in [Tasks -> BOOLEAN]
    BY Zenon DEF SemInit
  <2>4. pc \in [Tasks -> Steps]
    BY DEF SemInit, Steps
  <2>. QED
    BY <1>1, <2>1, <2>2, <2>3, <2>4 DEF SemTypeOK
<1>3. WaitersListed /\ HandOver
  BY <1>1 DEF SemInit, WaitersListed, HandOver, Owns, InSection, HandedTo
<1>. QED
  BY <1>2, <1>3 DEF SemInv

\* Each step of wait() and signal() preserves the invariant.
LEMMA NextSemInv == SemInv /\ [SemNext]_sem_vars => SemInv'
<1> SUFFICES ASSUME SemInv, [SemNext]_sem_vars PROVE SemInv'
  OBVIOUS
<1> USE DEF SemInv, SemTypeOK, WaitersListed, Steps, HandOver, Owns, InSection, HandedTo, At, Goto
<1>1. ASSUME NEW t \in Tasks, Wait(t) PROVE SemInv'
  BY <1>1 DEF Wait
<1>2. ASSUME NEW t \in Tasks, add_task_list(t) PROVE SemInv'
  <2>1. t \notin ToSet(waiting)
    BY <1>2 DEF add_task_list
  <2>2. ToSet(waiting') = ToSet(waiting) \cup {t} /\ SemTypeOK' /\ waiting' # <<>>
    BY <1>2, <2>1, AppendListed DEF add_task_list
  <2>. QED
    BY <1>2, <2>1, <2>2 DEF add_task_list
<1>3. ASSUME NEW t \in Tasks, suspend_task(t) PROVE SemInv'
  BY <1>3 DEF suspend_task
<1>4. ASSUME NEW t \in Tasks, schedule_returns(t) PROVE SemInv'
  BY <1>4 DEF schedule_returns
<1>5. ASSUME NEW t \in Tasks, Signal(t) PROVE SemInv'
  BY <1>5 DEF Signal
<1>6. ASSUME NEW t \in Tasks, SignalClear(t) PROVE SemInv'
  BY <1>6 DEF SignalClear
<1>7. ASSUME NEW t \in Tasks, wake_up_first_task(t) PROVE SemInv'
  <2>1. /\ waiting # <<>> /\ waiting' = Tail(waiting)
        /\ runnable' = [runnable EXCEPT ![Head(waiting)] = TRUE]
    BY <1>7 DEF wake_up_first_task
  <2>2. /\ SemTypeOK' /\ Head(waiting) \in Tasks /\ Head(waiting) \in ToSet(waiting)
        /\ ToSet(waiting') = ToSet(waiting) \ {Head(waiting)}
    BY <1>7, <2>1, TailListed DEF wake_up_first_task
  <2>3. WaitersListed'
    BY <1>7, <2>1, <2>2 DEF wake_up_first_task
  <2>4. HandOver'
    BY <1>7, <2>1, <2>2 DEF wake_up_first_task
  <2>. QED
    BY <2>2, <2>3, <2>4
<1>8. CASE UNCHANGED sem_vars
  BY <1>8 DEF sem_vars
<1>. QED
  BY <1>1, <1>2, <1>3, <1>4, <1>5, <1>6, <1>7, <1>8 DEF SemNext, Step, Stuck

\* The list of waiters holds tasks, none of them twice (add_task_list puts a task
\* in it without looking whether it is there).
THEOREM SemTypeCorrect == SemSpec => []SemTypeOK
<1>1. SemInv => SemTypeOK
  BY DEF SemInv
<1>. QED
  BY InitSemInv, NextSemInv, <1>1, PTL DEF SemSpec

\* The semaphore is blocked while it is owned, by one task at most: the
\* behaviour of wait() and signal() in vmm/tasks.h, for any number of tasks.
THEOREM HandOverSafe == SemSpec => []HandOver
<1>1. SemInv => HandOver
  BY DEF SemInv
<1>. QED
  BY InitSemInv, NextSemInv, <1>1, PTL DEF SemSpec

\* No two tasks are in the critical section (vmm/tasks.h wait and signal).
THEOREM MutexSafe == SemSpec => []MutualExclusion
<1>1. SemInv => MutualExclusion
  BY DEF SemInv, HandOver, MutualExclusion, Owns
<1>. QED
  BY InitSemInv, NextSemInv, <1>1, PTL DEF SemSpec

\* Waiters are served in the order in which they joined (add_task_list puts a
\* task at the tail, wake_up_first_task takes the one at the head).
THEOREM OrderSafe == SemSpec => ServedInOrder
<1> DEFINE InOrder == \A i \in 1..Len(waiting) :
         \/ i <= Len(waiting') /\ waiting'[i] = waiting[i]
         \/ Len(waiting') = Len(waiting) - 1
              /\ (i = 1 \/ waiting'[i - 1] = waiting[i])
<1>1. SemInv /\ [SemNext]_sem_vars => [InOrder]_sem_vars
  <2> SUFFICES ASSUME SemInv, SemNext PROVE InOrder
    BY DEF sem_vars
  <2> USE DEF SemInv, SemTypeOK
  <2>1. ASSUME NEW t \in Tasks, add_task_list(t) PROVE InOrder
    BY <2>1 DEF add_task_list
  <2>2. ASSUME NEW t \in Tasks, wake_up_first_task(t) PROVE InOrder
    <3>1. CASE waiting = <<>>
      BY <3>1
    <3>2. CASE waiting # <<>>
      <4>1. waiting' = Tail(waiting) /\ Len(waiting) \in Nat \ {0}
        BY <2>2, <3>2 DEF wake_up_first_task
      <4>2. /\ Len(waiting') = Len(waiting) - 1
            /\ \A i \in 1..(Len(waiting) - 1) : waiting'[i] = waiting[i + 1]
        BY <4>1
      <4>3. ASSUME NEW i \in 1..Len(waiting), i # 1
            PROVE  waiting'[i - 1] = waiting[i]
        <5>1. i - 1 \in 1..(Len(waiting) - 1) /\ (i - 1) + 1 = i
          BY <4>1, <4>3
        <5>. QED  BY <4>2, <5>1
      <4>. QED  BY <4>2, <4>3
    <3>. QED  BY <3>1, <3>2
  <2>3. CASE waiting' = waiting
    BY <2>3
  <2>. QED
    BY <2>1, <2>2, <2>3 DEF SemNext, Step, Stuck, sem_vars, Wait, suspend_task,
       schedule_returns, Signal, SignalClear
<1>. QED
  BY InitSemInv, NextSemInv, <1>1, PTL DEF SemSpec, ServedInOrder

-----------------------------------------------------------------------------
(* The ring of queued interrupts and the handlers of the lines, for any    *)
(* lines, drivers and size of the ring: QueueSound is inductive once two   *)
(* facts are added to it, and with them the ring implements IrqFifo.       *)

\* The slot of the n-th oldest interrupt.
Slot(n) == (irq_q_out + n - 1) % QSize

\* A line being given back is one of the lines in use; once its stub is out and
\* until dealloc_queued_irq() is through, the queued handler keeps
\* alloc_queued_irq() from putting a stub in again.
DeallocHolds ==
    /\ dealloc.step # "none" => dealloc.irq \in Irqs
    /\ dealloc.step = "queued" =>
         dealloc.irq \in irq_q_handlers /\ Irq_handlers[dealloc.irq] # "stub"

\* What waits in the ring, and what is being served, are lines in use.
RingHolds ==
    /\ \A n \in 1..irqs_queued : irq_queue[Slot(n)] \in Irqs
    /\ disp = "call" => irq \in Irqs

QInv == QueueSound /\ DeallocHolds /\ RingHolds

-----------------------------------------------------------------------------
(* The arithmetic of the ring.                                              *)

\* An index of the ring moved on by at most its size wraps at most once.
LEMMA WrapsOnce ==
  ASSUME NEW a \in Indices, NEW b \in 0..QSize
  PROVE  (a + b) % QSize = IF a + b < QSize THEN a + b ELSE a + b - QSize
BY QSizeAssumption DEF Indices

\* Moving an index on by n stays in the ring.
LEMMA IndexStays ==
  ASSUME NEW a \in Indices, NEW b \in 0..QSize
  PROVE  (a + b) % QSize \in Indices
BY WrapsOnce, QSizeAssumption DEF Indices

\* The ring is full exactly when all but one of its slots are taken.
LEMMA FullRing ==
  ASSUME NEW a \in Indices, NEW q \in Indices
  PROVE  /\ next_index((a + q) % QSize) = (a + (q + 1)) % QSize
         /\ next_index((a + q) % QSize) # a => q + 1 \in Indices
<1>1. (a + q) % QSize \in Indices /\ q \in 0..QSize /\ q + 1 \in 0..QSize /\ 1 \in 0..QSize
  BY IndexStays, QSizeAssumption DEF Indices
<1>2. (a + q) % QSize = IF a + q < QSize THEN a + q ELSE a + q - QSize
  BY <1>1, WrapsOnce
<1>3. (a + (q + 1)) % QSize = IF a + q + 1 < QSize THEN a + q + 1 ELSE a + q + 1 - QSize
  <2>1. (a + (q + 1)) % QSize
          = IF a + (q + 1) < QSize THEN a + (q + 1) ELSE a + (q + 1) - QSize
    BY <1>1, WrapsOnce
  <2>. QED  BY <2>1, QSizeAssumption DEF Indices
<1>4. ASSUME NEW c \in Indices
      PROVE  next_index(c) = IF c + 1 < QSize THEN c + 1 ELSE c + 1 - QSize
  BY <1>1, WrapsOnce DEF next_index
<1>. QED
  BY <1>1, <1>2, <1>3, <1>4, QSizeAssumption DEF Indices

\* The slots of the waiting interrupts are not the one irq_q_in points to.
LEMMA SlotsApart ==
  ASSUME NEW a \in Indices, NEW q \in Indices, NEW n \in 1..q
  PROVE  /\ (a + n - 1) % QSize \in Indices
         /\ (a + n - 1) % QSize # (a + q) % QSize
<1>1. n - 1 \in 0..QSize /\ q \in 0..QSize /\ a + n - 1 = a + (n - 1)
  BY QSizeAssumption DEF Indices
<1>2. (a + (n - 1)) % QSize
        = IF a + (n - 1) < QSize THEN a + (n - 1) ELSE a + (n - 1) - QSize
  BY <1>1, WrapsOnce
<1>3. (a + q) % QSize = IF a + q < QSize THEN a + q ELSE a + q - QSize
  BY <1>1, WrapsOnce
<1>. QED  BY <1>1, <1>2, <1>3, QSizeAssumption DEF Indices

\* Once irq_q_out has moved on, the n-th oldest is the one that was n+1-th.
LEMMA SlotsMove ==
  ASSUME NEW a \in Indices, NEW n \in 1..QSize
  PROVE  (next_index(a) + n - 1) % QSize = (a + n) % QSize
<1>1. n - 1 \in 0..QSize /\ n \in 0..QSize /\ 1 \in 0..QSize /\ next_index(a) \in Indices
  BY IndexStays, QSizeAssumption DEF Indices, next_index
<1>2. next_index(a) = IF a + 1 < QSize THEN a + 1 ELSE a + 1 - QSize
  BY <1>1, WrapsOnce DEF next_index
<1>3. (a + n) % QSize = IF a + n < QSize THEN a + n ELSE a + n - QSize
  BY <1>1, WrapsOnce
<1>4. (next_index(a) + (n - 1)) % QSize
        = IF next_index(a) + (n - 1) < QSize THEN next_index(a) + (n - 1)
          ELSE next_index(a) + (n - 1) - QSize
  BY <1>1, WrapsOnce
<1>5. next_index(a) + n - 1 = next_index(a) + (n - 1)
  BY <1>1, QSizeAssumption DEF Indices
<1>. QED  BY <1>1, <1>2, <1>3, <1>4, <1>5, QSizeAssumption DEF Indices

\* A line's mask bit is one of the two registers' bits.
LEMMA MaskedLine == ASSUME NEW i \in 0..15 PROVE masked_line(i) \in 0..16
BY DEF masked_line

-----------------------------------------------------------------------------
(* The inductive invariant.                                                 *)

\* The ring is empty and no line is taken when init_irqs() has run.
LEMMA InitQInv == Init => QInv
<1> SUFFICES ASSUME Init PROVE QInv
  OBVIOUS
<1> USE DEF Init
<1>1. 0 \in Indices /\ (0 + 0) % QSize = 0
  BY QSizeAssumption, WrapsOnce DEF Indices
<1>2. TypeOK
  BY <1>1, NoneAssumption DEF TypeOK, NoDealloc
<1>3. RingMatchesCount /\ StubHasHandler
  BY <1>1, NoneAssumption DEF RingMatchesCount, StubHasHandler
<1>4. DeallocHolds /\ RingHolds
  BY DEF DeallocHolds, RingHolds, NoDealloc
<1>. QED
  BY <1>2, <1>3, <1>4 DEF QInv, QueueSound

\* What alloc_irq(), alloc_queued_irq() and dealloc_irq() do to the handlers.
LEMMA LinesQInv ==
  ASSUME QInv, NEW i \in Irqs,
         \/ alloc_irq(i) \/ alloc_queued_irq(i) \/ dealloc_irq_read(i)
         \/ dealloc_irq_write \/ dealloc_irq_clear \/ dealloc_queued_irq
  PROVE  QInv'
<1> USE DEF QInv, QueueSound
<1>1. i \in 0..15 /\ masked_line(i) \in 0..16
  BY IrqsAssumption, MaskedLine
<1>2. UNCHANGED <<ring, task>>
  BY DEF alloc_irq, alloc_queued_irq, dealloc_irq_read, dealloc_irq_write,
         dealloc_irq_clear, dealloc_queued_irq, lines
<1>3. RingMatchesCount' /\ RingHolds'
  BY <1>2 DEF ring, task, RingMatchesCount, RingHolds, Slot
<1>4. TypeOK' /\ StubHasHandler' /\ DeallocHolds'
  <2> USE <1>1, <1>2, NoneAssumption
      DEF TypeOK, StubHasHandler, DeallocHolds, ring, task
  <2>1. CASE alloc_irq(i)
    BY <2>1 DEF alloc_irq
  <2>2. CASE alloc_queued_irq(i)
    BY <2>2 DEF alloc_queued_irq, lines
  <2>3. CASE dealloc_irq_read(i)
    BY <2>3 DEF dealloc_irq_read, lines, NoDealloc
  <2>4. CASE dealloc_irq_write
    <3>1. masked_line(dealloc.irq) \in 0..16
      BY <2>4, MaskedLine, IrqsAssumption DEF dealloc_irq_write
    <3>. QED  BY <2>4, <3>1 DEF dealloc_irq_write
  <2>5. CASE dealloc_irq_clear
    BY <2>5 DEF dealloc_irq_clear, NoDealloc
  <2>6. CASE dealloc_queued_irq
    <3>1. /\ irq_q_handlers' = irq_q_handlers \ {dealloc.irq} /\ dealloc' = NoDealloc
          /\ UNCHANGED <<Irq_handlers, imr>> /\ Irq_handlers[dealloc.irq] # "stub"
      BY <2>6 DEF dealloc_queued_irq
    <3>2. StubHasHandler' /\ DeallocHolds'
      BY <3>1 DEF NoDealloc
    <3>3. irq_q_handlers' \in SUBSET Irqs /\ UNCHANGED <<ring, task>>
      BY <2>6, <3>1 DEF dealloc_queued_irq
    <3>4. TypeOK'
      BY <3>1, <3>3 DEF NoDealloc
    <3>. QED  BY <3>2, <3>4
  <2>. QED  BY <2>1, <2>2, <2>3, <2>4, <2>5, <2>6
<1>. QED  BY <1>3, <1>4

\* An interrupt that is queued takes the slot behind the waiting ones.
LEMMA QueueQInv == ASSUME QInv, NEW i \in Irqs, QueueIrq(i) PROVE QInv'
<1> USE DEF QInv, QueueSound
<1>1. /\ irq_q_out \in Indices /\ irqs_queued \in Indices /\ irq_q_in \in Indices
      /\ irq_q_in = (irq_q_out + irqs_queued) % QSize
      /\ irq_queue \in [Indices -> 0..15] /\ i \in 0..15
  BY IrqsAssumption DEF TypeOK, RingMatchesCount
<1>2. /\ irq_q_in' = next_index(irq_q_in) /\ irq_q_in' # irq_q_out
      /\ irqs_queued' = irqs_queued + 1 /\ running' = TRUE
      /\ irq_queue' = [irq_queue EXCEPT ![irq_q_in] = i]
      /\ UNCHANGED <<irq_q_out, lines, dealloc, disp, irq>>
  BY DEF QueueIrq, queue_irq
<1>3. irqs_queued' \in Indices /\ irq_q_in' = (irq_q_out + irqs_queued') % QSize
  BY <1>1, <1>2, FullRing
<1>4. irq_q_in' \in Indices
  <2>1. irqs_queued' \in 0..QSize
    BY <1>3, QSizeAssumption DEF Indices
  <2>. QED  BY <1>1, <1>3, <2>1, IndexStays
<1>5. RingMatchesCount'
  BY <1>1, <1>2, <1>3, QSizeAssumption DEF RingMatchesCount, Indices
<1>6. TypeOK' /\ StubHasHandler' /\ DeallocHolds'
  BY <1>1, <1>2, <1>3, <1>4 DEF TypeOK, StubHasHandler, DeallocHolds, lines
<1>7. RingHolds'
  <2>1. ASSUME NEW n \in 1..irqs_queued' PROVE irq_queue'[Slot(n)'] \in Irqs
    <3>1. CASE n \in 1..irqs_queued
      <4>1. Slot(n) \in Indices /\ Slot(n) # irq_q_in
        BY <1>1, <3>1, SlotsApart DEF Slot
      <4>. QED  BY <1>1, <1>2, <3>1, <4>1 DEF RingHolds, Slot
    <3>2. CASE n = irqs_queued + 1
      <4>1. irq_q_out + n - 1 = irq_q_out + irqs_queued
        BY <1>1, <3>2, QSizeAssumption DEF Indices
      <4>2. Slot(n) = irq_q_in
        BY <1>1, <4>1 DEF Slot
      <4>. QED  BY <1>1, <1>2, <4>2 DEF Slot
    <3>. QED  BY <1>1, <1>2, <3>1, <3>2, QSizeAssumption DEF Indices
  <2>. QED  BY <1>2, <2>1 DEF RingHolds
<1>. QED  BY <1>5, <1>6, <1>7

\* The dispatcher takes the oldest interrupt; the others move up by one.
LEMMA TakeQInv == ASSUME QInv, TakeIrq PROVE QInv'
<1> USE DEF QInv, QueueSound
<1>1. /\ irq_q_out \in Indices /\ irqs_queued \in Indices /\ irq_q_in \in Indices
      /\ irq_q_in = (irq_q_out + irqs_queued) % QSize /\ irqs_queued > 0
      /\ irq_queue \in [Indices -> 0..15]
  BY DEF TypeOK, RingMatchesCount, TakeIrq
<1>2. /\ irq' = irq_queue[irq_q_out] /\ irq_q_out' = next_index(irq_q_out)
      /\ irqs_queued' = irqs_queued - 1 /\ disp' = "call"
      /\ UNCHANGED <<irq_queue, irq_q_in, lines, dealloc, running>>
  BY DEF TakeIrq
<1>3. irqs_queued' \in Indices /\ irqs_queued \in 1..QSize /\ irq_q_out' \in Indices
  BY <1>1, <1>2, IndexStays, QSizeAssumption DEF Indices, next_index
<1>4. ASSUME NEW n \in 1..irqs_queued' PROVE n + 1 \in 1..irqs_queued /\ Slot(n)' = Slot(n + 1)
  <2>1. n \in 1..QSize /\ n + 1 \in 1..irqs_queued
    BY <1>1, <1>2, <1>4, QSizeAssumption DEF Indices
  <2>2. Slot(n)' = (irq_q_out + n) % QSize
    BY <1>1, <1>2, <2>1, SlotsMove DEF Slot
  <2>3. irq_q_out + n = irq_q_out + (n + 1) - 1
    BY <1>1, <2>1, QSizeAssumption DEF Indices
  <2>. QED  BY <2>1, <2>2, <2>3 DEF Slot
<1>5. irq_q_in' = (irq_q_out' + irqs_queued') % QSize
  <2>1. (irq_q_out' + irqs_queued - 1) % QSize = (irq_q_out + irqs_queued) % QSize
    BY <1>1, <1>2, <1>3, SlotsMove
  <2>2. irq_q_out' + irqs_queued - 1 = irq_q_out' + irqs_queued'
    BY <1>1, <1>2, <1>3, QSizeAssumption DEF Indices
  <2>. QED  BY <1>1, <1>2, <2>1, <2>2
<1>6. irq_q_out = Slot(1) /\ 1 \in 1..irqs_queued
  <2>1. irq_q_out + 1 - 1 = irq_q_out + 0 /\ irq_q_out + 0 < QSize /\ 0 \in 0..QSize
    BY <1>1, QSizeAssumption DEF Indices
  <2>2. (irq_q_out + 0) % QSize = irq_q_out + 0
    BY <1>1, <2>1, WrapsOnce
  <2>. QED  BY <1>1, <2>1, <2>2, QSizeAssumption DEF Slot, Indices
<1>7. TypeOK' /\ StubHasHandler' /\ DeallocHolds' /\ RingMatchesCount'
  BY <1>1, <1>2, <1>3, <1>5
     DEF TypeOK, StubHasHandler, DeallocHolds, RingMatchesCount, lines
<1>8. RingHolds'
  BY <1>2, <1>4, <1>6 DEF RingHolds
<1>. QED  BY <1>7, <1>8

\* The dispatcher's other steps leave the ring alone.
LEMMA OtherQInv ==
  ASSUME QInv, Test \/ CallHandler \/ Suspend \/ UNCHANGED vars PROVE QInv'
<1> USE DEF QInv, QueueSound
<1>1. UNCHANGED <<ring, lines, dealloc, irq>>
  BY DEF Test, CallHandler, Suspend, vars, task
<1>2. disp' = "call" => disp = "call"
  BY DEF Test, CallHandler, Suspend, vars, task
<1>3. disp' = "take" => irqs_queued > 0
  BY DEF Test, CallHandler, Suspend, vars, task, RingMatchesCount, TypeOK, Indices
<1>4. disp' \in {"test", "take", "call", "suspend"} /\ running' \in BOOLEAN
  BY DEF Test, CallHandler, Suspend, vars, task, TypeOK
<1>5. TypeOK'
  BY <1>1, <1>4 DEF TypeOK, ring, lines
<1>6. RingMatchesCount' /\ StubHasHandler' /\ DeallocHolds' /\ RingHolds'
  BY <1>1, <1>2, <1>3
     DEF RingMatchesCount, StubHasHandler, DeallocHolds, RingHolds, Slot, ring, lines
<1>. QED  BY <1>5, <1>6

\* Every step preserves the invariant.
LEMMA NextQInv == QInv /\ [Next]_vars => QInv'
<1> SUFFICES ASSUME QInv, [Next]_vars PROVE QInv'
  OBVIOUS
<1>1. ASSUME NEW i \in Irqs, DropIrq(i) PROVE QInv'
  BY <1>1, OtherQInv DEF DropIrq
<1>2. CASE dealloc_irq_write \/ dealloc_irq_clear \/ dealloc_queued_irq
  <2>1. dealloc.step # "none"
    BY <1>2 DEF dealloc_irq_write, dealloc_irq_clear, dealloc_queued_irq
  <2>2. dealloc.irq \in Irqs
    BY <2>1 DEF QInv, DeallocHolds
  <2>. QED  BY <1>2, <2>2, LinesQInv
<1>. QED
  BY <1>1, <1>2, LinesQInv, QueueQInv, TakeQInv, OtherQInv DEF Next, Dispatcher

\* The ring, its count and the handlers stay consistent (queue_irq,
\* service_queued_irqs, alloc_queued_irq and dealloc_queued_irq of interrupt.c),
\* for any size of the ring, any lines and any drivers.
THEOREM QueueSafe == Spec => []QueueSound
<1>1. QInv => QueueSound
  BY DEF QInv
<1>. QED
  BY InitQInv, NextQInv, <1>1, PTL DEF Spec

-----------------------------------------------------------------------------
(* The refinement of IrqFifo.                                               *)

\* The refinement mapping gives a sequence of lines.
LEMMA FifoType ==
  ASSUME QInv
  PROVE  /\ fifo \in Seq(Irqs) /\ Len(fifo) = irqs_queued
         /\ \A n \in 1..irqs_queued : fifo[n] = irq_queue[Slot(n)]
<1>1. irqs_queued \in Nat
  BY QSizeAssumption DEF QInv, QueueSound, TypeOK, Indices
<1>. QED  BY <1>1 DEF fifo, QInv, RingHolds, Slot

\* An interrupt that finds room in the ring arrives in the fifo.
LEMMA ArriveStep == ASSUME QInv, NEW i \in Irqs, QueueIrq(i) PROVE Fifo!Arrive(i)
<1>1. /\ fifo \in Seq(Irqs) /\ Len(fifo) = irqs_queued
      /\ \A n \in 1..irqs_queued : fifo[n] = irq_queue[Slot(n)]
  BY FifoType
<1>2. QInv'
  BY QueueQInv
<1>3. /\ irq_q_out \in Indices /\ irqs_queued \in Indices /\ irqs_queued' \in Indices
      /\ irq_q_in = (irq_q_out + irqs_queued) % QSize /\ irq_q_in \in Indices
      /\ irq_queue \in [Indices -> 0..15]
  BY <1>2 DEF QInv, QueueSound, TypeOK, RingMatchesCount
<1>4. /\ irqs_queued' = irqs_queued + 1
      /\ irq_queue' = [irq_queue EXCEPT ![irq_q_in] = i]
      /\ UNCHANGED <<irq_q_out, disp, irq>>
  BY DEF QueueIrq, queue_irq
<1>5. ASSUME NEW n \in 1..irqs_queued PROVE irq_queue'[Slot(n)] = fifo[n]
  <2>1. Slot(n) \in Indices /\ Slot(n) # irq_q_in
    BY <1>3, SlotsApart DEF Slot
  <2>. QED  BY <1>1, <1>3, <1>4, <2>1
<1>6. irq_queue'[Slot(irqs_queued + 1)] = i
  <2>1. irq_q_out + (irqs_queued + 1) - 1 = irq_q_out + irqs_queued
    BY <1>3, QSizeAssumption DEF Indices
  <2>2. Slot(irqs_queued + 1) = irq_q_in
    BY <1>3, <2>1 DEF Slot
  <2>. QED  BY <1>3, <1>4, <2>2
<1>7. fifo' = [n \in 1..(irqs_queued + 1) |-> irq_queue'[Slot(n)]]
  BY <1>4 DEF fifo, Slot
<1>8. fifo' = Append(fifo, i)
  <2>1. /\ irqs_queued \in Nat /\ fifo' \in Seq(Irqs) /\ Len(fifo') = irqs_queued + 1
        /\ \A n \in 1..(irqs_queued + 1) :
             fifo'[n] = IF n = irqs_queued + 1 THEN i ELSE fifo[n]
    <3>1. irqs_queued \in Nat
      BY <1>3, QSizeAssumption DEF Indices
    <3>2. ASSUME NEW n \in 1..(irqs_queued + 1)
          PROVE  fifo'[n] = IF n = irqs_queued + 1 THEN i ELSE fifo[n]
      BY <1>5, <1>6, <1>7, <3>1
    <3>3. fifo' \in [1..(irqs_queued + 1) -> Irqs]
      BY <1>1, <1>7, <3>1, <3>2
    <3>. QED  BY <3>1, <3>2, <3>3
  <2>. QED  BY <1>1, <2>1
<1>9. Len(fifo) < QSize - 1 /\ UNCHANGED serving
  BY <1>1, <1>3, <1>4, QSizeAssumption DEF Indices, serving
<1>. QED  BY <1>8, <1>9 DEF Fifo!Arrive

\* What the dispatcher takes is the head of the fifo.
LEMMA TakeStep == ASSUME QInv, TakeIrq PROVE Fifo!Take
<1>1. /\ fifo \in Seq(Irqs) /\ Len(fifo) = irqs_queued
      /\ \A n \in 1..irqs_queued : fifo[n] = irq_queue[Slot(n)]
  BY FifoType
<1>2. QInv' /\ disp = "take" /\ disp' = "call" /\ irq' = irq_queue[irq_q_out]
  BY TakeQInv DEF TakeIrq
<1>3. /\ irq_q_out \in Indices /\ irqs_queued \in Indices
      /\ irqs_queued > 0 /\ irqs_queued' = irqs_queued - 1
      /\ irq_q_out' = next_index(irq_q_out) /\ irq_queue' = irq_queue
  BY DEF QInv, QueueSound, TypeOK, RingMatchesCount, TakeIrq
<1>4. irqs_queued \in Nat \ {0}
  BY <1>3, QSizeAssumption DEF Indices
<1>5. irq_q_out = Slot(1)
  <2>1. irq_q_out + 1 - 1 = irq_q_out + 0 /\ irq_q_out + 0 < QSize /\ 0 \in 0..QSize
    BY <1>3, QSizeAssumption DEF Indices
  <2>2. (irq_q_out + 0) % QSize = irq_q_out + 0
    BY <1>3, <2>1, WrapsOnce
  <2>. QED  BY <1>3, <2>1, <2>2, QSizeAssumption DEF Slot, Indices
<1>6. irq' = Head(fifo) /\ fifo # <<>>
  BY <1>1, <1>2, <1>4, <1>5
<1>7. fifo' = Tail(fifo)
  <2>1. ASSUME NEW n \in 1..(irqs_queued - 1) PROVE fifo'[n] = fifo[n + 1]
    <3>1. n \in 1..QSize /\ n + 1 \in 1..irqs_queued
      BY <1>3, QSizeAssumption DEF Indices
    <3>2. (irq_q_out' + n - 1) % QSize = (irq_q_out + n) % QSize
      BY <1>3, <3>1, SlotsMove
    <3>3. irq_q_out + n = irq_q_out + (n + 1) - 1
      BY <1>3, <3>1, QSizeAssumption DEF Indices
    <3>4. fifo[n + 1] = irq_queue[(irq_q_out + n) % QSize]
      BY <1>1, <3>1, <3>3 DEF Slot
    <3>. QED  BY <1>3, <3>2, <3>4 DEF fifo
  <2>2. fifo' = [n \in 1..(irqs_queued - 1) |-> fifo[n + 1]]
    BY <1>3, <2>1 DEF fifo
  <2>3. /\ Tail(fifo) \in Seq(Irqs) /\ Len(Tail(fifo)) = irqs_queued - 1
        /\ \A n \in 1..(irqs_queued - 1) : Tail(fifo)[n] = fifo[n + 1]
    BY <1>1, <1>4
  <2>4. fifo' \in Seq(Irqs) /\ Len(fifo') = irqs_queued - 1
    BY <1>1, <1>4, <2>2
  <2>5. \A n \in 1..Len(fifo') : fifo'[n] = Tail(fifo)[n]
    BY <2>1, <2>3, <2>4
  <2>. QED  BY <2>3, <2>4, <2>5, SeqEqual
<1>8. serving = None /\ serving' = irq'
  BY <1>2 DEF serving
<1>. QED  BY <1>6, <1>7, <1>8 DEF Fifo!Take

\* Every step is a step of the fifo or leaves it alone.
LEMMA FifoStep == QInv /\ [Next]_vars => [Fifo!FifoNext]_(Fifo!fvars)
<1> SUFFICES ASSUME QInv, [Next]_vars PROVE [Fifo!FifoNext]_(Fifo!fvars)
  OBVIOUS
<1>1. ASSUME UNCHANGED ring, UNCHANGED serving PROVE UNCHANGED Fifo!fvars
  BY <1>1 DEF Fifo!fvars, ring, fifo
<1>2. CASE CallHandler
  <2>1. irq # None /\ serving = irq /\ serving' = None
    BY <1>2, NoneAssumption DEF CallHandler, serving, QInv, RingHolds
  <2>2. UNCHANGED fifo
    BY <1>2 DEF CallHandler, ring, fifo
  <2>. QED  BY <2>1, <2>2 DEF Fifo!Served, Fifo!FifoNext
<1>3. CASE Test \/ Suspend
  BY <1>1, <1>3 DEF Test, Suspend, serving
<1>4. CASE UNCHANGED <<ring, task>>
  BY <1>1, <1>4 DEF task, serving
<1>5. CASE TakeIrq
  BY <1>5, TakeStep DEF Fifo!FifoNext
<1>6. CASE \E i \in Irqs : QueueIrq(i)
  BY <1>6, ArriveStep DEF Fifo!FifoNext
<1>. QED
  BY <1>2, <1>3, <1>4, <1>5, <1>6
     DEF Next, Dispatcher, vars, alloc_irq, alloc_queued_irq, dealloc_irq_read,
         dealloc_irq_write, dealloc_irq_clear, dealloc_queued_irq, DropIrq

\* Queued interrupts are served in the order they came, one at a time, and
\* none is invented or lost once it is in the ring: the ring of interrupt.c
\* implements a bounded FIFO, for any size of the ring.
THEOREM FifoSafe == Spec => ImplementsFifo
<1>1. Init => Fifo!FifoInit
  <2> SUFFICES ASSUME Init PROVE Fifo!FifoInit
    OBVIOUS
  <2>1. fifo = <<>>
    BY DEF Init, fifo
  <2>. QED  BY <2>1 DEF Init, serving, Fifo!FifoInit
<1>. QED
  BY InitQInv, NextQInv, FifoStep, <1>1, PTL DEF Spec, ImplementsFifo

-----------------------------------------------------------------------------
(* Proofs, for any tasks and machines, lengths of sleeps and intervals, and  *)
(* any width of the counter.                                                 *)

Pits == [state : {"none", "adding", "running", "freed"}, mode : Modes, ticking : BOOLEAN,
         interval : Nat]

TimersTypeOK ==
    /\ timer_ticks \in 0..(Width - 1) /\ timer_list \in Seq(Requests)
    /\ wakeup_ticks \in [Requests -> 0..(Width - 1)] /\ left \in [Sleepers -> Nat]
    /\ sleeper \in [Sleepers -> Sleeping \cup {"awake", "adding", "freed"}]
    /\ pit \in [Machines -> Pits] /\ rtc \in [Machines -> {"none", "running"}]
    /\ dispatching \in BOOLEAN /\ clash_t \in {"none", "wrapped", "dangling", "unwoken"}

\* The list is in the order of rising time: Sorted is about falling keys.
Early(w) == [r \in Requests |-> 0 - w[r]]
Ordered(list, w) == NoRepeats(list) /\ Sorted(list, Early(w))

\* Whose request is listed, and whose is not.
PitListed(m) == pit[m].ticking /\ pit[m].state = "running"
Owned ==
    /\ \A m \in Machines : (Listed(Chan0(m)) <=> PitListed(m)) /\ (Listed(Rtc(m)) <=> rtc[m] = "running")
    /\ \A t \in Sleepers : /\ sleeper[t] \in Sleeping => Listed(Sleep(t))
                           /\ sleeper[t] \in {"awake", "adding"} => ~Listed(Sleep(t))

\* What is left of a sleep is the time up to its request.
Remains ==
    \A t \in Sleepers : sleeper[t] \in Sleeping \cup {"adding"} /\ left[t] > 0
        => left[t] = wakeup_ticks[Sleep(t)] - timer_ticks

TInv == TimersTypeOK /\ (clash_t = "none" => Ordered(timer_list, wakeup_ticks) /\ Owned /\ Remains)

\* Each task and each machine has its own requests.
LEMMA RequestForms ==
  /\ \A t \in Sleepers : Sleep(t) \in Requests /\ Sleep(t)[1] = "sleep" /\ Sleep(t)[2] = t
  /\ \A m \in Machines : /\ Chan0(m) \in Requests /\ Chan0(m)[1] = "chan0" /\ Chan0(m)[2] = m
                         /\ Rtc(m) \in Requests /\ Rtc(m)[1] = "rtc" /\ Rtc(m)[2] = m
  /\ \A r \in Requests : \/ \E t \in Sleepers : r = Sleep(t)
                         \/ \E m \in Machines : r = Chan0(m) \/ r = Rtc(m)
  BY DEF Sleep, Chan0, Rtc, Requests

\* No two of these are one.
LEMMA RequestsApart ==
  /\ \A t \in Sleepers : Sleep(t) \in Requests
  /\ \A m \in Machines : Chan0(m) \in Requests /\ Rtc(m) \in Requests
  /\ \A t, u \in Sleepers : Sleep(t) = Sleep(u) => t = u
  /\ \A m, n \in Machines : /\ Chan0(m) = Chan0(n) => m = n
                            /\ Rtc(m) = Rtc(n) => m = n
                            /\ Chan0(m) # Rtc(n)
  /\ \A t \in Sleepers, m \in Machines : Sleep(t) # Chan0(m) /\ Sleep(t) # Rtc(m)
  BY DEF Sleep, Chan0, Rtc, Requests

\* A time that is set fits in a word.
LEMMA SumType ==
  ASSUME timer_ticks \in 0..(Width - 1), NEW n \in Nat
  PROVE  /\ Sum(n) \in 0..(Width - 1)
         /\ Fits(n) => Sum(n) = timer_ticks + n
<1>1. Width \in Nat /\ Width > 0 /\ timer_ticks + n \in Nat /\ timer_ticks \in Nat
  BY TimesAssumption
<1>2. timer_ticks + n < Width => (timer_ticks + n) % Width = timer_ticks + n
  BY <1>1
<1>. QED
  BY <1>1, <1>2 DEF Sum, Fits

\* add_timer() keeps the list in order.
LEMMA InsertTimer ==
  ASSUME NEW list \in Seq(Requests), NEW w \in [Requests -> Nat], NEW r \in Requests,
         r \notin ToSet(list), Ordered(list, w)
  PROVE  /\ insert(list, r, w) \in Seq(Requests)
         /\ Ordered(insert(list, r, w), w)
         /\ ToSet(insert(list, r, w)) = ToSet(list) \cup {r}
<1> DEFINE I == {n \in 1..Len(list) : w[list[n]] >= w[r]}
           key == Early(w)
<1>1. /\ Len(list) \in Nat /\ \A n \in 1..Len(list) : list[n] \in Requests
      /\ \A q \in Requests : w[q] \in Nat /\ key[q] = 0 - w[q]
      /\ key \in [Requests -> Int]
  BY DEF Early
<1>2. NoRepeats(list) /\ Sorted(list, key)
  BY DEF Ordered
<1>0. I \in SUBSET Nat
  OBVIOUS
<1>3. insert(list, r, w) = IF I = {} THEN Append(list, r) ELSE InsertAt(list, Min(I), r)
  <2>1. I # {} => Min(I) \in I
    <3> HIDE DEF I
    <3>. QED
      BY <1>0, MinInSet
  <2>. QED
    BY <2>1 DEF insert, SelectInSeq
<1>4. CASE I = {}
  <2>1. Append(list, r) = InsertAt(list, Len(list) + 1, r)
    BY DEF InsertAt
  <2>2. \A n \in 1..Len(list) : key[list[n]] >= key[r]
    <3> SUFFICES ASSUME NEW n \in 1..Len(list) PROVE key[list[n]] >= key[r]
      OBVIOUS
    <3>1. ~(w[list[n]] >= w[r])
      BY <1>4
    <3> HIDE DEF I, key
    <3>. QED
      BY <1>1, <3>1
  <2> DEFINE i == Len(list) + 1
  <2>3. i \in 1..(Len(list) + 1) /\ \A n \in 1..Len(list) : n < i /\ ~(n >= i)
    BY <1>1
  <2> HIDE DEF I, i, key
  <2>4. Sorted(InsertAt(list, i, r), key)
    BY <1>1, <1>2, <2>2, <2>3, InsertSorted
  <2>5. Sorted(Append(list, r), Early(w))
    BY <2>1, <2>4 DEF i, key
  <2>6. insert(list, r, w) = Append(list, r)
    BY <1>3, <1>4
  <2>. QED
    BY <1>2, <2>5, <2>6, AppendNode DEF Ordered
<1>5. CASE I # {}
  <2>1. Min(I) \in I /\ \A n \in I : Min(I) <= n
    <3> HIDE DEF I
    <3>. QED
      BY <1>0, <1>5, MinInSet
  <2> DEFINE i == Min(I)
  <2>2. i \in 1..Len(list) /\ w[list[i]] >= w[r]
    BY <2>1
  <2>3. ASSUME NEW n \in 1..Len(list)
        PROVE  (n < i => key[list[n]] >= key[r]) /\ (n >= i => key[list[n]] <= key[r])
    <3>1. n < i => n \notin I
      BY <2>1, <2>2
    <3>2. n > i => key[list[i]] >= key[list[n]]
      BY <1>2, <2>2 DEF Sorted
    <3>3. n < i => ~(w[list[n]] >= w[r])
      BY <3>1
    <3>4. list[i] \in Requests /\ list[n] \in Requests /\ i \in Nat /\ n \in Nat
      BY <1>1, <2>2
    <3>5. key[list[i]] <= key[r]
      <4>1. w[list[i]] \in Nat /\ w[r] \in Nat /\ w[list[i]] >= w[r]
        BY <2>2, <3>4
      <4>2. key[list[i]] = 0 - w[list[i]] /\ key[r] = 0 - w[r]
        BY <1>1, <3>4
      <4> HIDE DEF i, I, key
      <4>. QED
        BY <4>1, <4>2
    <3>6. n < i => key[list[n]] >= key[r]
      <4> HIDE DEF i, I, key
      <4>. QED
        BY <1>1, <3>3, <3>4
    <3>7. key[list[i]] \in Int /\ key[list[n]] \in Int /\ key[r] \in Int
      BY <1>1, <3>4
    <3> HIDE DEF i, I, key
    <3>. QED
      BY <3>2, <3>4, <3>5, <3>6, <3>7
  <2>4. i \in 1..(Len(list) + 1)
    BY <1>1, <2>2
  <2> HIDE DEF i
  <2>5. Sorted(InsertAt(list, i, r), key)
    BY <1>1, <1>2, <2>3, <2>4, InsertSorted
  <2>6. /\ InsertAt(list, i, r) \in Seq(Requests) /\ NoRepeats(InsertAt(list, i, r))
        /\ ToSet(InsertAt(list, i, r)) = ToSet(list) \cup {r}
    BY <1>2, <2>4, InsertNode
  <2>. QED
    BY <1>3, <1>5, <2>5, <2>6 DEF Ordered, i
<1>. QED
  BY <1>4, <1>5

\* remove_timer() keeps it, too.
LEMMA RemoveTimer ==
  ASSUME NEW list \in Seq(Requests), NEW w \in [Requests -> Nat], NEW r, Ordered(list, w)
  PROVE  /\ Without(list, r) \in Seq(Requests)
         /\ Ordered(Without(list, r), w)
         /\ ToSet(Without(list, r)) = ToSet(list) \ {r}
<1>1. Early(w) \in [Requests -> Int]
  BY DEF Early
<1>. QED
  BY <1>1, RemoveNode, RemoveSorted DEF Without, Ordered

\* The handler takes the first request.
LEMMA FirstTimer ==
  ASSUME NEW list \in Seq(Requests), NEW w \in [Requests -> Nat], list # <<>>, Ordered(list, w)
  PROVE  /\ Tail(list) \in Seq(Requests) /\ Head(list) \in Requests
         /\ Head(list) \in ToSet(list)
         /\ Ordered(Tail(list), w)
         /\ ToSet(Tail(list)) = ToSet(list) \ {Head(list)}
<1>1. /\ Tail(list) \in Seq(Requests) /\ NoRepeats(Tail(list)) /\ Head(list) \in Requests
      /\ Head(list) \in ToSet(list) /\ ToSet(Tail(list)) = ToSet(list) \ {Head(list)}
  BY TailNode DEF Ordered
<1>2. /\ Len(list) \in Nat /\ Len(Tail(list)) = Len(list) - 1
      /\ \A n \in 1..(Len(list) - 1) : Tail(list)[n] = list[n + 1]
  OBVIOUS
<1>3. Sorted(Tail(list), Early(w))
  <2> DEFINE key == Early(w)
             rest == Tail(list)
  <2>1. \A i, j \in 1..Len(list) : i < j => key[list[i]] >= key[list[j]]
    BY DEF Ordered, Sorted
  <2> SUFFICES ASSUME NEW i \in 1..Len(rest), NEW j \in 1..Len(rest), i < j
               PROVE  key[rest[i]] >= key[rest[j]]
    BY DEF Sorted
  <2>2. /\ i + 1 \in 1..Len(list) /\ j + 1 \in 1..Len(list) /\ i + 1 < j + 1
        /\ rest[i] = list[i + 1] /\ rest[j] = list[j + 1]
    BY <1>2
  <2>. QED
    BY <2>1, <2>2
<1>. QED
  BY <1>1, <1>3 DEF Ordered

\* A request that is not in the list may be set.
LEMMA SetTimer ==
  ASSUME NEW list \in Seq(Requests), NEW w \in [Requests -> Nat], Ordered(list, w),
         NEW r, r \notin ToSet(list), NEW n \in Nat
  PROVE  Ordered(list, [w EXCEPT ![r] = n])
<1>1. \A i \in 1..Len(list) : list[i] \in Requests /\ list[i] # r
  BY DEF ToSet
<1>2. \A i \in 1..Len(list) : Early([w EXCEPT ![r] = n])[list[i]] = Early(w)[list[i]]
  BY <1>1 DEF Early
<1>. QED
  BY <1>2 DEF Ordered, Sorted

\* The requests that are listed have owners; this is what a step of one owner
\* does to the invariant.
LEMMA InvForms ==
  ASSUME TInv, clash_t = "none"
  PROVE  /\ TimersTypeOK /\ Ordered(timer_list, wakeup_ticks) /\ Owned /\ Remains
         /\ wakeup_ticks \in [Requests -> Nat] /\ timer_list \in Seq(Requests)
BY DEF TInv, TimersTypeOK

\* A request that is not listed is set and put into the list.
LEMMA RenewedSafe ==
  ASSUME TInv, clash_t = "none", NEW r \in Requests, NEW n \in Nat,
         NEW list \in Seq(Requests), Ordered(list, wakeup_ticks), r \notin ToSet(list),
         Renewed(r, n, list)
  PROVE  /\ wakeup_ticks' \in [Requests -> 0..(Width - 1)] /\ timer_list' \in Seq(Requests)
         /\ \A q \in Requests \ {r} : wakeup_ticks'[q] = wakeup_ticks[q]
         /\ Ordered(timer_list', wakeup_ticks')
         /\ ToSet(timer_list') = ToSet(list) \cup {r}
         /\ clash_t' \in {"none", "wrapped"}
<1>1. TimersTypeOK /\ wakeup_ticks \in [Requests -> Nat]
  BY InvForms
<1>2. Sum(n) \in 0..(Width - 1) /\ Sum(n) \in Nat
  BY <1>1, SumType DEF TimersTypeOK
<1>3. /\ wakeup_ticks' = [wakeup_ticks EXCEPT ![r] = Sum(n)]
      /\ timer_list' = insert(list, r, wakeup_ticks')
      /\ clash_t' = IF Fits(n) THEN clash_t ELSE "wrapped"
  BY DEF Renewed
<1>4. wakeup_ticks' \in [Requests -> 0..(Width - 1)] /\ wakeup_ticks' \in [Requests -> Nat]
  BY <1>1, <1>2, <1>3 DEF TimersTypeOK
<1>5. Ordered(list, wakeup_ticks')
  BY <1>1, <1>2, <1>3, SetTimer
<1>. QED
  BY <1>1, <1>3, <1>4, <1>5, InsertTimer

\* A task goes to sleep, or is killed.
LEMMA SleepSafe ==
  ASSUME TInv, clash_t = "none", NEW t \in Sleepers,
         (\E n \in Lengths : sleep_for_ticks(t, n)) \/ GoesOn(t) \/ kill_task(t)
  PROVE  TInv'
<1>0. /\ TimersTypeOK /\ Ordered(timer_list, wakeup_ticks) /\ Owned /\ Remains
      /\ wakeup_ticks \in [Requests -> Nat] /\ timer_list \in Seq(Requests)
      /\ Sleep(t) \in Requests
  BY InvForms, RequestsApart
<1> USE DEF Sleeping
<1>1. ASSUME NEW n \in Lengths, sleep_for_ticks(t, n) PROVE TInv'
  <2>1. n \in Nat /\ timer_ticks \in 0..(Width - 1)
    BY <1>0, TimesAssumption DEF TimersTypeOK
  <2>2. Sum(n) \in 0..(Width - 1) /\ Sum(n) \in Nat /\ (Fits(n) => Sum(n) = timer_ticks + n)
    BY <2>1, SumType
  <2>3. /\ sleeper[t] = "awake" /\ sleeper' = [sleeper EXCEPT ![t] = "adding"]
        /\ wakeup_ticks' = [wakeup_ticks EXCEPT ![Sleep(t)] = Sum(n)]
        /\ left' = [left EXCEPT ![t] = IF Fits(n) THEN n ELSE 0]
        /\ UNCHANGED <<timer_ticks, timer_list, pit, rtc, dispatching, clash_t>>
    BY <1>1 DEF sleep_for_ticks
  <2>4. TimersTypeOK'
    BY <1>0, <2>1, <2>2, <2>3 DEF TimersTypeOK
  <2>5. Sleep(t) \notin ToSet(timer_list)
    BY <1>0, <2>3 DEF Owned, Listed
  <2>6. Ordered(timer_list', wakeup_ticks')
    BY <1>0, <2>2, <2>3, <2>5, SetTimer
  <2>7. Owned'
    BY <1>0, <2>3 DEF Owned, Listed, PitListed, TimersTypeOK
  <2>8. Remains'
    <3> SUFFICES ASSUME NEW u \in Sleepers, sleeper'[u] \in Sleeping \cup {"adding"}, left'[u] > 0
                 PROVE  left'[u] = wakeup_ticks'[Sleep(u)] - timer_ticks'
      BY DEF Remains
    <3>1. CASE u = t
      BY <1>0, <2>1, <2>2, <2>3, <3>1 DEF TimersTypeOK
    <3>2. CASE u # t
      <4>1. wakeup_ticks'[Sleep(u)] = wakeup_ticks[Sleep(u)]
        BY <1>0, <2>3, <3>2, RequestsApart
      <4>. QED
        BY <1>0, <2>3, <3>2, <4>1 DEF Remains, TimersTypeOK
    <3>. QED
      BY <3>1, <3>2
  <2>. QED
    BY <2>4, <2>6, <2>7, <2>8 DEF TInv
<1>2. CASE add_timer(t)
  <2>1. /\ sleeper[t] = "adding" /\ sleeper' = [sleeper EXCEPT ![t] = "linked"]
        /\ timer_list' = insert(timer_list, Sleep(t), wakeup_ticks)
        /\ UNCHANGED <<timer_ticks, wakeup_ticks, left, pit, rtc, dispatching, clash_t>>
    BY <1>2 DEF add_timer
  <2>2. Sleep(t) \notin ToSet(timer_list)
    BY <1>0, <2>1 DEF Owned, Listed
  <2>3. /\ timer_list' \in Seq(Requests) /\ Ordered(timer_list', wakeup_ticks)
        /\ ToSet(timer_list') = ToSet(timer_list) \cup {Sleep(t)}
    BY <1>0, <2>1, <2>2, InsertTimer
  <2>4. TimersTypeOK'
    BY <1>0, <2>1, <2>3 DEF TimersTypeOK
  <2>5. Owned'
    BY <1>0, <2>1, <2>3, RequestsApart DEF Owned, Listed, PitListed, TimersTypeOK
  <2>6. Remains'
    BY <1>0, <2>1 DEF Remains, TimersTypeOK
  <2>. QED
    BY <2>1, <2>3, <2>4, <2>5, <2>6 DEF TInv
<1>3. CASE kill_task(t)
  <2>1. /\ sleeper' = [sleeper EXCEPT ![t] = "freed"]
        /\ UNCHANGED <<timer_ticks, timer_list, wakeup_ticks, left, pit, rtc, dispatching, clash_t>>
    BY <1>3 DEF kill_task
  <2>2. TimersTypeOK' /\ Owned' /\ Remains'
    BY <1>0, <2>1 DEF TimersTypeOK, Owned, Listed, PitListed, Remains
  <2>. QED
    BY <1>0, <2>1, <2>2 DEF TInv
<1>4. CASE wait_blocked(t) \/ wait_suspended(t)
  <2>1. PICK place \in Sleeping :
          /\ sleeper[t] \in Sleeping /\ sleeper' = [sleeper EXCEPT ![t] = place]
          /\ UNCHANGED <<timer_ticks, timer_list, wakeup_ticks, left, pit, rtc, dispatching, clash_t>>
    BY <1>4 DEF wait_blocked, wait_suspended
  <2>2. TimersTypeOK' /\ Owned' /\ Remains'
    BY <1>0, <2>1 DEF TimersTypeOK, Owned, Listed, PitListed, Remains
  <2>. QED
    BY <1>0, <2>1, <2>2 DEF TInv
<1>. QED
  BY <1>1, <1>2, <1>3, <1>4 DEF GoesOn

\* start_timer() leaves the request unlisted until the rest of it is done.
LEMMA StartSafe ==
  ASSUME TInv, clash_t = "none", NEW m \in Machines, NEW p \in Pits,
         p.state = "running", Listed(Chan0(m)) <=> p.ticking,
         start_timer(p, m), UNCHANGED <<timer_ticks, left, sleeper, rtc, dispatching>>
  PROVE  TInv'
<1>0. /\ TimersTypeOK /\ Ordered(timer_list, wakeup_ticks) /\ Owned /\ Remains
      /\ wakeup_ticks \in [Requests -> Nat] /\ timer_list \in Seq(Requests)
      /\ Chan0(m) \in Requests
  BY InvForms, RequestsApart
<1>1. CASE p.mode = "periodic"
  <2>1. p.interval \in Nat /\ timer_ticks \in 0..(Width - 1)
    BY <1>0 DEF Pits, TimersTypeOK
  <2>2. Sum(p.interval) \in 0..(Width - 1) /\ Sum(p.interval) \in Nat
    BY <2>1, SumType
  <2>3. /\ timer_list' = IF p.ticking THEN Without(timer_list, Chan0(m)) ELSE timer_list
        /\ wakeup_ticks' = [wakeup_ticks EXCEPT ![Chan0(m)] = Sum(p.interval)]
        /\ pit' = [pit EXCEPT ![m] = [p EXCEPT !.state = "adding"]]
        /\ clash_t' \in {"none", "wrapped"}
    BY <1>1 DEF start_timer
  <2>4. /\ timer_list' \in Seq(Requests) /\ Ordered(timer_list', wakeup_ticks)
        /\ ToSet(timer_list') = ToSet(timer_list) \ {Chan0(m)}
    <3>1. CASE p.ticking
      BY <1>0, <2>3, <3>1, RemoveTimer
    <3>2. CASE ~p.ticking
      BY <1>0, <2>3, <3>2 DEF Listed
    <3>. QED
      BY <3>1, <3>2
  <2>5. Ordered(timer_list', wakeup_ticks')
    BY <1>0, <2>2, <2>3, <2>4, SetTimer
  <2>6. [p EXCEPT !.state = "adding"] \in Pits /\ [p EXCEPT !.state = "adding"].state = "adding"
    BY DEF Pits
  <2>7. TimersTypeOK'
    BY <1>0, <2>2, <2>3, <2>4, <2>6 DEF TimersTypeOK
  <2>8. Owned'
    BY <1>0, <2>3, <2>4, <2>6, RequestsApart DEF Owned, Listed, PitListed, TimersTypeOK
  <2>9. Remains'
    BY <1>0, <2>3, RequestsApart DEF Remains, TimersTypeOK
  <2>. QED
    BY <2>5, <2>7, <2>8, <2>9 DEF TInv
<1>2. CASE p.mode # "periodic"
  <2>1. pit' = [pit EXCEPT ![m] = p] /\ UNCHANGED <<timer_list, wakeup_ticks, clash_t>>
    BY <1>2 DEF start_timer
  <2>2. TimersTypeOK' /\ Remains'
    BY <1>0, <2>1 DEF TimersTypeOK, Remains
  <2>3. Owned'
    BY <1>0, <2>1 DEF Owned, Listed, PitListed, TimersTypeOK
  <2>. QED
    BY <1>0, <2>1, <2>2, <2>3 DEF TInv
<1>. QED
  BY <1>1, <1>2

\* The timer chip of a machine.
LEMMA PitSafe ==
  ASSUME TInv, clash_t = "none", NEW m \in Machines,
         \/ create_vpit(m) \/ timer_ticking(m) \/ vpit_out_high(m) \/ kill_vpit(m)
         \/ \E mode \in Modes : vpit_out_command(m, mode)
         \/ \E i \in Intervals : vpit_out_low(m, i)
  PROVE  TInv'
<1>0. /\ TimersTypeOK /\ Ordered(timer_list, wakeup_ticks) /\ Owned /\ Remains
      /\ wakeup_ticks \in [Requests -> Nat] /\ timer_list \in Seq(Requests)
      /\ Chan0(m) \in Requests /\ pit \in [Machines -> Pits] /\ pit[m] \in Pits
      /\ Listed(Chan0(m)) <=> PitListed(m)
  BY InvForms, RequestsApart DEF TimersTypeOK, Owned
<1>1. CASE create_vpit(m)
  <2>1. PICK i \in Intervals : start_timer([NoPit EXCEPT !.state = "running", !.interval = i], m)
    BY <1>1 DEF create_vpit
  <2> DEFINE p == [NoPit EXCEPT !.state = "running", !.interval = i]
  <2>2. p \in Pits /\ p.state = "running" /\ ~p.ticking
    BY TimesAssumption DEF NoPit, Pits, Modes
  <2>3. pit[m].state = "none" /\ UNCHANGED <<timer_ticks, left, sleeper, rtc, dispatching>>
    BY <1>1 DEF create_vpit
  <2>4. start_timer(p, m) /\ ~Listed(Chan0(m))
    BY <1>0, <2>1, <2>3 DEF PitListed
  <2> HIDE DEF p
  <2>. QED
    BY <2>2, <2>3, <2>4, StartSafe
<1>2. CASE vpit_out_high(m)
  <2>1. /\ pit[m].state = "running" /\ start_timer(pit[m], m)
        /\ UNCHANGED <<timer_ticks, left, sleeper, rtc, dispatching>>
    BY <1>2 DEF vpit_out_high
  <2>. QED
    BY <1>0, <2>1, StartSafe DEF PitListed
<1>3. CASE timer_ticking(m)
  <2>1. /\ pit[m].state = "adding"
        /\ timer_list' = insert(timer_list, Chan0(m), wakeup_ticks)
        /\ pit' = [pit EXCEPT ![m].state = "running", ![m].ticking = TRUE]
        /\ UNCHANGED <<timer_ticks, wakeup_ticks, left, sleeper, rtc, dispatching, clash_t>>
    BY <1>3 DEF timer_ticking
  <2>2. Chan0(m) \notin ToSet(timer_list)
    BY <1>0, <2>1 DEF PitListed, Listed
  <2>3. /\ timer_list' \in Seq(Requests) /\ Ordered(timer_list', wakeup_ticks)
        /\ ToSet(timer_list') = ToSet(timer_list) \cup {Chan0(m)}
    BY <1>0, <2>1, <2>2, InsertTimer
  <2>4. /\ pit' \in [Machines -> Pits] /\ pit'[m].state = "running" /\ pit'[m].ticking
        /\ \A n \in Machines \ {m} : pit'[n] = pit[n]
    BY <1>0, <2>1 DEF Pits
  <2>5. TimersTypeOK' /\ Remains'
    BY <1>0, <2>1, <2>3, <2>4 DEF TimersTypeOK, Remains
  <2>6. Owned'
    BY <1>0, <2>1, <2>3, <2>4, RequestsApart DEF Owned, Listed, PitListed
  <2>. QED
    BY <2>1, <2>3, <2>5, <2>6 DEF TInv
<1>4. CASE kill_vpit(m)
  <2>1. /\ timer_list' = Without(timer_list, Chan0(m))
        /\ pit' = [pit EXCEPT ![m] = [NoPit EXCEPT !.state =
                      IF pit[m].state = "adding" THEN "freed" ELSE "none"]]
        /\ wakeup_ticks' = [wakeup_ticks EXCEPT ![Chan0(m)] = 0]
        /\ UNCHANGED <<timer_ticks, left, sleeper, rtc, dispatching, clash_t>>
    BY <1>4 DEF kill_vpit, Unset
  <2>2. /\ timer_list' \in Seq(Requests) /\ Ordered(timer_list', wakeup_ticks)
        /\ ToSet(timer_list') = ToSet(timer_list) \ {Chan0(m)}
    BY <1>0, <2>1, RemoveTimer
  <2>3. Ordered(timer_list', wakeup_ticks')
    BY <1>0, <2>1, <2>2, SetTimer
  <2>4. /\ pit' \in [Machines -> Pits] /\ ~pit'[m].ticking
        /\ \A n \in Machines \ {m} : pit'[n] = pit[n]
    BY <1>0, <2>1 DEF Pits, NoPit, Modes
  <2>5. 0 \in 0..(Width - 1)
    BY TimesAssumption
  <2>6. TimersTypeOK'
    BY <1>0, <2>1, <2>2, <2>4, <2>5 DEF TimersTypeOK
  <2>7. Owned'
    BY <1>0, <2>1, <2>2, <2>4, RequestsApart DEF Owned, Listed, PitListed
  <2>8. Remains'
    BY <1>0, <2>1, RequestsApart DEF Remains, TimersTypeOK
  <2>. QED
    BY <2>3, <2>6, <2>7, <2>8 DEF TInv
<1>5. CASE \/ \E mode \in Modes : vpit_out_command(m, mode)
           \/ \E i \in Intervals : vpit_out_low(m, i)
  <2>1. /\ \/ \E mode \in Modes : pit' = [pit EXCEPT ![m].mode = mode]
           \/ \E i \in Intervals : pit' = [pit EXCEPT ![m].interval = i]
        /\ UNCHANGED <<timer_ticks, timer_list, wakeup_ticks, left, sleeper, rtc, dispatching, clash_t>>
    BY <1>5 DEF vpit_out_command, vpit_out_low
  <2>2. /\ pit' \in [Machines -> Pits]
        /\ \A n \in Machines : pit'[n].state = pit[n].state /\ pit'[n].ticking = pit[n].ticking
    <3>1. CASE \E mode \in Modes : pit' = [pit EXCEPT ![m].mode = mode]
      BY <1>0, <3>1 DEF Pits
    <3>2. CASE \E i \in Intervals : pit' = [pit EXCEPT ![m].interval = i]
      <4>1. PICK i \in Intervals : pit' = [pit EXCEPT ![m].interval = i]
        BY <3>2
      <4>2. i \in Nat
        BY TimesAssumption
      <4>. QED
        BY <1>0, <4>1, <4>2 DEF Pits
    <3>. QED
      BY <2>1, <3>1, <3>2
  <2>3. TimersTypeOK' /\ Remains'
    BY <1>0, <2>1, <2>2 DEF TimersTypeOK, Remains
  <2>4. Owned'
    BY <1>0, <2>1, <2>2 DEF Owned, Listed, PitListed
  <2>. QED
    BY <1>0, <2>1, <2>3, <2>4 DEF TInv
<1>. QED
  BY <1>1, <1>2, <1>3, <1>4, <1>5

\* The clock of a machine.
LEMMA RtcSafe ==
  ASSUME TInv, clash_t = "none", NEW m \in Machines,
         create_vcmos(m) \/ delete_vcmos(m)
  PROVE  TInv'
<1>0. /\ TimersTypeOK /\ Ordered(timer_list, wakeup_ticks) /\ Owned /\ Remains
      /\ wakeup_ticks \in [Requests -> Nat] /\ timer_list \in Seq(Requests)
      /\ Rtc(m) \in Requests
  BY InvForms, RequestsApart
<1>1. CASE create_vcmos(m)
  <2>1. /\ rtc[m] = "none" /\ rtc' = [rtc EXCEPT ![m] = "running"]
        /\ Renewed(Rtc(m), Second, timer_list)
        /\ UNCHANGED <<timer_ticks, left, sleeper, pit, dispatching>>
    BY <1>1 DEF create_vcmos
  <2>2. Rtc(m) \notin ToSet(timer_list) /\ Second \in Nat
    BY <1>0, <2>1, TimesAssumption DEF Owned, Listed
  <2>3. /\ wakeup_ticks' \in [Requests -> 0..(Width - 1)] /\ timer_list' \in Seq(Requests)
        /\ \A q \in Requests \ {Rtc(m)} : wakeup_ticks'[q] = wakeup_ticks[q]
        /\ Ordered(timer_list', wakeup_ticks')
        /\ ToSet(timer_list') = ToSet(timer_list) \cup {Rtc(m)}
        /\ clash_t' \in {"none", "wrapped"}
    BY <1>0, <2>1, <2>2, RenewedSafe
  <2>4. TimersTypeOK'
    BY <1>0, <2>1, <2>3 DEF TimersTypeOK
  <2>5. Owned'
    BY <1>0, <2>1, <2>3, RequestsApart DEF Owned, Listed, PitListed, TimersTypeOK
  <2>6. Remains'
    BY <1>0, <2>1, <2>3, RequestsApart DEF Remains
  <2>. QED
    BY <2>3, <2>4, <2>5, <2>6 DEF TInv
<1>2. CASE delete_vcmos(m)
  <2>1. /\ rtc' = [rtc EXCEPT ![m] = "none"]
        /\ timer_list' = Without(timer_list, Rtc(m))
        /\ wakeup_ticks' = [wakeup_ticks EXCEPT ![Rtc(m)] = 0]
        /\ UNCHANGED <<timer_ticks, left, sleeper, pit, dispatching, clash_t>>
    BY <1>2 DEF delete_vcmos, Unset
  <2>2. /\ timer_list' \in Seq(Requests) /\ Ordered(timer_list', wakeup_ticks)
        /\ ToSet(timer_list') = ToSet(timer_list) \ {Rtc(m)}
    BY <1>0, <2>1, RemoveTimer
  <2>zero. 0 \in 0..(Width - 1)
    BY TimesAssumption
  <2>3. Ordered(timer_list', wakeup_ticks') /\ 0 \in 0..(Width - 1)
    BY <1>0, <2>1, <2>2, <2>zero, SetTimer
  <2>4. TimersTypeOK'
    BY <1>0, <2>1, <2>2, <2>3 DEF TimersTypeOK
  <2>5. Owned'
    BY <1>0, <2>1, <2>2, RequestsApart DEF Owned, Listed, PitListed, TimersTypeOK
  <2>6. Remains'
    BY <1>0, <2>1, RequestsApart DEF Remains, TimersTypeOK
  <2>. QED
    BY <2>3, <2>4, <2>5, <2>6 DEF TInv
<1>. QED
  BY <1>1, <1>2

\* The clock ticks: what is left of a sleep falls with the time that remains, and
\* the counter wraps round only when nothing is left of any.
LEMMA TickSafe ==
  ASSUME TInv, clash_t = "none", cmos_timer
  PROVE  TInv'
<1>0. /\ TimersTypeOK /\ Ordered(timer_list, wakeup_ticks) /\ Owned /\ Remains
      /\ wakeup_ticks \in [Requests -> Nat] /\ timer_list \in Seq(Requests)
  BY InvForms
<1>1. /\ timer_ticks' = (timer_ticks + 1) % Width /\ dispatching' = TRUE
      /\ left' = [t \in Sleepers |-> IF left[t] > 0 THEN left[t] - 1 ELSE 0]
      /\ UNCHANGED <<timer_list, wakeup_ticks, sleeper, pit, rtc, clash_t>>
  BY DEF cmos_timer
<1>2. /\ Width \in Nat /\ Width > 0 /\ timer_ticks \in 0..(Width - 1)
      /\ timer_ticks' \in 0..(Width - 1)
      /\ timer_ticks + 1 < Width => timer_ticks' = timer_ticks + 1
  BY <1>0, <1>1, SumType, TimesAssumption DEF TimersTypeOK, Sum, Fits
<1>3. TimersTypeOK'
  BY <1>0, <1>1, <1>2 DEF TimersTypeOK
<1>4. Owned'
  BY <1>0, <1>1 DEF Owned, Listed, PitListed
<1>5. Remains'
  <2> SUFFICES ASSUME NEW t \in Sleepers, sleeper'[t] \in Sleeping \cup {"adding"}, left'[t] > 0
               PROVE  left'[t] = wakeup_ticks'[Sleep(t)] - timer_ticks'
    BY DEF Remains
  <2>1. left[t] \in Nat /\ left[t] > 1 /\ left'[t] = left[t] - 1
    BY <1>0, <1>1 DEF TimersTypeOK
  <2>2. left[t] = wakeup_ticks[Sleep(t)] - timer_ticks
    BY <1>0, <1>1, <2>1 DEF Remains
  <2>3. wakeup_ticks[Sleep(t)] \in 0..(Width - 1)
    BY <1>0, RequestsApart DEF TimersTypeOK
  <2>. QED
    BY <1>1, <1>2, <2>1, <2>2, <2>3
<1>. QED
  BY <1>0, <1>1, <1>3, <1>4, <1>5 DEF TInv

\* The function that is called is the one of the first request.
LEMMA DispatchForms ==
  ASSUME dispatch, Head(timer_list) \in Requests
  PROVE  LET r == Head(timer_list)
             rest == Tail(timer_list)
         IN  \/ \E t \in Sleepers : r = Sleep(t) /\ signal(t, rest)
             \/ \E m \in Machines : r = Chan0(m) /\ vpit_timer_handler(m, rest)
             \/ \E m \in Machines : r = Rtc(m) /\ rtc_update(m, rest)
<1> DEFINE r == Head(timer_list)
           rest == Tail(timer_list)
<1>1. CASE r[1] = "sleep"
  <2>1. signal(r[2], rest)
    BY <1>1 DEF dispatch
  <2>. QED
    BY <1>1, <2>1, RequestForms
<1>2. CASE r[1] = "chan0"
  <2>1. vpit_timer_handler(r[2], rest)
    BY <1>2 DEF dispatch
  <2>. QED
    BY <1>2, <2>1, RequestForms
<1>3. CASE r[1] = "rtc"
  <2>1. rtc_update(r[2], rest)
    BY <1>3 DEF dispatch
  <2>. QED
    BY <1>3, <2>1, RequestForms
<1>. QED
  BY <1>1, <1>2, <1>3, RequestForms

\* The first request is taken out and its function called.
LEMMA DispatchSafe ==
  ASSUME TInv, clash_t = "none", dispatch
  PROVE  TInv'
<1> DEFINE r == Head(timer_list)
           rest == Tail(timer_list)
<1>0. /\ TimersTypeOK /\ Ordered(timer_list, wakeup_ticks) /\ Owned /\ Remains
      /\ wakeup_ticks \in [Requests -> Nat] /\ timer_list \in Seq(Requests)
      /\ timer_list # <<>>
  BY InvForms DEF dispatch, expired
<1>1. /\ rest \in Seq(Requests) /\ r \in Requests /\ r \in ToSet(timer_list)
      /\ Ordered(rest, wakeup_ticks) /\ ToSet(rest) = ToSet(timer_list) \ {r}
  BY <1>0, FirstTimer
<1>2. 0 \in 0..(Width - 1) /\ Second \in Nat
  BY TimesAssumption
<1>3. UNCHANGED <<timer_ticks, left, dispatching>>
  BY DEF dispatch
<1>4. ASSUME NEW t \in Sleepers, r = Sleep(t), signal(t, rest) PROVE TInv'
  <2>1. /\ timer_list' = rest
        /\ sleeper' = [sleeper EXCEPT ![t] = IF @ \in {"linked", "asleep"} THEN "awake" ELSE @]
        /\ clash_t' \in {"none", "dangling", "unwoken"}
        /\ sleeper[t] \in {"freed", "joining"} => clash_t' # "none"
        /\ wakeup_ticks' = [wakeup_ticks EXCEPT ![r] = 0]
        /\ UNCHANGED <<pit, rtc>>
    BY <1>4 DEF signal, Unset
  <2> HIDE DEF r, rest
  <2>2. Ordered(timer_list', wakeup_ticks')
    BY <1>0, <1>1, <2>1, SetTimer
  <2>3. TimersTypeOK'
    BY <1>0, <1>1, <1>2, <1>3, <2>1 DEF TimersTypeOK
  <2>4. sleeper[t] \in {"linked", "joining", "asleep", "freed"}
    BY <1>0, <1>1, <1>4 DEF Owned, Listed, TimersTypeOK, Sleeping
  <2> SUFFICES ASSUME clash_t' = "none" PROVE Owned' /\ Remains'
    BY <2>2, <2>3 DEF TInv
  <2>5. sleeper[t] \in {"linked", "asleep"} /\ sleeper'[t] = "awake" /\ "awake" \notin Sleeping
    BY <1>0, <2>1, <2>4 DEF TimersTypeOK, Sleeping
  <2>6. \A u \in Sleepers : u # t => sleeper'[u] = sleeper[u]
    BY <1>0, <2>1 DEF TimersTypeOK
  <2>7. Owned'
    BY <1>0, <1>1, <1>4, <2>1, <2>5, <2>6, RequestsApart DEF Owned, Listed, PitListed
  <2>8. Remains'
    <3> SUFFICES ASSUME NEW u \in Sleepers, sleeper'[u] \in Sleeping \cup {"adding"}, left'[u] > 0
                 PROVE  left'[u] = wakeup_ticks'[Sleep(u)] - timer_ticks'
      BY DEF Remains
    <3>1. u # t
      BY <2>5
    <3>2. wakeup_ticks'[Sleep(u)] = wakeup_ticks[Sleep(u)] /\ sleeper'[u] = sleeper[u]
      BY <1>0, <1>4, <2>1, <2>6, <3>1, RequestsApart DEF TimersTypeOK
    <3>. QED
      BY <1>0, <1>3, <3>2 DEF Remains
  <2>. QED
    BY <2>7, <2>8
<1>5. ASSUME NEW m \in Machines, r = Chan0(m), vpit_timer_handler(m, rest) PROVE TInv'
  <2>1. /\ pit' = [pit EXCEPT ![m].ticking = (pit[m].mode = "periodic")]
        /\ UNCHANGED <<sleeper, rtc>>
    BY <1>5 DEF vpit_timer_handler
  <2>2. pit[m] \in Pits /\ pit[m].interval \in Nat /\ pit[m].state = "running"
    BY <1>0, <1>1, <1>5 DEF TimersTypeOK, Pits, Owned, Listed, PitListed
  <2>3. /\ pit' \in [Machines -> Pits] /\ pit'[m].state = "running"
        /\ pit'[m].ticking = (pit[m].mode = "periodic")
        /\ \A n \in Machines \ {m} : pit'[n] = pit[n]
    BY <1>0, <2>1, <2>2 DEF TimersTypeOK, Pits
  <2>4. CASE pit[m].mode = "periodic"
    <3>1. Renewed(r, pit[m].interval, rest)
      BY <1>5, <2>4 DEF vpit_timer_handler
    <3> HIDE DEF r, rest
    <3>2. /\ wakeup_ticks' \in [Requests -> 0..(Width - 1)] /\ timer_list' \in Seq(Requests)
          /\ \A q \in Requests \ {r} : wakeup_ticks'[q] = wakeup_ticks[q]
          /\ Ordered(timer_list', wakeup_ticks')
          /\ ToSet(timer_list') = ToSet(rest) \cup {r}
          /\ clash_t' \in {"none", "wrapped"}
      BY <1>1, <2>2, <3>1, RenewedSafe
    <3>3. TimersTypeOK'
      BY <1>0, <1>3, <2>1, <2>3, <3>2 DEF TimersTypeOK
    <3>4. Owned'
      BY <1>0, <1>1, <1>5, <2>1, <2>3, <2>4, <3>2, RequestsApart DEF Owned, Listed, PitListed
    <3>5. Remains'
      BY <1>0, <1>3, <1>5, <2>1, <3>2, RequestsApart DEF Remains
    <3>. QED
      BY <3>2, <3>3, <3>4, <3>5 DEF TInv
  <2>5. CASE pit[m].mode # "periodic"
    <3>1. /\ timer_list' = rest /\ wakeup_ticks' = [wakeup_ticks EXCEPT ![r] = 0]
          /\ clash_t' = clash_t
      BY <1>5, <2>5 DEF vpit_timer_handler, Unset
    <3> HIDE DEF r, rest
    <3>2. Ordered(timer_list', wakeup_ticks')
      BY <1>0, <1>1, <3>1, SetTimer
    <3>3. TimersTypeOK'
      BY <1>0, <1>1, <1>2, <1>3, <2>1, <2>3, <3>1 DEF TimersTypeOK
    <3>4. Owned'
      BY <1>0, <1>1, <1>5, <2>1, <2>3, <2>5, <3>1, RequestsApart DEF Owned, Listed, PitListed
    <3>5. Remains'
      BY <1>0, <1>3, <1>5, <2>1, <3>1, RequestsApart DEF Remains, TimersTypeOK
    <3>. QED
      BY <3>2, <3>3, <3>4, <3>5 DEF TInv
  <2>. QED
    BY <2>4, <2>5
<1>6. ASSUME NEW m \in Machines, r = Rtc(m), rtc_update(m, rest) PROVE TInv'
  <2>1. Renewed(r, Second, rest) /\ UNCHANGED <<sleeper, pit, rtc>>
    BY <1>6 DEF rtc_update
  <2> HIDE DEF r, rest
  <2>2. /\ wakeup_ticks' \in [Requests -> 0..(Width - 1)] /\ timer_list' \in Seq(Requests)
        /\ \A q \in Requests \ {r} : wakeup_ticks'[q] = wakeup_ticks[q]
        /\ Ordered(timer_list', wakeup_ticks')
        /\ ToSet(timer_list') = ToSet(rest) \cup {r}
        /\ clash_t' \in {"none", "wrapped"}
    BY <1>1, <1>2, <2>1, RenewedSafe
  <2>3. TimersTypeOK'
    BY <1>0, <1>3, <2>1, <2>2 DEF TimersTypeOK
  <2>4. Owned'
    BY <1>0, <1>1, <2>1, <2>2 DEF Owned, Listed, PitListed
  <2>5. Remains'
    BY <1>0, <1>3, <1>6, <2>1, <2>2, RequestsApart DEF Remains
  <2>. QED
    BY <2>2, <2>3, <2>4, <2>5 DEF TInv
<1>7. \/ \E t \in Sleepers : r = Sleep(t) /\ signal(t, rest)
      \/ \E m \in Machines : r = Chan0(m) /\ vpit_timer_handler(m, rest)
      \/ \E m \in Machines : r = Rtc(m) /\ rtc_update(m, rest)
  BY <1>1, DispatchForms
<1>. QED
  BY <1>4, <1>5, <1>6, <1>7

\* Every step keeps the invariant.
LEMMA TNextSafe ==
  ASSUME TInv, [TNext]_tvars
  PROVE  TInv'
<1>1. CASE UNCHANGED tvars
  BY <1>1 DEF tvars, TInv, TimersTypeOK, Owned, Listed, PitListed, Remains
<1>2. CASE TNext
  <2>1. clash_t = "none"
    BY <1>2 DEF TNext
  <2>2. CASE dispatched
    BY <2>1, <2>2, InvForms DEF dispatched, TInv, TimersTypeOK, Owned, Listed, PitListed, Remains
  <2>3. ASSUME NEW m \in Machines, add_freed(m) PROVE TInv'
    BY <2>1, <2>3, InvForms DEF add_freed, TInv, TimersTypeOK
  <2>. QED
    BY <1>2, <2>1, <2>2, <2>3, TickSafe, DispatchSafe, SleepSafe, PitSafe, RtcSafe
       DEF TNext, Kernel
<1>. QED
  BY <1>1, <1>2

\* At the start nothing is listed.
LEMMA TInitSafe ==
  ASSUME TInit
  PROVE  TInv
<1>1. 0 \in 0..(Width - 1)
  BY TimesAssumption
<1>2. TimersTypeOK
  <2>1. NoPit \in Pits
    BY DEF NoPit, Pits, Modes
  <2>2. timer_list \in Seq(Requests)
    BY DEF TInit
  <2>. QED
    BY <1>1, <2>1, <2>2 DEF TInit, TimersTypeOK
<1>3. Ordered(timer_list, wakeup_ticks) /\ ToSet(timer_list) = {}
  BY DEF TInit, Ordered, NoRepeats, Sorted, ToSet
<1>4. Owned /\ Remains
  BY <1>3 DEF TInit, Owned, Listed, PitListed, NoPit, Remains, Sleeping
<1>. QED
  BY <1>2, <1>3, <1>4 DEF TInv

\* add_timer(), remove_timer() and cmos_timer() keep the list of requests in the
\* order of time and in agreement with what tasks, chips and clocks believe.
THEOREM TimersSafe ==
  TSpec => []TimersListed
<1>1. TInv => TimersListed
  <2> SUFFICES ASSUME TInv, clash_t = "none" PROVE TimersListed
    BY DEF TimersListed
  <2>1. /\ Ordered(timer_list, wakeup_ticks) /\ Owned
        /\ wakeup_ticks \in [Requests -> Nat] /\ timer_list \in Seq(Requests)
    BY InvForms
  <2>2. ASSUME NEW i \in DOMAIN timer_list, NEW j \in DOMAIN timer_list, i < j
        PROVE  /\ timer_list[i] # timer_list[j]
               /\ wakeup_ticks[timer_list[i]] <= wakeup_ticks[timer_list[j]]
    <3>1. /\ i \in 1..Len(timer_list) /\ j \in 1..Len(timer_list) /\ i # j
          /\ timer_list[i] \in Requests /\ timer_list[j] \in Requests
      BY <2>1, <2>2
    <3>2. /\ timer_list[i] # timer_list[j]
          /\ Early(wakeup_ticks)[timer_list[i]] >= Early(wakeup_ticks)[timer_list[j]]
      BY <2>1, <2>2, <3>1 DEF Ordered, NoRepeats, Sorted
    <3>3. wakeup_ticks[timer_list[i]] \in Nat /\ wakeup_ticks[timer_list[j]] \in Nat
      BY <2>1, <3>1
    <3>. QED
      BY <3>1, <3>2, <3>3 DEF Early
  <2>. QED
    BY <2>1, <2>2 DEF TimersListed, Owned, PitListed
<1>. QED
  BY TInitSafe, TNextSafe, <1>1, PTL DEF TSpec

\* cmos_timer() signals the semaphore of a sleeper only when it has slept for as
\* long as sleep_for_ticks() was told.
THEOREM SleepsSafe ==
  TSpec => NeverEarly
<1>1. ASSUME TInv, [TNext]_tvars
      PROVE  [\A t \in Sleepers : sleeper[t] \in Sleeping /\ sleeper'[t] = "awake" => left[t] = 0]_tvars
  <2> SUFFICES ASSUME TNext, NEW t \in Sleepers, sleeper[t] \in Sleeping, sleeper'[t] = "awake"
               PROVE  left[t] = 0
    BY <1>1
  <2>1. clash_t = "none"
    BY DEF TNext
  <2>2. TimersTypeOK /\ Remains /\ timer_list \in Seq(Requests)
    BY <1>1, <2>1, InvForms
  <2>3. dispatch
    BY <2>2 DEF TNext, Kernel, cmos_timer, dispatched, GoesOn, add_timer, wait_blocked,
                wait_suspended, Sleeping, sleep_for_ticks, kill_task,
                create_vpit, timer_ticking, vpit_out_high, kill_vpit, vpit_out_command,
                vpit_out_low, create_vcmos, delete_vcmos, add_freed, TimersTypeOK
  <2>4. timer_list # <<>> /\ Head(timer_list) \in Requests
        /\ wakeup_ticks[Head(timer_list)] <= timer_ticks
    BY <2>2, <2>3 DEF dispatch, expired
  <2>5. Head(timer_list) = Sleep(t)
    <3>1. sleeper'[t] # sleeper[t]
      BY DEF Sleeping
    <3>2. PICK u \in Sleepers : Head(timer_list) = Sleep(u) /\ signal(u, Tail(timer_list))
      BY <2>3, <2>4, <3>1, DispatchForms DEF vpit_timer_handler, rtc_update
    <3>. QED
      BY <2>2, <3>1, <3>2 DEF signal, TimersTypeOK
  <2>6. left[t] > 0 => left[t] = wakeup_ticks[Sleep(t)] - timer_ticks
    BY <2>2 DEF Remains, Sleeping
  <2>7. left[t] \in Nat /\ timer_ticks \in Int /\ wakeup_ticks[Sleep(t)] \in Int
    BY <2>2, RequestsApart DEF TimersTypeOK
  <2>. QED
    BY <2>4, <2>5, <2>6, <2>7
<1>. QED
  BY TInitSafe, TNextSafe, <1>1, PTL DEF TSpec, NeverEarly

-----------------------------------------------------------------------------
(* The devices of the file system are counted, for any tasks, structures    *)
(* and disks and any number of commands and errors.                         *)

MountPcs == {"rest", "check", "ram", "mkfs", "format", "add", "meta", "magic", "open", "inode",
             "umount", "delrd", "remove"}
MountOps == {"rest", "mount", "mkfs", "addrd", "delrd", "floppy", "umount", "open"}
Named == Disks \cup {NoDev}
DevRecords == [state : {"free", "taken", "listed", "off"}, name : Named, use_count : Nat,
               invalid : BOOLEAN, root : BOOLEAN]
MountCalls == [op : MountOps, pc : MountPcs, name : Named, dev : Structs \cup {NoDev}, hold : {0, 1}]

MountTypeOK ==
    /\ dev \in [Structs -> DevRecords]
    /\ call \in [Callers -> MountCalls]
    /\ device_list \in Seq(Structs) /\ opened \in Seq(Structs)

\* The inodes that are open on d, and the tasks that have a counted pointer to it.
OpenOn(d) == {i \in DOMAIN opened : opened[i] = d}
Holders(d) == {t \in Callers : call[t].dev = d /\ call[t].hold = 1}
InList(d) == d \in ToSet(device_list)

Refs(d) == (IF InList(d) THEN 1 ELSE 0) + (IF dev[d].root THEN 1 ELSE 0)
           + Cardinality(OpenOn(d)) + Cardinality(Holders(d))

\* What DevicesCounted says of one device.
DeviceRight(d) ==
    /\ dev[d].use_count = Refs(d)
    /\ dev[d].state \in {"free", "taken"} <=> Refs(d) = 0
    /\ dev[d].state = "listed" <=> InList(d)

\* A name finds one device.
NamesApart ==
    /\ NoRepeats(device_list)
    /\ \A d, e \in ToSet(device_list) : dev[d].name = dev[e].name => d = e

Mounting(t) == call[t].pc \in {"meta", "magic"}

\* A task has a counted pointer in two steps only, and a device whose boot block a
\* task still reads is in the list, has no root yet and is read by nobody else.
MountersApart ==
    \A t \in Callers :
        /\ call[t].hold = 1 <=> call[t].pc \in {"inode", "remove"}
        /\ call[t].pc \in {"inode", "remove", "meta", "magic"} => call[t].dev \in Structs
        /\ Mounting(t) => dev[call[t].dev].state = "listed" /\ ~dev[call[t].dev].root
        /\ \A u \in Callers : Mounting(t) /\ Mounting(u) /\ call[t].dev = call[u].dev => t = u

MountsRight == (\A d \in Structs : DeviceRight(d)) /\ NamesApart /\ MountersApart

MountsInv == MountTypeOK /\ (clash_f = "none" => MountsRight)

\* The invariant is what DevicesCounted says, and more.
LEMMA MountsInvCounts == MountsInv => DevicesCounted
<1> SUFFICES ASSUME MountsInv, clash_f = "none" PROVE DevicesCounted
  BY DEF DevicesCounted
<1>1. DOMAIN device_list = 1..Len(device_list)
  BY DEF MountsInv, MountTypeOK
<1>2. \A d \in Structs : InList(d) <=> d \in Range(device_list)
  BY DEF InList, ToSet, Range
<1>3. \A d \in Structs :
        /\ dev[d].use_count = (IF d \in Range(device_list) THEN 1 ELSE 0)
             + (IF dev[d].root THEN 1 ELSE 0)
             + Cardinality({i \in DOMAIN opened : opened[i] = d})
             + Cardinality({t \in Callers : call[t].dev = d /\ call[t].hold = 1})
        /\ dev[d].state \in {"free", "taken"} <=>
             (IF d \in Range(device_list) THEN 1 ELSE 0) + (IF dev[d].root THEN 1 ELSE 0)
             + Cardinality({i \in DOMAIN opened : opened[i] = d})
             + Cardinality({t \in Callers : call[t].dev = d /\ call[t].hold = 1}) = 0
        /\ dev[d].state = "listed" <=> d \in Range(device_list)
  BY <1>2 DEF MountsInv, MountsRight, DeviceRight, Refs, OpenOn, Holders
<1>4. \A i, j \in DOMAIN device_list :
        dev[device_list[i]].name = dev[device_list[j]].name => i = j
  <2>1. NoRepeats(device_list) /\ \A d, e \in ToSet(device_list) : dev[d].name = dev[e].name => d = e
    BY DEF MountsInv, MountsRight, NamesApart
  <2>2. \A i \in DOMAIN device_list : device_list[i] \in ToSet(device_list)
    BY DEF ToSet
  <2>. QED  BY <1>1, <2>1, <2>2 DEF NoRepeats
<1>. QED
  BY <1>3, <1>4 DEF DevicesCounted

\* The references to a device are counted, and are none when there is none of them.
LEMMA RefsCount ==
  ASSUME MountTypeOK, NEW d \in Structs
  PROVE  /\ IsFiniteSet(OpenOn(d)) /\ Cardinality(OpenOn(d)) \in Nat
         /\ IsFiniteSet(Holders(d)) /\ Cardinality(Holders(d)) \in Nat
         /\ Refs(d) \in Nat
         /\ Refs(d) = 0 <=> ~InList(d) /\ ~dev[d].root /\ OpenOn(d) = {} /\ Holders(d) = {}
<1>1. Holders(d) \subseteq Callers /\ IsFiniteSet(Callers)
  BY MountsAssumption DEF Holders
<1>2. OpenOn(d) \subseteq 1..Len(opened) /\ Len(opened) \in Nat
  BY DEF OpenOn, MountTypeOK
<1>3. IsFiniteSet(1..Len(opened))
  BY <1>2, FS_Interval
<1>4. IsFiniteSet(OpenOn(d)) /\ IsFiniteSet(Holders(d))
  BY <1>1, <1>2, <1>3, FS_Subset
<1>5. Cardinality(OpenOn(d)) \in Nat /\ Cardinality(Holders(d)) \in Nat
  BY <1>4, FS_CardinalityType
<1>6. /\ Cardinality(OpenOn(d)) = 0 <=> OpenOn(d) = {}
      /\ Cardinality(Holders(d)) = 0 <=> Holders(d) = {}
  BY <1>4, FS_EmptySet
<1> DEFINE l == IF InList(d) THEN 1 ELSE 0
           r == IF dev[d].root THEN 1 ELSE 0
           o == Cardinality(OpenOn(d))
           h == Cardinality(Holders(d))
<1>7. l \in {0, 1} /\ (l = 0 <=> ~InList(d)) /\ r \in {0, 1} /\ (r = 0 <=> ~dev[d].root)
  OBVIOUS
<1>8. Refs(d) = l + r + o + h
  BY DEF Refs
<1>9. o \in Nat /\ h \in Nat
  BY <1>5
<1> HIDE DEF l, r, o, h
<1>10. Refs(d) \in Nat /\ (Refs(d) = 0 <=> l = 0 /\ r = 0 /\ o = 0 /\ h = 0)
  BY <1>7, <1>8, <1>9
<1>. QED
  BY <1>4, <1>5, <1>6, <1>7, <1>10 DEF o, h

\* get_device(): no device, and none of the list has the name, or one of the list.
LEMMA FindDevice ==
  ASSUME MountTypeOK, NEW n
  PROVE  \/ /\ Find(n) = NoDev /\ NoDev \notin Structs
            /\ \A d : InList(d) => d \in Structs /\ dev[d].name # n
         \/ Find(n) \in Structs /\ Find(n) # NoDev /\ InList(Find(n)) /\ dev[Find(n)].name = n
<1> DEFINE I == {i \in 1..Len(device_list) : dev[device_list[i]].name = n}
<1>1. I \in SUBSET Nat /\ 0 \notin I
  OBVIOUS
<1>2. NoDev \notin Structs
  BY MountsAssumption DEF NoDev
<1>3. CASE I = {}
  <2>1. Find(n) = NoDev
    BY <1>3 DEF Find, SelectInSeq
  <2>2. \A d : InList(d) => d \in Structs /\ dev[d].name # n
    BY <1>3 DEF InList, ToSet, MountTypeOK
  <2>. QED  BY <1>2, <2>1, <2>2
<1>4. CASE I # {}
  <2>1. Min(I) \in I
    <3> HIDE DEF I
    <3>. QED  BY <1>1, <1>4, MinInSet
  <2>2. Find(n) = device_list[Min(I)]
    BY <1>1, <1>4, <2>1 DEF Find, SelectInSeq
  <2>3. Find(n) \in Structs /\ InList(Find(n)) /\ dev[Find(n)].name = n
    <3>1. Min(I) \in 1..Len(device_list) /\ dev[device_list[Min(I)]].name = n
      BY <2>1
    <3>2. device_list[Min(I)] \in Structs /\ Min(I) \in DOMAIN device_list
      BY <3>1 DEF MountTypeOK
    <3>. QED  BY <2>2, <3>1, <3>2 DEF InList, ToSet
  <2>. QED  BY <1>2, <2>3
<1>. QED
  BY <1>3, <1>4

\* A step of t changes the holders of d only by t itself.
LEMMA HoldersMove ==
  ASSUME MountTypeOK, NEW t \in Callers, \A u \in Callers \ {t} : call'[u] = call[u],
         NEW d \in Structs
  PROVE  LET held == call[t].dev = d /\ call[t].hold = 1
             holds == call'[t].dev = d /\ call'[t].hold = 1
         IN  /\ (held <=> holds) => Holders(d)' = Holders(d)
             /\ ~held /\ holds => Cardinality(Holders(d)') = Cardinality(Holders(d)) + 1
             /\ held /\ ~holds => Cardinality(Holders(d)') = Cardinality(Holders(d)) - 1
<1> DEFINE held == call[t].dev = d /\ call[t].hold = 1
           holds == call'[t].dev = d /\ call'[t].hold = 1
<1>1. IsFiniteSet(Holders(d)) /\ (t \in Holders(d) <=> held)
  BY RefsCount DEF Holders
<1>2. (held <=> holds) => Holders(d)' = Holders(d)
  BY DEF Holders
<1>3. ~held /\ holds => Holders(d)' = Holders(d) \cup {t}
  BY DEF Holders
<1>4. held /\ ~holds => Holders(d)' = Holders(d) \ {t}
  BY DEF Holders
<1> HIDE DEF held, holds
<1>5. ~held /\ holds => Cardinality(Holders(d)') = Cardinality(Holders(d)) + 1
  BY <1>1, <1>3, FS_AddElement
<1>6. held /\ ~holds => Cardinality(Holders(d)') = Cardinality(Holders(d)) - 1
  BY <1>1, <1>4, FS_RemoveElement
<1>. QED
  BY <1>2, <1>5, <1>6 DEF held, holds

\* Another inode is open on e.
LEMMA OpenAppended ==
  ASSUME MountTypeOK, NEW e \in Structs, opened' = Append(opened, e), NEW d \in Structs
  PROVE  Cardinality(OpenOn(d)') = Cardinality(OpenOn(d)) + (IF d = e THEN 1 ELSE 0)
<1> DEFINE n == Len(opened) + 1
<1>1. /\ DOMAIN opened = 1..(n - 1) /\ DOMAIN opened' = 1..n /\ n \in Nat /\ n \notin DOMAIN opened
      /\ opened'[n] = e /\ \A i \in 1..(n - 1) : opened'[i] = opened[i]
  BY DEF MountTypeOK
<1> HIDE DEF n
<1>2. IsFiniteSet(OpenOn(d)) /\ Cardinality(OpenOn(d)) \in Nat /\ n \notin OpenOn(d)
  BY <1>1, RefsCount DEF OpenOn
<1>3. CASE d = e
  <2>1. OpenOn(d)' = OpenOn(d) \cup {n}
    BY <1>1, <1>3 DEF OpenOn
  <2>. QED  BY <1>2, <1>3, <2>1, FS_AddElement
<1>4. CASE d # e
  <2>1. OpenOn(d)' = OpenOn(d)
    BY <1>1, <1>4 DEF OpenOn
  <2>. QED  BY <1>2, <1>4, <2>1
<1>. QED
  BY <1>3, <1>4

\* The first of the inodes that are open is closed.
LEMMA OpenClosed ==
  ASSUME MountTypeOK, opened # <<>>, opened' = Tail(opened), NEW d \in Structs
  PROVE  /\ Head(opened) \in Structs /\ Head(opened) = opened[1] /\ 1 \in OpenOn(Head(opened))
         /\ Cardinality(OpenOn(d)') = Cardinality(OpenOn(d)) - (IF d = Head(opened) THEN 1 ELSE 0)
<1> DEFINE n == Len(opened)
           S == OpenOn(d) \ {1}
           T == OpenOn(d)'
<1>1. /\ n \in Nat \ {0} /\ DOMAIN opened = 1..n /\ DOMAIN opened' = 1..(n - 1)
      /\ Head(opened) = opened[1] /\ opened[1] \in Structs
      /\ \A i \in 1..(n - 1) : opened'[i] = opened[i + 1]
  BY DEF MountTypeOK
<1> HIDE DEF n
<1>2. 1 \in OpenOn(Head(opened)) /\ (1 \in OpenOn(d) <=> d = Head(opened))
  BY <1>1 DEF OpenOn
<1>3. IsFiniteSet(OpenOn(d)) /\ Cardinality(OpenOn(d)) \in Nat
  BY RefsCount
<1>4. Cardinality(T) = Cardinality(S)
  <2> DEFINE f == [i \in S |-> i - 1]
  <2>1. \A i \in S : i \in 2..n /\ opened[i] = d
    BY <1>1 DEF OpenOn
  <2>2. \A j : j \in T <=> j \in 1..(n - 1) /\ opened[j + 1] = d
    BY <1>1 DEF OpenOn
  <2>3. \A i \in S : i - 1 \in T
    BY <1>1, <2>1, <2>2
  <2>4. \A j \in T : j + 1 \in S
    BY <1>1, <2>2 DEF OpenOn
  <2>5. \A i \in S : i \in Int
    BY <2>1
  <2>6. \A j \in T : j \in Int
    BY <2>2
  <2> HIDE DEF S, T
  <2>7. f \in [S -> T] /\ \A i, j \in S : f[i] = f[j] => i = j
    BY <2>3, <2>5
  <2>8. \A j \in T : \E i \in S : f[i] = j
    <3>1. \A j \in T : f[j + 1] = j
      BY <2>4, <2>6
    <3>. QED  BY <2>4, <3>1
  <2> HIDE DEF f
  <2>9. f \in Bijection(S, T)
    BY <2>7, <2>8 DEF Bijection, Injection, Surjection, IsInjective
  <2>10. ExistsBijection(S, T)
    BY <2>9 DEF ExistsBijection
  <2>11. IsFiniteSet(S)
    BY <1>3, FS_RemoveElement DEF S
  <2>. QED  BY <2>10, <2>11, FS_Bijection
<1>5. Cardinality(S) = Cardinality(OpenOn(d)) - (IF d = Head(opened) THEN 1 ELSE 0)
  <2>1. Cardinality(S) = IF 1 \in OpenOn(d) THEN Cardinality(OpenOn(d)) - 1 ELSE Cardinality(OpenOn(d))
    BY <1>3, FS_RemoveElement
  <2> HIDE DEF S
  <2>. QED  BY <1>2, <1>3, <2>1
<1>. QED
  BY <1>1, <1>2, <1>4, <1>5

\* release_device() takes one reference off, and the last one frees the device.
LEMMA ReleaseDoes ==
  ASSUME NEW ds \in [Structs -> DevRecords], NEW d \in Structs
  PROVE  LET r == release_device(ds, d)
         IN  /\ r \in [Structs -> DevRecords] /\ \A e \in Structs \ {d} : r[e] = ds[e]
             /\ ds[d].use_count <= 1 => r[d] = Blank
             /\ ds[d].use_count > 1 =>
                  /\ r[d].state = ds[d].state /\ r[d].name = ds[d].name /\ r[d].root = ds[d].root
                  /\ r[d].use_count = ds[d].use_count - 1
<1>1. Blank \in DevRecords
  BY DEF Blank, DevRecords, Named
<1>2. ds[d].use_count \in Nat
  BY DEF DevRecords
<1>3. CASE ds[d].use_count <= 1
  BY <1>1, <1>2, <1>3 DEF release_device
<1>4. CASE ds[d].use_count > 1
  BY <1>2, <1>4 DEF release_device, DevRecords
<1>. QED
  BY <1>2, <1>3, <1>4

\* A task that rests holds nothing.
LEMMA RestingHolds == Resting.hold = 0 /\ Resting.pc = "rest"
BY DEF Resting

\* A task ends its command, or goes to its next step.
LEMMA CallSteps ==
  ASSUME MountTypeOK, NEW t \in Callers
  PROVE  /\ Done(t) => /\ call' \in [Callers -> MountCalls] /\ call'[t] = Resting
                       /\ \A u \in Callers \ {t} : call'[u] = call[u]
         /\ \A pc2 \in MountPcs, d \in Structs \cup {NoDev}, h \in {0, 1} :
              To(t, pc2, d, h) =>
                /\ call' \in [Callers -> MountCalls]
                /\ call'[t].pc = pc2 /\ call'[t].dev = d /\ call'[t].hold = h
                /\ call'[t].name = call[t].name
                /\ \A u \in Callers \ {t} : call'[u] = call[u]
<1>1. Resting \in MountCalls
  BY DEF Resting, MountCalls, MountOps, MountPcs, Named
<1>2. Done(t) => /\ call' \in [Callers -> MountCalls] /\ call'[t] = Resting
                 /\ \A u \in Callers \ {t} : call'[u] = call[u]
  BY <1>1 DEF Done, MountTypeOK
<1>3. ASSUME NEW pc2 \in MountPcs, NEW d \in Structs \cup {NoDev}, NEW h \in {0, 1}, To(t, pc2, d, h)
      PROVE  /\ call' \in [Callers -> MountCalls]
             /\ call'[t].pc = pc2 /\ call'[t].dev = d /\ call'[t].hold = h
             /\ call'[t].name = call[t].name
             /\ \A u \in Callers \ {t} : call'[u] = call[u]
  BY <1>3 DEF To, MountTypeOK, MountCalls
<1>. QED
  BY <1>2, <1>3

\* A structure out of the pool.
LEMMA AllocDoes ==
  ASSUME MountTypeOK, NEW n \in Named, Pool # {}
  PROVE  LET a == alloc_device(n)
         IN  /\ a[1] \in Structs /\ dev[a[1]].state = "free"
             /\ a[2] \in [Structs -> DevRecords]
             /\ a[2][a[1]].state = "taken" /\ a[2][a[1]].name = n
             /\ a[2][a[1]].use_count = 0 /\ ~a[2][a[1]].root
             /\ \A e \in Structs \ {a[1]} : a[2][e] = dev[e]
<1> DEFINE d == CHOOSE x \in Pool : TRUE
           b == [Blank EXCEPT !.state = "taken", !.name = n]
<1>1. d \in Pool
  OBVIOUS
<1>2. d \in Structs /\ dev[d].state = "free"
  BY <1>1 DEF Pool
<1>3. /\ b \in DevRecords /\ b.state = "taken" /\ b.name = n /\ b.use_count = 0 /\ b.root = FALSE
  BY DEF Blank, DevRecords
<1>4. alloc_device(n) = <<d, [dev EXCEPT ![d] = b]>>
  BY DEF alloc_device
<1> HIDE DEF d, b
<1>5. alloc_device(n)[1] = d /\ alloc_device(n)[2] = [dev EXCEPT ![d] = b]
  BY <1>4
<1>. QED
  BY <1>2, <1>3, <1>5 DEF MountTypeOK

\* The references to a device that a step does not touch.
LEMMA OthersRight ==
  ASSUME MountTypeOK, \A d \in Structs : DeviceRight(d), NEW t \in Callers,
         \A u \in Callers \ {t} : call'[u] = call[u], NEW d \in Structs,
         dev'[d] = dev[d], InList(d)' <=> InList(d),
         Cardinality(OpenOn(d)') = Cardinality(OpenOn(d)),
         (call[t].dev = d /\ call[t].hold = 1) <=> (call'[t].dev = d /\ call'[t].hold = 1)
  PROVE  DeviceRight(d)'
<1>1. Holders(d)' = Holders(d)
  BY HoldersMove
<1>2. Refs(d)' = Refs(d)
  BY <1>1 DEF Refs
<1>. QED
  BY <1>2 DEF DeviceRight

\* The other tasks go on mounting.
LEMMA MountersGoOn ==
  ASSUME MountTypeOK, MountersApart, NEW t \in Callers,
         \A u \in Callers \ {t} : call'[u] = call[u],
         \A u \in Callers \ {t} :
           Mounting(u) => dev'[call[u].dev].state = "listed" /\ ~dev'[call[u].dev].root,
         call'[t].hold = 1 <=> call'[t].pc \in {"inode", "remove"},
         call'[t].pc \in {"inode", "remove", "meta", "magic"} => call'[t].dev \in Structs,
         Mounting(t)' => /\ dev'[call'[t].dev].state = "listed" /\ ~dev'[call'[t].dev].root
                         /\ \A u \in Callers \ {t} : Mounting(u) => call[u].dev # call'[t].dev
  PROVE  MountersApart'
BY DEF MountersApart, Mounting

\* Steps that leave the devices alone.
LEMMA QuietRight ==
  ASSUME MountTypeOK, MountsRight, NEW t \in Callers, UNCHANGED <<dev, device_list, opened>>,
         \A u \in Callers \ {t} : call'[u] = call[u],
         call[t].hold # 1, call'[t].hold # 1, call'[t].pc \notin {"inode", "remove"},
         Mounting(t)' => Mounting(t) /\ call'[t].dev = call[t].dev
  PROVE  MountsRight'
<1>1. ASSUME NEW d \in Structs PROVE DeviceRight(d)'
  <2>1. OpenOn(d)' = OpenOn(d) /\ (InList(d)' <=> InList(d))
    BY DEF OpenOn, InList
  <2>. QED  BY <2>1, OthersRight DEF MountsRight
<1>2. MountersApart'
  <2>1. MountersApart
    BY DEF MountsRight
  <2>2. Mounting(t)' => /\ call'[t].dev \in Structs
          /\ dev'[call'[t].dev].state = "listed" /\ ~dev'[call'[t].dev].root
          /\ \A u \in Callers \ {t} : Mounting(u) => call[u].dev # call'[t].dev
    BY <2>1 DEF MountersApart, Mounting
  <2>3. call'[t].pc \in {"meta", "magic"} => Mounting(t)'
    BY DEF Mounting
  <2>4. \A u \in Callers \ {t} :
          Mounting(u) => dev'[call[u].dev].state = "listed" /\ ~dev'[call[u].dev].root
    BY <2>1 DEF MountersApart
  <2>. QED  BY <2>1, <2>2, <2>3, <2>4, MountersGoOn
<1>3. NamesApart'
  BY DEF MountsRight, NamesApart
<1>. QED
  BY <1>1, <1>2, <1>3 DEF MountsRight

\* The devices that stay in the list keep their names.
LEMMA NamesStay ==
  ASSUME NamesApart, NoRepeats(device_list'),
         \A d : InList(d)' => InList(d) /\ dev'[d].name = dev[d].name
  PROVE  NamesApart'
BY DEF NamesApart, InList

\* A reference is taken.
LEMMA GetDoes ==
  ASSUME NEW ds \in [Structs -> DevRecords], NEW d \in Structs
  PROVE  LET g == get(ds, d)
         IN  /\ g \in [Structs -> DevRecords] /\ \A e \in Structs \ {d} : g[e] = ds[e]
             /\ g[d].state = ds[d].state /\ g[d].name = ds[d].name /\ g[d].root = ds[d].root
             /\ g[d].use_count = ds[d].use_count + 1
<1>1. PICK r : r = ds[d]
  OBVIOUS
<1>2. PICK r2 : r2 = [r EXCEPT !.use_count = @ + 1]
  OBVIOUS
<1>3. r \in DevRecords
  BY <1>1
<1>4. /\ r2 \in DevRecords /\ r2.state = r.state /\ r2.name = r.name /\ r2.root = r.root
      /\ r2.use_count = r.use_count + 1
  BY <1>2, <1>3 DEF DevRecords
<1>5. get(ds, d) = [ds EXCEPT ![d] = r2]
  BY <1>1, <1>2 DEF get
<1>. QED
  BY <1>1, <1>4, <1>5

\* A reference is given up: the device stays right, with or without it.
LEMMA ReleaseRight ==
  ASSUME MountTypeOK', NEW ds \in [Structs -> DevRecords], NEW d \in Structs,
         dev' = release_device(ds, d),
         ds[d].use_count = (IF InList(d)' THEN 1 ELSE 0) + (IF ds[d].root THEN 1 ELSE 0)
                           + Cardinality(OpenOn(d)') + Cardinality(Holders(d)') + 1,
         ds[d].state \in {"listed", "off"}, ds[d].state = "listed" <=> InList(d)'
  PROVE  /\ DeviceRight(d)' /\ \A e \in Structs \ {d} : dev'[e] = ds[e]
         /\ InList(d)' => dev'[d].name = ds[d].name
         /\ dev'[d].root => ds[d].root
<1> DEFINE l == IF InList(d)' THEN 1 ELSE 0
           r == IF ds[d].root THEN 1 ELSE 0
           s == IF dev'[d].root THEN 1 ELSE 0
           o == Cardinality(OpenOn(d)')
           h == Cardinality(Holders(d)')
           m == Refs(d)'
<1>1. o \in Nat /\ h \in Nat
  <2>1. Holders(d)' \subseteq Callers /\ IsFiniteSet(Callers)
    BY MountsAssumption DEF Holders
  <2>2. OpenOn(d)' \subseteq 1..Len(opened') /\ Len(opened') \in Nat
    BY DEF OpenOn, MountTypeOK
  <2>3. IsFiniteSet(1..Len(opened'))
    BY <2>2, FS_Interval
  <2>4. IsFiniteSet(OpenOn(d)') /\ IsFiniteSet(Holders(d)')
    BY <2>1, <2>2, <2>3, FS_Subset
  <2>. QED  BY <2>4, FS_CardinalityType
<1>2. /\ l \in {0, 1} /\ (l = 1 <=> InList(d)') /\ r \in {0, 1} /\ (r = 1 <=> ds[d].root)
      /\ s \in {0, 1} /\ (s = 1 <=> dev'[d].root)
  OBVIOUS
<1>3. m = l + s + o + h
  BY DEF Refs
<1>4. ds[d].use_count = l + r + o + h + 1
  OBVIOUS
<1>5. /\ \A e \in Structs \ {d} : dev'[e] = ds[e]
      /\ ds[d].use_count <= 1 => dev'[d] = Blank
      /\ ds[d].use_count > 1 =>
           /\ dev'[d].state = ds[d].state /\ dev'[d].name = ds[d].name /\ dev'[d].root = ds[d].root
           /\ dev'[d].use_count = ds[d].use_count - 1
  BY ReleaseDoes
<1> HIDE DEF l, r, s, o, h, m
<1>6. CASE ds[d].use_count <= 1
  <2>1. dev'[d].state = "free" /\ dev'[d].use_count = 0 /\ ~dev'[d].root
    BY <1>5, <1>6 DEF Blank
  <2>2. l = 0 /\ r = 0 /\ s = 0 /\ o = 0 /\ h = 0
    BY <1>1, <1>2, <1>4, <1>6, <2>1
  <2>3. m = 0 /\ ~InList(d)'
    BY <1>2, <1>3, <2>2
  <2>4. DeviceRight(d)'
    BY <2>1, <2>3 DEF DeviceRight, m
  <2>. QED  BY <1>5, <2>1, <2>3, <2>4
<1>7. CASE ds[d].use_count > 1
  <2>1. s = r
    BY <1>2, <1>5, <1>7
  <2>2. dev'[d].use_count = m /\ m # 0
    BY <1>1, <1>2, <1>3, <1>4, <1>5, <1>7, <2>1
  <2>3. DeviceRight(d)'
    BY <1>5, <1>7, <2>2 DEF DeviceRight, m
  <2>. QED  BY <1>5, <1>7, <2>3
<1>8. ds[d].use_count \in Nat
  BY DEF DevRecords
<1>. QED
  BY <1>6, <1>7, <1>8

\* Where the model stops, nothing that is counted has changed its type.
LEMMA StopInv == ASSUME MountsInv, NEW why, why # "none", Stop(why) PROVE MountsInv'
BY DEF Stop, MountsInv, MountTypeOK

\* The steps of a command that leave the devices alone.
LEMMA BeginInv ==
  ASSUME MountsInv, NEW t \in Callers, NEW op \in MountOps \ {"rest"}, NEW n \in Named,
         begin_call(t, op, n)
  PROVE  MountsInv'
<1> DEFINE c == [Resting EXCEPT !.op = op, !.name = n,
                    !.pc = CASE op \in {"mount", "mkfs"} -> "check" [] op = "addrd" -> "ram"
                             [] op = "floppy" -> "add" [] OTHER -> op]
<1>1. /\ c \in MountCalls /\ c.hold = 0 /\ c.pc \notin {"inode", "remove", "meta", "magic"}
  BY DEF Resting, MountCalls, MountOps, MountPcs, Named
<1>2. /\ call' = [call EXCEPT ![t] = c] /\ call[t] = Resting /\ clash_f = "none"
      /\ UNCHANGED <<dev, device_list, opened>>
  BY DEF begin_call
<1> HIDE DEF c
<1>3. /\ call'[t] = c /\ \A u \in Callers \ {t} : call'[u] = call[u]
      /\ call' \in [Callers -> MountCalls]
  BY <1>1, <1>2 DEF MountsInv, MountTypeOK
<1>4. call[t].hold # 1
  BY <1>2, RestingHolds
<1>5. MountTypeOK'
  BY <1>2, <1>3 DEF MountsInv, MountTypeOK
<1>6. MountTypeOK /\ MountsRight /\ call'[t].hold # 1 /\ call'[t].pc \notin {"inode", "remove"}
      /\ ~Mounting(t)'
  BY <1>1, <1>2, <1>3 DEF MountsInv, Mounting
<1>7. MountsRight'
  BY <1>2, <1>3, <1>4, <1>6, QuietRight
<1>. QED
  BY <1>5, <1>7 DEF MountsInv

LEMMA QuietInv ==
  ASSUME MountsInv, NEW t \in Callers,
         create_ramdisk(t) \/ check_mounted(t) \/ mkfs(t) \/ read_meta(t)
  PROVE  MountsInv'
<1>1. MountTypeOK /\ MountsRight /\ NoDev \notin Structs
  BY MountsAssumption DEF MountsInv, create_ramdisk, check_mounted, mkfs, read_meta, On, NoDev
<1>2. CASE \E why \in {"mkfs", "ram"} : Stop(why)
  BY <1>2, StopInv
<1>3. CASE ~ \E why \in {"mkfs", "ram"} : Stop(why)
  <2>1. /\ UNCHANGED <<dev, device_list, opened>>
        /\ call[t].pc \in {"ram", "check", "format", "meta"}
        /\ \/ Done(t)
           \/ \E p \in {"check", "add", "mkfs"} : To(t, p, NoDev, 0)
           \/ call[t].pc = "meta" /\ To(t, "magic", call[t].dev, 0)
    BY <1>3 DEF create_ramdisk, check_mounted, mkfs, read_meta, On
  <2>2. call[t].hold # 1 /\ call[t].dev \in Structs \cup {NoDev}
    BY <1>1, <2>1 DEF MountsRight, MountersApart, MountTypeOK, MountCalls
  <2>3. /\ call' \in [Callers -> MountCalls] /\ \A u \in Callers \ {t} : call'[u] = call[u]
        /\ call'[t].hold # 1 /\ call'[t].pc \notin {"inode", "remove"}
        /\ call'[t].pc \in {"meta", "magic"} => call[t].pc = "meta" /\ call'[t].dev = call[t].dev
    <3>1. CASE Done(t)
      BY <1>1, <3>1, CallSteps, RestingHolds
    <3>2. CASE \E p \in {"check", "add", "mkfs"} : To(t, p, NoDev, 0)
      <4>1. PICK p \in {"check", "add", "mkfs"} : To(t, p, NoDev, 0)
        BY <3>2
      <4>2. p \in MountPcs
        BY DEF MountPcs
      <4>. QED  BY <1>1, <4>1, <4>2, CallSteps
    <3>3. CASE call[t].pc = "meta" /\ To(t, "magic", call[t].dev, 0)
      <4>1. "magic" \in MountPcs
        BY DEF MountPcs
      <4>. QED  BY <1>1, <2>2, <3>3, <4>1, CallSteps
    <3>. QED  BY <2>1, <3>1, <3>2, <3>3
  <2>4. MountTypeOK'
    BY <1>1, <2>1, <2>3 DEF MountTypeOK
  <2>5. MountsRight'
    BY <1>1, <2>1, <2>2, <2>3, QuietRight DEF Mounting
  <2>. QED  BY <2>4, <2>5 DEF MountsInv
<1>. QED
  BY <1>2, <1>3

\* A structure of the pool has no references, and nobody mounts it.
LEMMA PoolUnused ==
  ASSUME MountTypeOK, MountsRight, NEW d \in Structs, dev[d].state = "free"
  PROVE  /\ ~InList(d) /\ ~dev[d].root /\ OpenOn(d) = {} /\ Holders(d) = {}
         /\ \A u \in Callers : Mounting(u) => call[u].dev # d
<1>1. Refs(d) = 0
  BY DEF MountsRight, DeviceRight
<1>2. \A u \in Callers : Mounting(u) => dev[call[u].dev].state = "listed"
  BY DEF MountsRight, MountersApart
<1>. QED
  BY <1>1, <1>2, RefsCount

\* mkfs() takes a structure that it keeps.
LEMMA BeginMkfsInv ==
  ASSUME MountsInv, NEW t \in Callers, begin_mkfs(t)
  PROVE  MountsInv'
<1>0. PICK n, d : n = call[t].name /\ d = alloc_device(n)[1]
  OBVIOUS
<1>1. /\ MountTypeOK /\ MountsRight /\ NoDev \notin Structs /\ n \in Named
      /\ call[t].pc = "mkfs" /\ UNCHANGED <<device_list, opened, clash_f>> /\ clash_f = "none"
  BY <1>0, MountsAssumption DEF MountsInv, MountTypeOK, MountCalls, begin_mkfs, On, NoDev
<1>2. call[t].hold # 1
  BY <1>1 DEF MountsRight, MountersApart, MountTypeOK, MountCalls
<1>3. CASE Pool = {}
  <2>1. Done(t) /\ dev' = dev
    BY <1>3 DEF begin_mkfs
  <2>2. /\ call' \in [Callers -> MountCalls] /\ \A u \in Callers \ {t} : call'[u] = call[u]
        /\ call'[t].hold # 1 /\ call'[t].pc = "rest"
    BY <1>1, <2>1, CallSteps, RestingHolds
  <2>3. MountsRight'
    BY <1>1, <1>2, <2>1, <2>2, QuietRight DEF Mounting
  <2>. QED  BY <1>1, <2>1, <2>2, <2>3 DEF MountsInv, MountTypeOK
<1>4. CASE Pool # {}
  <2>1. dev' = alloc_device(n)[2] /\ To(t, "format", d, 0)
    BY <1>0, <1>4 DEF begin_mkfs
  <2>2. /\ d \in Structs /\ dev[d].state = "free" /\ dev' \in [Structs -> DevRecords]
        /\ dev'[d].state = "taken" /\ dev'[d].use_count = 0 /\ ~dev'[d].root
        /\ \A e \in Structs \ {d} : dev'[e] = dev[e]
    BY <1>0, <1>1, <1>4, <2>1, AllocDoes
  <2>3. "format" \in MountPcs
    BY DEF MountPcs
  <2>4. /\ call' \in [Callers -> MountCalls] /\ \A u \in Callers \ {t} : call'[u] = call[u]
        /\ call'[t].hold # 1 /\ call'[t].pc = "format"
    BY <1>1, <2>1, <2>2, <2>3, CallSteps
  <2>5. MountTypeOK'
    BY <1>1, <2>2, <2>4 DEF MountTypeOK
  <2>6. /\ ~InList(d) /\ ~dev[d].root /\ OpenOn(d) = {} /\ Holders(d) = {}
        /\ \A u \in Callers : Mounting(u) => call[u].dev # d
    BY <1>1, <2>2, PoolUnused
  <2>7. \A e \in Structs : /\ OpenOn(e)' = OpenOn(e) /\ (InList(e)' <=> InList(e))
                           /\ Holders(e)' = Holders(e)
    BY <1>1, <1>2, <2>4, HoldersMove DEF OpenOn, InList
  <2>8. ASSUME NEW e \in Structs PROVE DeviceRight(e)'
    <3>1. CASE e = d
      <4>1. Cardinality(OpenOn(d)') = 0 /\ Cardinality(Holders(d)') = 0
        BY <2>2, <2>6, <2>7, FS_EmptySet
      <4>2. Refs(d)' = 0
        BY <2>2, <2>6, <2>7, <4>1 DEF Refs
      <4>. QED  BY <2>2, <2>6, <2>7, <3>1, <4>2 DEF DeviceRight
    <3>2. CASE e # d
      BY <1>1, <1>2, <2>2, <2>4, <2>7, <3>2, OthersRight DEF MountsRight
    <3>. QED  BY <3>1, <3>2
  <2>9. NamesApart'
    <3>1. \A x : InList(x)' => InList(x) /\ x \in Structs \ {d}
      BY <1>1, <2>6 DEF InList, ToSet, MountTypeOK
    <3>. QED  BY <1>1, <2>2, <3>1, NamesStay DEF MountsRight, NamesApart
  <2>10. MountersApart'
    <3>1. \A u \in Callers \ {t} : Mounting(u) =>
             dev'[call[u].dev].state = "listed" /\ ~dev'[call[u].dev].root
      BY <1>1, <2>2, <2>6 DEF MountsRight, MountersApart, Mounting
    <3>2. ~Mounting(t)'
      BY <2>4 DEF Mounting
    <3>. QED  BY <1>1, <2>4, <3>1, <3>2, MountersGoOn DEF MountsRight
  <2>. QED  BY <2>5, <2>8, <2>9, <2>10 DEF MountsInv, MountsRight
<1>. QED
  BY <1>3, <1>4

\* add_device() puts a structure into the list, which counts a reference.
LEMMA AddDeviceInv ==
  ASSUME MountsInv, NEW t \in Callers, add_device(t)
  PROVE  MountsInv'
<1>0. PICK n, d, b : n = call[t].name /\ d = alloc_device(n)[1] /\ b = alloc_device(n)[2][d]
  OBVIOUS
<1>1. /\ MountTypeOK /\ MountsRight /\ NoDev \notin Structs /\ n \in Named
      /\ call[t].pc = "add" /\ UNCHANGED opened /\ clash_f = "none"
  BY <1>0, MountsAssumption DEF MountsInv, MountTypeOK, MountCalls, add_device, On, NoDev
<1>2. call[t].hold # 1
  BY <1>1 DEF MountsRight, MountersApart, MountTypeOK, MountCalls
<1>3. CASE Pool = {}
  <2>1. Done(t) /\ dev' = dev /\ device_list' = device_list
    BY <1>3 DEF add_device
  <2>2. /\ call' \in [Callers -> MountCalls] /\ \A u \in Callers \ {t} : call'[u] = call[u]
        /\ call'[t].hold # 1 /\ call'[t].pc = "rest"
    BY <1>1, <2>1, CallSteps, RestingHolds
  <2>3. MountsRight'
    BY <1>1, <1>2, <2>1, <2>2, QuietRight DEF Mounting
  <2>. QED  BY <1>1, <2>1, <2>2, <2>3 DEF MountsInv, MountTypeOK
<1>4. CASE Pool # {}
  <2>1. /\ dev' = [alloc_device(n)[2] EXCEPT ![d] = added(b)] /\ To(t, "meta", d, 0)
        /\ device_list' = <<d>> \o device_list
        /\ clash_f' = "none" => Find(n) = NoDev
    BY <1>0, <1>1, <1>4 DEF add_device
  <2>2. /\ d \in Structs /\ dev[d].state = "free" /\ b \in DevRecords
        /\ alloc_device(n)[2] \in [Structs -> DevRecords]
        /\ b.name = n /\ ~b.root
        /\ \A e \in Structs \ {d} : alloc_device(n)[2][e] = dev[e]
    BY <1>0, <1>1, <1>4, AllocDoes
  <2>3. /\ added(b) \in DevRecords /\ added(b).state = "listed" /\ added(b).use_count = 1
        /\ added(b).name = n /\ ~added(b).root
    BY <2>2 DEF added, DevRecords
  <2>4. /\ dev' \in [Structs -> DevRecords] /\ dev'[d] = added(b)
        /\ \A e \in Structs \ {d} : dev'[e] = dev[e]
    BY <2>1, <2>2, <2>3
  <2>5. /\ dev'[d].state = "listed" /\ dev'[d].use_count = 1 /\ dev'[d].name = n
        /\ ~dev'[d].root
    BY <2>3, <2>4
  <2>6. "meta" \in MountPcs
    BY DEF MountPcs
  <2>7. /\ call' \in [Callers -> MountCalls] /\ \A u \in Callers \ {t} : call'[u] = call[u]
        /\ call'[t].hold = 0 /\ call'[t].pc = "meta" /\ call'[t].dev = d
    BY <1>1, <2>1, <2>2, <2>6, CallSteps
  <2>8. /\ ~InList(d) /\ ~dev[d].root /\ OpenOn(d) = {} /\ Holders(d) = {}
        /\ \A u \in Callers : Mounting(u) => call[u].dev # d
    BY <1>1, <2>2, PoolUnused
  <2>9. /\ device_list' \in Seq(Structs) /\ NoRepeats(device_list')
        /\ ToSet(device_list') = ToSet(device_list) \cup {d}
    BY <1>1, <2>1, <2>2, <2>8, ConsNode DEF MountTypeOK, MountsRight, NamesApart, InList
  <2>10. MountTypeOK'
    BY <1>1, <2>4, <2>7, <2>9 DEF MountTypeOK
  <2>11. \A e \in Structs : /\ OpenOn(e)' = OpenOn(e) /\ (InList(e)' <=> e = d \/ InList(e))
                            /\ Holders(e)' = Holders(e)
    BY <1>1, <1>2, <2>7, <2>9, HoldersMove DEF OpenOn, InList
  <2>12. ASSUME NEW e \in Structs PROVE DeviceRight(e)'
    <3>1. CASE e = d
      <4>1. Cardinality(OpenOn(d)') = 0 /\ Cardinality(Holders(d)') = 0
        BY <2>2, <2>8, <2>11, FS_EmptySet
      <4>2. InList(d)'
        BY <2>2, <2>11
      <4>3. Refs(d)' = 1
        BY <2>5, <4>1, <4>2 DEF Refs
      <4>. QED  BY <2>5, <3>1, <4>2, <4>3 DEF DeviceRight
    <3>2. CASE e # d
      BY <1>1, <1>2, <2>4, <2>7, <2>11, <3>2, OthersRight DEF MountsRight
    <3>. QED  BY <3>1, <3>2
  <2>13. ASSUME Find(n) = NoDev PROVE NamesApart'
    <3>1. \A x : InList(x) => x \in Structs \ {d} /\ dev[x].name # n
      BY <1>1, <2>8, <2>13, FindDevice
    <3>2. \A x \in ToSet(device_list') : x = d \/ InList(x)
      BY <2>9 DEF InList
    <3>3. \A x : InList(x) => dev'[x].name = dev[x].name
      BY <2>4, <3>1
    <3>4. \A x, y : InList(x) /\ InList(y) /\ dev[x].name = dev[y].name => x = y
      BY <1>1 DEF MountsRight, NamesApart, InList
    <3>5. ASSUME NEW x \in ToSet(device_list'), NEW y \in ToSet(device_list'),
                 dev'[x].name = dev'[y].name
          PROVE  x = y
      BY <2>5, <3>1, <3>2, <3>3, <3>4, <3>5
    <3>. QED  BY <2>9, <3>5 DEF NamesApart
  <2>14. MountersApart'
    <3>1. \A u \in Callers \ {t} : Mounting(u) =>
             dev'[call[u].dev].state = "listed" /\ ~dev'[call[u].dev].root
      BY <1>1, <2>4, <2>8 DEF MountsRight, MountersApart, Mounting
    <3>. QED  BY <1>1, <2>2, <2>5, <2>7, <2>8, <3>1, MountersGoOn DEF MountsRight
  <2>. QED  BY <2>1, <2>10, <2>12, <2>13, <2>14 DEF MountsInv, MountsRight
<1>. QED
  BY <1>3, <1>4

\* validate_device(): the root is another reference.
LEMMA ValidateInv ==
  ASSUME MountsInv, NEW t \in Callers, validate_device(t)
  PROVE  MountsInv'
<1>0. PICK d : d = call[t].dev
  OBVIOUS
<1>1. /\ MountTypeOK /\ MountsRight /\ call[t].pc = "magic"
      /\ UNCHANGED <<device_list, opened>> /\ clash_f = "none"
  BY DEF MountsInv, validate_device, On
<1>2. /\ call[t].hold # 1 /\ d \in Structs /\ dev[d].state = "listed" /\ ~dev[d].root
      /\ \A u \in Callers \ {t} : Mounting(u) => call[u].dev # d
  BY <1>0, <1>1 DEF MountsRight, MountersApart, MountTypeOK, MountCalls, Mounting
<1>3. CASE clash_f' # "none" /\ UNCHANGED <<dev, call>>
  BY <1>1, <1>3 DEF MountsInv, MountTypeOK
<1>4. CASE Done(t)
  <2>1. /\ call' \in [Callers -> MountCalls] /\ \A u \in Callers \ {t} : call'[u] = call[u]
        /\ call'[t].hold # 1 /\ call'[t].pc = "rest"
    BY <1>1, <1>4, CallSteps, RestingHolds
  <2>2. ~Mounting(t)'
    BY <2>1 DEF Mounting
  <2>3. CASE dev' = dev
    <3>1. MountTypeOK'
      BY <1>1, <2>1, <2>3 DEF MountTypeOK
    <3>2. MountsRight'
      BY <1>1, <1>2, <2>1, <2>2, <2>3, QuietRight
    <3>. QED  BY <3>1, <3>2 DEF MountsInv
  <2>4. CASE \/ dev' = [dev EXCEPT ![d].invalid = FALSE, ![d].root = TRUE, ![d].use_count = @ + 1]
             \/ dev' = [dev EXCEPT ![d].invalid = FALSE]
    <3>1. /\ dev' \in [Structs -> DevRecords] /\ \A e \in Structs \ {d} : dev'[e] = dev[e]
          /\ dev'[d].state = "listed" /\ dev'[d].name = dev[d].name
          /\ dev'[d].use_count = dev[d].use_count + (IF dev'[d].root THEN 1 ELSE 0)
      <4>1. dev \in [Structs -> DevRecords]
        BY <1>1 DEF MountTypeOK
      <4>2. PICK r : r = dev[d]
        OBVIOUS
      <4>3. r \in DevRecords /\ r.state = "listed" /\ r.root = FALSE /\ r.use_count \in Nat
        BY <1>2, <4>1, <4>2 DEF DevRecords
      <4>4. PICK r2 : /\ dev' = [dev EXCEPT ![d] = r2]
                      /\ \/ r2 = [r EXCEPT !.invalid = FALSE, !.root = TRUE, !.use_count = @ + 1]
                         \/ r2 = [r EXCEPT !.invalid = FALSE]
        BY <1>2, <2>4, <4>1, <4>2
      <4>5. /\ r2 \in DevRecords /\ r2.state = "listed" /\ r2.name = r.name
            /\ r2.use_count = r.use_count + (IF r2.root THEN 1 ELSE 0)
        <5>1. CASE r2 = [r EXCEPT !.invalid = FALSE]
          <6>1. r2 \in DevRecords /\ r2.state = r.state /\ r2.name = r.name
            BY <4>3, <5>1 DEF DevRecords
          <6>2. r2.use_count = r.use_count /\ r2.root = FALSE
            BY <4>3, <5>1 DEF DevRecords
          <6>. QED  BY <4>3, <6>1, <6>2
        <5>2. CASE r2 = [r EXCEPT !.invalid = FALSE, !.root = TRUE, !.use_count = @ + 1]
          <6>1. r2 \in DevRecords /\ r2.state = r.state /\ r2.name = r.name
            <7>1. r2 = [state |-> r.state, name |-> r.name, use_count |-> r.use_count + 1,
                        invalid |-> FALSE, root |-> TRUE]
              BY <4>3, <5>2 DEF DevRecords
            <7>2. r.state \in {"free", "taken", "listed", "off"} /\ r.name \in Named
              BY <4>3 DEF DevRecords
            <7>. QED  BY <4>3, <7>1, <7>2 DEF DevRecords
          <6>2. r2.use_count = r.use_count + 1 /\ r2.root = TRUE
            BY <4>3, <5>2 DEF DevRecords
          <6>. QED  BY <4>3, <6>1, <6>2
        <5>. QED  BY <4>4, <5>1, <5>2
      <4>. QED  BY <1>2, <4>1, <4>2, <4>4, <4>5
    <3>2. MountTypeOK'
      BY <1>1, <2>1, <3>1 DEF MountTypeOK
    <3>3. \A e \in Structs : /\ OpenOn(e)' = OpenOn(e) /\ (InList(e)' <=> InList(e))
                             /\ Holders(e)' = Holders(e)
      BY <1>1, <1>2, <2>1, HoldersMove DEF OpenOn, InList
    <3>4. ASSUME NEW e \in Structs PROVE DeviceRight(e)'
      <4>1. CASE e = d
        <5>1. /\ dev[d].use_count = Refs(d) /\ Refs(d) # 0 /\ Refs(d) \in Nat /\ InList(d)
          BY <1>1, <1>2, RefsCount DEF MountsRight, DeviceRight
        <5>2. Refs(d)' = Refs(d) + (IF dev'[d].root THEN 1 ELSE 0)
          <6>1. /\ Refs(d) = 1 + 0 + Cardinality(OpenOn(d)) + Cardinality(Holders(d))
                /\ Refs(d)' = 1 + (IF dev'[d].root THEN 1 ELSE 0) + Cardinality(OpenOn(d))
                              + Cardinality(Holders(d))
            BY <1>2, <3>3, <5>1 DEF Refs
          <6>2. Cardinality(OpenOn(d)) \in Nat /\ Cardinality(Holders(d)) \in Nat
            BY <1>1, <1>2, RefsCount
          <6>. QED  BY <6>1, <6>2
        <5>3. InList(d)' /\ Refs(d)' # 0 /\ dev'[d].use_count = Refs(d)'
          BY <1>2, <3>1, <3>3, <5>1, <5>2
        <5>. QED  BY <3>1, <4>1, <5>3 DEF DeviceRight
      <4>2. CASE e # d
        BY <1>1, <1>2, <2>1, <3>1, <3>3, <4>2, OthersRight DEF MountsRight
      <4>. QED  BY <4>1, <4>2
    <3>5. NamesApart'
      <4>1. \A x : InList(x)' => InList(x) /\ x \in Structs
        BY <1>1 DEF InList, ToSet, MountTypeOK
      <4>. QED  BY <1>1, <3>1, <4>1, NamesStay DEF MountsRight, NamesApart
    <3>6. MountersApart'
      <4>1. \A u \in Callers \ {t} : Mounting(u) =>
               dev'[call[u].dev].state = "listed" /\ ~dev'[call[u].dev].root
        BY <1>1, <1>2, <3>1 DEF MountsRight, MountersApart, Mounting
      <4>. QED  BY <1>1, <2>1, <2>2, <4>1, MountersGoOn DEF MountsRight
    <3>. QED  BY <3>2, <3>4, <3>5, <3>6 DEF MountsInv, MountsRight
  <2>5. \/ dev' = dev
        \/ dev' = [dev EXCEPT ![d].invalid = FALSE, ![d].root = TRUE, ![d].use_count = @ + 1]
        \/ dev' = [dev EXCEPT ![d].invalid = FALSE]
    BY <1>0, <1>1, <1>4 DEF validate_device
  <2>. QED  BY <2>3, <2>4, <2>5
<1>. QED
  BY <1>1, <1>3, <1>4 DEF validate_device

\* find_parent() and cmd_umount() get a device of the list and count that.
LEMMA GetInv ==
  ASSUME MountsInv, NEW t \in Callers, open_get(t) \/ get_device(t)
  PROVE  MountsInv'
<1>0. PICK n, d : n = call[t].name /\ d = Find(n)
  OBVIOUS
<1>1. /\ MountTypeOK /\ MountsRight /\ call[t].pc \in {"open", "umount", "delrd"}
      /\ UNCHANGED <<device_list, opened, clash_f>> /\ clash_f = "none"
  BY DEF MountsInv, open_get, get_device, On
<1>2. /\ call[t].hold # 1 /\ ~Mounting(t)
  BY <1>1 DEF MountsRight, MountersApart, MountTypeOK, MountCalls, Mounting
<1>3. CASE Done(t) /\ dev' = dev
  <2>1. /\ call' \in [Callers -> MountCalls] /\ \A u \in Callers \ {t} : call'[u] = call[u]
        /\ call'[t].hold # 1 /\ call'[t].pc = "rest"
    BY <1>1, <1>3, CallSteps, RestingHolds
  <2>2. MountsRight'
    BY <1>1, <1>2, <1>3, <2>1, QuietRight DEF Mounting
  <2>. QED  BY <1>1, <1>3, <2>1, <2>2 DEF MountsInv, MountTypeOK
<1>4. CASE d # NoDev /\ dev' = get(dev, d) /\ \E p \in {"inode", "remove"} : To(t, p, d, 1)
  <2>1. d \in Structs /\ InList(d)
    BY <1>0, <1>1, <1>4, FindDevice
  <2>2. /\ dev' \in [Structs -> DevRecords] /\ \A e \in Structs \ {d} : dev'[e] = dev[e]
        /\ dev'[d].state = dev[d].state /\ dev'[d].name = dev[d].name
        /\ dev'[d].root = dev[d].root /\ dev'[d].use_count = dev[d].use_count + 1
    BY <1>1, <1>4, <2>1, GetDoes DEF MountTypeOK
  <2>3. PICK p \in {"inode", "remove"} : To(t, p, d, 1)
    BY <1>4
  <2>4. p \in MountPcs
    BY DEF MountPcs
  <2>5. /\ call' \in [Callers -> MountCalls] /\ \A u \in Callers \ {t} : call'[u] = call[u]
        /\ call'[t].hold = 1 /\ call'[t].pc \in {"inode", "remove"} /\ call'[t].dev = d
    BY <1>1, <2>1, <2>3, <2>4, CallSteps
  <2>6. MountTypeOK'
    BY <1>1, <2>2, <2>5 DEF MountTypeOK
  <2>7. \A e \in Structs : OpenOn(e)' = OpenOn(e) /\ (InList(e)' <=> InList(e))
    BY <1>1 DEF OpenOn, InList
  <2>8. ASSUME NEW e \in Structs PROVE DeviceRight(e)'
    <3>1. CASE e = d
      <4>1. Cardinality(Holders(d)') = Cardinality(Holders(d)) + 1
        BY <1>1, <1>2, <2>1, <2>5, HoldersMove
      <4>2. /\ Cardinality(OpenOn(d)) \in Nat /\ Cardinality(Holders(d)) \in Nat
            /\ Refs(d) \in Nat /\ Refs(d) # 0
        BY <1>1, <2>1, RefsCount
      <4>3. Refs(d)' = Refs(d) + 1
        <5> DEFINE l == IF InList(d) THEN 1 ELSE 0
                   r == IF dev[d].root THEN 1 ELSE 0
                   o == Cardinality(OpenOn(d))
                   h == Cardinality(Holders(d))
        <5>1. Refs(d) = l + r + o + h /\ Refs(d)' = l + r + o + (h + 1)
          BY <2>1, <2>2, <2>7, <4>1 DEF Refs
        <5>2. l \in Nat /\ r \in Nat /\ o \in Nat /\ h \in Nat
          BY <4>2
        <5> HIDE DEF l, r, o, h
        <5>. QED  BY <5>1, <5>2
      <4>4. /\ dev[d].use_count = Refs(d) /\ dev[d].state \notin {"free", "taken"}
            /\ dev[d].state = "listed"
        BY <1>1, <2>1, <4>2 DEF MountsRight, DeviceRight
      <4>. QED  BY <2>1, <2>2, <2>7, <3>1, <4>2, <4>3, <4>4 DEF DeviceRight
    <3>2. CASE e # d
      BY <1>1, <1>2, <2>2, <2>5, <2>7, <3>2, OthersRight DEF MountsRight
    <3>. QED  BY <3>1, <3>2
  <2>9. NamesApart'
    <3>1. \A x : InList(x)' => InList(x) /\ x \in Structs
      BY <1>1 DEF InList, ToSet, MountTypeOK
    <3>. QED  BY <1>1, <2>2, <3>1, NamesStay DEF MountsRight, NamesApart
  <2>10. MountersApart'
    <3>1. \A u \in Callers \ {t} : Mounting(u) =>
             dev'[call[u].dev].state = "listed" /\ ~dev'[call[u].dev].root
      <4>1. \A x \in Structs : dev'[x].state = dev[x].state /\ dev'[x].root = dev[x].root
        BY <2>2
      <4>. QED  BY <1>1, <4>1 DEF MountsRight, MountersApart, Mounting
    <3>2. ~Mounting(t)'
      BY <2>5 DEF Mounting
    <3>. QED  BY <1>1, <2>1, <2>5, <3>1, <3>2, MountersGoOn DEF MountsRight
  <2>. QED  BY <2>6, <2>8, <2>9, <2>10 DEF MountsInv, MountsRight
<1>. QED
  BY <1>0, <1>3, <1>4 DEF open_get, get_device

\* What the steps have in common in which a reference to d is given up last.
LEMMA ReleaseKeeps ==
  ASSUME MountTypeOK, MountsRight, MountTypeOK', NEW t \in Callers,
         \A u \in Callers \ {t} : call'[u] = call[u],
         call'[t].hold # 1, call'[t].pc = "rest",
         NEW ds \in [Structs -> DevRecords], NEW d \in Structs,
         \A e \in Structs \ {d} : ds[e] = dev[e],
         ds[d].name = dev[d].name, ds[d].root = dev[d].root,
         dev' = release_device(ds, d),
         ds[d].use_count = (IF InList(d)' THEN 1 ELSE 0) + (IF ds[d].root THEN 1 ELSE 0)
                           + Cardinality(OpenOn(d)') + Cardinality(Holders(d)') + 1,
         ds[d].state \in {"listed", "off"}, ds[d].state = "listed" <=> InList(d)',
         \A e \in Structs \ {d} :
           /\ InList(e)' <=> InList(e)
           /\ Cardinality(OpenOn(e)') = Cardinality(OpenOn(e))
           /\ ~(call[t].dev = e /\ call[t].hold = 1),
         NoRepeats(device_list'), InList(d)' => InList(d),
         \A u \in Callers \ {t} : Mounting(u) /\ call[u].dev = d => InList(d)'
  PROVE  MountsInv'
<1>1. /\ DeviceRight(d)' /\ \A e \in Structs \ {d} : dev'[e] = ds[e]
      /\ InList(d)' => dev'[d].name = ds[d].name
      /\ dev'[d].root => ds[d].root
  BY ReleaseRight
<1>2. ASSUME NEW e \in Structs PROVE DeviceRight(e)'
  BY <1>1, OthersRight DEF MountsRight
<1>3. NamesApart'
  <2>1. \A x : InList(x)' => x \in Structs
    BY DEF InList, ToSet, MountTypeOK
  <2>. QED  BY <1>1, <2>1, NamesStay DEF MountsRight
<1>4. MountersApart'
  <2>1. ASSUME NEW u \in Callers \ {t}, Mounting(u)
        PROVE  dev'[call[u].dev].state = "listed" /\ ~dev'[call[u].dev].root
    <3>1. /\ dev[call[u].dev].state = "listed" /\ ~dev[call[u].dev].root
          /\ call[u].dev \in Structs
      BY <2>1 DEF MountsRight, MountersApart, Mounting
    <3>2. CASE call[u].dev = d
      <4>1. dev'[d].state = "listed"
        BY <1>1, <2>1, <3>2 DEF DeviceRight
      <4>. QED  BY <1>1, <3>1, <3>2, <4>1
    <3>3. CASE call[u].dev # d
      BY <1>1, <3>1, <3>3
    <3>. QED  BY <3>2, <3>3
  <2>2. ~Mounting(t)'
    BY DEF Mounting
  <2>. QED  BY <2>1, <2>2, MountersGoOn DEF MountsRight
<1>. QED
  BY <1>2, <1>3, <1>4 DEF MountsInv, MountsRight

\* make_inode() and release_device(): the inode that is open is a reference, and
\* the one of the task is given up, whether the inode could be opened or not.
LEMMA OpenInodeInv ==
  ASSUME MountsInv, NEW t \in Callers, open_inode(t)
  PROVE  MountsInv'
<1>0. PICK d : d = call[t].dev
  OBVIOUS
<1>1. MountTypeOK /\ MountsRight /\ call[t].pc = "inode" /\ clash_f = "none"
  BY DEF MountsInv, open_inode, On
<1>2. call[t].hold = 1 /\ d \in Structs /\ t \in Holders(d)
  BY <1>0, <1>1 DEF MountsRight, MountersApart, Holders
<1>3. CASE Stop("ram")
  BY <1>3, StopInv
<1>4. CASE ~Stop("ram")
  <2>1. /\ Done(t) /\ device_list' = device_list
        /\ \/ opened' = Append(opened, d) /\ dev' = release_device(get(dev, d), d)
           \/ opened' = opened /\ dev' = release_device(dev, d)
    BY <1>0, <1>4 DEF open_inode
  <2>2. /\ call' \in [Callers -> MountCalls] /\ \A u \in Callers \ {t} : call'[u] = call[u]
        /\ call'[t].hold # 1 /\ call'[t].pc = "rest"
    BY <1>1, <2>1, CallSteps, RestingHolds
  <2>3. Cardinality(Holders(d)') = Cardinality(Holders(d)) - 1
    BY <1>0, <1>1, <1>2, <2>2, HoldersMove
  <2>4. \A e \in Structs : InList(e)' <=> InList(e)
    BY <2>1 DEF InList
  <2>5. /\ Cardinality(OpenOn(d)) \in Nat /\ Cardinality(Holders(d)) \in Nat
        /\ Refs(d) \in Nat /\ Refs(d) # 0
    BY <1>1, <1>2, RefsCount
  <2>6. /\ dev[d].use_count = Refs(d) /\ dev[d].state \notin {"free", "taken"}
        /\ dev[d].state = "listed" <=> InList(d)
    BY <1>1, <1>2, <2>5 DEF MountsRight, DeviceRight
  <2>7. dev[d] \in DevRecords /\ dev \in [Structs -> DevRecords]
    BY <1>1, <1>2 DEF MountTypeOK
  <2>8. dev[d].state \in {"listed", "off"}
    BY <2>6, <2>7 DEF DevRecords
  <2>9. PICK ds \in [Structs -> DevRecords], k \in {0, 1} :
          /\ \A e \in Structs \ {d} : ds[e] = dev[e]
          /\ ds[d].state = dev[d].state /\ ds[d].name = dev[d].name /\ ds[d].root = dev[d].root
          /\ ds[d].use_count = dev[d].use_count + k
          /\ dev' = release_device(ds, d)
          /\ Cardinality(OpenOn(d)') = Cardinality(OpenOn(d)) + k
          /\ \A e \in Structs \ {d} : Cardinality(OpenOn(e)') = Cardinality(OpenOn(e))
          /\ opened' \in Seq(Structs)
    <3>1. CASE opened' = Append(opened, d) /\ dev' = release_device(get(dev, d), d)
      <4>1. PICK g : g = get(dev, d)
        OBVIOUS
      <4>2. /\ g \in [Structs -> DevRecords] /\ \A e \in Structs \ {d} : g[e] = dev[e]
            /\ g[d].state = dev[d].state /\ g[d].name = dev[d].name /\ g[d].root = dev[d].root
            /\ g[d].use_count = dev[d].use_count + 1
        BY <1>2, <2>7, <4>1, GetDoes
      <4>3. \A e \in Structs :
              Cardinality(OpenOn(e)') = Cardinality(OpenOn(e)) + (IF e = d THEN 1 ELSE 0)
        BY <1>1, <1>2, <3>1, OpenAppended
      <4>4. \A e \in Structs \ {d} : Cardinality(OpenOn(e)) \in Nat
        BY <1>1, RefsCount
      <4>5. /\ Cardinality(OpenOn(d)') = Cardinality(OpenOn(d)) + 1
            /\ \A e \in Structs \ {d} : Cardinality(OpenOn(e)') = Cardinality(OpenOn(e))
        BY <1>2, <4>3, <4>4
      <4>6. opened' \in Seq(Structs)
        BY <1>1, <1>2, <3>1 DEF MountTypeOK
      <4>. QED  BY <3>1, <4>1, <4>2, <4>5, <4>6
    <3>2. CASE opened' = opened /\ dev' = release_device(dev, d)
      <4>1. /\ \A e \in Structs : OpenOn(e)' = OpenOn(e)
            /\ opened' \in Seq(Structs)
        BY <1>1, <3>2 DEF OpenOn, MountTypeOK
      <4>2. Cardinality(OpenOn(d)') = Cardinality(OpenOn(d)) + 0
        BY <1>2, <2>5, <4>1
      <4>3. dev[d].use_count = dev[d].use_count + 0
        BY <2>5, <2>6
      <4>. QED  BY <2>7, <3>2, <4>1, <4>2, <4>3
    <3>. QED  BY <2>1, <3>1, <3>2
  <2>10. ds[d].use_count = (IF InList(d)' THEN 1 ELSE 0) + (IF ds[d].root THEN 1 ELSE 0)
                           + Cardinality(OpenOn(d)') + Cardinality(Holders(d)') + 1
    <3> DEFINE l == IF InList(d) THEN 1 ELSE 0
               r == IF dev[d].root THEN 1 ELSE 0
               o == Cardinality(OpenOn(d))
               h == Cardinality(Holders(d))
    <3>1. ds[d].use_count = l + r + o + h + k
      BY <2>6, <2>9 DEF Refs
    <3>2. l = (IF InList(d)' THEN 1 ELSE 0) /\ r = (IF ds[d].root THEN 1 ELSE 0)
      BY <1>2, <2>4, <2>9
    <3>3. Cardinality(OpenOn(d)') = o + k /\ Cardinality(Holders(d)') = h - 1
      BY <2>3, <2>9
    <3>4. l \in Nat /\ r \in Nat /\ o \in Nat /\ h \in Nat
      BY <2>5
    <3> HIDE DEF l, r, o, h
    <3>5. l + r + o + h + k = l + r + (o + k) + (h - 1) + 1
      BY <3>4
    <3>. QED  BY <3>1, <3>2, <3>3, <3>5
  <2>11. MountTypeOK'
    <3>1. dev' \in [Structs -> DevRecords]
      BY <1>2, <2>9, ReleaseDoes
    <3>. QED  BY <1>1, <2>1, <2>2, <2>9, <3>1 DEF MountTypeOK
  <2>12. \A u \in Callers \ {t} : Mounting(u) /\ call[u].dev = d => InList(d)'
    BY <1>1, <2>4, <2>6, <1>2 DEF MountsRight, MountersApart, Mounting
  <2>13. NoRepeats(device_list')
    BY <1>1, <2>1 DEF MountsRight, NamesApart
  <2>14. /\ ds[d].state \in {"listed", "off"} /\ (ds[d].state = "listed" <=> InList(d)')
         /\ \A e \in Structs \ {d} : ~(call[t].dev = e /\ call[t].hold = 1)
    BY <1>0, <1>2, <2>4, <2>6, <2>8, <2>9
  <2>. QED
    BY <1>1, <1>2, <2>2, <2>4, <2>9, <2>10, <2>11, <2>12, <2>13, <2>14, ReleaseKeeps
<1>. QED
  BY <1>3, <1>4

\* close_inode() of the last file gives up the reference of the inode.
LEMMA CloseInodeInv ==
  ASSUME MountsInv, NEW t \in Callers, close_inode(t)
  PROVE  MountsInv'
<1>0. PICK d : d = Head(opened)
  OBVIOUS
<1>1. MountTypeOK /\ MountsRight /\ call[t] = Resting /\ opened # <<>>
  BY DEF MountsInv, close_inode
<1>2. CASE Stop("ram")
  BY <1>2, StopInv
<1>3. CASE ~Stop("ram")
  <2>1. /\ dev' = release_device(dev, d) /\ opened' = Tail(opened)
        /\ device_list' = device_list /\ call' = call
    BY <1>0, <1>3 DEF close_inode
  <2>2. /\ d \in Structs /\ 1 \in OpenOn(d)
        /\ \A e \in Structs :
             Cardinality(OpenOn(e)') = Cardinality(OpenOn(e)) - (IF e = d THEN 1 ELSE 0)
    <3>1. d \in Structs
      BY <1>0, <1>1 DEF MountTypeOK
    <3>2. 1 \in OpenOn(Head(opened)) /\ \A e \in Structs :
             Cardinality(OpenOn(e)') = Cardinality(OpenOn(e)) - (IF e = Head(opened) THEN 1 ELSE 0)
      BY <1>0, <1>1, <2>1, <3>1, OpenClosed
    <3>. QED  BY <1>0, <3>1, <3>2
  <2>3. /\ Cardinality(OpenOn(d)) \in Nat /\ Cardinality(Holders(d)) \in Nat
        /\ Refs(d) \in Nat /\ Refs(d) # 0
    BY <1>1, <2>2, RefsCount
  <2>4. /\ Cardinality(OpenOn(d)') = Cardinality(OpenOn(d)) - 1
        /\ \A e \in Structs \ {d} : Cardinality(OpenOn(e)') = Cardinality(OpenOn(e))
    <3>1. \A e \in Structs \ {d} : Cardinality(OpenOn(e)) \in Nat
      BY <1>1, RefsCount
    <3>. QED  BY <2>2, <3>1
  <2>5. \A e \in Structs : (InList(e)' <=> InList(e)) /\ Holders(e)' = Holders(e)
    BY <2>1 DEF InList, Holders
  <2>6. /\ dev[d].use_count = Refs(d) /\ dev[d].state \notin {"free", "taken"}
        /\ dev[d].state = "listed" <=> InList(d)
    BY <1>1, <2>2, <2>3 DEF MountsRight, DeviceRight
  <2>7. dev[d] \in DevRecords /\ dev \in [Structs -> DevRecords]
    BY <1>1, <2>2 DEF MountTypeOK
  <2>8. dev[d].state \in {"listed", "off"}
    BY <2>6, <2>7 DEF DevRecords
  <2>9. dev[d].use_count = (IF InList(d)' THEN 1 ELSE 0) + (IF dev[d].root THEN 1 ELSE 0)
                           + Cardinality(OpenOn(d)') + Cardinality(Holders(d)') + 1
    <3> DEFINE l == IF InList(d) THEN 1 ELSE 0
               r == IF dev[d].root THEN 1 ELSE 0
               o == Cardinality(OpenOn(d))
               h == Cardinality(Holders(d))
    <3>1. dev[d].use_count = l + r + o + h
      BY <2>6 DEF Refs
    <3>2. l = (IF InList(d)' THEN 1 ELSE 0)
      BY <2>2, <2>5
    <3>3. Cardinality(OpenOn(d)') = o - 1 /\ Cardinality(Holders(d)') = h
      BY <2>2, <2>4, <2>5
    <3>4. l \in Nat /\ r \in Nat /\ o \in Nat /\ h \in Nat
      BY <2>3
    <3> HIDE DEF l, o, h
    <3>5. l + r + o + h = l + r + (o - 1) + h + 1
      BY <3>4
    <3>. QED  BY <3>1, <3>2, <3>3, <3>5
  <2>10. MountTypeOK'
    <3>1. dev' \in [Structs -> DevRecords]
      BY <2>1, <2>2, <2>7, ReleaseDoes
    <3>2. opened' \in Seq(Structs)
      BY <1>1, <2>1 DEF MountTypeOK
    <3>. QED  BY <1>1, <2>1, <3>1, <3>2 DEF MountTypeOK
  <2>11. /\ \A u \in Callers \ {t} : call'[u] = call[u]
         /\ call'[t].hold # 1 /\ call'[t].pc = "rest" /\ call[t].hold # 1
    BY <1>1, <2>1, RestingHolds
  <2>12. \A u \in Callers \ {t} : Mounting(u) /\ call[u].dev = d => InList(d)'
    BY <1>1, <2>2, <2>5, <2>6 DEF MountsRight, MountersApart, Mounting
  <2>13. NoRepeats(device_list')
    BY <1>1, <2>1 DEF MountsRight, NamesApart
  <2>. QED
    BY <1>1, <2>1, <2>2, <2>4, <2>5, <2>6, <2>7, <2>8, <2>9, <2>10, <2>11, <2>12, <2>13, ReleaseKeeps
<1>. QED
  BY <1>2, <1>3

\* remove_device() gives up the reference of the list, and then the command its own.
LEMMA RemoveDeviceInv ==
  ASSUME MountsInv, NEW t \in Callers, remove_device(t)
  PROVE  MountsInv'
<1>0. PICK d : d = call[t].dev
  OBVIOUS
<1>1. /\ MountTypeOK /\ MountsRight /\ call[t].pc = "remove" /\ clash_f = "none"
      /\ opened' = opened /\ device_list' = RemoveFirst(device_list, d)
  BY <1>0 DEF MountsInv, remove_device, On
<1>2. call[t].hold = 1 /\ d \in Structs /\ t \in Holders(d)
  BY <1>0, <1>1 DEF MountsRight, MountersApart, Holders
<1>3. /\ device_list' \in Seq(Structs) /\ NoRepeats(device_list')
      /\ \A e \in Structs : InList(e)' <=> InList(e) /\ e # d
  <2>1. /\ device_list' \in Seq(Structs) /\ NoRepeats(device_list')
        /\ ToSet(device_list') = ToSet(device_list) \ {d}
    BY <1>1, RemoveNode DEF MountTypeOK, MountsRight, NamesApart
  <2>. QED  BY <2>1 DEF InList
<1>4. CASE clash_f' # "none" /\ UNCHANGED <<dev, call>>
  BY <1>1, <1>3, <1>4 DEF MountsInv, MountTypeOK
<1>5. CASE clash_f' = "none"
  <2>1. PICK off : off = [dev EXCEPT ![d].state = "off"]
    OBVIOUS
  <2>2. PICK ds : ds = release_device(off, d)
    OBVIOUS
  <2>3. /\ dev[d].state # "off"
        /\ \A u \in Callers : call[u].dev = d => ~Mounting(u)
        /\ dev' = release_device(ds, d) /\ Done(t)
    BY <1>0, <1>5, <2>1, <2>2 DEF remove_device, Mounting
  <2>4. /\ call' \in [Callers -> MountCalls] /\ \A u \in Callers \ {t} : call'[u] = call[u]
        /\ call'[t].hold # 1 /\ call'[t].pc = "rest"
    BY <1>1, <2>3, CallSteps, RestingHolds
  <2>5. Cardinality(Holders(d)') = Cardinality(Holders(d)) - 1
    BY <1>0, <1>1, <1>2, <2>4, HoldersMove
  <2>6. /\ Cardinality(OpenOn(d)) \in Nat /\ Cardinality(Holders(d)) \in Nat
        /\ Refs(d) \in Nat /\ Refs(d) # 0 /\ Cardinality(Holders(d)) # 0
    BY <1>1, <1>2, RefsCount, FS_EmptySet
  <2>7. dev[d] \in DevRecords /\ dev \in [Structs -> DevRecords]
    BY <1>1, <1>2 DEF MountTypeOK
  <2>8. dev[d].use_count = Refs(d) /\ dev[d].state = "listed" /\ InList(d)
    BY <1>1, <1>2, <2>3, <2>6, <2>7 DEF MountsRight, DeviceRight, DevRecords
  <2>9. /\ off \in [Structs -> DevRecords] /\ \A e \in Structs \ {d} : off[e] = dev[e]
        /\ off[d].state = "off" /\ off[d].name = dev[d].name /\ off[d].root = dev[d].root
        /\ off[d].use_count = dev[d].use_count
    <3>1. PICK r : r = dev[d]
      OBVIOUS
    <3>2. PICK r2 : r2 = [r EXCEPT !.state = "off"]
      OBVIOUS
    <3>3. /\ r2 \in DevRecords /\ r2.state = "off" /\ r2.name = r.name /\ r2.root = r.root
          /\ r2.use_count = r.use_count
      BY <2>7, <3>1, <3>2 DEF DevRecords
    <3>4. off = [dev EXCEPT ![d] = r2]
      BY <2>1, <3>1, <3>2
    <3>. QED  BY <1>2, <2>7, <3>1, <3>3, <3>4
  <2>10. dev[d].use_count = 1 + (IF dev[d].root THEN 1 ELSE 0) + Cardinality(OpenOn(d))
                            + Cardinality(Holders(d))
    BY <2>8 DEF Refs
  <2>11. dev[d].use_count > 1
    <3> DEFINE r == IF dev[d].root THEN 1 ELSE 0
    <3>1. r \in Nat
      OBVIOUS
    <3> HIDE DEF r
    <3>2. dev[d].use_count = 1 + r + Cardinality(OpenOn(d)) + Cardinality(Holders(d))
      BY <2>10 DEF r
    <3>. QED  BY <2>6, <3>1, <3>2
  <2>12. /\ ds \in [Structs -> DevRecords] /\ \A e \in Structs \ {d} : ds[e] = dev[e]
         /\ ds[d].state = "off" /\ ds[d].name = dev[d].name /\ ds[d].root = dev[d].root
         /\ ds[d].use_count = dev[d].use_count - 1
    BY <1>2, <2>2, <2>9, <2>11, ReleaseDoes
  <2>13. ~InList(d)' /\ \A e \in Structs : OpenOn(e)' = OpenOn(e)
    BY <1>1, <1>2, <1>3 DEF OpenOn
  <2>14. ds[d].use_count = (IF InList(d)' THEN 1 ELSE 0) + (IF ds[d].root THEN 1 ELSE 0)
                           + Cardinality(OpenOn(d)') + Cardinality(Holders(d)') + 1
    <3> DEFINE r == IF ds[d].root THEN 1 ELSE 0
               o == Cardinality(OpenOn(d))
               h == Cardinality(Holders(d))
    <3>0. r = (IF dev[d].root THEN 1 ELSE 0)
      BY <2>12
    <3>1. ds[d].use_count = 1 + r + o + h - 1
      <4>1. dev[d].use_count = 1 + r + o + h
        BY <2>10, <3>0
      <4>2. r \in Nat /\ o \in Nat /\ h \in Nat
        BY <2>6
      <4>3. ds[d].use_count = dev[d].use_count - 1
        BY <2>12
      <4> HIDE DEF r, o, h
      <4>. QED  BY <4>1, <4>2, <4>3
    <3>2. Cardinality(OpenOn(d)') = o /\ Cardinality(Holders(d)') = h - 1
      BY <1>2, <2>5, <2>13
    <3>3. r \in Nat /\ o \in Nat /\ h \in Nat
      BY <2>6
    <3> HIDE DEF o, h
    <3>4. 1 + r + o + h - 1 = 0 + r + o + (h - 1) + 1
      BY <3>3
    <3>. QED  BY <2>13, <3>1, <3>2, <3>4
  <2>15. MountTypeOK'
    <3>1. dev' \in [Structs -> DevRecords]
      BY <1>2, <2>3, <2>12, ReleaseDoes
    <3>. QED  BY <1>1, <1>3, <2>4, <3>1 DEF MountTypeOK
  <2>16. \A e \in Structs \ {d} : /\ (InList(e)' <=> InList(e))
                                  /\ Cardinality(OpenOn(e)') = Cardinality(OpenOn(e))
                                  /\ ~(call[t].dev = e /\ call[t].hold = 1)
    BY <1>0, <1>3, <2>13
  <2>. QED
    BY <1>1, <1>2, <1>3, <2>3, <2>4, <2>12, <2>13, <2>14, <2>15, <2>16, ReleaseKeeps
<1>6. clash_f' # "none" => UNCHANGED <<dev, call>>
  BY <1>1 DEF remove_device
<1>. QED
  BY <1>4, <1>5, <1>6

LEMMA InitMountsInv == FInit => MountsInv
<1> SUFFICES ASSUME FInit PROVE MountsInv
  OBVIOUS
<1>1. Blank \in DevRecords /\ Blank.state = "free" /\ Blank.use_count = 0 /\ Blank.root = FALSE
  BY DEF Blank, DevRecords, Named
<1>2. Resting \in MountCalls
  BY DEF Resting, MountCalls, MountOps, MountPcs, Named
<1>3. /\ \A d \in Structs : dev[d] = Blank
      /\ \A t \in Callers : call[t] = Resting
      /\ device_list = <<>> /\ opened = <<>>
  BY DEF FInit
<1>4. MountTypeOK
  BY <1>1, <1>2, <1>3 DEF FInit, MountTypeOK
<1>5. ASSUME NEW d \in Structs PROVE DeviceRight(d)
  <2>1. ~InList(d) /\ OpenOn(d) = {} /\ Holders(d) = {}
    BY <1>3, RestingHolds DEF InList, ToSet, OpenOn, Holders
  <2>2. Refs(d) = 0
    BY <1>1, <1>3, <1>4, <2>1, RefsCount
  <2>. QED  BY <1>1, <1>3, <2>1, <2>2 DEF DeviceRight
<1>6. NamesApart
  BY <1>3 DEF NamesApart, NoRepeats, ToSet
<1>7. MountersApart
  BY <1>3, RestingHolds DEF MountersApart, Mounting
<1>. QED
  BY <1>4, <1>5, <1>6, <1>7 DEF MountsInv, MountsRight

LEMMA NextMountsInv == MountsInv /\ [FNext]_fvars => MountsInv'
<1>1. ASSUME MountsInv, UNCHANGED fvars PROVE MountsInv'
  <2>1. MountTypeOK' = MountTypeOK /\ MountsRight' = MountsRight
    BY <1>1 DEF fvars, MountTypeOK, MountsRight, DeviceRight, Refs, InList, OpenOn, Holders,
       NamesApart, MountersApart, Mounting
  <2>. QED  BY <1>1, <2>1 DEF MountsInv, fvars
<1>2. ASSUME MountsInv, FNext PROVE MountsInv'
  <2>1. PICK t \in Callers :
          \/ \E op \in MountOps \ {"rest"}, n \in Named : begin_call(t, op, n)
          \/ create_ramdisk(t) \/ check_mounted(t) \/ mkfs(t) \/ read_meta(t)
          \/ begin_mkfs(t) \/ add_device(t) \/ validate_device(t)
          \/ open_get(t) \/ get_device(t) \/ open_inode(t) \/ close_inode(t) \/ remove_device(t)
    BY <1>2 DEF FNext, MountOps, Named, Disks
  <2>. QED
    BY <1>2, <2>1, BeginInv, QuietInv, BeginMkfsInv, AddDeviceInv, ValidateInv, GetInv,
       OpenInodeInv, CloseInodeInv, RemoveDeviceInv
<1>. QED
  BY <1>1, <1>2

\* A device of the file system counts its references and is freed with the last of
\* them, and a name finds one device, until one of the named races happens, for any
\* tasks, structures and disks (add_device, get_device, release_device, remove_device).
THEOREM DevicesSafe == FSpec => []DevicesCounted
BY InitMountsInv, NextMountsInv, MountsInvCounts, PTL DEF FSpec

-----------------------------------------------------------------------------
(* The devices of virtual machines, for any shells, machines and devices.   *)

MachineStates == {"none", "init", "running", "killed", "freed"}
MachineRecords == [state : MachineStates, slots : [Devices -> Nat], kill_list : Seq(Devices)]
InitRecords == [sh : Shells, vm : Vms]
KillRecords == [vm : Vms \cup {NoShell}, todo : Seq(Devices)]

MachineTypeOK ==
    /\ init_vm_list \in Seq(InitRecords)
    /\ machine \in [Vms -> MachineRecords]
    /\ alive \subseteq Vms \X Devices \X Nat
    /\ killer \in [Shells -> KillRecords]

\* The devices of v and d that are alive have the numbers of the handlers that
\* delete devices of that kind, and the slot has the greatest.
DevicesRight(v, d) ==
    /\ machine[v].slots[d] # 0 => <<v, d, machine[v].slots[d]>> \in alive
    /\ machine[v].state = "freed" => machine[v].slots[d] = 0
    /\ \A n \in Nat : <<v, d, n>> \in alive =>
         /\ n \in 1..Created(v) /\ machine[v].kill_list[Created(v) + 1 - n] = d
         /\ machine[v].slots[d] # 0 => n <= machine[v].slots[d]
         /\ \/ machine[v].slots[d] = n
            \/ \E i, j \in 1..Created(v) :
                 i # j /\ machine[v].kill_list[i] = d /\ machine[v].kill_list[j] = d

\* A shell that kills a machine has yet to call the handler of each device that
\* the machine still has.
KillRight(sh) ==
    killer[sh] # NoKill =>
        /\ killer[sh].vm \in Vms /\ machine[killer[sh].vm].state \in {"killed", "freed"}
        /\ \A d \in Devices :
             machine[killer[sh].vm].slots[d] # 0 => d \in ToSet(killer[sh].todo)

Waits(v) == \E e \in ToSet(init_vm_list) : e.vm = v

\* A machine is once in init_vm_list while it waits for vmlaunch.
WaitersOnce ==
    /\ NoRepeats(init_vm_list)
    /\ \A e, f \in ToSet(init_vm_list) : e.vm = f.vm => e = f
    /\ \A v \in Vms : /\ machine[v].state = "init" => Waits(v)
                      /\ machine[v].state \in {"none", "running"} => ~Waits(v)

MachinesRight ==
    /\ \A v \in Vms, d \in Devices : DevicesRight(v, d)
    /\ \A sh \in Shells : KillRight(sh)
    /\ WaitersOnce

MachinesInv == MachineTypeOK /\ (clash_v = "none" => MachinesRight)

\* The invariant is what DevicesLive says, and more.
LEMMA MachinesInvLive == MachinesInv => DevicesLive
<1> SUFFICES ASSUME MachineTypeOK, MachinesRight PROVE DevicesLive
  BY DEF DevicesLive, MachinesInv
<1>1. ASSUME NEW v \in Vms, NEW d \in Devices,
             NEW last, last = {x \in alive : x[1] = v /\ x[2] = d
                                 /\ \A y \in alive : y[1] = v /\ y[2] = d => y[3] <= x[3]}
      PROVE  /\ machine[v].slots[d] # 0 => <<v, d, machine[v].slots[d]>> \in last
             /\ machine[v].state = "freed" => machine[v].slots[d] = 0
             /\ \A x \in alive : x[1] = v /\ x[2] = d =>
                  \/ machine[v].slots[d] = x[3]
                  \/ \E i, j \in DOMAIN machine[v].kill_list :
                       i # j /\ machine[v].kill_list[i] = d /\ machine[v].kill_list[j] = d
  <2>1. DOMAIN machine[v].kill_list = 1..Created(v)
    BY DEF MachineTypeOK, MachineRecords, Created
  <2>2. \A x \in alive : x = <<x[1], x[2], x[3]>> /\ x[3] \in Nat
    BY DEF MachineTypeOK
  <2>3. DevicesRight(v, d)
    BY DEF MachinesRight
  <2>4. \A y \in alive : y[1] = v /\ y[2] = d =>
          /\ machine[v].slots[d] # 0 => y[3] <= machine[v].slots[d]
          /\ \/ machine[v].slots[d] = y[3]
             \/ \E i, j \in 1..Created(v) :
                  i # j /\ machine[v].kill_list[i] = d /\ machine[v].kill_list[j] = d
    <3> TAKE y \in alive
    <3> HAVE y[1] = v /\ y[2] = d
    <3>1. <<v, d, y[3]>> \in alive /\ y[3] \in Nat
      BY <2>2
    <3>. QED  BY <2>3, <3>1 DEF DevicesRight
  <2>5. ASSUME machine[v].slots[d] # 0 PROVE <<v, d, machine[v].slots[d]>> \in last
    BY <1>1, <2>3, <2>4, <2>5 DEF DevicesRight
  <2>. QED  BY <2>1, <2>3, <2>4, <2>5 DEF DevicesRight
<1>2. ASSUME NEW v \in Vms
      PROVE  Cardinality({i \in DOMAIN init_vm_list : init_vm_list[i].vm = v})
               \in IF machine[v].state = "init" THEN {1}
                   ELSE IF machine[v].state \in {"none", "running"} THEN {0} ELSE {0, 1}
  <2> DEFINE I == {i \in DOMAIN init_vm_list : init_vm_list[i].vm = v}
  <2>1. DOMAIN init_vm_list = 1..Len(init_vm_list)
    BY DEF MachineTypeOK
  <2>2. Waits(v) <=> I # {}
    BY DEF Waits, ToSet
  <2>3. \A i, j \in I : i = j
    <3>1. \A i, j \in DOMAIN init_vm_list :
            init_vm_list[i].vm = init_vm_list[j].vm => init_vm_list[i] = init_vm_list[j]
      BY DEF MachinesRight, WaitersOnce, ToSet
    <3>. QED  BY <2>1, <3>1 DEF MachinesRight, WaitersOnce, NoRepeats
  <2> HIDE DEF I
  <2>4. CASE I = {}
    <3>1. Cardinality(I) = 0
      BY <2>4, FS_EmptySet
    <3>. QED  BY <2>2, <2>4, <3>1 DEF MachinesRight, WaitersOnce, I
  <2>5. CASE I # {}
    <3>1. PICK i : I = {i}
      BY <2>3, <2>5
    <3>2. Cardinality(I) = 1
      BY <3>1, FS_Singleton
    <3>. QED  BY <2>2, <2>5, <3>2 DEF MachinesRight, WaitersOnce, I
  <2>. QED  BY <2>4, <2>5
<1>. QED
  BY <1>1, <1>2 DEF DevicesLive

\* The newest machine of a shell.
LEMMA FindMachine ==
  ASSUME MachineTypeOK, NEW sh, find_init_vm(sh) # 0
  PROVE  /\ find_init_vm(sh) \in 1..Len(init_vm_list)
         /\ init_vm_list[find_init_vm(sh)] \in InitRecords
         /\ init_vm_list[find_init_vm(sh)].vm \in Vms
<1> DEFINE I == {i \in 1..Len(init_vm_list) : init_vm_list[i].sh = sh}
<1>1. I \in SUBSET Nat /\ I # {}
  BY DEF find_init_vm, SelectInSeq
<1>2. Min(I) \in I
  <2> HIDE DEF I
  <2>. QED  BY <1>1, MinInSet
<1>3. find_init_vm(sh) = Min(I)
  BY <1>1 DEF find_init_vm, SelectInSeq
<1>4. \A i \in 1..Len(init_vm_list) : init_vm_list[i] \in InitRecords
  BY DEF MachineTypeOK
<1>5. \A e \in InitRecords : e.vm \in Vms
  BY DEF InitRecords
<1>. QED
  BY <1>2, <1>3, <1>4, <1>5

\* Only the state of a machine changes.
LEMMA StateRight ==
  ASSUME MachineTypeOK, \A v \in Vms, d \in Devices : DevicesRight(v, d), alive' = alive,
         NEW v \in Vms, NEW s \in MachineStates, machine' = [machine EXCEPT ![v].state = s],
         s = "freed" => \A d \in Devices : machine[v].slots[d] = 0
  PROVE  /\ machine' \in [Vms -> MachineRecords]
         /\ machine'[v].state = s /\ \A w \in Vms \ {v} : machine'[w] = machine[w]
         /\ \A w \in Vms : machine'[w].slots = machine[w].slots
         /\ \A w \in Vms, d \in Devices : DevicesRight(w, d)'
<1>1. PICK r : r = machine[v]
  OBVIOUS
<1>2. PICK r2 : r2 = [r EXCEPT !.state = s]
  OBVIOUS
<1>3. r \in MachineRecords
  BY <1>1 DEF MachineTypeOK
<1>4. /\ r2 \in MachineRecords /\ r2.state = s /\ r2.slots = r.slots /\ r2.kill_list = r.kill_list
  BY <1>2, <1>3 DEF MachineRecords
<1>5. machine' = [machine EXCEPT ![v] = r2]
  BY <1>1, <1>2
<1>6. /\ machine' \in [Vms -> MachineRecords]
      /\ machine'[v] = r2 /\ \A w \in Vms \ {v} : machine'[w] = machine[w]
  BY <1>4, <1>5 DEF MachineTypeOK
<1>7. \A w \in Vms : /\ machine'[w].slots = machine[w].slots
                     /\ machine'[w].kill_list = machine[w].kill_list
  BY <1>1, <1>4, <1>6
<1>8. ASSUME NEW w \in Vms, NEW d \in Devices PROVE DevicesRight(w, d)'
  <2>1. Created(w)' = Created(w)
    BY <1>7 DEF Created
  <2>2. DevicesRight(w, d)
    OBVIOUS
  <2>3. machine'[w].state = "freed" => machine'[w].slots[d] = 0
    <3>1. CASE w = v
      BY <1>4, <1>6, <1>7, <3>1
    <3>2. CASE w # v
      BY <1>6, <2>2, <3>2 DEF DevicesRight
    <3>. QED  BY <3>1, <3>2
  <2>. QED  BY <1>7, <2>1, <2>2, <2>3 DEF DevicesRight
<1>. QED
  BY <1>4, <1>6, <1>7, <1>8

\* Where the model stops, the state of the machines has changed its value only.
LEMMA DanglingInv ==
  ASSUME MachinesInv, dangling, init_vm_list' \in Seq(InitRecords)
  PROVE  MachinesInv'
BY DEF dangling, MachinesInv, MachineTypeOK

\* A kill under way goes on if its machine keeps its slots and stays killed.
LEMMA KillersGoOn ==
  ASSUME NEW sh \in Shells, KillRight(sh), killer'[sh] = killer[sh],
         NEW v \in Vms, \A w \in Vms \ {v} : machine'[w] = machine[w],
         machine[v].state \in {"killed", "freed"} =>
           /\ machine'[v].state \in {"killed", "freed"}
           /\ \A d \in Devices : machine'[v].slots[d] # 0 => machine[v].slots[d] # 0
  PROVE  KillRight(sh)'
<1> SUFFICES ASSUME killer[sh] # NoKill
             PROVE  /\ killer[sh].vm \in Vms /\ machine'[killer[sh].vm].state \in {"killed", "freed"}
                    /\ \A d \in Devices :
                         machine'[killer[sh].vm].slots[d] # 0 => d \in ToSet(killer[sh].todo)
  BY DEF KillRight, NoKill
<1>1. /\ killer[sh].vm \in Vms /\ machine[killer[sh].vm].state \in {"killed", "freed"}
      /\ \A d \in Devices : machine[killer[sh].vm].slots[d] # 0 => d \in ToSet(killer[sh].todo)
  BY DEF KillRight
<1>2. CASE killer[sh].vm = v
  BY <1>1, <1>2
<1>3. CASE killer[sh].vm # v
  BY <1>1, <1>3
<1>. QED
  BY <1>2, <1>3

\* cmd_vminit() puts the new machine into init_vm_list.
LEMMA VminitInv ==
  ASSUME MachinesInv, clash_v = "none", NEW sh \in Shells, NEW v \in Vms, cmd_vminit(sh, v)
  PROVE  MachinesInv'
<1>0. PICK e : e = [sh |-> sh, vm |-> v]
  OBVIOUS
<1>1. /\ MachineTypeOK /\ MachinesRight /\ machine[v].state = "none"
      /\ machine' = [machine EXCEPT ![v].state = "init"]
      /\ init_vm_list' = <<e>> \o init_vm_list
      /\ UNCHANGED <<alive, killer, clash_v>>
      /\ e \in InitRecords /\ e.vm = v
  BY <1>0 DEF MachinesInv, cmd_vminit, InitRecords
<1>2. PICK s : s = "init" /\ s \in MachineStates /\ s # "freed"
  BY DEF MachineStates
<1>3. /\ machine' \in [Vms -> MachineRecords]
      /\ machine'[v].state = "init" /\ \A w \in Vms \ {v} : machine'[w] = machine[w]
      /\ \A w \in Vms, d \in Devices : DevicesRight(w, d)'
  <2>1. machine' = [machine EXCEPT ![v].state = s] /\ alive' = alive
    BY <1>1, <1>2
  <2>2. \A w \in Vms, d \in Devices : DevicesRight(w, d)
    BY <1>1 DEF MachinesRight
  <2>. QED  BY <1>1, <1>2, <2>1, <2>2, StateRight
<1>4. ~Waits(v) /\ e \notin ToSet(init_vm_list)
  BY <1>1 DEF MachinesRight, WaitersOnce, Waits
<1>5. /\ init_vm_list' \in Seq(InitRecords) /\ NoRepeats(init_vm_list')
      /\ ToSet(init_vm_list') = ToSet(init_vm_list) \cup {e}
  BY <1>1, <1>4, ConsNode DEF MachineTypeOK, MachinesRight, WaitersOnce
<1>6. MachineTypeOK'
  BY <1>1, <1>3, <1>5 DEF MachineTypeOK
<1>7. ASSUME NEW u \in Shells PROVE KillRight(u)'
  <2>1. KillRight(u) /\ killer'[u] = killer[u]
    BY <1>1 DEF MachinesRight
  <2>. QED  BY <1>1, <1>3, <2>1, KillersGoOn
<1>8. WaitersOnce'
  <2>1. \A f, g \in ToSet(init_vm_list') : f.vm = g.vm => f = g
    BY <1>1, <1>4, <1>5 DEF MachinesRight, WaitersOnce, Waits
  <2>2. ASSUME NEW w \in Vms
        PROVE  /\ machine'[w].state = "init" => Waits(w)'
               /\ machine'[w].state \in {"none", "running"} => ~Waits(w)'
    <3>1. CASE w = v
      BY <1>1, <1>3, <1>5, <3>1 DEF Waits
    <3>2. CASE w # v
      <4>1. Waits(w)' <=> Waits(w)
        BY <1>1, <1>5, <3>2 DEF Waits
      <4>. QED  BY <1>1, <1>3, <3>2, <4>1 DEF MachinesRight, WaitersOnce
    <3>. QED  BY <3>1, <3>2
  <2>. QED  BY <1>5, <2>1, <2>2 DEF WaitersOnce
<1>. QED
  BY <1>3, <1>6, <1>7, <1>8 DEF MachinesInv, MachinesRight

\* cmd_vmlaunch() takes the newest machine of the shell out of it.
LEMMA VmlaunchInv ==
  ASSUME MachinesInv, clash_v = "none", NEW sh \in Shells, cmd_vmlaunch(sh)
  PROVE  MachinesInv'
<1>0. PICK i, e, v : i = find_init_vm(sh) /\ e = init_vm_list[i] /\ v = e.vm
  OBVIOUS
<1>1. /\ MachineTypeOK /\ MachinesRight /\ i \in 1..Len(init_vm_list) /\ v \in Vms
      /\ e \in InitRecords /\ init_vm_list' = RemoveAt(init_vm_list, i)
  BY <1>0, FindMachine DEF MachinesInv, cmd_vmlaunch, unlink_init_vm
<1>2. /\ init_vm_list' \in Seq(InitRecords) /\ NoRepeats(init_vm_list')
      /\ ToSet(init_vm_list') = ToSet(init_vm_list) \ {e}
  BY <1>0, <1>1, RemoveAtNode DEF MachineTypeOK, MachinesRight, WaitersOnce
<1>3. e \in ToSet(init_vm_list)
  BY <1>0, <1>1 DEF ToSet, MachineTypeOK
<1>4. CASE dangling
  BY <1>2, <1>4, DanglingInv
<1>5. CASE ~dangling
  <2>0. PICK s : s = IF machine[v].state = "killed" THEN "killed" ELSE "running"
    OBVIOUS
  <2>1. /\ machine[v].state # "freed" /\ machine' = [machine EXCEPT ![v].state = s]
        /\ UNCHANGED <<alive, killer, clash_v>>
    BY <1>0, <1>5, <2>0 DEF cmd_vmlaunch
  <2>2. s \in MachineStates /\ s # "freed" /\ s # "init" /\ s # "none"
    BY <2>0 DEF MachineStates
  <2>3. /\ machine' \in [Vms -> MachineRecords]
        /\ machine'[v].state = s /\ \A w \in Vms \ {v} : machine'[w] = machine[w]
        /\ \A w \in Vms : machine'[w].slots = machine[w].slots
        /\ \A w \in Vms, d \in Devices : DevicesRight(w, d)'
    BY <1>1, <2>1, <2>2, StateRight DEF MachinesRight
  <2>4. MachineTypeOK'
    BY <1>1, <1>2, <2>1, <2>3 DEF MachineTypeOK
  <2>5. ASSUME NEW u \in Shells PROVE KillRight(u)'
    <3>1. KillRight(u) /\ killer'[u] = killer[u]
      BY <1>1, <2>1 DEF MachinesRight
    <3>2. machine[v].state \in {"killed", "freed"} =>
            /\ machine'[v].state \in {"killed", "freed"}
            /\ \A d \in Devices : machine'[v].slots[d] # 0 => machine[v].slots[d] # 0
      BY <1>1, <2>0, <2>1, <2>3
    <3>. QED  BY <1>1, <2>3, <3>1, <3>2, KillersGoOn
  <2>6. WaitersOnce'
    <3>1. \A f, g \in ToSet(init_vm_list') : f.vm = g.vm => f = g
      BY <1>1, <1>2 DEF MachinesRight, WaitersOnce
    <3>2. ASSUME NEW w \in Vms
          PROVE  /\ machine'[w].state = "init" => Waits(w)'
                 /\ machine'[w].state \in {"none", "running"} => ~Waits(w)'
      <4>1. CASE w = v
        <5>1. ~Waits(v)'
          BY <1>0, <1>1, <1>2, <1>3 DEF Waits, MachinesRight, WaitersOnce
        <5>. QED  BY <2>2, <2>3, <4>1, <5>1
      <4>2. CASE w # v
        <5>1. Waits(w)' <=> Waits(w)
          BY <1>0, <1>2, <4>2 DEF Waits
        <5>. QED  BY <1>1, <2>3, <4>2, <5>1 DEF MachinesRight, WaitersOnce
      <4>. QED  BY <4>1, <4>2
    <3>. QED  BY <1>2, <3>1, <3>2 DEF WaitersOnce
  <2>. QED  BY <2>3, <2>4, <2>5, <2>6 DEF MachinesInv, MachinesRight
<1>. QED
  BY <1>4, <1>5

\* cmd_vmvxd() gives the machine a device, whose handler comes first.
LEMMA VmvxdInv ==
  ASSUME MachinesInv, clash_v = "none", NEW sh \in Shells, NEW d \in Devices, cmd_vmvxd(sh, d)
  PROVE  MachinesInv'
<1>0. PICK i, v, n : i = find_init_vm(sh) /\ v = init_vm_list[i].vm /\ n = Created(v) + 1
  OBVIOUS
<1>1. /\ MachineTypeOK /\ MachinesRight /\ i \in 1..Len(init_vm_list) /\ v \in Vms
      /\ init_vm_list[i] \in ToSet(init_vm_list)
      /\ UNCHANGED init_vm_list
  BY <1>0, FindMachine DEF MachinesInv, cmd_vmvxd, MachineTypeOK, ToSet
<1>2. CASE dangling
  BY <1>1, <1>2, DanglingInv DEF MachineTypeOK
<1>3. CASE ~dangling
  <2>1. PICK r : r = machine[v]
    OBVIOUS
  <2>2. PICK r2 : r2 = [state |-> r.state, slots |-> [r.slots EXCEPT ![d] = n],
                        kill_list |-> <<d>> \o r.kill_list]
    OBVIOUS
  <2>3. /\ r \in MachineRecords /\ r.state \in MachineStates /\ r.slots \in [Devices -> Nat]
        /\ r.kill_list \in Seq(Devices)
        /\ r = [state |-> r.state, slots |-> r.slots, kill_list |-> r.kill_list]
    BY <1>1, <2>1 DEF MachineTypeOK, MachineRecords
  <2>4. /\ Created(v) = Len(r.kill_list) /\ n = Len(r.kill_list) + 1 /\ n \in Nat /\ n # 0
    BY <1>0, <2>1, <2>3 DEF Created
  <2>5. [add_vm_kill_handler(r, d) EXCEPT !.slots[d] = n] = r2
    <3>1. PICK k : k = <<d>> \o r.kill_list
      OBVIOUS
    <3>2. PICK a : a = [state |-> r.state, slots |-> r.slots, kill_list |-> k]
      OBVIOUS
    <3>3. [r EXCEPT !.kill_list = k] = a
      BY <2>3, <3>2
    <3>4. add_vm_kill_handler(r, d) = a
      BY <3>1, <3>3 DEF add_vm_kill_handler
    <3>5. [a EXCEPT !.slots[d] = n] = r2
      <4>1. PICK f : f = [r.slots EXCEPT ![d] = n]
        OBVIOUS
      <4>2. [a EXCEPT !.slots[d] = n] = [a EXCEPT !.slots = f]
        BY <3>2, <4>1
      <4>3. r2 = [state |-> r.state, slots |-> f, kill_list |-> k]
        BY <2>2, <3>1, <4>1
      <4>. QED  BY <3>2, <4>2, <4>3
    <3>. QED  BY <3>4, <3>5
  <2>6. /\ machine' = [machine EXCEPT ![v] = r2]
        /\ alive' = alive \cup {<<v, d, n>>} /\ killer' = killer
        /\ clash_v' = "none" => machine[v].state # "killed"
        /\ machine[v].state # "freed"
    BY <1>0, <1>3, <2>1, <2>5 DEF cmd_vmvxd
  <2>7. /\ r2 \in MachineRecords /\ r2.state = r.state
        /\ r2.slots[d] = n /\ \A c \in Devices \ {d} : r2.slots[c] = r.slots[c]
        /\ Len(r2.kill_list) = n /\ r2.kill_list[1] = d
        /\ \A j \in 2..n : r2.kill_list[j] = r.kill_list[j - 1]
    <3>1. PICK k : k = <<d>> \o r.kill_list
      OBVIOUS
    <3>2. /\ k \in Seq(Devices) /\ Len(k) = n /\ k[1] = d
          /\ \A j \in 2..n : k[j] = r.kill_list[j - 1]
      BY <2>3, <2>4, <3>1
    <3>3. [r.slots EXCEPT ![d] = n] \in [Devices -> Nat]
      BY <2>3, <2>4
    <3>4. r2 \in MachineRecords
      BY <2>2, <2>3, <3>1, <3>2, <3>3 DEF MachineRecords
    <3>. QED  BY <2>2, <2>3, <3>1, <3>2, <3>4
  <2>8. /\ machine' \in [Vms -> MachineRecords] /\ machine'[v] = r2
        /\ \A w \in Vms \ {v} : machine'[w] = machine[w]
    BY <1>1, <2>6, <2>7 DEF MachineTypeOK
  <2>9. MachineTypeOK'
    <3>1. alive' \subseteq Vms \X Devices \X Nat
      BY <1>1, <2>4, <2>6 DEF MachineTypeOK
    <3>. QED  BY <1>1, <2>6, <2>8, <3>1 DEF MachineTypeOK
  <2>10. Created(v)' = n /\ \A w \in Vms \ {v} : Created(w)' = Created(w)
    BY <2>7, <2>8 DEF Created
  <2>11. ASSUME NEW c \in Devices PROVE DevicesRight(v, c)'
    <3>1. DevicesRight(v, c)
      BY <1>1 DEF MachinesRight
    <3>2. \A m \in Nat : <<v, c, m>> \in alive =>
            /\ m \in 1..(n - 1) /\ r.kill_list[n - m] = c
            /\ r.slots[c] # 0 => m <= r.slots[c]
            /\ \/ r.slots[c] = m
               \/ \E p, q \in 1..(n - 1) : p # q /\ r.kill_list[p] = c /\ r.kill_list[q] = c
      <4>1. Created(v) = n - 1 /\ \A m \in Nat : Created(v) + 1 - m = n - m
        BY <2>4
      <4>. QED  BY <2>1, <3>1, <4>1 DEF DevicesRight
    <3>3. r2.slots[c] # 0 => <<v, c, r2.slots[c]>> \in alive'
      BY <2>1, <2>6, <2>7, <3>1 DEF DevicesRight
    <3>4. ASSUME NEW m \in Nat, <<v, c, m>> \in alive'
          PROVE  /\ m \in 1..n /\ r2.kill_list[n + 1 - m] = c
                 /\ r2.slots[c] # 0 => m <= r2.slots[c]
                 /\ \/ r2.slots[c] = m
                    \/ \E p, q \in 1..n : p # q /\ r2.kill_list[p] = c /\ r2.kill_list[q] = c
      <4>1. CASE c = d /\ m = n
        <5>1. m \in 1..n /\ n + 1 - m = 1
          BY <2>4, <4>1
        <5>. QED  BY <2>7, <4>1, <5>1
      <4>2. CASE <<v, c, m>> \in alive
        <5>1. /\ m \in 1..(n - 1) /\ r.kill_list[n - m] = c
              /\ r.slots[c] # 0 => m <= r.slots[c]
          BY <3>2, <4>2
        <5>2. /\ m \in 1..n /\ n + 1 - m \in 2..n /\ (n + 1 - m) - 1 = n - m
          BY <2>4, <5>1
        <5>3. r2.kill_list[n + 1 - m] = c
          BY <2>7, <5>1, <5>2
        <5>4. CASE c = d
          <6>1. /\ 1 \in 1..n /\ n + 1 - m \in 1..n /\ 1 # n + 1 - m
            BY <2>4, <5>2
          <6>. QED  BY <2>4, <2>7, <5>2, <5>3, <5>4, <6>1
        <5>5. CASE c # d
          <6>1. r2.slots[c] = r.slots[c]
            BY <2>7, <5>5
          <6>2. ASSUME NEW p \in 1..(n - 1), NEW q \in 1..(n - 1), p # q,
                       r.kill_list[p] = c, r.kill_list[q] = c
                PROVE  \E x, y \in 1..n : x # y /\ r2.kill_list[x] = c /\ r2.kill_list[y] = c
            <7>1. /\ p + 1 \in 2..n /\ q + 1 \in 2..n /\ p + 1 # q + 1
                  /\ p + 1 \in 1..n /\ q + 1 \in 1..n
                  /\ (p + 1) - 1 = p /\ (q + 1) - 1 = q
              BY <2>4, <6>2
            <7>2. r2.kill_list[p + 1] = c /\ r2.kill_list[q + 1] = c
              BY <2>7, <6>2, <7>1
            <7>. QED  BY <7>1, <7>2
          <6>3. \/ r.slots[c] = m
                \/ \E p, q \in 1..(n - 1) : p # q /\ r.kill_list[p] = c /\ r.kill_list[q] = c
            BY <3>2, <4>2
          <6>. QED  BY <5>1, <5>2, <5>3, <6>1, <6>2, <6>3
        <5>. QED  BY <5>4, <5>5
      <4>. QED  BY <2>6, <3>4, <4>1, <4>2
    <3>5. r2.state # "freed"
      BY <2>1, <2>6, <2>7
    <3>. QED  BY <2>8, <2>10, <3>3, <3>4, <3>5 DEF DevicesRight
  <2>12. ASSUME NEW w \in Vms \ {v}, NEW c \in Devices PROVE DevicesRight(w, c)'
    <3>1. DevicesRight(w, c)
      BY <1>1 DEF MachinesRight
    <3>2. \A m : <<w, c, m>> \in alive' <=> <<w, c, m>> \in alive
      BY <2>6
    <3>. QED  BY <2>8, <2>10, <3>1, <3>2 DEF DevicesRight
  <2>13. ASSUME clash_v' = "none", NEW u \in Shells PROVE KillRight(u)'
    <3>1. KillRight(u) /\ killer'[u] = killer[u]
      BY <1>1, <2>6 DEF MachinesRight
    <3>. QED  BY <1>1, <2>6, <2>8, <2>13, <3>1, KillersGoOn
  <2>14. WaitersOnce'
    <3>1. \A w \in Vms : machine'[w].state = machine[w].state /\ (Waits(w)' <=> Waits(w))
      BY <1>1, <2>1, <2>7, <2>8 DEF Waits
    <3>. QED  BY <1>1, <3>1 DEF MachinesRight, WaitersOnce
  <2>. QED  BY <2>9, <2>11, <2>12, <2>13, <2>14 DEF MachinesInv, MachinesRight
<1>. QED
  BY <1>2, <1>3

\* kill_vm() takes all the handlers of the machine.
LEMMA KillVmInv ==
  ASSUME MachinesInv, clash_v = "none", NEW sh \in Shells, NEW v \in Vms, kill_vm(sh, v)
  PROVE  MachinesInv'
<1>0. PICK s, k : /\ s = "killed" /\ s # "freed" /\ s \in MachineStates
                  /\ k = [vm |-> v, todo |-> machine[v].kill_list]
  BY DEF MachineStates
<1>1. /\ MachineTypeOK /\ MachinesRight /\ machine[v].state \in {"init", "running", "killed"}
      /\ machine' = [machine EXCEPT ![v].state = s]
      /\ killer' = [killer EXCEPT ![sh] = k]
      /\ UNCHANGED <<alive, init_vm_list, clash_v>>
  BY <1>0 DEF MachinesInv, kill_vm
<1>2. /\ machine' \in [Vms -> MachineRecords]
      /\ machine'[v].state = s /\ \A w \in Vms \ {v} : machine'[w] = machine[w]
      /\ \A w \in Vms : machine'[w].slots = machine[w].slots
      /\ \A w \in Vms, d \in Devices : DevicesRight(w, d)'
  BY <1>0, <1>1, StateRight DEF MachinesRight
<1>3. k \in KillRecords /\ k.vm = v /\ k.todo = machine[v].kill_list
  BY <1>0, <1>1 DEF KillRecords, MachineTypeOK, MachineRecords
<1>4. MachineTypeOK'
  BY <1>1, <1>2, <1>3 DEF MachineTypeOK
<1>5. ASSUME NEW u \in Shells PROVE KillRight(u)'
  <2>1. CASE u = sh
    <3>1. killer'[u] = k
      BY <1>1, <2>1 DEF MachineTypeOK
    <3>2. ASSUME NEW d \in Devices, machine[v].slots[d] # 0 PROVE d \in ToSet(machine[v].kill_list)
      <4>1. <<v, d, machine[v].slots[d]>> \in alive /\ machine[v].slots[d] \in Nat
        BY <1>1, <3>2 DEF MachinesRight, DevicesRight, MachineTypeOK, MachineRecords
      <4>2. PICK n \in Nat : /\ n \in 1..Created(v)
                             /\ machine[v].kill_list[Created(v) + 1 - n] = d
        BY <1>1, <4>1 DEF MachinesRight, DevicesRight
      <4>3. machine[v].kill_list \in Seq(Devices) /\ Created(v) = Len(machine[v].kill_list)
        BY <1>1 DEF MachineTypeOK, MachineRecords, Created
      <4>4. Created(v) + 1 - n \in 1..Created(v) /\ DOMAIN machine[v].kill_list = 1..Created(v)
        BY <4>2, <4>3
      <4>. QED  BY <4>2, <4>4 DEF ToSet
    <3>. QED  BY <1>0, <1>2, <1>3, <3>1, <3>2 DEF KillRight
  <2>2. CASE u # sh
    <3>1. KillRight(u) /\ killer'[u] = killer[u]
      BY <1>1, <2>2 DEF MachinesRight, MachineTypeOK
    <3>. QED  BY <1>0, <1>2, <3>1, KillersGoOn
  <2>. QED  BY <2>1, <2>2
<1>6. WaitersOnce'
  <2>1. /\ \A w \in Vms : Waits(w)' <=> Waits(w)
        /\ ToSet(init_vm_list') = ToSet(init_vm_list)
    BY <1>1 DEF Waits
  <2>. QED  BY <1>0, <1>1, <1>2, <2>1 DEF MachinesRight, WaitersOnce
<1>. QED
  BY <1>2, <1>4, <1>5, <1>6 DEF MachinesInv, MachinesRight

\* The next handler deletes the device of its slot and empties the slot.
LEMMA KillHandlerInv ==
  ASSUME MachinesInv, clash_v = "none", NEW sh \in Shells, kill_handler(sh)
  PROVE  MachinesInv'
<1>0. PICK k, v, d : k = killer[sh] /\ v = k.vm /\ d = Head(k.todo)
  OBVIOUS
<1>1. /\ MachineTypeOK /\ MachinesRight /\ init_vm_list' = init_vm_list /\ k.todo # <<>>
  BY <1>0 DEF MachinesInv, kill_handler
<1>2. /\ k \in KillRecords /\ k.todo \in Seq(Devices) /\ k # NoKill
  BY <1>0, <1>1 DEF MachineTypeOK, KillRecords, NoKill
<1>3. /\ v \in Vms /\ d \in Devices /\ machine[v].state \in {"killed", "freed"}
      /\ \A c \in Devices : machine[v].slots[c] # 0 => c \in ToSet(k.todo)
  BY <1>0, <1>1, <1>2 DEF MachinesRight, KillRight
<1>4. CASE machine[v].state = "freed" \/ Embedded(k) \notin alive
  BY <1>0, <1>1, <1>4 DEF kill_handler, MachinesInv, MachineTypeOK
<1>5. CASE machine[v].state # "freed" /\ Embedded(k) \in alive
  <2>1. PICK r, z, f : /\ r = machine[v] /\ z = r.slots[d] /\ f = [r.slots EXCEPT ![d] = 0]
    OBVIOUS
  <2>2. /\ r \in MachineRecords /\ r.state = "killed" /\ r.slots \in [Devices -> Nat]
        /\ r.kill_list \in Seq(Devices)
    BY <1>1, <1>3, <1>5, <2>1 DEF MachineTypeOK, MachineRecords
  <2>3. PICK r2 : r2 = [r EXCEPT !.slots = f]
    OBVIOUS
  <2>4. /\ f \in [Devices -> Nat] /\ f[d] = 0 /\ \A c \in Devices \ {d} : f[c] = r.slots[c]
    BY <1>3, <2>1, <2>2
  <2>5. /\ r2 \in MachineRecords /\ r2.state = r.state /\ r2.slots = f
        /\ r2.kill_list = r.kill_list
    BY <2>2, <2>3, <2>4 DEF MachineRecords
  <2>6. delete_vxd(r, d) = r2
    BY <2>1, <2>3 DEF delete_vxd
  <2>7. PICK k2 : k2 = [k EXCEPT !.todo = Tail(k.todo)]
    OBVIOUS
  <2>8. /\ alive' = alive \ {<<v, d, z>>} /\ machine' = [machine EXCEPT ![v] = r2]
        /\ killer' = [killer EXCEPT ![sh] = k2] /\ clash_v' = clash_v
    BY <1>0, <1>5, <2>1, <2>6, <2>7 DEF kill_handler
  <2>9. /\ k2 \in KillRecords /\ k2.vm = v /\ k2.todo = Tail(k.todo)
        /\ Tail(k.todo) \in Seq(Devices)
    <3>1. Tail(k.todo) \in Seq(Devices)
      BY <1>1, <1>2
    <3>2. k2 \in KillRecords /\ k2.vm = k.vm /\ k2.todo = Tail(k.todo)
      BY <1>2, <2>7, <3>1 DEF KillRecords
    <3>. QED  BY <1>0, <3>1, <3>2
  <2>10. /\ machine' \in [Vms -> MachineRecords] /\ machine'[v] = r2
         /\ \A w \in Vms \ {v} : machine'[w] = machine[w]
         /\ killer' \in [Shells -> KillRecords] /\ killer'[sh] = k2
         /\ \A u \in Shells \ {sh} : killer'[u] = killer[u]
    BY <1>1, <1>3, <2>5, <2>8, <2>9 DEF MachineTypeOK
  <2>11. MachineTypeOK'
    BY <1>1, <2>8, <2>10 DEF MachineTypeOK
  <2>12. \A w \in Vms : Created(w)' = Created(w)
    BY <2>1, <2>5, <2>10 DEF Created
  <2>13. ASSUME NEW w \in Vms, NEW c \in Devices PROVE DevicesRight(w, c)'
    <3>1. DevicesRight(w, c)
      BY <1>1 DEF MachinesRight
    <3>2. CASE w = v /\ c = d
      <4>1. machine'[w].slots[c] = 0 /\ machine'[w].kill_list = machine[w].kill_list
        BY <2>1, <2>4, <2>5, <2>10, <3>2
      <4>2. \A m : <<w, c, m>> \in alive' => <<w, c, m>> \in alive /\ m # machine[w].slots[c]
        BY <2>1, <2>8, <3>2
      <4>. QED  BY <2>12, <3>1, <4>1, <4>2 DEF DevicesRight
    <3>3. CASE ~(w = v /\ c = d)
      <4>1. /\ machine'[w].slots[c] = machine[w].slots[c]
            /\ machine'[w].kill_list = machine[w].kill_list
            /\ machine'[w].state = machine[w].state
        BY <2>1, <2>4, <2>5, <2>10, <3>3
      <4>2. \A m : <<w, c, m>> \in alive' <=> <<w, c, m>> \in alive
        BY <2>8, <3>3
      <4>. QED  BY <2>12, <3>1, <4>1, <4>2 DEF DevicesRight
    <3>. QED  BY <3>2, <3>3
  <2>14. ASSUME NEW u \in Shells PROVE KillRight(u)'
    <3>1. CASE u = sh
      <4>1. ASSUME NEW c \in Devices, machine'[v].slots[c] # 0 PROVE c \in ToSet(Tail(k.todo))
        <5>1. c # d /\ machine[v].slots[c] # 0
          BY <2>1, <2>4, <2>5, <2>10, <4>1
        <5>2. PICK j \in 1..Len(k.todo) : k.todo[j] = c
          BY <1>2, <1>3, <5>1 DEF ToSet
        <5>3. /\ j # 1 /\ j - 1 \in 1..Len(Tail(k.todo)) /\ Tail(k.todo)[j - 1] = c
              /\ DOMAIN Tail(k.todo) = 1..Len(Tail(k.todo))
          BY <1>0, <1>1, <1>2, <5>1, <5>2
        <5>. QED  BY <5>3 DEF ToSet
      <4>2. machine'[v].state = "killed"
        BY <2>2, <2>5, <2>10
      <4>. QED  BY <1>3, <2>9, <2>10, <3>1, <4>1, <4>2 DEF KillRight
    <3>2. CASE u # sh
      <4>1. KillRight(u) /\ killer'[u] = killer[u]
        BY <1>1, <2>10, <3>2 DEF MachinesRight
      <4>2. /\ machine'[v].state = "killed"
            /\ \A c \in Devices : machine'[v].slots[c] # 0 => machine[v].slots[c] # 0
        BY <2>1, <2>2, <2>4, <2>5, <2>10
      <4>. QED  BY <1>3, <2>10, <4>1, <4>2, KillersGoOn
    <3>. QED  BY <3>1, <3>2
  <2>15. WaitersOnce'
    <3>1. \A w \in Vms : machine'[w].state = machine[w].state /\ (Waits(w)' <=> Waits(w))
      BY <1>1, <2>1, <2>5, <2>10 DEF Waits
    <3>. QED  BY <1>1, <3>1 DEF MachinesRight, WaitersOnce
  <2>. QED  BY <2>11, <2>13, <2>14, <2>15 DEF MachinesInv, MachinesRight
<1>. QED
  BY <1>4, <1>5

\* When all handlers have been called the machine has no device and is freed.
LEMMA KillEndInv ==
  ASSUME MachinesInv, clash_v = "none", NEW sh \in Shells, kill_end(sh)
  PROVE  MachinesInv'
<1>0. PICK k, v, s : /\ k = killer[sh] /\ v = k.vm /\ s = "freed" /\ s \in MachineStates
  BY DEF MachineStates
<1>1. /\ MachineTypeOK /\ MachinesRight /\ k # NoKill /\ k.todo = <<>>
      /\ machine' = [machine EXCEPT ![v].state = s]
      /\ killer' = [killer EXCEPT ![sh] = NoKill]
      /\ UNCHANGED <<init_vm_list, alive>>
  BY <1>0 DEF MachinesInv, kill_end
<1>2. /\ v \in Vms /\ machine[v].state \in {"killed", "freed"}
      /\ \A d \in Devices : machine[v].slots[d] = 0
  <2>1. ToSet(k.todo) = {}
    BY <1>1 DEF ToSet
  <2>. QED  BY <1>0, <1>1, <2>1 DEF MachinesRight, KillRight
<1>3. /\ machine' \in [Vms -> MachineRecords]
      /\ machine'[v].state = s /\ \A w \in Vms \ {v} : machine'[w] = machine[w]
      /\ \A w \in Vms : machine'[w].slots = machine[w].slots
      /\ \A w \in Vms, d \in Devices : DevicesRight(w, d)'
  <2>1. alive' = alive /\ \A w \in Vms, d \in Devices : DevicesRight(w, d)
    BY <1>1 DEF MachinesRight
  <2>2. /\ MachineTypeOK /\ v \in Vms /\ s \in MachineStates
        /\ machine' = [machine EXCEPT ![v].state = s]
    BY <1>0, <1>1, <1>2
  <2>3. s = "freed" => \A d \in Devices : machine[v].slots[d] = 0
    BY <1>2
  <2>. QED  BY <2>1, <2>2, <2>3, StateRight
<1>4. NoKill \in KillRecords
  BY DEF NoKill, KillRecords
<1>5. MachineTypeOK'
  BY <1>1, <1>3, <1>4 DEF MachineTypeOK
<1>6. ASSUME NEW u \in Shells PROVE KillRight(u)'
  <2>1. CASE u = sh
    <3>1. killer'[u] = NoKill
      BY <1>1, <2>1 DEF MachineTypeOK
    <3>. QED  BY <3>1 DEF KillRight, NoKill
  <2>2. CASE u # sh
    <3>1. KillRight(u) /\ killer'[u] = killer[u]
      BY <1>1, <2>2 DEF MachinesRight, MachineTypeOK
    <3>. QED  BY <1>0, <1>2, <1>3, <3>1, KillersGoOn
  <2>. QED  BY <2>1, <2>2
<1>7. WaitersOnce'
  <2>1. /\ \A w \in Vms : Waits(w)' <=> Waits(w)
        /\ ToSet(init_vm_list') = ToSet(init_vm_list)
    BY <1>1 DEF Waits
  <2>. QED  BY <1>0, <1>1, <1>2, <1>3, <2>1 DEF MachinesRight, WaitersOnce
<1>. QED
  BY <1>3, <1>5, <1>6, <1>7 DEF MachinesInv, MachinesRight

LEMMA InitMachinesInv == VInit => MachinesInv
<1> SUFFICES ASSUME VInit PROVE MachinesInv
  OBVIOUS
<1>1. /\ NoMachine \in MachineRecords /\ NoMachine.state = "none"
      /\ \A d \in Devices : NoMachine.slots[d] = 0
  BY DEF NoMachine, MachineRecords, MachineStates
<1>2. NoKill \in KillRecords
  BY DEF NoKill, KillRecords
<1>3. /\ init_vm_list = <<>> /\ alive = {} /\ machine = [v \in Vms |-> NoMachine]
      /\ killer = [sh \in Shells |-> NoKill]
  BY DEF VInit
<1>4. MachineTypeOK
  BY <1>1, <1>2, <1>3 DEF MachineTypeOK
<1>5. \A v \in Vms, d \in Devices : DevicesRight(v, d)
  BY <1>1, <1>3 DEF DevicesRight
<1>6. \A sh \in Shells : KillRight(sh)
  BY <1>3 DEF KillRight
<1>7. WaitersOnce
  BY <1>1, <1>3 DEF WaitersOnce, NoRepeats, Waits, ToSet
<1>. QED
  BY <1>4, <1>5, <1>6, <1>7 DEF MachinesInv, MachinesRight

LEMMA NextMachinesInv == MachinesInv /\ [VNext]_vvars => MachinesInv'
<1>1. ASSUME MachinesInv, UNCHANGED vvars PROVE MachinesInv'
  <2>1. MachineTypeOK' = MachineTypeOK /\ MachinesRight' = MachinesRight
    BY <1>1 DEF vvars, MachineTypeOK, MachinesRight, DevicesRight, Created, KillRight,
       WaitersOnce, Waits
  <2>. QED  BY <1>1, <2>1 DEF MachinesInv, vvars
<1>2. ASSUME MachinesInv, VNext PROVE MachinesInv'
  <2>1. PICK sh \in Shells :
          \/ cmd_vmlaunch(sh) \/ kill_handler(sh) \/ kill_end(sh)
          \/ \E v \in Vms : cmd_vminit(sh, v) \/ kill_vm(sh, v)
          \/ \E d \in Devices : cmd_vmvxd(sh, d)
    BY <1>2 DEF VNext
  <2>2. clash_v = "none"
    BY <1>2 DEF VNext
  <2>. QED
    BY <1>2, <2>1, <2>2, VminitInv, VmvxdInv, VmlaunchInv, KillVmInv, KillHandlerInv, KillEndInv
<1>. QED
  BY <1>1, <1>2

\* A device of a virtual machine lives as long as the machine has it and no longer,
\* and the machine is once in init_vm_list until it is launched, whichever shells
\* make, launch and kill machines, until one of the named races happens, for any
\* shells, machines and devices (cmd_vmvxd, cmd_vmlaunch, kill_vm).
THEOREM MachinesSafe == VSpec => []DevicesLive
BY InitMachinesInv, NextMachinesInv, MachinesInvLive, PTL DEF VSpec

-----------------------------------------------------------------------------
(* The system log, for any tasks, handles and size of the buffer.           *)

LogSteps == {"wait", "add", "suspend", "asleep", "test", "write", "close", "reset", "block"}

LogTypeOK ==
    /\ mesg_buf \in Seq(Nat) /\ wrote \in Seq(Nat) /\ logfile \in Seq(Nat) /\ sent \in Nat
    /\ syslogd \in LogSteps

Rising(s) == \A i, j \in DOMAIN s : i < j => s[i] < s[j]
Follows(s, r) == \A x \in Range(r), y \in Range(s) : x < y

\* What is in the buffer came after all that is in the log, but for what is just
\* being written, and nothing has left the buffer since that began.
LogRight ==
    /\ Range(logfile) \cup Range(mesg_buf) \cup thrown = 1..sent
    /\ Range(logfile) \cap thrown = {} /\ Range(mesg_buf) \cap thrown = {}
    /\ Rising(mesg_buf) /\ Rising(logfile)
    /\ Range(wrote) \subseteq Range(logfile)
    /\ \A x \in Range(logfile), y \in Range(mesg_buf) \ Range(wrote) : x < y
    /\ syslogd \notin {"close", "reset"} => wrote = <<>>
    /\ wrapped <=> syslogd = "reset"
    /\ syslogd = "reset" => mesg_buf = <<>>

LogInv == LogTypeOK /\ (clash_l = "none" => LogRight)

\* Nothing is in an empty list.
LEMMA EmptyRange == Range(<<>>) = {} /\ Rising(<<>>)
  BY DEF Range, Rising

\* A message at the end of a list.
LEMMA RangeAppended ==
  ASSUME NEW s \in Seq(Nat), NEW m \in Nat
  PROVE  /\ Append(s, m) \in Seq(Nat) /\ Range(Append(s, m)) = Range(s) \cup {m}
         /\ Rising(s) /\ (\A x \in Range(s) : x < m) => Rising(Append(s, m))
<1>1. Append(s, m) \in Seq(Nat) /\ Len(Append(s, m)) = Len(s) + 1 /\ Len(s) \in Nat
  OBVIOUS
<1>2. DOMAIN s = 1..Len(s) /\ DOMAIN Append(s, m) = 1..(Len(s) + 1)
  BY <1>1
<1>3. /\ \A i \in 1..Len(s) : Append(s, m)[i] = s[i]
      /\ Append(s, m)[Len(s) + 1] = m
  OBVIOUS
<1>4. Range(Append(s, m)) = Range(s) \cup {m}
  BY <1>1, <1>2, <1>3 DEF Range
<1>5. ASSUME Rising(s), \A x \in Range(s) : x < m PROVE Rising(Append(s, m))
  <2>1. \A i \in 1..Len(s) : s[i] < m
    BY <1>2, <1>5 DEF Range
  <2> QED BY <2>1, <1>1, <1>2, <1>3, <1>5 DEF Rising
<1> QED BY <1>1, <1>4, <1>5

\* One list behind another.
LEMMA RangeJoined ==
  ASSUME NEW r \in Seq(Nat), NEW s \in Seq(Nat)
  PROVE  /\ r \o s \in Seq(Nat) /\ Range(r \o s) = Range(r) \cup Range(s)
         /\ Rising(r) /\ Rising(s) /\ Follows(s, r) => Rising(r \o s)
<1>1. r \o s \in Seq(Nat) /\ Len(r \o s) = Len(r) + Len(s) /\ Len(r) \in Nat /\ Len(s) \in Nat
  OBVIOUS
<1>2. DOMAIN r = 1..Len(r) /\ DOMAIN s = 1..Len(s) /\ DOMAIN (r \o s) = 1..(Len(r) + Len(s))
  BY <1>1
<1>3. /\ \A i \in 1..Len(r) : (r \o s)[i] = r[i]
      /\ \A i \in 1..Len(s) : (r \o s)[Len(r) + i] = s[i]
      /\ \A i \in (Len(r) + 1)..(Len(r) + Len(s)) : (r \o s)[i] = s[i - Len(r)]
  BY <1>1
<1>4. Range(r \o s) = Range(r) \cup Range(s)
  <2>1. \A i \in 1..(Len(r) + Len(s)) : (r \o s)[i] \in Range(r) \cup Range(s)
    <3> SUFFICES ASSUME NEW i \in 1..(Len(r) + Len(s))
                 PROVE  (r \o s)[i] \in Range(r) \cup Range(s)
      OBVIOUS
    <3>1. CASE i <= Len(r)
      <4>1. i \in 1..Len(r)
        BY <3>1, <1>1
      <4> QED BY <4>1, <1>2, <1>3 DEF Range
    <3>2. CASE i > Len(r)
      <4>1. i \in (Len(r) + 1)..(Len(r) + Len(s)) /\ i - Len(r) \in 1..Len(s)
        BY <3>2, <1>1
      <4> QED BY <4>1, <1>2, <1>3 DEF Range
    <3> QED BY <3>1, <3>2, <1>1
  <2>2. Range(r) \subseteq Range(r \o s)
    <3> SUFFICES ASSUME NEW i \in 1..Len(r) PROVE r[i] \in Range(r \o s)
      BY <1>2 DEF Range
    <3>1. i \in 1..(Len(r) + Len(s)) /\ (r \o s)[i] = r[i]
      BY <1>1, <1>3
    <3> QED BY <3>1, <1>2 DEF Range
  <2>3. Range(s) \subseteq Range(r \o s)
    <3> SUFFICES ASSUME NEW i \in 1..Len(s) PROVE s[i] \in Range(r \o s)
      BY <1>2 DEF Range
    <3>1. Len(r) + i \in 1..(Len(r) + Len(s)) /\ (r \o s)[Len(r) + i] = s[i]
      BY <1>1, <1>3
    <3> QED BY <3>1, <1>2 DEF Range
  <2> QED BY <2>1, <2>2, <2>3, <1>2 DEF Range
<1>5. ASSUME Rising(r), Rising(s), Follows(s, r) PROVE Rising(r \o s)
  <2> SUFFICES ASSUME NEW i \in 1..(Len(r) + Len(s)), NEW j \in 1..(Len(r) + Len(s)), i < j
               PROVE  (r \o s)[i] < (r \o s)[j]
    BY <1>2 DEF Rising
  <2>1. CASE j <= Len(r)
    <3>1. i \in 1..Len(r) /\ j \in 1..Len(r)
      BY <2>1, <1>1
    <3> QED BY <3>1, <1>2, <1>3, <1>5 DEF Rising
  <2>2. CASE i > Len(r)
    <3>1. i \in (Len(r) + 1)..(Len(r) + Len(s)) /\ j \in (Len(r) + 1)..(Len(r) + Len(s))
      BY <2>2, <1>1
    <3>2. i - Len(r) \in 1..Len(s) /\ j - Len(r) \in 1..Len(s) /\ i - Len(r) < j - Len(r)
      BY <3>1, <1>1
    <3>3. s[i - Len(r)] < s[j - Len(r)]
      BY <3>2, <1>2, <1>5 DEF Rising
    <3> QED BY <3>1, <3>3, <1>3
  <2>3. CASE i <= Len(r) /\ j > Len(r)
    <3>1. i \in 1..Len(r) /\ j \in (Len(r) + 1)..(Len(r) + Len(s)) /\ j - Len(r) \in 1..Len(s)
      BY <2>3, <1>1
    <3>2. r[i] \in Range(r) /\ s[j - Len(r)] \in Range(s)
      BY <3>1, <1>2 DEF Range
    <3>3. r[i] < s[j - Len(r)]
      BY <3>2, <1>5 DEF Follows
    <3> QED BY <3>1, <3>3, <1>3
  <2> QED BY <2>1, <2>2, <2>3, <1>1
<1> QED BY <1>1, <1>4, <1>5

\* The inductive invariant gives the property.
LEMMA LogInvOrder == LogInv => LogInOrder
<1> SUFFICES ASSUME LogRight, LogTypeOK, clash_l = "none" PROVE LogInOrder
  BY DEF LogInv, LogInOrder
<1>1. /\ Range(logfile) \cup (Range(mesg_buf) \ Range(wrote)) \cup thrown \cup Range(wrote) = 1..sent
  BY DEF LogRight
<1>2. Range(logfile) \subseteq Nat /\ Range(mesg_buf) \subseteq Nat
  BY DEF LogTypeOK, Range
<1>3. Range(logfile) \cap (Range(mesg_buf) \ Range(wrote)) = {}
  <2>1. ASSUME NEW x \in Range(logfile), x \in Range(mesg_buf) \ Range(wrote) PROVE FALSE
    <3>1. x < x
      BY <2>1 DEF LogRight
    <3> QED BY <3>1, <1>2
  <2> QED BY <2>1
<1>4. (Range(mesg_buf) \ Range(wrote)) \cap thrown = {} /\ Range(logfile) \cap thrown = {}
  BY DEF LogRight
<1>5. \A i, j \in DOMAIN logfile : i < j => logfile[i] < logfile[j]
  BY DEF LogRight, Rising
<1> QED BY <1>1, <1>3, <1>4, <1>5 DEF LogInOrder

LEMMA InitLogInv == LInit => LogInv
<1> SUFFICES ASSUME LInit PROVE LogInv
  OBVIOUS
<1>1. LogTypeOK
  BY DEF LInit, LogTypeOK, LogSteps
<1>2. Range(<<>>) = {} /\ Rising(<<>>) /\ 1..0 = {}
  BY EmptyRange
<1> QED BY <1>1, <1>2 DEF LInit, LogInv, LogRight

\* Steps that leave the messages alone.
LEMMA LogQuiet ==
  ASSUME LogInv, UNCHANGED <<mesg_buf, wrapped, wrote, logfile, thrown, sent>>,
         clash_l' = "none" => clash_l = "none", syslogd' \in LogSteps,
         syslogd' # syslogd => syslogd \notin {"close", "reset"} /\ syslogd' \notin {"close", "reset"}
  PROVE  LogInv'
<1>1. LogTypeOK'
  BY DEF LogInv, LogTypeOK
<1>2. ASSUME clash_l' = "none" PROVE LogRight'
  <2>1. LogRight
    BY <1>2 DEF LogInv
  <2>2. syslogd' \notin {"close", "reset"} => syslogd \notin {"close", "reset"}
    OBVIOUS
  <2>3. (syslogd = "reset") <=> (syslogd' = "reset")
    OBVIOUS
  <2> QED BY <2>1, <2>2, <2>3 DEF LogRight, Rising, Range
<1> QED BY <1>1, <1>2 DEF LogInv

\* The log gets what is in the buffer, or nothing.
LEMMA BeginWriteInv == ASSUME LogInv, begin_write PROVE LogInv'
<1> USE DEF LogInv
<1>1. /\ LogTypeOK /\ LogRight /\ syslogd = "write" /\ syslogd' = "close"
      /\ UNCHANGED <<mesg_buf, wrapped, thrown, sent, clash_l>>
  BY DEF begin_write, Daemon, Takes
<1>2. wrote = <<>> /\ ~wrapped /\ Range(<<>>) = {}
  BY <1>1, EmptyRange DEF LogRight
<1>3. CASE wrote' = mesg_buf /\ logfile' = logfile \o mesg_buf
  <2>1. Follows(mesg_buf, logfile)
    BY <1>1, <1>2 DEF LogRight, Follows
  <2>2. /\ logfile' \in Seq(Nat) /\ Range(logfile') = Range(logfile) \cup Range(mesg_buf)
        /\ Rising(logfile')
    BY <1>1, <1>3, <2>1, RangeJoined DEF LogRight, LogTypeOK
  <2>3. LogTypeOK'
    BY <1>1, <1>3, <2>2 DEF LogTypeOK, LogSteps
  <2>4. Range(logfile)' = Range(logfile) \cup Range(mesg_buf) /\ Range(wrote)' = Range(mesg_buf) /\ Rising(logfile)'
    BY <2>2, <1>3 DEF Range, Rising
  <2>5. Range(mesg_buf)' = Range(mesg_buf) /\ Rising(mesg_buf)'
    BY <1>1 DEF Range, Rising, LogRight
  <2>6. Range(logfile) \cup Range(mesg_buf) \cup thrown = 1..sent /\ Range(logfile) \cap thrown = {} /\ Range(mesg_buf) \cap thrown = {}
    BY <1>1 DEF LogRight
  <2>7. LogRight'
    BY <1>1, <1>2, <2>4, <2>5, <2>6 DEF LogRight
  <2> QED BY <2>3, <2>7
<1>4. CASE wrote' = <<>> /\ logfile' = logfile
  <2>1. LogTypeOK'
    BY <1>1, <1>4 DEF LogTypeOK, LogSteps
  <2>2. wrote' = wrote
    BY <1>2, <1>4
  <2>3. LogRight'
    BY <1>1, <1>2, <1>4, <2>2 DEF LogRight, Range, Rising
  <2> QED BY <2>1, <2>3
<1> QED BY <1>3, <1>4 DEF begin_write

\* The buffer is emptied: what was not written is lost.
LEMMA CountDownInv == ASSUME LogInv, count_down PROVE LogInv'
<1> USE DEF LogInv
<1>1. /\ LogTypeOK /\ LogRight /\ syslogd = "close" /\ syslogd' = "reset"
      /\ mesg_buf' = <<>> /\ wrapped' = TRUE /\ thrown' = thrown \cup (Range(mesg_buf) \ Range(wrote))
      /\ UNCHANGED <<wrote, logfile, sent, clash_l>>
  BY DEF count_down, Daemon, Takes, Kept
<1>2. LogTypeOK'
  BY <1>1 DEF LogTypeOK, LogSteps
<1>3. Range(mesg_buf)' = {} /\ Rising(mesg_buf)'
  BY <1>1, EmptyRange DEF Range, Rising
<1>4. Range(logfile)' = Range(logfile) /\ Range(wrote)' = Range(wrote) /\ Rising(logfile)'
  BY <1>1 DEF Range, Rising, LogRight
<1>5. /\ Range(logfile) \cup Range(mesg_buf) \cup thrown = 1..sent
      /\ Range(logfile) \cap thrown = {} /\ Range(wrote) \subseteq Range(logfile)
  BY <1>1 DEF LogRight
<1>6. Range(logfile) \cap (Range(mesg_buf) \ Range(wrote)) = {}
  <2>1. Range(logfile) \subseteq Nat
    BY <1>1 DEF LogTypeOK, Range
  <2>2. \A x \in Range(logfile), y \in Range(mesg_buf) \ Range(wrote) : x < y
    BY <1>1 DEF LogRight
  <2>3. ASSUME NEW x \in Range(logfile), x \in Range(mesg_buf) \ Range(wrote) PROVE FALSE
    <3>1. x < x /\ x \in Nat
      BY <2>1, <2>2, <2>3
    <3> QED BY <3>1
  <2> QED BY <2>3
<1>7. LogRight'
  BY <1>1, <1>3, <1>4, <1>5, <1>6 DEF LogRight
<1> QED BY <1>2, <1>7

LEMMA ResetInv == ASSUME LogInv, reset PROVE LogInv'
<1> USE DEF LogInv
<1>1. /\ LogTypeOK /\ LogRight /\ syslogd = "reset" /\ syslogd' = "block"
      /\ wrapped' = FALSE /\ wrote' = <<>>
      /\ UNCHANGED <<mesg_buf, logfile, thrown, sent, clash_l>>
  BY DEF reset, Daemon, Takes
<1>2. LogTypeOK'
  BY <1>1 DEF LogTypeOK, LogSteps
<1>3. Range(mesg_buf)' = Range(mesg_buf) /\ Range(mesg_buf) = {} /\ Rising(mesg_buf)'
  BY <1>1, EmptyRange DEF Range, Rising, LogRight
<1>4. Range(logfile)' = Range(logfile) /\ Range(wrote)' = {} /\ Rising(logfile)'
  BY <1>1, EmptyRange DEF Range, Rising, LogRight
<1>5. LogRight'
  BY <1>1, <1>3, <1>4 DEF LogRight
<1> QED BY <1>2, <1>5

\* A message is stored if there is room, and else thrown away.
LEMMA SyslogInv ==
  ASSUME LogInv, NEW t, NEW h, syslog_cooked_entry(t, h) PROVE LogInv'
<1> USE DEF LogInv
<1>1. /\ LogTypeOK /\ LogRight /\ sent' = sent + 1 /\ sent \in Nat /\ clash_l = "none"
      /\ UNCHANGED <<wrapped, syslogd, wrote, logfile>>
  BY DEF syslog_cooked_entry, LogTypeOK, Logs
<1>2. /\ syslogd' \in LogSteps
      /\ syslogd' \notin {"close", "reset"} => syslogd \notin {"close", "reset"}
      /\ (syslogd' = "reset") <=> (syslogd = "reset")
  BY <1>1 DEF LogTypeOK
<1>3. CASE wrapped
  <2>1. clash_l' = "below" /\ UNCHANGED mesg_buf
    BY <1>3 DEF syslog_cooked_entry
  <2>2. LogTypeOK'
    BY <2>1, <1>1, <1>2 DEF LogTypeOK
  <2> QED BY <2>1, <2>2
<1>4. CASE ~wrapped
  <2>1. /\ Range(logfile) \cup Range(mesg_buf) \cup thrown = 1..sent
        /\ Range(logfile) \cap thrown = {} /\ Range(mesg_buf) \cap thrown = {}
        /\ Rising(mesg_buf) /\ Rising(logfile)
        /\ Range(wrote) \subseteq Range(logfile)
        /\ \A x \in Range(logfile), y \in Range(mesg_buf) \ Range(wrote) : x < y
        /\ (syslogd \notin {"close", "reset"} => wrote = <<>>)
        /\ syslogd # "reset"
    BY <1>1, <1>4 DEF LogRight
  <2>2. Range(logfile)' = Range(logfile) /\ Range(wrote)' = Range(wrote) /\ Rising(logfile)'
    BY <1>1, <2>1 DEF Range, Rising
  <2>3. /\ \A x \in Range(logfile) \cup Range(mesg_buf) \cup thrown : x \in Nat /\ x < sent + 1
        /\ 1..(sent + 1) = (1..sent) \cup {sent + 1}
    BY <1>1, <2>1
  <2>4. sent + 1 \notin Range(logfile) /\ sent + 1 \notin Range(mesg_buf) /\ sent + 1 \notin thrown
    BY <2>3, <1>1
  <2>5. CASE mesg_buf' = Append(mesg_buf, sent') /\ thrown' = thrown
    <3>1. /\ mesg_buf' \in Seq(Nat) /\ Range(mesg_buf') = Range(mesg_buf) \cup {sent + 1}
          /\ Rising(mesg_buf')
      BY <1>1, <2>1, <2>3, <2>5, RangeAppended DEF LogTypeOK
    <3>2. LogTypeOK'
      BY <3>1, <1>1, <1>2 DEF LogTypeOK
    <3>3. Range(mesg_buf)' = Range(mesg_buf) \cup {sent + 1} /\ Rising(mesg_buf)'
      BY <3>1 DEF Range, Rising
    <3>4. \A x \in Range(logfile), y \in (Range(mesg_buf) \cup {sent + 1}) \ Range(wrote) : x < y
      BY <2>1, <2>3
    <3>5. Range(logfile) \cup (Range(mesg_buf) \cup {sent + 1}) \cup thrown = 1..(sent + 1)
      BY <2>1, <2>3
    <3>6. (Range(mesg_buf) \cup {sent + 1}) \cap thrown = {}
      BY <2>1, <2>4
    <3>7. LogRight'
      BY <1>1, <1>2, <2>1, <2>2, <2>5, <3>3, <3>4, <3>5, <3>6, <1>4 DEF LogRight
    <3> QED BY <3>2, <3>7
  <2>6. CASE thrown' = thrown \cup {sent'} /\ mesg_buf' = mesg_buf
    <3>1. LogTypeOK'
      BY <2>6, <1>1, <1>2 DEF LogTypeOK
    <3>2. Range(mesg_buf)' = Range(mesg_buf) /\ Rising(mesg_buf)'
      BY <2>6, <2>1 DEF Range, Rising
    <3>3. Range(logfile) \cup Range(mesg_buf) \cup (thrown \cup {sent + 1}) = 1..(sent + 1)
      BY <2>1, <2>3
    <3>4. Range(logfile) \cap (thrown \cup {sent + 1}) = {} /\ Range(mesg_buf) \cap (thrown \cup {sent + 1}) = {}
      BY <2>1, <2>4
    <3>5. LogRight'
      BY <1>1, <1>2, <2>1, <2>2, <2>6, <3>2, <3>3, <3>4, <1>4 DEF LogRight
    <3> QED BY <3>1, <3>5
  <2> QED BY <2>5, <2>6, <1>4 DEF syslog_cooked_entry
<1> QED BY <1>3, <1>4

LEMMA NextLogInv == LogInv /\ [LNext]_lvars => LogInv'
<1> SUFFICES ASSUME LogInv, [LNext]_lvars PROVE LogInv'
  OBVIOUS
<1>0. syslogd \in LogSteps
  BY DEF LogInv, LogTypeOK
<1>1. CASE wait
  BY <1>0, <1>1, LogQuiet DEF wait, Daemon, Takes, LogSteps
<1>2. CASE test
  BY <1>0, <1>2, LogQuiet DEF test, Daemon, Takes, LogSteps
<1>3. CASE begin_write
  BY <1>3, BeginWriteInv
<1>4. CASE count_down
  BY <1>4, CountDownInv
<1>5. CASE reset
  BY <1>5, ResetInv
<1>6. CASE block
  BY <1>0, <1>6, LogQuiet DEF block, Daemon, Takes, LogSteps
<1>7. ASSUME NEW t \in Loggers, NEW h \in Handles, syslog_cooked_entry(t, h) PROVE LogInv'
  BY <1>7, SyslogInv
<1>8. ASSUME NEW h \in Handles, close_syslog(h) PROVE LogInv'
  BY <1>0, <1>8, LogQuiet DEF close_syslog
<1>9. ASSUME NEW t \in Loggers, open_syslog_find(t) PROVE LogInv'
  BY <1>0, <1>9, LogQuiet DEF open_syslog_find
<1>13. CASE sleep_in_task_list
  BY <1>0, <1>13, LogQuiet DEF sleep_in_task_list, Daemon, Takes, LogSteps
<1>14. ASSUME NEW t \in Loggers, Signal_l(t) PROVE LogInv'
  <2>1. CASE signal_tests(t)
    BY <1>0, <2>1, LogQuiet DEF signal_tests
  <2>2. CASE signal_clears(t)
    BY <1>0, <2>2, LogQuiet DEF signal_clears, Logs
  <2>3. CASE signal_wakes(t)
    BY <1>0, <2>3, LogQuiet DEF signal_wakes, Logs, Takes, LogSteps
  <2>. QED
    BY <1>14, <2>1, <2>2, <2>3 DEF Signal_l
<1>10. ASSUME NEW t \in Loggers, NEW l \in 0..2, open_syslog(t, l) PROVE LogInv'
  BY <1>0, <1>10, LogQuiet DEF open_syslog
<1>11. ASSUME NEW on \in BOOLEAN, NEW l \in 0..1, cmd_syslog(on, l) PROVE LogInv'
  BY <1>0, <1>11, LogQuiet DEF cmd_syslog
<1>12. CASE UNCHANGED lvars
  BY <1>0, <1>12, LogQuiet DEF lvars
<1> QED BY <1>1, <1>2, <1>3, <1>4, <1>5, <1>6, <1>7, <1>8, <1>9, <1>10, <1>11, <1>12,
           <1>13, <1>14 DEF LNext, SyslogTask

\* For any tasks, handles and size of the buffer, every message that was accepted
\* is in the log, in the buffer or known to be lost, and the log is in order.
THEOREM LogSafe == LSpec => []LogInOrder
<1>1. LInit => LogInv
  BY InitLogInv
<1>2. LogInv /\ [LNext]_lvars => LogInv'
  BY NextLogInv
<1>3. LogInv => LogInOrder
  BY LogInvOrder
<1> QED BY <1>1, <1>2, <1>3, PTL DEF LSpec
=============================================================================
