------------------------------- MODULE IrqQueue -------------------------------
(***************************************************************************)
(* Interrupt lines and queued interrupts: kernel/misc/interrupt.c, with    *)
(* the part of kernel/misc/irq_entry.S that calls the handler of a line.   *)
(*                                                                         *)
(* An interrupt is one action (its gate masks the others).  The dispatcher *)
(* task is a loop whose steps interrupts fall between; it has the highest  *)
(* priority of all tasks, so once it is runnable only interrupts, and a    *)
(* task inside forbid(), run before it.                                    *)
(***************************************************************************)
EXTENDS Integers, Sequences

CONSTANTS
    Irqs,       \* interrupt lines in use, a set of numbers 0..15
    Direct,     \* those a driver takes with alloc_irq()
    Queued,     \* those a driver takes with alloc_queued_irq()
    Removable,  \* those whose driver gives them back
    QSize,      \* IRQ_Q_SIZ
    None

ASSUME IrqsAssumption ==
    Irqs \subseteq 0..15 /\ Direct \cup Queued \cup Removable \subseteq Irqs
ASSUME QSizeAssumption == QSize \in Nat /\ QSize > 1
ASSUME NoneAssumption == None \notin Irqs /\ None \notin {"direct", "stub"}

VARIABLES
    irq_queue, irq_q_in, irq_q_out,     \* the ring
    irqs_queued,                        \* how many wait in it
    Irq_handlers,   \* per line: None, "direct" (the driver's), "stub" (queue_irqN)
    irq_q_handlers, \* the lines with a queued handler
    imr,            \* the lines masked in the two interrupt controllers
    dealloc,        \* the dealloc_irq() a task is in the middle of
    disp,           \* where the dispatcher task is
    irq,            \* its variable of that name
    running         \* its TASK_RUNNING flag

ring == <<irq_queue, irq_q_in, irq_q_out, irqs_queued>>
lines == <<Irq_handlers, irq_q_handlers, imr>>
task == <<disp, irq, running>>
vars == <<ring, lines, dealloc, task>>

Indices == 0..(QSize - 1)

\* Nobody is in dealloc_irq(); one task at a time unloads a driver.
NoDealloc == [irq |-> 0, step |-> "none", mask |-> {}]

\* (i + 1) & (IRQ_Q_SIZ - 1)
next_index(i) == (i + 1) % QSize

-----------------------------------------------------------------------------
(* Lines.  The line whose bit alloc_irq() and dealloc_irq() change: lines   *)
(* of the second controller use bit irq - 7, which is the bit of the line   *)
(* above, and no line's for 15.                                             *)

masked_line(i) == IF i <= 7 THEN i ELSE i + 1

alloc_irq(i) ==
    /\ i \in Direct
    /\ Irq_handlers[i] = None
    /\ Irq_handlers' = [Irq_handlers EXCEPT ![i] = "direct"]
    /\ imr' = imr \ {masked_line(i)}
    /\ UNCHANGED <<ring, irq_q_handlers, dealloc, task>>

\* dealloc_irq() runs with interrupts enabled.  It reads the mask register ...
dealloc_irq_read(i) ==
    /\ dealloc = NoDealloc
    /\ i \in Removable /\ Irq_handlers[i] # None
    /\ Irq_handlers[i] = "stub" => i \in irq_q_handlers
    /\ dealloc' = [irq |-> i, step |-> "write", mask |-> imr]
    /\ UNCHANGED <<ring, lines, task>>

\* ... writes it back, over what an alloc_irq() has changed since ...
dealloc_irq_write ==
    /\ dealloc.step = "write"
    /\ imr' = dealloc.mask \cup {masked_line(dealloc.irq)}
    /\ dealloc' = [dealloc EXCEPT !.step = "clear", !.mask = {}]
    /\ UNCHANGED <<ring, Irq_handlers, irq_q_handlers, task>>

\* ... and takes the handler out; dealloc_queued_irq() goes on from there.
dealloc_irq_clear ==
    /\ dealloc.step = "clear"
    /\ Irq_handlers' = [Irq_handlers EXCEPT ![dealloc.irq] = None]
    /\ dealloc' = IF Irq_handlers[dealloc.irq] = "stub"
                  THEN [dealloc EXCEPT !.step = "queued"] ELSE NoDealloc
    /\ UNCHANGED <<ring, irq_q_handlers, imr, task>>

\* Mutant: the failure of alloc_irq() is not undone, nor looked for.
alloc_queued_irq_unclaimed(i) ==
    /\ i \in Queued
    /\ Irq_handlers[i] = None
    /\ Irq_handlers' = [Irq_handlers EXCEPT ![i] = "stub"]
    /\ imr' = imr \ {masked_line(i)}
    /\ UNCHANGED <<ring, irq_q_handlers, dealloc, task>>

\* One masked section: when another driver has the line, alloc_irq() fails
\* and the queued handler is taken out again.
alloc_queued_irq(i) ==
    /\ i \in Queued
    /\ i \notin irq_q_handlers
    /\ IF Irq_handlers[i] = None
       THEN /\ Irq_handlers' = [Irq_handlers EXCEPT ![i] = "stub"]
            /\ imr' = imr \ {masked_line(i)}
            /\ irq_q_handlers' = irq_q_handlers \cup {i}
       ELSE UNCHANGED lines
    /\ UNCHANGED <<ring, dealloc, task>>

\* The last statement of dealloc_queued_irq().
dealloc_queued_irq ==
    /\ dealloc.step = "queued"
    /\ irq_q_handlers' = irq_q_handlers \ {dealloc.irq}
    /\ dealloc' = NoDealloc
    /\ UNCHANGED <<ring, Irq_handlers, imr, task>>

-----------------------------------------------------------------------------
(* An interrupt on line i: _do_irq calls the handler, the stub is           *)
(* queue_irq(i).                                                            *)

\* Mutant: the test for a full ring is left out.
queue_irq_unchecked(i) ==
    /\ irq_queue' = [irq_queue EXCEPT ![irq_q_in] = i]
    /\ irq_q_in' = next_index(irq_q_in)
    /\ irqs_queued' = irqs_queued + 1
    /\ running' = TRUE
    /\ UNCHANGED irq_q_out

\* The ring has room; wake_task() makes a suspended dispatcher runnable.
queue_irq(i) ==
    /\ next_index(irq_q_in) # irq_q_out
    /\ irq_queue' = [irq_queue EXCEPT ![irq_q_in] = i]
    /\ irq_q_in' = next_index(irq_q_in)
    /\ irqs_queued' = irqs_queued + 1
    /\ running' = TRUE
    /\ UNCHANGED irq_q_out

QueueIrq(i) ==
    /\ i \notin imr /\ Irq_handlers[i] = "stub"
    /\ queue_irq(i)
    /\ UNCHANGED <<lines, dealloc, disp, irq>>

\* The interrupt is lost when the ring is full.
DropIrq(i) ==
    /\ i \notin imr /\ Irq_handlers[i] = "stub"
    /\ next_index(irq_q_in) = irq_q_out
    /\ UNCHANGED vars

-----------------------------------------------------------------------------
(* service_queued_irqs(), the dispatcher task.                              *)

\* Mutant: the last interrupt in the ring is overlooked.
TestOffByOne ==
    /\ running /\ disp = "test"
    /\ disp' = IF irqs_queued > 1 THEN "take" ELSE "suspend"
    /\ UNCHANGED <<ring, lines, dealloc, irq, running>>

\* while(irqs_queued != 0)
Test ==
    /\ running /\ disp = "test"
    /\ disp' = IF irqs_queued # 0 THEN "take" ELSE "suspend"
    /\ UNCHANGED <<ring, lines, dealloc, irq, running>>

\* Mutant: the newest interrupt is taken.
TakeIrqNewest ==
    /\ running /\ disp = "take"
    /\ irq' = irq_queue[(irq_q_in + QSize - 1) % QSize]
    /\ irq_q_in' = (irq_q_in + QSize - 1) % QSize
    /\ irqs_queued' = irqs_queued - 1
    /\ disp' = "call"
    /\ UNCHANGED <<irq_queue, irq_q_out, lines, dealloc, running>>

\* Mutant: the count is left as it was.
TakeIrqUncounted ==
    /\ running /\ disp = "take"
    /\ irq' = irq_queue[irq_q_out]
    /\ irq_q_out' = next_index(irq_q_out)
    /\ disp' = "call"
    /\ UNCHANGED <<irq_queue, irq_q_in, irqs_queued, lines, dealloc, running>>

\* The masked section.
TakeIrq ==
    /\ running /\ disp = "take"
    /\ irq' = irq_queue[irq_q_out]
    /\ irq_q_out' = next_index(irq_q_out)
    /\ irqs_queued' = irqs_queued - 1
    /\ disp' = "call"
    /\ UNCHANGED <<irq_queue, irq_q_in, lines, dealloc, running>>

\* The handler runs, or the "no q handler" message is printed.
CallHandler ==
    /\ running /\ disp = "call"
    /\ disp' = "test"
    /\ UNCHANGED <<ring, lines, dealloc, irq, running>>

\* suspend_current_task(): suspend_task() takes the dispatcher off the run
\* queue whatever has been queued since Test.
Suspend ==
    /\ running /\ disp = "suspend"
    /\ running' = FALSE
    /\ disp' = "test"
    /\ UNCHANGED <<ring, lines, dealloc, irq>>

-----------------------------------------------------------------------------
Init ==
    /\ irq_queue = [n \in Indices |-> 0]
    /\ irq_q_in = 0 /\ irq_q_out = 0 /\ irqs_queued = 0
    /\ Irq_handlers = [i \in Irqs |-> None]
    /\ irq_q_handlers = {} /\ imr = {} /\ dealloc = NoDealloc
    /\ disp = "test" /\ irq = 0 /\ running = TRUE

Dispatcher == Test \/ TakeIrq \/ CallHandler \/ Suspend

Next ==
    \/ \E i \in Irqs : \/ alloc_irq(i) \/ alloc_queued_irq(i) \/ dealloc_irq_read(i)
                       \/ QueueIrq(i) \/ DropIrq(i)
    \/ dealloc_irq_write \/ dealloc_irq_clear \/ dealloc_queued_irq
    \/ Dispatcher

\* The processor does not stop: the task of the highest priority goes on as
\* long as it is runnable.
Spec == Init /\ [][Next]_vars /\ WF_vars(Dispatcher)

-----------------------------------------------------------------------------
\* The types of the variables; a counter that leaves its range has wrapped.
TypeOK ==
    /\ irq_queue \in [Indices -> 0..15]
    /\ irq_q_in \in Indices /\ irq_q_out \in Indices /\ irqs_queued \in Indices
    /\ Irq_handlers \in [Irqs -> {None, "direct", "stub"}]
    /\ irq_q_handlers \in SUBSET Irqs /\ imr \in SUBSET (0..16)
    /\ dealloc \in [irq : 0..15, step : {"none", "write", "clear", "queued"},
                    mask : SUBSET (0..16)]
    /\ disp \in {"test", "take", "call", "suspend"} /\ irq \in 0..15
    /\ running \in BOOLEAN

\* irqs_queued, which the dispatcher tests without masking interrupts, always
\* is the number of entries between irq_q_out and irq_q_in, and it is not zero
\* when the dispatcher takes one.
RingMatchesCount ==
    /\ irq_q_in = (irq_q_out + irqs_queued) % QSize
    /\ disp = "take" => irqs_queued > 0

\* A line whose interrupts are queued has a queued handler, so that only an
\* interrupt queued before dealloc_queued_irq() can find none.
StubHasHandler == \A i \in Irqs : Irq_handlers[i] = "stub" => i \in irq_q_handlers

\* The ring and the handlers stay consistent, whatever is tested with
\* interrupts enabled and however many interrupts come (do_queued_irqs,
\* queue_irq, alloc_queued_irq, dealloc_queued_irq).
QueueSound == TypeOK /\ RingMatchesCount /\ StubHasHandler

\* The interrupts in the ring, oldest first, and the one being handled.
fifo == [n \in 1..irqs_queued |-> irq_queue[(irq_q_out + n - 1) % QSize]]
serving == IF disp = "call" THEN irq ELSE None

Fifo == INSTANCE IrqFifo WITH Capacity <- QSize - 1

\* Queued interrupts are served in the order they came, one at a time, and no
\* interrupt is invented or lost once it is in the ring.
ImplementsFifo == Fifo!FifoInit /\ [][Fifo!FifoNext]_(Fifo!fvars)

\* An interrupt that is in the ring while the dispatcher is awake is served,
\* unless the dispatcher has already found the ring empty and is about to
\* suspend itself: that one waits for the next wake_task().
KeepsServing ==
    (running /\ disp # "suspend" /\ irqs_queued > 0) ~> (disp = "call")
=============================================================================
