------------------------------ MODULE Semaphore ------------------------------
(***************************************************************************)
(* One semaphore guarding a critical section: wait() and signal() of       *)
(* vmm/tasks.h, over the task lists of kernel/tasks/sched.c.               *)
(*                                                                         *)
(* Tasks are preempted between any two of the steps below (the scheduler   *)
(* may run any task whose TASK_RUNNING flag is set, see module Sched); a   *)
(* step is one instruction on the semaphore or one section with interrupts *)
(* masked.                                                                 *)
(***************************************************************************)
EXTENDS Naturals, Sequences, SequencesExt

CONSTANT Tasks
ASSUME TasksAssumption == Tasks # {}

VARIABLES
    blocked, waiting,   \* struct semaphore
    runnable,            \* the TASK_RUNNING flag of each task
    pc                  \* the step each task takes next

sem_vars == <<blocked, waiting, runnable, pc>>

Steps == {"rest", "add", "suspend", "schedule", "critical", "clear", "wake"}

Goto(t, step) == pc' = [pc EXCEPT ![t] = step]

\* t takes a step: it is at that step and runnable.
At(t, step) == pc[t] = step /\ runnable[t]

-----------------------------------------------------------------------------
(* wait()                                                                   *)

\* Mutant: the semaphore is tested but not taken.
WaitLeavesOpen(t) ==
    /\ At(t, "rest")
    /\ Goto(t, IF blocked THEN "add" ELSE "critical")
    /\ UNCHANGED <<blocked, waiting, runnable>>

\* xchgl: was_blocked = blocked, blocked = TRUE, in one instruction.
Wait(t) ==
    /\ At(t, "rest")
    /\ blocked' = TRUE
    /\ Goto(t, IF blocked THEN "add" ELSE "critical")
    /\ UNCHANGED <<waiting, runnable>>

\* Mutant: the element is put at the head of the list.
add_task_list_front(t) ==
    /\ At(t, "add")
    /\ waiting' = <<t>> \o waiting
    /\ Goto(t, "suspend")
    /\ UNCHANGED <<blocked, runnable>>

\* sleep_in_task_list(): add_task_list() ...
add_task_list(t) ==
    /\ At(t, "add")
    /\ waiting' = Append(waiting, t)
    /\ Goto(t, "suspend")
    /\ UNCHANGED <<blocked, runnable>>

\* ... suspend_task(current_task) ...
suspend_task(t) ==
    /\ At(t, "suspend")
    /\ runnable' = [runnable EXCEPT ![t] = FALSE]
    /\ Goto(t, "schedule")
    /\ UNCHANGED <<blocked, waiting>>

\* ... and schedule(), which returns when the task is runnable again.
schedule_returns(t) ==
    /\ At(t, "schedule")
    /\ Goto(t, "critical")
    /\ UNCHANGED <<blocked, waiting, runnable>>

-----------------------------------------------------------------------------
(* signal()                                                                 *)

\* if(sem->waiting == NULL), with interrupts enabled.
Signal(t) ==
    /\ At(t, "critical")
    /\ Goto(t, IF waiting = <<>> THEN "clear" ELSE "wake")
    /\ UNCHANGED <<blocked, waiting, runnable>>

\* sem->blocked = FALSE
SignalClear(t) ==
    /\ At(t, "clear")
    /\ blocked' = FALSE
    /\ Goto(t, "rest")
    /\ UNCHANGED <<waiting, runnable>>

\* Mutant: the task that is woken stays in the list.
wake_up_first_task_listed(t) ==
    /\ At(t, "wake")
    /\ runnable' = [runnable EXCEPT ![Head(waiting)] = TRUE]
    /\ Goto(t, "rest")
    /\ UNCHANGED <<blocked, waiting>>

\* Mutant: a semaphore that has been handed over is opened as well.
wake_up_first_task_opened(t) ==
    /\ At(t, "wake")
    /\ waiting' = Tail(waiting)
    /\ runnable' = [runnable EXCEPT ![Head(waiting)] = TRUE]
    /\ blocked' = FALSE
    /\ Goto(t, "rest")

\* wake_up_first_task(): the first waiter leaves the list and owns the
\* semaphore, which stays blocked; wake_task() does nothing to a task that is
\* still runnable.
wake_up_first_task(t) ==
    /\ At(t, "wake")
    /\ IF waiting # <<>>
       THEN /\ waiting' = Tail(waiting)
            /\ runnable' = [runnable EXCEPT ![Head(waiting)] = TRUE]
       ELSE UNCHANGED <<waiting, runnable>>
    /\ Goto(t, "rest")
    /\ UNCHANGED blocked

-----------------------------------------------------------------------------
\* set_sem_clear()
SemInit ==
    /\ blocked = FALSE /\ waiting = <<>>
    /\ runnable = [t \in Tasks |-> TRUE]
    /\ pc = [t \in Tasks |-> "rest"]

Step(t) ==
    \/ Wait(t) \/ add_task_list(t) \/ suspend_task(t) \/ schedule_returns(t)
    \/ Signal(t) \/ SignalClear(t) \/ wake_up_first_task(t)

\* Every task may have lost its wake-up: see NoLostWakeup.
Stuck == (\A t \in Tasks : ~runnable[t]) /\ UNCHANGED sem_vars

SemNext == (\E t \in Tasks : Step(t)) \/ Stuck

SemSpec == SemInit /\ [][SemNext]_sem_vars

-----------------------------------------------------------------------------
\* The types of the variables; no task is twice in the list.
SemTypeOK ==
    /\ blocked \in BOOLEAN /\ waiting \in Seq(Tasks)
    /\ \A i, j \in 1..Len(waiting) : waiting[i] = waiting[j] => i = j
    /\ runnable \in [Tasks -> BOOLEAN] /\ pc \in [Tasks -> Steps]

\* t is in the critical section, up to the end of signal().
InSection(t) == pc[t] \in {"critical", "clear", "wake"}

\* At most one task is between the return of wait() and the end of signal(),
\* whatever the interleaving of the unmasked tests in both.
MutualExclusion == \A t, u \in Tasks : InSection(t) /\ InSection(u) => t = u

\* The semaphore has been handed to t, which has not returned from wait() yet.
HandedTo(t) == pc[t] \in {"suspend", "schedule"} /\ t \notin ToSet(waiting)

Owns(t) == InSection(t) \/ HandedTo(t)

\* While a task owns the semaphore, or has been handed it, it stays blocked
\* and nobody else does: ownership passes from signal() to the first waiter
\* without a moment in which a third task could take it.
HandOver ==
    \A t \in Tasks : Owns(t) => blocked /\ \A u \in Tasks : Owns(u) => u = t

\* Waiters are served in the order in which they joined the list: a task that
\* joins does not overtake one that waits already.
ServedInOrder ==
    [][\A i \in 1..Len(waiting) :
         \/ i <= Len(waiting') /\ waiting'[i] = waiting[i]
         \/ Len(waiting') = Len(waiting) - 1
              /\ (i = 1 \/ waiting'[i - 1] = waiting[i])]_sem_vars

\* tech-man/kernel.texi on wait(): "the current task will sleep until it
\* becomes available".  So a sleeping task is one that waits in the list of a
\* semaphore that is blocked.  The code suspends the task in steps, and a
\* signal() between two of them is lost.
NoLostWakeup ==
    \A t \in Tasks : ~runnable[t] => blocked /\ t \in ToSet(waiting)

=============================================================================
