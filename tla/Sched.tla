-------------------------------- MODULE Sched --------------------------------
(***************************************************************************)
(* The task table and the scheduler of the kernel: kernel/tasks/task.c,    *)
(* kernel/tasks/sched.c, the forbid/permit pair of vmm/tasks.h, the timer  *)
(* tick of kernel/misc/time.c, and the interrupt return path of            *)
(* kernel/misc/irq_entry.S.                                                *)
(*                                                                         *)
(* The machine has one processor.  An action is one section of code that   *)
(* runs with interrupts masked (cli .. load_flags), or one interrupt from  *)
(* entry to iret: interrupts arrive between any two actions, and an        *)
(* interrupt may end by preempting the current task in the middle of a     *)
(* kernel function.  The record k is everything these sections share; each *)
(* kernel function is an operator from one value of k to the next, so that *)
(* a handler that ends in schedule() is the composition of the two.        *)
(***************************************************************************)
EXTENDS Integers, FiniteSets, Sequences, SequencesExt

CONSTANTS
    Slots,      \* the entries of TaskArray (MAX_TASKS of them)
    Idle,       \* the entry add_initial_task() fills, pid 1
    IdlePri,    \* its priority, -80
    Pris,       \* the priorities given to add_task()
    Quantum,    \* STD_QUANTUM, in ticks
    Uses,       \* Uses[t]: the kernel calls the code of task t makes
    NewFlags,   \* the flags given to add_task()
    Targets,    \* tasks an operator names in kill, freeze and thaw
    MaxForbid   \* bound: how deep a task nests its own forbid() calls

ASSUME SlotsAssumption == IsFiniteSet(Slots) /\ Idle \in Slots
ASSUME PrisAssumption ==
    IdlePri \in Int /\ Pris \subseteq Int /\ \A p \in Pris : p > IdlePri
ASSUME QuantumAssumption == Quantum \in Nat \ {0}
ASSUME MaxForbidAssumption == MaxForbid \in Nat
Flags == {"RUNNING", "FROZEN", "ZOMBIE", "IMMORTAL"}
CallNames == {"forbid", "suspend", "sleep", "signal", "wake", "add", "kill",
              "freeze", "exit"}

\* The idle task is a loop around hlt: it never sleeps, exits or is named in
\* kill, freeze or thaw.
ASSUME CallersAssumption ==
    /\ Uses \in [Slots -> SUBSET CallNames]
    /\ Uses[Idle] \cap {"suspend", "sleep", "exit"} = {}
    /\ Targets \subseteq Slots \ {Idle}
ASSUME NewFlagsAssumption == NewFlags \subseteq SUBSET {"RUNNING", "IMMORTAL"}

VARIABLES
    k,      \* the data sched.c and task.c share, see TypeOK
    call,   \* call[t]: the kernel call t is in the middle of
    todo,   \* todo[t]: schedule()/permit() calls t has yet to make before it
            \* returns from suspend_current_task() and the like
    clash   \* an operation met a task structure that was freed, killed or
            \* claimed by somebody else under it; nothing is modelled after it

vars == <<k, call, todo, clash>>

NoCall == [op |-> "none", arg |-> Idle]
Calls == [op : {"none", "wake", "alloc", "append", "count", "kill"}, arg : Slots]

-----------------------------------------------------------------------------
(* The lists of sched.c.                                                    *)

Running(s, t) == "RUNNING" \in s.flags[t]

\* Is the node of t in the run queue or in the list of suspended tasks?
Linked(s, t) == t \in ToSet(s.running_tasks) \cup ToSet(s.suspended_tasks)

\* The first position of list at or after i whose element fails Test; the
\* position after the last element when there is none.
SkipWhile(list, i, Test(_)) ==
    Min({j \in i..(Len(list) + 1) : j = Len(list) + 1 \/ ~Test(list[j])})

\* Mutants: the order of the bands is turned round; the time a task has left
\* is ignored.
enqueue_position_reversed(s, list, t) ==
    SkipWhile(list, 1, LAMBDA x : s.pri[x] <= s.pri[t])
enqueue_position_untimed(s, list, t) ==
    SkipWhile(list, 1, LAMBDA x : s.pri[x] >= s.pri[t])

\* Where enqueue_task() wedges t in: behind its whole priority band when its
\* time is used up, else behind those of its band that have time left too.
enqueue_position(s, list, t) ==
    IF s.time_left[t] <= 0
    THEN SkipWhile(list, 1, LAMBDA x : s.pri[x] >= s.pri[t])
    ELSE SkipWhile(list, SkipWhile(list, 1, LAMBDA x : s.pri[x] > s.pri[t]),
                   LAMBDA x : s.pri[x] = s.pri[t] /\ s.time_left[x] > 0)

enqueue_task(s, t) ==
    [s EXCEPT !.running_tasks = InsertAt(@, enqueue_position(s, @, t), t)]

remove_node(s, t) ==
    [s EXCEPT !.running_tasks = RemoveFirst(@, t),
              !.suspended_tasks = RemoveFirst(@, t)]

-----------------------------------------------------------------------------
(* Releasing task structures, and the scheduler itself.                    *)

\* Mutant: TaskCount is not lowered.
reclaim_task_uncounted(s, T) == [s EXCEPT !.live = @ \ T]

\* reclaim_task() of every task in T: pid = 0, one less in TaskCount.
reclaim_task(s, T) ==
    [s EXCEPT !.live = @ \ T, !.TaskCount = @ - Cardinality(T)]

reclaim_zombies(s) ==
    [reclaim_task(s, ToSet(SubSeq(s.zombie_tasks, 1, s.zombies)))
        EXCEPT !.zombie_tasks = SubSeq(@, s.zombies + 1, Len(@)),
               !.zombies = 0]

\* Mutant: the dying task joins zombie_tasks but is not counted.
switch_to_head_uncounted(s) ==
    LET next == Head(s.running_tasks)
        dies == s.current_task # next /\ "ZOMBIE" \in s.flags[s.current_task]
    IN  [s EXCEPT !.time_left[next] = IF @ <= 0 THEN Quantum ELSE @,
                  !.zombie_tasks = IF dies THEN Append(@, s.current_task) ELSE @,
                  !.current_task = next]

\* The switch to the head of the run queue.
switch_to_head(s) ==
    LET next == Head(s.running_tasks)
        dies == s.current_task # next /\ "ZOMBIE" \in s.flags[s.current_task]
    IN  [s EXCEPT !.time_left[next] = IF @ <= 0 THEN Quantum ELSE @,
                  !.zombie_tasks = IF dies THEN Append(@, s.current_task) ELSE @,
                  !.zombies = IF dies THEN @ + 1 ELSE @,
                  !.current_task = next]

requeue_current(s) ==
    IF Running(s, s.current_task)
    THEN enqueue_task(remove_node(s, s.current_task), s.current_task)
    ELSE s

\* Mutant: forbid() is not honoured.
schedule_unforbidden(s) ==
    LET r == reclaim_zombies(s)
        q == requeue_current([r EXCEPT !.need_resched = FALSE])
    IN  IF q.running_tasks = <<>> THEN q ELSE switch_to_head(q)

schedule(s) ==
    LET r == reclaim_zombies(s)
        q == requeue_current([r EXCEPT !.need_resched = FALSE])
    IN  IF r.forbid_count[r.current_task] > 0 /\ Running(r, r.current_task)
        THEN r
        ELSE IF q.running_tasks = <<>> THEN q ELSE switch_to_head(q)

\* A task of a higher priority than the current one has become runnable.
prefer(s, t, intr_nest_count) ==
    IF s.pri[t] > s.pri[s.current_task]
    THEN IF intr_nest_count = 0
         THEN schedule(s)
         ELSE [s EXCEPT !.need_resched = TRUE]
    ELSE s

append_task(s, t) ==
    IF Running(s, t)
    THEN prefer(enqueue_task(s, t), t, 0)
    ELSE [s EXCEPT !.suspended_tasks = Append(@, t)]

remove_task(s, t) ==
    [remove_node(s, t) EXCEPT !.flags[t] = (@ \cup {"ZOMBIE"}) \ {"RUNNING"}]

\* Mutant: no reschedule is asked for.
suspend_task_unnoticed(s, t) ==
    IF Running(s, t)
    THEN [remove_node(s, t) EXCEPT
            !.suspended_tasks = Append(@, t),
            !.flags[t] = @ \ {"RUNNING"}]
    ELSE s

suspend_task(s, t) ==
    IF Running(s, t)
    THEN [remove_node(s, t) EXCEPT
            !.suspended_tasks = Append(@, t),
            !.flags[t] = @ \ {"RUNNING"},
            !.need_resched = TRUE]
    ELSE s

\* wake_task() tests the flags first, with interrupts still enabled when the
\* caller has them enabled, and then does the rest with interrupts masked.
wakeable(s, t) == s.flags[t] \cap {"RUNNING", "FROZEN", "ZOMBIE"} = {}

\* Mutant: the node is not taken out of the list it is in.
wake_section_linked(s, t, intr_nest_count) ==
    prefer(enqueue_task([s EXCEPT !.flags[t] = @ \cup {"RUNNING"}], t),
           t, intr_nest_count)

wake_section(s, t, intr_nest_count) ==
    prefer(enqueue_task([remove_node(s, t) EXCEPT
                            !.flags[t] = @ \cup {"RUNNING"}], t),
           t, intr_nest_count)

wake_task(s, t, intr_nest_count) ==
    IF wakeable(s, t) THEN wake_section(s, t, intr_nest_count) ELSE s

forbid(s) == [s EXCEPT !.forbid_count[s.current_task] = @ + 1]

permit(s) ==
    LET p == [s EXCEPT !.forbid_count[s.current_task] = @ - 1]
    IN  IF p.forbid_count[s.current_task] = 0 /\ p.need_resched
        THEN schedule(p) ELSE p

-----------------------------------------------------------------------------
(* Interrupts.  The gates are interrupt gates: a handler runs with         *)
(* interrupts masked, and intr_nest_count is 1 while it runs.              *)

\* The end of _do_irq.
intr_return(s) == IF s.need_resched THEN schedule(s) ELSE s

\* time_left is only ever compared with zero, so it stops there.
tick(s) ==
    LET left == IF s.time_left[s.current_task] > 0
                THEN s.time_left[s.current_task] - 1 ELSE 0
    IN  [s EXCEPT !.time_left[s.current_task] = left,
                  !.need_resched = @ \/ left <= 0]

LinkedTasks == {t \in Slots : Linked(k, t)}

\* An interrupt of a device whose handler wakes t (timers that expire wake a
\* task the same way).
DeviceIrq(t) ==
    /\ ~clash /\ t \in LinkedTasks
    /\ k' = intr_return(wake_task(k, t, 1))
    /\ UNCHANGED <<call, todo, clash>>

\* cmos_timer(): one tick of 1024 Hz.
TimerIrq ==
    /\ ~clash
    /\ k' = intr_return(tick(k))
    /\ UNCHANGED <<call, todo, clash>>

-----------------------------------------------------------------------------
(* What the current task does.                                             *)

c == k.current_task

\* It is at the point op of a kernel call.
At(op) == ~clash /\ call[c].op = op /\ todo[c] = <<>>

\* It is in its own code, and makes the kernel call f next.
Makes(f) == At("none") /\ f \in Uses[c]

Forbid ==
    /\ Makes("forbid") /\ k.forbid_count[c] < MaxForbid
    /\ k' = forbid(k)
    /\ UNCHANGED <<call, todo, clash>>

Permit ==
    /\ Makes("forbid") /\ k.forbid_count[c] > 0
    /\ k' = permit(k)
    /\ UNCHANGED <<call, todo, clash>>

\* May the current task sleep here?  Between calls, and inside fs->dup() of
\* add_task() and fs->close() of kill_task(), which do disk I/O.
MaySleep == "sleep" \in Uses[c] /\ (At("none") \/ At("append") \/ At("kill"))

\* Mutant: suspend_current_task() without its forbid(), but with its permit().
SuspendCurrentUnforbidden ==
    /\ Makes("suspend")
    /\ k' = suspend_task(k, c)
    /\ todo' = [todo EXCEPT ![c] = <<"schedule", "permit">>]
    /\ UNCHANGED <<call, clash>>

\* suspend_current_task() up to its call of schedule().
SuspendCurrent ==
    /\ Makes("suspend")
    /\ k' = suspend_task(forbid(k), c)
    /\ todo' = [todo EXCEPT ![c] = <<"schedule", "permit">>]
    /\ UNCHANGED <<call, clash>>

\* sleep_in_task_list() from suspend_task() up to its call of schedule().
SleepInTaskList ==
    /\ MaySleep
    /\ k' = suspend_task(k, c)
    /\ todo' = [todo EXCEPT ![c] = <<"schedule">>]
    /\ UNCHANGED <<call, clash>>

\* The schedule() or permit() the current task has still to call.
FinishCall ==
    /\ ~clash /\ todo[c] # <<>>
    /\ k' = IF Head(todo[c]) = "schedule" THEN schedule(k) ELSE permit(k)
    /\ todo' = [todo EXCEPT ![c] = Tail(@)]
    /\ UNCHANGED <<call, clash>>

\* wake_up_first_task() and wake_up_task_list() raise intr_nest_count around
\* wake_task(), so no schedule() follows.
WakeUpFirstTask(t) ==
    /\ Makes("signal") /\ t \in LinkedTasks
    /\ k' = wake_task(k, t, 1)
    /\ UNCHANGED <<call, todo, clash>>

\* wake_task() called directly by a task: the test of the flags ...
WakeTest(t) ==
    /\ Makes("wake") /\ t \in LinkedTasks /\ wakeable(k, t)
    /\ call' = [call EXCEPT ![c] = [op |-> "wake", arg |-> t]]
    /\ UNCHANGED <<k, todo, clash>>

\* An operation on a task whose structure is not what the caller took it for.
Clash ==
    /\ clash' = TRUE
    /\ UNCHANGED <<k, call, todo>>

\* ... and its masked section.
WakeSection ==
    /\ At("wake")
    /\ IF Linked(k, call[c].arg)
       THEN /\ k' = wake_section(k, call[c].arg, 0)
            /\ call' = [call EXCEPT ![c] = NoCall]
            /\ UNCHANGED <<todo, clash>>
       ELSE Clash

-----------------------------------------------------------------------------
(* add_task()                                                              *)

\* alloc_task() leaves pid = 0, so the entry can be allocated again until
\* AddFill.
AddAlloc(t) ==
    /\ Makes("add")
    /\ k.TaskCount # Cardinality(Slots)
    /\ t \in Slots \ k.live
    /\ k' = [k EXCEPT !.flags[t] = {}, !.time_left[t] = 0, !.forbid_count[t] = 0]
    /\ call' = [call EXCEPT ![t] = NoCall, ![c] = [op |-> "alloc", arg |-> t]]
    /\ todo' = [todo EXCEPT ![t] = <<>>]
    /\ UNCHANGED clash

\* No memory for the page directory or the stacks: free_task().
AddFail ==
    /\ At("alloc")
    /\ IF call[c].arg \in k.live
       THEN Clash
       ELSE /\ call' = [call EXCEPT ![c] = NoCall]
            /\ UNCHANGED <<k, todo, clash>>

AddFill(fl, p) ==
    /\ At("alloc")
    /\ IF call[c].arg \in k.live
       THEN Clash
       ELSE /\ k' = [k EXCEPT !.live = @ \cup {call[c].arg},
                              !.flags[call[c].arg] = fl,
                              !.pri[call[c].arg] = p]
            /\ call' = [call EXCEPT ![c].op = "append"]
            /\ UNCHANGED <<todo, clash>>

AddAppend ==
    /\ At("append")
    /\ LET t == call[c].arg
       IN  IF t \in k.live /\ ~Linked(k, t) /\ t \notin ToSet(k.zombie_tasks)
           THEN /\ k' = append_task(k, t)
                /\ call' = [call EXCEPT ![c].op = "count"]
                /\ UNCHANGED <<todo, clash>>
           ELSE Clash

\* TaskCount is only raised after append_task() has returned, which may be
\* long after the new task has run.
AddCount ==
    /\ At("count")
    /\ k' = [k EXCEPT !.TaskCount = @ + 1]
    /\ call' = [call EXCEPT ![c] = NoCall]
    /\ UNCHANGED <<todo, clash>>

-----------------------------------------------------------------------------
(* kill_task(), kill_current_task() and the shell commands                 *)

\* kill_current_task() up to fs->close().
ExitBegin ==
    /\ Makes("exit")
    /\ k' = [k EXCEPT !.flags[c] = @ \ {"IMMORTAL"}]
    /\ call' = [call EXCEPT ![c] = [op |-> "kill", arg |-> c]]
    /\ UNCHANGED <<todo, clash>>

\* cmd_kill() and kill_task() up to fs->close().
KillBegin(t) ==
    /\ Makes("kill")
    /\ t \in (Targets \cap k.live) \ {c}
    /\ "IMMORTAL" \notin k.flags[t]
    /\ k' = forbid(k)
    /\ call' = [call EXCEPT ![c] = [op |-> "kill", arg |-> t]]
    /\ UNCHANGED <<todo, clash>>

\* cmd_kill() of a task that cannot be killed, or of no task.
KillRefused ==
    /\ Makes("kill")
    /\ k' = forbid(k)
    /\ todo' = [todo EXCEPT ![c] = <<"permit">>]
    /\ UNCHANGED <<call, clash>>

\* The rest of kill_task(); cmd_kill() ends with permit().
KillFinish ==
    /\ At("kill")
    /\ LET t == call[c].arg
           r == remove_task(k, t)
       IN  IF ~Linked(k, t)
           THEN Clash
           ELSE /\ k' = IF t = c THEN schedule(r) ELSE reclaim_task(r, {t})
                /\ call' = [call EXCEPT ![c] = NoCall, ![t] = NoCall]
                /\ todo' = IF t = c THEN todo
                           ELSE [todo EXCEPT ![c] = <<"permit">>, ![t] = <<>>]
                /\ UNCHANGED clash

\* cmd_freeze() and cmd_thaw() run with interrupts masked throughout.
Freeze(t) ==
    /\ Makes("freeze")
    /\ t \in Targets \cap k.live
    /\ IF Running(k, t) /\ ~Linked(k, t)
       THEN Clash
       ELSE /\ k' = suspend_task([k EXCEPT !.flags[t] = @ \cup {"FROZEN"}], t)
            /\ UNCHANGED <<call, todo, clash>>

Thaw(t) ==
    /\ Makes("freeze")
    /\ t \in Targets \cap k.live /\ "FROZEN" \in k.flags[t]
    /\ LET s == [k EXCEPT !.flags[t] = @ \ {"FROZEN"}]
       IN  IF wakeable(s, t) /\ ~Linked(k, t)
           THEN Clash
           ELSE /\ k' = wake_task(s, t, 0)
                /\ UNCHANGED <<call, todo, clash>>

-----------------------------------------------------------------------------
\* init_sched() and add_initial_task().
Init ==
    /\ k = [running_tasks |-> <<Idle>>, suspended_tasks |-> <<>>,
            zombie_tasks |-> <<>>, zombies |-> 0,
            flags |-> [t \in Slots |->
                         IF t = Idle THEN {"RUNNING", "IMMORTAL"} ELSE {}],
            pri |-> [t \in Slots |-> IF t = Idle THEN IdlePri ELSE 0],
            time_left |-> [t \in Slots |-> 0],
            forbid_count |-> [t \in Slots |-> 0],
            live |-> {Idle}, TaskCount |-> 1,
            current_task |-> Idle, need_resched |-> FALSE]
    /\ call = [t \in Slots |-> NoCall]
    /\ todo = [t \in Slots |-> <<>>]
    /\ clash = FALSE

\* Once a task structure is corrupt the model says no more.
Halted == clash /\ UNCHANGED vars

Next ==
    \/ TimerIrq \/ \E t \in Slots : DeviceIrq(t)
    \/ Forbid \/ Permit \/ SuspendCurrent \/ SleepInTaskList \/ FinishCall
    \/ \E t \in Slots : WakeUpFirstTask(t) \/ WakeTest(t)
    \/ WakeSection
    \/ \E t \in Slots : AddAlloc(t)
    \/ AddFail \/ \E fl \in NewFlags, p \in Pris : AddFill(fl, p)
    \/ AddAppend \/ AddCount
    \/ ExitBegin \/ KillRefused \/ \E t \in Slots : KillBegin(t)
    \/ KillFinish
    \/ \E t \in Slots : Freeze(t) \/ Thaw(t)
    \/ Halted

Spec == Init /\ [][Next]_vars

-----------------------------------------------------------------------------
\* The values of k.
KernelState ==
    [running_tasks : Seq(Slots), suspended_tasks : Seq(Slots),
     zombie_tasks : Seq(Slots), zombies : Nat,
     flags : [Slots -> SUBSET Flags], pri : [Slots -> Int],
     time_left : [Slots -> Nat], forbid_count : [Slots -> Nat],
     live : SUBSET Slots, TaskCount : Int,
     current_task : Slots, need_resched : BOOLEAN]

\* The types of the variables.
TypeOK ==
    /\ k \in KernelState
    /\ call \in [Slots -> Calls]
    /\ todo \in [Slots -> {<<>>, <<"schedule">>, <<"schedule", "permit">>, <<"permit">>}]
    /\ clash \in BOOLEAN

-----------------------------------------------------------------------------
(* Properties.                                                              *)

\* The node of every task is in the list its flags say.
ListsMatch(s) ==
    /\ IsInjective(s.running_tasks) /\ IsInjective(s.suspended_tasks)
    /\ IsInjective(s.zombie_tasks)
    /\ \A t \in ToSet(s.running_tasks) :
         t \in s.live /\ Running(s, t) /\ "ZOMBIE" \notin s.flags[t]
    /\ \A t \in ToSet(s.suspended_tasks) :
         t \in s.live /\ ~Running(s, t) /\ "ZOMBIE" \notin s.flags[t]
    /\ \A t \in ToSet(s.zombie_tasks) :
         t \in s.live /\ ~Running(s, t) /\ "ZOMBIE" \in s.flags[t]

\* A task is on at most one list, once, and its flags say on which one: the
\* run queue holds running tasks, suspended_tasks those that are neither
\* running nor dead, zombie_tasks dead ones; no list holds a freed entry.
\* append_task, remove_task, suspend_task, wake_task and schedule move nodes
\* and set flags in separate statements.
ListsMatchFlags == ListsMatch(k)

\* The run queue is ordered by priority at all times, so that taking its head
\* is taking a task of the highest priority (enqueue_task, schedule).
RunQueueOrdered ==
    \A i, j \in 1..Len(k.running_tasks) :
        i < j => k.pri[k.running_tasks[i]] >= k.pri[k.running_tasks[j]]

\* Within a priority band the tasks that still have time left come first; the
\* current task's time runs down where it stands (comment at enqueue_task).
BandOrdered ==
    \A i, j \in 1..Len(k.running_tasks) :
        LET x == k.running_tasks[i]
            y == k.running_tasks[j]
        IN  i < j /\ x # k.current_task /\ k.pri[x] = k.pri[y]
                => (k.time_left[y] > 0 => k.time_left[x] > 0)

\* The processor never runs a task whose structure has been reclaimed or is
\* waiting to be: kill_task leaves that to a schedule() after the switch.
CurrentNotReclaimed ==
    /\ k.current_task \in k.live
    /\ Linked(k, k.current_task)
    /\ k.zombies = Len(k.zombie_tasks)

\* A current task that is no longer runnable (it suspended or froze itself)
\* leaves the processor at the next interrupt, because need_resched is set
\* until it has.
SuspendedLeaves == ~Running(k, k.current_task) => k.need_resched

\* tech-man/kernel.texi on permit(): "if it's new value is zero and the task
\* should have been preempted while preemption was disabled the scheduler is
\* called".  So a current task that has no forbid() outstanding is never
\* outranked by a runnable task, unless a reschedule is pending.  wake_task()
\* and append_task() call schedule() directly, which does nothing while the
\* caller is in forbid(), and leave need_resched clear.
PermitPreempts ==
    k.forbid_count[k.current_task] = 0 =>
        \/ k.need_resched
        \/ \A t \in ToSet(k.running_tasks) : k.pri[t] <= k.pri[k.current_task]

\* Every live entry is linked, or its creator is between setting its pid and
\* append_task(); TaskCount is short by the calls of add_task() that have not
\* reached their last statement (it bounds the entries in use).
CountsMatch ==
    LET unlinked == {t \in k.live : ~Linked(k, t) /\ t \notin ToSet(k.zombie_tasks)}
        adding == {t \in Slots : call[t].op \in {"append", "count"}}
    IN  /\ \A t \in unlinked : \E m \in Slots : call[m] = [op |-> "append", arg |-> t]
        /\ k.TaskCount = Cardinality(k.live) - Cardinality(adding)

\* The task table, the counts and the order within a band agree with what the
\* tasks are doing, also between the steps of add_task(), suspend_task() and
\* schedule().
TasksAccounted == BandOrdered /\ SuspendedLeaves /\ CountsMatch

\* A switch goes to a task of the highest runnable priority, with time left
\* to run and preemptable tasks only lose the processor: a task that has
\* called forbid() keeps it for as long as it stays runnable (schedule).
SwitchIsFair ==
    [][k'.current_task # k.current_task =>
         /\ \A t \in ToSet(k'.running_tasks) : k'.pri[t] <= k'.pri[k'.current_task]
         /\ k'.time_left[k'.current_task] > 0
         /\ k.forbid_count[k.current_task] > 0 /\ k'.forbid_count[k.current_task] > 0
               => ~Running(k', k.current_task)]_vars
=============================================================================
