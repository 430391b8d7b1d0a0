------------------------------- MODULE Timers -------------------------------
(***************************************************************************)
(* Timer requests (kernel/misc/time.c): tasks that sleep for some ticks,   *)
(* the timer chip of each virtual machine (drivers/virtual/vpit) and its   *)
(* clock (drivers/virtual/vcmos), whose requests are renewed by the        *)
(* interrupt handler that dispatches them.                                 *)
(*                                                                         *)
(* The model stops, with clash, where the code                             *)
(*   "wrapped"  sets a request to a time that does not fit in a word: it   *)
(*              counts as expired, and a handler that renews it so never   *)
(*              leaves its loop;                                           *)
(*   "dangling" dispatches, or links into the list, a request whose owner  *)
(*              has been killed and its memory freed;                      *)
(*   "unwoken"  signals a sleeper inside its wait(), before it is          *)
(*              suspended: the signal is lost, and the task never wakes    *)
(*              (module Semaphore has the single steps).                   *)
(***************************************************************************)
EXTENDS Integers, Sequences, SequencesExt, FiniteSets

CONSTANTS
    Sleepers,       \* tasks that call sleep_for_ticks()
    Machines,       \* virtual machines
    Width,          \* values of a u_long
    Lengths,        \* how long tasks sleep, in ticks
    Intervals,      \* values of calc_divisor_ticks()
    Second          \* ticks between two calls of rtc_update()

ASSUME TimesAssumption ==
    Width \in Nat \ {0} /\ Lengths \subseteq Nat /\ Intervals \subseteq Nat /\ Second \in Nat

VARIABLES
    timer_ticks,
    timer_list,     \* the requests in the order of the list
    wakeup_ticks,   \* of every request
    left,           \* how many ticks the sleep of a task has still to last
    sleeper,        \* what the task does: see Sleeping, or "awake", "adding", "freed"
    pit,            \* a machine's timer chip
    rtc,            \* "none", "running", "freed": its clock
    dispatching,    \* cmos_timer() is in its loop
    clash_t

tvars == <<timer_ticks, timer_list, wakeup_ticks, left, sleeper, pit, rtc, dispatching, clash_t>>

Sleep(t) == <<"sleep", t>>
Chan0(m) == <<"chan0", m>>
Rtc(m) == <<"rtc", m>>
\* The request of a sleep is in the list: before wait(), inside it, after it.
Sleeping == {"linked", "joining", "asleep"}

Requests == {Sleep(t) : t \in Sleepers} \cup {Chan0(m) : m \in Machines} \cup {Rtc(m) : m \in Machines}

\* PIT_CMD_MODE0, MODE2 and MODE3 start the timer.
Modes == {"periodic", "other"}
NoPit == [state |-> "none", mode |-> "periodic", ticking |-> FALSE, interval |-> 0]

-----------------------------------------------------------------------------
\* Mutant: a request is put before the ones that are due later than it is after
\* the present.
insert_behind(list, r, w) ==
    LET later(q) == w[q] > w[r]
        i == SelectInSeq(list, later)
    IN  IF i = 0 THEN <<r>> \o list ELSE InsertAt(list, i, r)

\* add_timer(), after the time has been added to the request.
insert(list, r, w) ==
    LET later(q) == w[q] >= w[r]
        i == SelectInSeq(list, later)
    IN  IF i = 0 THEN Append(list, r) ELSE InsertAt(list, i, r)

\* The time in a request that is in use no more is left out of the state.
Unset(r) == wakeup_ticks' = [wakeup_ticks EXCEPT ![r] = 0]

\* Mutant: the rest of the list is lost.
Without_rest(list, r) == IF Contains(list, r) THEN SubSeq(list, 1, CHOOSE i \in 0..Len(list) : list[i + 1] = r) ELSE list

\* remove_timer()
Without(list, r) == RemoveFirst(list, r)

Sum(n) == (timer_ticks + n) % Width
Fits(n) == timer_ticks + n < Width

\* A request that is set and added in one.
Renewed(r, n, list) ==
    /\ wakeup_ticks' = [wakeup_ticks EXCEPT ![r] = Sum(n)]
    /\ timer_list' = insert(list, r, wakeup_ticks')
    /\ clash_t' = IF Fits(n) THEN clash_t ELSE "wrapped"

-----------------------------------------------------------------------------
(* Tasks.                                                                   *)

\* sleep_for_ticks(): add_timer() reads the time before it disables interrupts, ...
sleep_for_ticks(t, n) ==
    /\ sleeper[t] = "awake" /\ ~dispatching
    /\ sleeper' = [sleeper EXCEPT ![t] = "adding"]
    /\ wakeup_ticks' = [wakeup_ticks EXCEPT ![Sleep(t)] = Sum(n)]
    /\ left' = [left EXCEPT ![t] = IF Fits(n) THEN n ELSE 0]
    /\ UNCHANGED <<timer_ticks, timer_list, pit, rtc, dispatching, clash_t>>

\* ... and then links the request, and interrupts are enabled again.
add_timer(t) ==
    /\ sleeper[t] = "adding" /\ ~dispatching
    /\ sleeper' = [sleeper EXCEPT ![t] = "linked"]
    /\ timer_list' = insert(timer_list, Sleep(t), wakeup_ticks)
    /\ UNCHANGED <<timer_ticks, wakeup_ticks, left, pit, rtc, dispatching, clash_t>>

\* wait() in two steps: the semaphore, blocked from the start and not signalled
\* yet, is found blocked; then the task has joined its list and is suspended.
wait_blocked(t) ==
    /\ sleeper[t] = "linked" /\ ~dispatching
    /\ sleeper' = [sleeper EXCEPT ![t] = "joining"]
    /\ UNCHANGED <<timer_ticks, timer_list, wakeup_ticks, left, pit, rtc, dispatching, clash_t>>

wait_suspended(t) ==
    /\ sleeper[t] = "joining" /\ ~dispatching
    /\ sleeper' = [sleeper EXCEPT ![t] = "asleep"]
    /\ UNCHANGED <<timer_ticks, timer_list, wakeup_ticks, left, pit, rtc, dispatching, clash_t>>

\* A task that can run goes on.
GoesOn(t) == add_timer(t) \/ wait_blocked(t) \/ wait_suspended(t)

\* The task is killed; a request on its stack stays in the list.
kill_task(t) ==
    /\ sleeper[t] \in Sleeping \cup {"adding"} /\ ~dispatching
    /\ sleeper' = [sleeper EXCEPT ![t] = "freed"]
    /\ UNCHANGED <<timer_ticks, timer_list, wakeup_ticks, left, pit, rtc, dispatching, clash_t>>

-----------------------------------------------------------------------------
(* The timer chip and the clock of a machine.                               *)

\* start_timer() up to the place where add_timer() disables interrupts.  The
\* interrupts that remove_timer() has enabled stay enabled.
start_timer(p, m) ==
    IF p.mode = "periodic"
    THEN /\ timer_list' = IF p.ticking THEN Without(timer_list, Chan0(m)) ELSE timer_list
         /\ wakeup_ticks' = [wakeup_ticks EXCEPT ![Chan0(m)] = Sum(p.interval)]
         /\ pit' = [pit EXCEPT ![m] = [p EXCEPT !.state = "adding"]]
         /\ clash_t' = IF Fits(p.interval) THEN clash_t ELSE "wrapped"
    ELSE /\ pit' = [pit EXCEPT ![m] = p]
         /\ UNCHANGED <<timer_list, wakeup_ticks, clash_t>>

\* create_vpit()
create_vpit(m) ==
    /\ pit[m].state = "none" /\ ~dispatching
    /\ \E i \in Intervals : start_timer([NoPit EXCEPT !.state = "running", !.interval = i], m)
    /\ UNCHANGED <<timer_ticks, left, sleeper, rtc, dispatching>>

\* The rest of start_timer().
timer_ticking(m) ==
    /\ pit[m].state = "adding" /\ ~dispatching
    /\ timer_list' = insert(timer_list, Chan0(m), wakeup_ticks)
    /\ pit' = [pit EXCEPT ![m].state = "running", ![m].ticking = TRUE]
    /\ UNCHANGED <<timer_ticks, wakeup_ticks, left, sleeper, rtc, dispatching, clash_t>>

\* vpit_out(): a command; the first byte of a divisor; the second byte, with
\* which the timer is started before the new interval is computed.
vpit_out_command(m, mode) ==
    /\ pit[m].state = "running" /\ ~dispatching
    /\ pit' = [pit EXCEPT ![m].mode = mode]
    /\ UNCHANGED <<timer_ticks, timer_list, wakeup_ticks, left, sleeper, rtc, dispatching, clash_t>>

vpit_out_low(m, i) ==
    /\ pit[m].state = "running" /\ ~dispatching
    /\ pit' = [pit EXCEPT ![m].interval = i]
    /\ UNCHANGED <<timer_ticks, timer_list, wakeup_ticks, left, sleeper, rtc, dispatching, clash_t>>

vpit_out_high(m) ==
    /\ pit[m].state = "running" /\ ~dispatching
    /\ start_timer(pit[m], m)
    /\ UNCHANGED <<timer_ticks, left, sleeper, rtc, dispatching>>

\* kill_vpit(), also while another task is still in create_vpit().
kill_vpit(m) ==
    /\ pit[m].state \in {"running", "adding"} /\ ~dispatching
    /\ timer_list' = Without(timer_list, Chan0(m))
    /\ pit' = [pit EXCEPT ![m] = [NoPit EXCEPT !.state =
                                      IF pit[m].state = "adding" THEN "freed" ELSE "none"]]
    /\ Unset(Chan0(m)) /\ UNCHANGED <<timer_ticks, left, sleeper, rtc, dispatching, clash_t>>

\* create_vcmos() and delete_vcmos()
create_vcmos(m) ==
    /\ rtc[m] = "none" /\ ~dispatching
    /\ rtc' = [rtc EXCEPT ![m] = "running"]
    /\ Renewed(Rtc(m), Second, timer_list)
    /\ UNCHANGED <<timer_ticks, left, sleeper, pit, dispatching>>

delete_vcmos(m) ==
    /\ rtc[m] = "running" /\ ~dispatching
    /\ rtc' = [rtc EXCEPT ![m] = "none"]
    /\ timer_list' = Without(timer_list, Rtc(m))
    /\ Unset(Rtc(m)) /\ UNCHANGED <<timer_ticks, left, sleeper, pit, dispatching, clash_t>>

\* A task that was in start_timer() when its machine was killed links the request.
add_freed(m) ==
    /\ pit[m].state = "freed" /\ ~dispatching
    /\ clash_t' = "dangling"
    /\ UNCHANGED <<timer_ticks, timer_list, wakeup_ticks, left, sleeper, pit, rtc, dispatching>>

-----------------------------------------------------------------------------
(* cmos_timer(): nothing that uses the list runs until it has ended.        *)

cmos_timer ==
    /\ ~dispatching /\ dispatching' = TRUE
    /\ timer_ticks' = (timer_ticks + 1) % Width
    /\ left' = [t \in Sleepers |-> IF left[t] > 0 THEN left[t] - 1 ELSE 0]
    /\ UNCHANGED <<timer_list, wakeup_ticks, sleeper, pit, rtc, clash_t>>

\* The functions of the requests.
vpit_timer_handler(m, list) ==
    /\ IF pit[m].mode = "periodic" THEN Renewed(Chan0(m), pit[m].interval, list)
       ELSE timer_list' = list /\ Unset(Chan0(m)) /\ UNCHANGED clash_t
    /\ pit' = [pit EXCEPT ![m].ticking = (pit[m].mode = "periodic")]
    /\ UNCHANGED <<sleeper, rtc>>

rtc_update(m, list) ==
    /\ Renewed(Rtc(m), Second, list)
    /\ UNCHANGED <<sleeper, pit, rtc>>

\* A task that has not begun to wait passes wait(); one that is inside it misses
\* the signal.
signal(t, list) ==
    /\ timer_list' = list
    /\ sleeper' = [sleeper EXCEPT ![t] = IF @ \in {"linked", "asleep"} THEN "awake" ELSE @]
    /\ clash_t' = CASE sleeper[t] = "freed" -> "dangling"
                    [] sleeper[t] = "joining" -> "unwoken"
                    [] OTHER -> clash_t
    /\ Unset(Sleep(t)) /\ UNCHANGED <<pit, rtc>>

\* Mutant: a request is dispatched one tick before it is due.
expired_soon == timer_list # <<>> /\ wakeup_ticks[Head(timer_list)] <= timer_ticks + 1

\* The head of the list is dispatched if it is due; the handler ends otherwise.
expired == timer_list # <<>> /\ wakeup_ticks[Head(timer_list)] <= timer_ticks

dispatch ==
    /\ dispatching /\ expired
    /\ LET r == Head(timer_list) IN
        CASE r[1] = "sleep" -> signal(r[2], Tail(timer_list))
          [] r[1] = "chan0" -> vpit_timer_handler(r[2], Tail(timer_list))
          [] r[1] = "rtc" -> rtc_update(r[2], Tail(timer_list))
    /\ UNCHANGED <<timer_ticks, left, dispatching>>

dispatched ==
    /\ dispatching /\ ~expired
    /\ dispatching' = FALSE
    /\ UNCHANGED <<timer_ticks, timer_list, wakeup_ticks, left, sleeper, pit, rtc, clash_t>>

-----------------------------------------------------------------------------
TInit ==
    /\ timer_ticks = 0 /\ timer_list = <<>> /\ dispatching = FALSE /\ clash_t = "none"
    /\ wakeup_ticks = [r \in Requests |-> 0] /\ left = [t \in Sleepers |-> 0]
    /\ sleeper = [t \in Sleepers |-> "awake"]
    /\ pit = [m \in Machines |-> NoPit] /\ rtc = [m \in Machines |-> "none"]

Kernel == cmos_timer \/ dispatch \/ dispatched

TNext ==
    /\ clash_t = "none"
    /\ \/ Kernel
       \/ \E t \in Sleepers : (\E n \in Lengths : sleep_for_ticks(t, n)) \/ GoesOn(t) \/ kill_task(t)
       \/ \E m \in Machines :
            \/ create_vpit(m) \/ timer_ticking(m) \/ vpit_out_high(m) \/ kill_vpit(m)
            \/ \E mode \in Modes : vpit_out_command(m, mode)
            \/ \E i \in Intervals : vpit_out_low(m, i)
            \/ create_vcmos(m) \/ delete_vcmos(m) \/ add_freed(m)

TSpec == TInit /\ [][TNext]_tvars /\ WF_tvars(clash_t = "none" /\ Kernel)

-----------------------------------------------------------------------------
Listed(r) == r \in ToSet(timer_list)

\* The list is in the order of time, no request is in it twice, and the ones
\* in it are those that their owners believe to be there: the flag
\* timer_ticking is true of the list although it is set after interrupts have
\* been enabled, a chip or a clock that is gone has left nothing behind.
TimersListed ==
    clash_t = "none" =>
        /\ \A i, j \in DOMAIN timer_list : i < j =>
            /\ timer_list[i] # timer_list[j]
            /\ wakeup_ticks[timer_list[i]] <= wakeup_ticks[timer_list[j]]
        /\ \A m \in Machines :
            /\ Listed(Chan0(m)) <=> pit[m].ticking /\ pit[m].state = "running"
            /\ Listed(Rtc(m)) <=> rtc[m] = "running"
        /\ \A t \in Sleepers : sleeper[t] \in Sleeping => Listed(Sleep(t))

\* A task sleeps for at least as many ticks as it has asked for, unless their
\* sum with the time does not fit in a word.
NeverEarly == [][\A t \in Sleepers : sleeper[t] \in Sleeping /\ sleeper'[t] = "awake" => left[t] = 0]_tvars

\* Every sleep ends, however the requests of others are put before it, unless its
\* signal comes inside wait() and is lost.
SleepEnds == \A t \in Sleepers : sleeper[t] \in Sleeping ~> sleeper[t] \notin Sleeping \/ clash_t # "none"

==============================================================================
