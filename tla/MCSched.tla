------------------------------- MODULE MCSched -------------------------------
(* A small instance of Sched: the idle task, which boots the system, and     *)
(* three entries whose tasks make different kernel calls.                    *)
EXTENDS Sched

CONSTANTS i0, t1, t2, t3

\* t1 is a shell that kills and freezes, t2 a driver that disables preemption
\* and wakes others, t3 a task that comes and goes.
MCUses ==
    (i0 :> {"add"}) @@ (t1 :> {"sleep", "kill", "freeze"})
    @@ (t2 :> {"forbid", "suspend", "wake", "signal"}) @@ (t3 :> {"exit"})
MCNewFlags == {{}, {"RUNNING"}}

\* What is left in a free entry of TaskArray is never read: alloc_task() clears
\* it.  States that differ only there are one state.
InUse == k.live \cup {call[t].arg : t \in {m \in Slots : call[m].op = "alloc"}}
Mask(f, free) == [t \in Slots |-> IF t \in InUse THEN f[t] ELSE free]
View == <<[k EXCEPT !.flags = Mask(@, {}), !.pri = Mask(@, 0),
                    !.time_left = Mask(@, 0), !.forbid_count = Mask(@, 0)],
          call, todo, clash>>
=============================================================================
