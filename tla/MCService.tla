------------------------------ MODULE MCService ------------------------------
(* Two services of the kernel that must go on: the timers, and the system   *)
(* log. They share no state, so each behaviour runs one of them.            *)
EXTENDS Timers, Syslog

VARIABLE part

vars == <<part, tvars, lvars>>

\* The part that runs; the others stay as they start.
Init ==
    /\ part \in {"timers", "syslog"}
    /\ TInit
    /\ LInit

Next ==
    /\ UNCHANGED part
    /\ \/ part = "timers" /\ TNext
       \/ part = "syslog" /\ LNext
    /\ part # "timers" => UNCHANGED tvars
    /\ part # "syslog" => UNCHANGED lvars

\* The clock goes on interrupting while interrupts are enabled; the log task and
\* those that log are tasks that the scheduler runs whenever they can run.
Fairness ==
    /\ WF_vars(part = "timers" /\ clash_t = "none" /\ Kernel /\ UNCHANGED <<part, lvars>>)
    /\ WF_vars(part = "syslog" /\ SyslogTask /\ UNCHANGED <<part, tvars>>)
    /\ \A t \in Loggers : WF_vars(part = "syslog" /\ Signal_l(t) /\ UNCHANGED <<part, tvars>>)

Spec == Init /\ [][Next]_vars /\ Fairness

=============================================================================
