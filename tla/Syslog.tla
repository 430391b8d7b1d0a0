-------------------------------- MODULE Syslog --------------------------------
(***************************************************************************)
(* The system log (syslogd/syslogd.c): any task leaves messages in         *)
(* mesg_buf and signals the task syslogd, which writes them to the log.    *)
(* syslogd sleeps in the file system and is preempted like any task, and   *)
(* nothing keeps others from the buffer meanwhile.  A message takes one    *)
(* place of the buffer.  wait() and signal() take the steps of module      *)
(* Semaphore, from which syslogd alone waits.                              *)
(*                                                                         *)
(* The model stops, with clash_l, where the code                           *)
(*   "below"  stores a message while buf_idx, counted down by syslogd, is  *)
(*            -1: it is written before the start of the buffer;            *)
(*   "missed" blocks the semaphore after a signal for messages that are in *)
(*            the buffer: they wait for the next message;                  *)
(*   "unwoken" loses the signal for messages that are in the buffer, as it *)
(*            comes between the steps of wait(): they wait for the next    *)
(*            message, or syslogd never runs again;                        *)
(*   "handle" gives one handle to two callers of open_syslog().            *)
(***************************************************************************)
EXTENDS Integers, Sequences, SequencesExt, FiniteSets

CONSTANTS
    Loggers,            \* tasks that log
    Handles,            \* 0 .. MAX_LOG_HANDLES - 1; 0 is the kernel's
    Size,               \* MESG_BUF_SIZE: at most Size - 2 messages
    MaxMessages

VARIABLES
    mesg_buf,           \* the messages in the buffer; buf_idx is their number
    wrapped,            \* buf_idx is -1
    syslogd,            \* the step that the task takes next
    wrote,              \* the messages that it wrote in this round
    blocked_l,          \* new_data.blocked
    signalling,         \* the step of signal() that a task takes next, or "no"
    logfile, thrown,    \* messages in the log, and messages that got lost
    session,            \* of each handle: [used, level]
    opening,            \* the free handle that a caller of open_syslog() has found
    control,            \* do_logging, log_level
    sent,
    clash_l

lvars == <<mesg_buf, wrapped, syslogd, wrote, blocked_l, signalling, logfile, thrown, session, opening, control, sent, clash_l>>

NoHandle == -1
Takes(step) == syslogd' = step
Daemon(step) == clash_l = "none" /\ syslogd = step

-----------------------------------------------------------------------------
\* wait(): the semaphore is open, or the task joins its list ...
wait ==
    /\ Daemon("wait")
    /\ Takes(IF blocked_l THEN "add" ELSE "test") /\ blocked_l' = TRUE
    /\ UNCHANGED <<mesg_buf, wrapped, wrote, signalling, logfile, thrown, session, opening, control, sent, clash_l>>

\* ... and is then suspended.
sleep_in_task_list ==
    /\ \/ Daemon("add") /\ Takes("suspend")
       \/ Daemon("suspend") /\ Takes("asleep")
    /\ UNCHANGED <<mesg_buf, wrapped, wrote, blocked_l, signalling, logfile, thrown, session, opening, control, sent, clash_l>>

\* new_data.waiting # NULL
SyslogdWaits == syslogd \in {"suspend", "asleep"}

test ==
    /\ Daemon("test")
    /\ Takes(IF mesg_buf # <<>> THEN "write" ELSE "block")
    /\ UNCHANGED <<mesg_buf, wrapped, wrote, blocked_l, signalling, logfile, thrown, session, opening, control, sent, clash_l>>

\* The call of write(): what is in the buffer now, if the log can be opened.
begin_write ==
    /\ Daemon("write") /\ Takes("close")
    /\ \/ wrote' = mesg_buf /\ logfile' = logfile \o mesg_buf
       \/ wrote' = <<>> /\ UNCHANGED logfile
    /\ UNCHANGED <<mesg_buf, wrapped, blocked_l, signalling, thrown, session, opening, control, sent, clash_l>>

\* Mutant: only what was written leaves the buffer, and it leaves at the wrong end.
Kept_front(b, w) == SubSeq(b, 1, Len(b) - Len(w))

\* buf_idx is counted down to nothing, also for what came after the write.
Kept(b, w) == <<>>

count_down ==
    /\ Daemon("close") /\ Takes("reset")
    /\ mesg_buf' = Kept(mesg_buf, wrote) /\ wrapped' = TRUE
    /\ thrown' = thrown \cup (Range(mesg_buf) \ Range(wrote))
    /\ UNCHANGED <<wrote, blocked_l, signalling, logfile, session, opening, control, sent, clash_l>>

reset ==
    /\ Daemon("reset") /\ Takes("block")
    /\ wrapped' = FALSE /\ wrote' = <<>>
    /\ UNCHANGED <<mesg_buf, blocked_l, signalling, logfile, thrown, session, opening, control, sent, clash_l>>

\* set_sem_blocked()
block ==
    /\ Daemon("block") /\ Takes("wait")
    /\ blocked_l' = TRUE
    /\ clash_l' = IF mesg_buf # <<>> /\ ~blocked_l THEN "missed" ELSE clash_l
    /\ UNCHANGED <<mesg_buf, wrapped, wrote, signalling, logfile, thrown, session, opening, control, sent>>

SyslogTask == wait \/ sleep_in_task_list \/ test \/ begin_write \/ count_down \/ reset \/ block

-----------------------------------------------------------------------------
check_handle(h) == session[h].used /\ session[h].level <= control.level

Logs(t) == clash_l = "none" /\ opening[t] = NoHandle
Signals(t, step) == signalling' = [signalling EXCEPT ![t] = step]

\* Mutant: the semaphore is signalled only when the buffer gets full.
signalled_full == IF Len(mesg_buf) + 3 >= Size THEN "test" ELSE "no"

signalled == "test"

\* syslog_cooked_entry(): the message is stored if there is room; the semaphore is
\* signalled in any case, ...
syslog_cooked_entry(t, h) ==
    /\ Logs(t) /\ signalling[t] = "no" /\ sent < MaxMessages
    /\ control.on /\ check_handle(h)
    /\ sent' = sent + 1 /\ Signals(t, signalled)
    /\ IF wrapped THEN clash_l' = "below" /\ UNCHANGED <<mesg_buf, thrown>>
       ELSE /\ IF Len(mesg_buf) + 2 < Size
               THEN mesg_buf' = Append(mesg_buf, sent') /\ UNCHANGED thrown
               ELSE thrown' = thrown \cup {sent'} /\ UNCHANGED mesg_buf
            /\ UNCHANGED clash_l
    /\ UNCHANGED <<wrapped, syslogd, blocked_l, wrote, logfile, session, opening, control>>

\* ... with interrupts enabled: its list is looked at, ...
signal_tests(t) ==
    /\ Logs(t) /\ signalling[t] = "test"
    /\ Signals(t, IF SyslogdWaits THEN "wake" ELSE "clear")
    /\ UNCHANGED <<mesg_buf, wrapped, syslogd, wrote, blocked_l, logfile, thrown, session, opening, control, sent, clash_l>>

\* ... and it is opened if the list was empty, perhaps too late for wait(), ...
signal_clears(t) ==
    /\ Logs(t) /\ signalling[t] = "clear"
    /\ Signals(t, "no") /\ blocked_l' = FALSE
    /\ clash_l' = IF (SyslogdWaits \/ syslogd = "add") /\ mesg_buf # <<>> THEN "unwoken" ELSE clash_l
    /\ UNCHANGED <<mesg_buf, wrapped, syslogd, wrote, logfile, thrown, session, opening, control, sent>>

\* ... or the first task in the list is woken, perhaps before it is suspended.
\* Another task's signal may have emptied the list.
signal_wakes(t) ==
    /\ Logs(t) /\ signalling[t] = "wake"
    /\ Signals(t, "no")
    /\ IF syslogd = "asleep" THEN Takes("test") ELSE UNCHANGED syslogd
    /\ clash_l' = IF syslogd = "suspend" THEN "unwoken" ELSE clash_l
    /\ UNCHANGED <<mesg_buf, wrapped, wrote, blocked_l, logfile, thrown, session, opening, control, sent>>

Signal_l(t) == signal_tests(t) \/ signal_clears(t) \/ signal_wakes(t)

\* open_syslog(): a free handle is found, and then taken.
open_syslog_find(t) ==
    LET free == {h \in Handles : ~session[h].used}
    IN  /\ Logs(t) /\ signalling[t] = "no" /\ free # {}
        /\ opening' = [opening EXCEPT ![t] = CHOOSE h \in free : \A k \in free : h <= k]
        /\ UNCHANGED <<mesg_buf, wrapped, syslogd, wrote, blocked_l, signalling, logfile, thrown, session, control, sent, clash_l>>

open_syslog(t, level) ==
    LET h == opening[t]
    IN  /\ clash_l = "none" /\ h # NoHandle
        /\ clash_l' = IF session[h].used THEN "handle" ELSE clash_l
        /\ session' = [session EXCEPT ![h] = [used |-> TRUE, level |-> level]]
        /\ opening' = [opening EXCEPT ![t] = NoHandle]
        /\ UNCHANGED <<mesg_buf, wrapped, syslogd, wrote, blocked_l, signalling, logfile, thrown, control, sent>>

close_syslog(h) ==
    /\ clash_l = "none" /\ session[h].used
    /\ session' = [session EXCEPT ![h].used = FALSE]
    /\ UNCHANGED <<mesg_buf, wrapped, syslogd, wrote, blocked_l, signalling, logfile, thrown, opening, control, sent, clash_l>>

\* cmd_syslog(): syslog_start(), syslog_stop() and set_syslog_level()
cmd_syslog(on, level) ==
    /\ clash_l = "none" /\ control' = [on |-> on, level |-> level]
    /\ UNCHANGED <<mesg_buf, wrapped, syslogd, wrote, blocked_l, signalling, logfile, thrown, session, opening, sent, clash_l>>

-----------------------------------------------------------------------------
\* syslog_init()
LInit ==
    /\ mesg_buf = <<>> /\ wrapped = FALSE /\ syslogd = "wait" /\ wrote = <<>> /\ blocked_l = TRUE
    /\ signalling = [t \in Loggers |-> "no"]
    /\ logfile = <<>> /\ thrown = {} /\ sent = 0
    /\ session = [h \in Handles |-> [used |-> h = 0, level |-> 0]]
    /\ opening = [t \in Loggers |-> NoHandle]
    /\ control = [on |-> TRUE, level |-> 1] /\ clash_l = "none"

LNext ==
    \/ SyslogTask
    \/ \E t \in Loggers : Signal_l(t) \/ \E h \in Handles : syslog_cooked_entry(t, h)
    \/ \E h \in Handles \ {0} : close_syslog(h)
    \/ \E t \in Loggers : open_syslog_find(t) \/ \E l \in 0..2 : open_syslog(t, l)
    \/ \E on \in BOOLEAN, l \in 0..1 : cmd_syslog(on, l)

\* syslogd and the tasks that log are tasks that the scheduler runs whenever they
\* can run.
LSpec == LInit /\ [][LNext]_lvars /\ WF_lvars(SyslogTask) /\ \A t \in Loggers : WF_lvars(Signal_l(t))

-----------------------------------------------------------------------------
\* Every message that was accepted is in the log, in the buffer or known to be
\* lost, in one of them only unless it is just being written; the log has the
\* messages in the order in which they came.
LogInOrder ==
    clash_l = "none" =>
        LET fresh == Range(mesg_buf) \ Range(wrote)
        IN  /\ Range(logfile) \cup fresh \cup thrown \cup Range(wrote) = 1..sent
            /\ Range(logfile) \cap (fresh \cup thrown) = {} /\ fresh \cap thrown = {}
            /\ \A i, j \in DOMAIN logfile : i < j => logfile[i] < logfile[j]

\* A message that is in the buffer leaves it, whatever others do, unless its
\* signal is missed or lost.
LogDrained == \A m \in 1..MaxMessages : m \in Range(mesg_buf) ~> (m \notin Range(mesg_buf) \/ clash_l # "none")
=============================================================================
