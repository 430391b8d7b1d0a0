------------------------------- MODULE Modules -------------------------------
(***************************************************************************)
(* Loadable modules (kernel/modules): opening a module loads it, and the   *)
(* function that initialises it opens others; a module that nobody has     *)
(* open is expunged.  What each module acquires when it is initialised and *)
(* gives back when it is expunged is translated from its two functions.    *)
(*                                                                         *)
(* open_module() runs with scheduling forbidden; another task runs only    *)
(* while the file system sleeps: when the module's file is read, and when  *)
(* it is closed, after the initialisation.  The model stops, with clash_m, *)
(*   "expunged" where another task expunges the module in that sleep: its  *)
(*              open_count is still 0, and open_module() goes on with      *)
(*              freed memory;                                              *)
(*   "twice"    where two tasks are in do_init() of a module at a time.    *)
(***************************************************************************)
EXTENDS Integers, Sequences, SequencesExt, FiniteSets

CONSTANTS
    Users,          \* tasks
    Wanted,         \* the modules that tasks open by themselves
    Slots,          \* slots in a virtual machine
    MaxRequests,    \* what the tasks do
    MaxFaults       \* modules that cannot be read

VARIABLES
    open_count,     \* of every module; Absent if it is not loaded
    holds,          \* what every module, and every task, has acquired
    stack,          \* of each task: the modules that it is initialising
    current,        \* the task that runs, with scheduling forbidden
    owner_task,     \* who holds load_sem
    lost,           \* what modules have left behind: <<module, item>>
    requests, faults, clash_m

mvars == <<open_count, holds, stack, current, owner_task, lost, requests, faults, clash_m>>

Absent == -2
Nobody == "nobody"

-----------------------------------------------------------------------------
(* What modules acquire, in the order of the code.  A try is an open whose *)
(* result is not looked at.                                                 *)

Opens(names) == [i \in DOMAIN names |-> <<"open", names[i]>>]
Try(m) == <<"try", m>>
Own(what) == <<what, "own">>
Slot == Own("slot")
Ports == Own("io")
Services == Own("arpl")
Commands == Own("cmds")

vm_init == <<Commands>> \o Opens(<<"vpic">>) \o <<Own("page")>>
vpic_do_init == Opens(<<"vm">>) \o <<Slot, Ports>>
vpit_do_init == Opens(<<"vm", "vpic">>) \o <<Slot, Ports>>
vcmos_init == Opens(<<"vm">>) \o <<Try("vpic"), Slot, Ports>>
vdma_init == Opens(<<"vm">>) \o <<Slot, Ports>>
vfloppy_init == Opens(<<"fs", "vm">>) \o <<Slot, Commands>>
vide_init == Opens(<<"fs", "hd", "vm", "vpic">>) \o <<Slot, Ports>>
vprinter_init == Opens(<<"vm", "fs">>) \o <<Slot>>
vserial_init == Opens(<<"vm", "fs">>) \o <<Slot>>
vkbd_init == Opens(<<"vm", "kbd", "tty", "vpic", "vpit">>) \o <<Ports, Services>>
vbios_init == Opens(<<"vm", "video", "tty", "vide", "vfloppy", "fs">>) \o <<Slot, Services>>
video_init == Opens(<<"vm">>) \o <<Ports>>
tty_init == Opens(<<"kbd", "video">>) \o <<Commands>>
init_kbd_driver == <<Own("irq")>>
hd_init == Opens(<<"fs">>) \o <<Own("irq"), Commands>>
fs_init == <<Commands>>
fd_init == Opens(<<"fs", "shell">>) \o <<Commands, Own("timer")>>
shell_init == Opens(<<"tty", "fs">>) \o <<Own("task")>>
debug_init == Opens(<<"shell">>) \o <<Commands>>
spooler_init == Opens(<<"fs">>) \o <<Commands>>
syslog_init == <<Own("buffer")>> \o Opens(<<"fs">>) \o <<Own("task"), Commands>>
ramdisk_init == <<Try("fs"), Own("disk"), Commands>>

Inits == [m \in {"vm", "vpic", "vpit", "vcmos", "vdma", "vfloppy", "vide", "vprinter", "vserial",
                 "vkbd", "vbios", "video", "tty", "kbd", "hd", "fs", "fd", "shell", "debug",
                 "spooler", "syslogd", "ramdisk"} |->
    CASE m = "vm" -> vm_init [] m \in {"vpic", "vpit"} -> <<>> [] m = "vcmos" -> vcmos_init
      [] m = "vdma" -> vdma_init [] m = "vfloppy" -> vfloppy_init [] m = "vide" -> vide_init
      [] m = "vprinter" -> vprinter_init [] m = "vserial" -> vserial_init [] m = "vkbd" -> vkbd_init
      [] m = "vbios" -> vbios_init [] m = "video" -> video_init [] m = "tty" -> tty_init
      [] m = "kbd" -> init_kbd_driver [] m = "hd" -> hd_init [] m = "fs" -> fs_init
      [] m = "fd" -> fd_init [] m = "shell" -> shell_init [] m = "debug" -> debug_init
      [] m = "spooler" -> spooler_init [] m = "syslogd" -> syslog_init [] m = "ramdisk" -> ramdisk_init]
Names == DOMAIN Inits

\* The virtual PIC and PIT wait with do_init() until a machine wants one.
Lazily == [m \in {"vpic", "vpit"} |-> IF m = "vpic" THEN vpic_do_init ELSE vpit_do_init]

-----------------------------------------------------------------------------
(* What modules give back: everything, except what is named here.           *)

\* Modules without a function for it are never expunged.
Stays == {"vm", "kbd", "hd", "fs", "shell", "ramdisk"}

vpic_expunge == {}
vpit_expunge == {}
vdma_expunge == {}
vide_expunge == {}
vfloppy_expunge == {}
vprinter_expunge == {}
vserial_expunge == {}
vkbd_expunge == {}
video_expunge == {}
debug_expunge == {}
spooler_expunge == {}
vcmos_expunge == {<<"open", "vpic">>}
vbios_expunge == {<<"open", "vfloppy">>}
tty_expunge == {<<"open", "kbd">>, <<"open", "video">>}
fd_expunge == {Own("timer")}
syslog_deinit == {Own("buffer"), Own("task"), Commands}
Kept(m) ==
    CASE m = "vcmos" -> vcmos_expunge [] m = "vbios" -> vbios_expunge [] m = "tty" -> tty_expunge
      [] m = "fd" -> fd_expunge [] m = "syslogd" -> syslog_deinit
      [] OTHER -> vpic_expunge \cup vpit_expunge \cup vdma_expunge \cup vide_expunge \cup vfloppy_expunge
                  \cup vprinter_expunge \cup vserial_expunge \cup vkbd_expunge \cup video_expunge
                  \cup debug_expunge \cup spooler_expunge

\* What an initialisation that fails leaves behind.
Abandoned(m) ==
    CASE m = "vm" -> {Commands} [] m = "vcmos" -> {<<"open", "vpic">>}
      [] m = "syslogd" -> {Own("buffer")} [] m = "ramdisk" -> {<<"open", "fs">>}
      [] OTHER -> {}

-----------------------------------------------------------------------------
Opened(S) == {i[2] : i \in {j \in S : j[1] = "open"}}
SlotsUsed == Cardinality({m \in Names : Slot \in holds[m]})

\* close_module() of the modules in S.
Closed(S) == [m \in Names |-> IF m \in S THEN open_count[m] - 1 ELSE open_count[m]]

Topmost(t) == Last(stack[t])
Frame(m, todo, phase, locks) == [mod |-> m, todo |-> todo, phase |-> phase, locks |-> locks, ok |-> TRUE]
SetTop(t, f) == stack' = [stack EXCEPT ![t][Len(stack[t])] = f]
Did(t, item) == SetTop(t, [Topmost(t) EXCEPT !.todo = Tail(@)]) /\ holds' = [holds EXCEPT ![Topmost(t).mod] = @ \cup item]

\* A task wants module m, or, when it has it open, wants to create the device.
open_module(t, m) ==
    /\ current = Nobody /\ stack[t] = <<>> /\ requests < MaxRequests /\ <<"open", m>> \notin holds[t]
    /\ stack' = [stack EXCEPT ![t] = <<Frame(t, <<<<"open", m>>>>, "task", FALSE)>>]
    /\ current' = t /\ requests' = requests + 1
    /\ UNCHANGED <<open_count, holds, owner_task, lost, faults, clash_m>>

do_init(t, m) ==
    /\ current = Nobody /\ stack[t] = <<>> /\ requests < MaxRequests
    /\ m \in Opened(holds[t]) /\ open_count["vm"] >= 0 /\ Ports \notin holds[m]
    /\ stack' = [stack EXCEPT ![t] = <<Frame(m, Lazily[m], "lazy", FALSE)>>]
    /\ clash_m' = IF \E u \in Users : stack[u] # <<>> /\ Topmost(u).mod = m THEN "twice" ELSE clash_m
    /\ requests' = requests + 1
    /\ UNCHANGED <<open_count, holds, current, owner_task, lost, faults>>

\* A task runs in open_module(), or in do_init(), where others may run as well.
Runs(t) == stack[t] # <<>> /\ (current = t \/ (current = Nobody /\ Topmost(t).phase = "lazy"))

\* The initialisation of the module on top fails: it gives back what it has.
Fail(t) ==
    LET m == Topmost(t).mod
        left == holds[m] \cap Abandoned(m)
    IN  /\ open_count' = [Closed(Opened(holds[m] \ left)) EXCEPT ![m] = IF Topmost(t).phase = "init" THEN Absent ELSE @]
        /\ holds' = [holds EXCEPT ![m] = {}]
        /\ lost' = lost \o SetToSeq({<<m, i>> : i \in left})
        /\ IF Topmost(t).phase = "init"
           THEN SetTop(t, [Topmost(t) EXCEPT !.phase = "closing", !.ok = FALSE]) /\ current' = Nobody
           ELSE stack' = [stack EXCEPT ![t] = <<>>] /\ current' = Nobody

\* open_module(), when the module is there; one that is being initialised is
\* refused, whoever asks.
acquire_loaded(t) ==
    LET item == Head(Topmost(t).todo)
        m == item[2]
    IN  /\ Runs(t) /\ Topmost(t).todo # <<>> /\ item[1] \in {"open", "try"}
        /\ m # "own" /\ open_count[m] # Absent
        /\ IF open_count[m] = -1
           THEN IF item[1] = "try" THEN Did(t, {}) /\ UNCHANGED <<open_count, lost, current>>
                ELSE IF Topmost(t).phase = "task"
                THEN stack' = [stack EXCEPT ![t] = <<>>] /\ current' = Nobody /\ UNCHANGED <<open_count, holds, lost>>
                ELSE Fail(t)
           ELSE /\ open_count' = [open_count EXCEPT ![m] = @ + 1]
                /\ Did(t, {<<"open", m>>}) /\ UNCHANGED <<lost, current>>
        /\ UNCHANGED <<owner_task, requests, faults, clash_m>>

\* Mutant: a task that has waited for another's load loads the module again.
MayLoad_always(t) == TRUE

\* load_sem lets the task in that already loads a module.
MayLoad(t) == owner_task \in {Nobody, t}

\* open_module(), when the module must be loaded: load_module() reads the file.
\* A task that has to wait for load_sem looks for the module again afterwards.
load_module(t) ==
    LET m == Head(Topmost(t).todo)[2]
    IN  /\ Runs(t) /\ Topmost(t).todo # <<>> /\ Head(Topmost(t).todo)[1] \in {"open", "try"}
        /\ m # "own" /\ open_count[m] = Absent
        /\ IF MayLoad(t)
           THEN /\ owner_task' = t
                /\ stack' = [stack EXCEPT ![t] = Append(@, Frame(m, Inits[m], "reading", owner_task # t))]
           ELSE UNCHANGED <<owner_task, stack>>
        /\ current' = Nobody
        /\ UNCHANGED <<open_count, holds, lost, requests, faults, clash_m>>

\* A task that waits for load_sem goes on.
got_load_sem(t) ==
    /\ current = Nobody /\ stack[t] # <<>> /\ Topmost(t).phase = "task" /\ MayLoad(t)
    /\ current' = t
    /\ UNCHANGED <<open_count, holds, stack, owner_task, lost, requests, faults, clash_m>>

\* Slots, handlers, commands and the rest.
acquire_own(t) ==
    /\ Runs(t) /\ Topmost(t).todo # <<>> /\ Head(Topmost(t).todo)[2] = "own"
    /\ Head(Topmost(t).todo)[1] # "failed"
    /\ IF Head(Topmost(t).todo) = Slot /\ SlotsUsed = Slots THEN Fail(t)
       ELSE Did(t, {Head(Topmost(t).todo)}) /\ UNCHANGED <<open_count, lost, current>>
    /\ UNCHANGED <<owner_task, requests, faults, clash_m>>

\* The file has been read, or cannot be: then load_module() closes it and fails.
module_read(t) ==
    /\ current = Nobody /\ stack[t] # <<>> /\ Topmost(t).phase = "reading"
    /\ \/ /\ SetTop(t, [Topmost(t) EXCEPT !.phase = "init"]) /\ current' = t
          /\ open_count' = [open_count EXCEPT ![Topmost(t).mod] = -1]
          /\ UNCHANGED faults
       \/ /\ faults < MaxFaults /\ faults' = faults + 1
          /\ SetTop(t, [Topmost(t) EXCEPT !.phase = "closing", !.ok = FALSE])
          /\ UNCHANGED <<open_count, current>>
    /\ UNCHANGED <<holds, owner_task, lost, requests, clash_m>>

\* The initialisation has succeeded; the file is closed.
initialised(t) ==
    /\ Runs(t) /\ Topmost(t).todo = <<>>
    /\ IF Topmost(t).phase = "init"
       THEN /\ open_count' = [open_count EXCEPT ![Topmost(t).mod] = 0]
            /\ SetTop(t, [Topmost(t) EXCEPT !.phase = "closing"])
       ELSE stack' = [stack EXCEPT ![t] = <<>>] /\ UNCHANGED open_count
    /\ current' = Nobody
    /\ UNCHANGED <<holds, owner_task, lost, requests, faults, clash_m>>

\* The file has been closed: load_module() returns, and open_module() counts.
module_loaded(t) ==
    LET f == Topmost(t)
        below == Front(stack[t])
        want == Head(Last(below).todo)
    IN  /\ current = Nobody /\ stack[t] # <<>> /\ f.phase = "closing"
        /\ owner_task' = IF f.locks THEN Nobody ELSE owner_task
        /\ clash_m' = IF f.ok /\ open_count[f.mod] = Absent THEN "expunged" ELSE clash_m
        /\ current' = t
        /\ IF f.ok \/ want[1] = "try"
           THEN /\ stack' = [stack EXCEPT ![t] = [below EXCEPT ![Len(below)].todo = Tail(@)]]
                /\ open_count' = IF f.ok THEN [open_count EXCEPT ![f.mod] = @ + 1] ELSE open_count
                /\ holds' = IF f.ok THEN [holds EXCEPT ![Last(below).mod] = @ \cup {<<"open", f.mod>>}] ELSE holds
           ELSE /\ stack' = [stack EXCEPT ![t] = [below EXCEPT ![Len(below)].todo = <<<<"failed", "own">>>>]]
                /\ UNCHANGED <<open_count, holds>>
        /\ UNCHANGED <<lost, requests, faults>>

\* The one that wanted it could not open it.
open_failed(t) ==
    /\ Runs(t) /\ Topmost(t).todo = <<<<"failed", "own">>>>
    /\ IF Topmost(t).phase = "task"
       THEN stack' = [stack EXCEPT ![t] = <<>>] /\ current' = Nobody /\ UNCHANGED <<open_count, holds, lost>>
       ELSE Fail(t)
    /\ UNCHANGED <<owner_task, requests, faults, clash_m>>

close_module(t, m) ==
    /\ current = Nobody /\ stack[t] = <<>> /\ <<"open", m>> \in holds[t]
    /\ open_count' = Closed({m}) /\ holds' = [holds EXCEPT ![t] = @ \ {<<"open", m>>}]
    /\ UNCHANGED <<stack, current, owner_task, lost, requests, faults, clash_m>>

\* Mutant: the module is not asked whether it is in use.
Unused_always(m) == TRUE

Unused(m) == open_count[m] = 0

\* expunge_module(): the module agrees if it is not in use.
expunge_module(t, m) ==
    /\ current = Nobody /\ stack[t] = <<>> /\ requests < MaxRequests /\ requests' = requests + 1
    /\ open_count[m] \notin {Absent, -1} /\ m \notin Stays /\ Unused(m)
    /\ open_count' = [Closed(Opened(holds[m] \ Kept(m))) EXCEPT ![m] = Absent]
    /\ lost' = lost \o SetToSeq({<<m, i>> : i \in holds[m] \cap Kept(m)})
    /\ holds' = [holds EXCEPT ![m] = {}]
    /\ UNCHANGED <<stack, current, owner_task, faults, clash_m>>

-----------------------------------------------------------------------------
MInit ==
    /\ open_count = [m \in Names |-> Absent] /\ holds = [x \in Names \cup Users |-> {}]
    /\ stack = [t \in Users |-> <<>>] /\ current = Nobody /\ owner_task = Nobody
    /\ lost = <<>> /\ requests = 0 /\ faults = 0 /\ clash_m = "none"

MNext ==
    /\ clash_m = "none"
    /\ \E t \in Users :
        \/ acquire_loaded(t) \/ load_module(t) \/ got_load_sem(t) \/ acquire_own(t) \/ module_read(t)
        \/ initialised(t) \/ module_loaded(t) \/ open_failed(t)
        \/ \E m \in Wanted : open_module(t, m)
        \/ \E m \in Names : close_module(t, m) \/ expunge_module(t, m)
        \/ \E m \in DOMAIN Lazily : do_init(t, m)

MSpec == MInit /\ [][MNext]_mvars

-----------------------------------------------------------------------------
Lost(m) == Cardinality({i \in DOMAIN lost : lost[i][2] = <<"open", m>>})

\* Every open_count is the number of modules and tasks that have the module
\* open, and of the references that were left behind; nobody has a module open
\* that is not there; a module that is not there holds nothing.
CountsAreTrue ==
    clash_m = "none" =>
        \A m \in Names :
            /\ open_count[m] >= 0 =>
                open_count[m] = Cardinality({x \in Names \cup Users : <<"open", m>> \in holds[x]}) + Lost(m)
            /\ open_count[m] < 0 => \A x \in Names \cup Users : <<"open", m>> \notin holds[x]
            /\ open_count[m] = Absent => holds[m] = {}

\* No module is initialised twice at a time.
LoadedOnce ==
    clash_m = "none" => \A t, u \in Users : \A i \in DOMAIN stack[t], j \in DOMAIN stack[u] :
        stack[t][i].mod = stack[u][j].mod => t = u /\ i = j
=============================================================================
