------------------------------ MODULE VirtualIrq ------------------------------
(***************************************************************************)
(* Interrupts in a virtual machine: the pair of virtual interrupt          *)
(* controllers (drivers/virtual/vpic), the instructions about interrupts   *)
(* that trap out of virtual 8086 mode (drivers/virtual/vm/fault.c), and    *)
(* the way back into it (kernel/traps/entry.S, kernel/misc/irq_entry.S).   *)
(*                                                                         *)
(* The program in the machine may execute any of these instructions in any *)
(* order.  Virtual devices request interrupts at any time, from interrupt  *)
(* handlers or from other tasks.  The handlers of traps run with real      *)
(* interrupts enabled, so a request may come between any two of their      *)
(* steps.                                                                  *)
(*                                                                         *)
(* Where the controllers leave what a pair of 8259As does, the model stops *)
(* and clash says why:                                                     *)
(*   unlinked   a request of the slave reaches the master on a line that   *)
(*              the master does not take for the slave's                   *)
(*   undefined  the master has a request from the slave, and the slave has *)
(*              none: BSF of 0                                             *)
(*   ignored    an end of interrupt is written while a read is outstanding *)
(***************************************************************************)
EXTENDS Integers, Sequences, SequencesExt, FiniteSets, FiniteSetsExt

CONSTANTS
    Lines,          \* lines of a controller, from 0
    Cascade,        \* the line of the master at which the slave should be
    MasterDevices,  \* the lines of the virtual devices at each controller
    SlaveDevices,
    Masks,          \* bytes written as masks
    MasterLinks,    \* bytes written to each controller as ICW3
    SlaveLinks,
    MaxDepth,       \* how deep INT instructions and interrupts nest
    MaxOuts         \* how often the controllers are programmed

ASSUME ParametersAssumption ==
    /\ Lines \subseteq 0..7 /\ Cascade \in Lines
    /\ MasterDevices \subseteq Lines \ {Cascade} /\ SlaveDevices \subseteq Lines
    /\ Masks \subseteq 0..255 /\ MasterLinks \subseteq 0..255 /\ SlaveLinks \subseteq 0..255
    /\ \A byte \in SlaveLinks : byte % 8 \in Lines
    /\ MaxDepth \in Nat /\ MaxOuts \in Nat

\* A program that names one line to the master as the slave's names the right one.
ASSUME WiringAssumption ==
    \A byte \in MasterLinks, l \in Lines : byte = 2 ^ l => l = Cascade

VARIABLES
    pic,            \* struct vpic_pair, but for the slave's isr, which only the
                    \* program reads
    vif,            \* the interrupt flag in virtual_eflags
    hlted,
    hook,           \* the task's return_hook is vpic_return_hook
    running,        \* the task is TASK_RUNNING
    frames,         \* interrupt flags on the machine's stack
    pc,             \* where the machine's task is
    outs,           \* how often the controllers have been programmed
    clash

vars == <<pic, vif, hlted, hook, running, frames, pc, outs, clash>>

(* Where the task is.
     user      in virtual 8086 mode
     exit      on its way there: behind the handler of a trap or an interrupt
     disable   has cleared vif, about to call IF_disabled()
     enable    has set vif, about to call IF_enabled()
     loaded    has loaded vif, about to call one of them
     eoi       has cleared isr, about to install the hook
     hlt, hlt2       HLT: about to set hlted, and to suspend the task
     stihlt, stihlt2 the same behind an STI                                   *)
Goto(p) == pc' = p

\* Each virtual device is at a line of a controller.
Devices == ({"master"} \X MasterDevices) \cup ({"slave"} \X SlaveDevices)
Links == [chip \in {"master", "slave"} |-> IF chip = "master" THEN MasterLinks ELSE SlaveLinks]

Bits(byte) == {l \in Lines : (byte \div (2 ^ l)) % 2 = 1}

-----------------------------------------------------------------------------
(* The controllers.                                                         *)

\* A request, and those of the other lines that are not masked.
request_line(p, chip, l) == [p EXCEPT ![chip].irr = (@ \cup {l}) \ p[chip].mask]

\* The slave's request, which is made even if its mask has hidden the line.
link_slave(p) == request_line(p, "master", p.slave.link)

IsSlave(p, l) == p.master.link = 2 ^ l
Linked(p) == IsSlave(p, p.slave.link)

\* The request of highest priority goes into service, and the slave's if it is
\* from the slave.
acknowledge(p) ==
    LET l == Min(p.master.irr)
        q == [p EXCEPT !.master.irr = @ \ {l}, !.master.isr = {l}]
        s == Min(p.slave.irr)
        r == [q EXCEPT !.slave.irr = @ \ {s}]
    IN  IF ~IsSlave(p, l) THEN q ELSE IF r.slave.irr = {} THEN r ELSE link_slave(r)

\* What is wrong with that request.
wrong(p) ==
    LET l == Min(p.master.irr)
    IN  CASE (IsSlave(p, l) \/ l = Cascade) /\ ~Linked(p) -> "unlinked"
          [] IsSlave(p, l) /\ Linked(p) /\ p.slave.irr = {} -> "undefined"
          [] OTHER -> "none"

\* Port 0x20 or 0xA0, in state Normal.  OCW3 asks to read IRR or ISR.
out_command(c, cmd) ==
    CASE cmd = "ICW1" -> [c EXCEPT !.state = "WaitICW2", !.need_icw4 = FALSE]
      [] cmd = "ICW1 with ICW4" -> [c EXCEPT !.state = "WaitICW2", !.need_icw4 = TRUE]
      [] cmd = "EOI" -> IF c.is_slave THEN c ELSE [c EXCEPT !.isr = {}]
      [] cmd = "OCW3" -> [c EXCEPT !.state = "Read"]

\* Port 0x21 or 0xA1.  Requests that the new mask hides stay.
out_data(c, byte) ==
    CASE c.state = "Normal" -> [c EXCEPT !.mask = Bits(byte)]
      [] c.state = "WaitICW2" -> [c EXCEPT !.state = "WaitICW3"]
      [] c.state = "WaitICW3" ->
            [c EXCEPT !.link = IF c.is_slave THEN byte % 8 ELSE byte,
                      !.state = IF c.need_icw4 THEN "WaitICW4" ELSE "Normal"]
      [] c.state = "WaitICW4" -> [c EXCEPT !.state = "Normal"]
      [] OTHER -> c

-----------------------------------------------------------------------------
(* vpic's other entry points.                                               *)

\* install_return_hook()
Install == hook \/ (vif /\ pic.master.irr # {})

\* A virtual device requests an interrupt.  If its handler has interrupted the
\* machine, it goes back there over the hook.
simulate_irq(d) ==
    LET p == request_line(pic, d[1], d[2])
        q == IF d[1] = "slave" THEN link_slave(p) ELSE p
    IN  /\ IF d[1] = "slave" /\ ~Linked(p) /\ q # p
           THEN clash' = "unlinked" /\ UNCHANGED <<pic, hlted, hook, running, pc>>
           ELSE /\ pic' = q
                /\ IF vif THEN /\ running' = (running \/ hlted)
                              /\ hlted' = FALSE /\ hook' = TRUE
                   ELSE UNCHANGED <<hlted, hook, running>>
                /\ Goto(IF pc = "user" THEN "exit" ELSE pc)
                /\ UNCHANGED clash
        /\ UNCHANGED <<vif, frames, outs>>

\* Any other interrupt.  Its way back leads over the hook, too, but if it has
\* interrupted the kernel that only takes the hook away when it is idle.
Interrupt ==
    /\ running
    /\ \/ pc = "user" /\ Goto("exit") /\ UNCHANGED hook
       \/ pc # "user" /\ hook /\ pic.master.irr = {} /\ hook' = FALSE /\ UNCHANGED pc
    /\ UNCHANGED <<pic, vif, hlted, running, frames, outs, clash>>

\* Mutant: interrupts are nested.
MayServe_nested == hook /\ vif /\ pic.master.irr # {}

\* vpic_return_hook() has an interrupt to make.
MayServe == hook /\ vif /\ pic.master.isr = {} /\ pic.master.irr # {}

\* Back to the program, with interrupts disabled.  schedule() comes first and
\* does not return before the task is woken.
Return ==
    /\ pc = "exit" /\ running
    /\ IF ~MayServe
       THEN /\ hook' = (hook /\ pic.master.irr # {})
            /\ Goto("user") /\ UNCHANGED <<pic, vif, frames, clash>>
       ELSE IF wrong(pic) # "none"
       THEN clash' = wrong(pic) /\ UNCHANGED <<pic, vif, hook, frames, pc>>
       ELSE /\ Len(frames) < MaxDepth
            /\ pic' = acknowledge(pic)
            /\ frames' = Append(frames, vif) /\ vif' = FALSE
            /\ hook' = (pic'.master.irr # {})
            /\ Goto("user") /\ UNCHANGED clash
    /\ UNCHANGED <<hlted, running, outs>>

-----------------------------------------------------------------------------
(* Instructions of the program, and the handlers of the traps they cause.   *)

In_user == pc = "user" /\ running

\* CLI, STI, POPF
SetFlag(p, flag) ==
    /\ In_user /\ Goto(p) /\ vif' = flag
    /\ UNCHANGED <<pic, hlted, hook, running, frames, outs, clash>>

IRet ==
    /\ In_user /\ frames # <<>> /\ Goto("loaded")
    /\ vif' = Last(frames) /\ frames' = Front(frames)
    /\ UNCHANGED <<pic, hlted, hook, running, outs, clash>>

\* INT, and every exception that is the program's own: simulate_vm_int().  The
\* hook is left as it is.
simulate_vm_int ==
    /\ In_user /\ Len(frames) < MaxDepth
    /\ frames' = Append(frames, vif) /\ vif' = FALSE
    /\ Goto("exit")
    /\ UNCHANGED <<pic, hlted, hook, running, outs, clash>>

HLT ==
    /\ In_user /\ Goto("hlt")
    /\ UNCHANGED <<pic, vif, hlted, hook, running, frames, outs, clash>>

\* OUT and IN.
Command(chip, cmd) ==
    /\ In_user
    /\ cmd # "EOI" => outs < MaxOuts /\ outs' = outs + 1
    /\ cmd = "EOI" => UNCHANGED outs
    /\ IF pic[chip].state = "Normal"
       THEN pic' = [pic EXCEPT ![chip] = out_command(@, cmd)] /\ UNCHANGED clash
       ELSE clash' = (IF cmd = "EOI" THEN "ignored" ELSE clash) /\ UNCHANGED pic
    /\ Goto(IF cmd = "EOI" THEN "eoi" ELSE "exit")
    /\ UNCHANGED <<vif, hlted, hook, running, frames>>

Data(chip, byte) ==
    /\ In_user /\ outs < MaxOuts /\ outs' = outs + 1
    /\ pic' = [pic EXCEPT ![chip] = out_data(@, byte)]
    /\ Goto("exit")
    /\ UNCHANGED <<vif, hlted, hook, running, frames, clash>>

\* Reading a register ends an initialisation, too.
vpic_in(chip) ==
    /\ In_user /\ pic[chip].state # "Normal"
    /\ pic' = [pic EXCEPT ![chip].state = "Normal"]
    /\ Goto("exit")
    /\ UNCHANGED <<vif, hlted, hook, running, frames, outs, clash>>

\* Mutant: only the flag is looked at.
IF_enabled_only == UNCHANGED hook

IF_enabled == hook' = Install

IF_disabled == hook' = FALSE

\* The last step of CLI, STI, POPF and IRET, and of an end of interrupt.  A
\* task that has suspended itself goes on until it is switched.
CallVpic ==
    /\ pc \in {"disable", "enable", "loaded", "eoi"}
    /\ IF pc = "disable" \/ (pc = "loaded" /\ ~vif) THEN IF_disabled ELSE IF_enabled
    /\ Goto("exit")
    /\ UNCHANGED <<pic, vif, hlted, running, frames, outs, clash>>

SetHlted ==
    /\ pc \in {"hlt", "stihlt"} /\ hlted' = TRUE
    /\ Goto(IF pc = "hlt" THEN "hlt2" ELSE "stihlt2")
    /\ UNCHANGED <<pic, vif, hook, running, frames, outs, clash>>

SuspendSelf ==
    /\ pc \in {"hlt2", "stihlt2"} /\ running' = FALSE
    /\ Goto(IF pc = "hlt2" THEN "exit" ELSE "enable")
    /\ UNCHANGED <<pic, vif, hlted, hook, frames, outs, clash>>

-----------------------------------------------------------------------------
\* create_vpic(), and the masks as virtual devices and the BIOS have set them.
\* A program may have told the controllers how they are connected, or be about
\* to tell one of them.
NewChip(is_slave, link, state) ==
    [irr |-> {}, isr |-> {}, mask |-> {}, state |-> state, need_icw4 |-> state # "Normal",
     is_slave |-> is_slave, link |-> link]

Chips == {"master", "slave"}

Init ==
    /\ \E m \in MasterLinks, s \in SlaveLinks, waits \in Chips \cup {"none"} :
        LET state(c) == IF c = waits THEN "WaitICW3" ELSE "Normal"
        IN  pic = [c \in Chips |-> IF c = "slave" THEN NewChip(TRUE, s % 8, state(c))
                                   ELSE NewChip(FALSE, m, state(c))]
    /\ vif = FALSE /\ hlted = FALSE /\ hook = FALSE /\ running = TRUE
    /\ frames = <<>> /\ pc = "user" /\ outs = 0 /\ clash = "none"

Commands == {"ICW1", "ICW1 with ICW4", "OCW3", "EOI"}
Bytes(chip) == IF pic[chip].state = "WaitICW3" THEN Links[chip] ELSE Masks

vm_gpe_handler ==
    \/ SetFlag("disable", FALSE) \/ SetFlag("enable", TRUE) \/ SetFlag("stihlt", TRUE)
    \/ \E flag \in BOOLEAN : SetFlag("loaded", flag)
    \/ IRet \/ simulate_vm_int \/ HLT
    \/ \E chip \in Chips :
        \/ \E cmd \in Commands : Command(chip, cmd)
        \/ \E byte \in Bytes(chip) : Data(chip, byte)
        \/ vpic_in(chip)

TrapStep == CallVpic \/ SetHlted \/ SuspendSelf

Next ==
    \/ clash = "none" /\ (vm_gpe_handler \/ TrapStep \/ Interrupt \/ Return)
    \/ clash = "none" /\ \E d \in Devices : simulate_irq(d)
    \/ clash # "none" /\ UNCHANGED vars

Spec == Init /\ [][Next]_vars

-----------------------------------------------------------------------------
Chip == [irr : SUBSET Lines, isr : SUBSET Lines, mask : SUBSET Lines,
         state : {"Normal", "WaitICW2", "WaitICW3", "WaitICW4", "Read"},
         need_icw4 : BOOLEAN, is_slave : BOOLEAN, link : 0..255]

Pair == {p \in [Chips -> Chip] :
    ~p.master.is_slave /\ p.slave.is_slave /\ p.slave.link \in Lines}

TypeOK ==
    /\ pic \in Pair
    /\ vif \in BOOLEAN /\ hlted \in BOOLEAN /\ hook \in BOOLEAN /\ running \in BOOLEAN
    /\ frames \in Seq(BOOLEAN) /\ outs \in Nat
    /\ pc \in {"user", "exit", "disable", "enable", "loaded", "eoi",
              "hlt", "hlt2", "stihlt", "stihlt2"}
    /\ clash \in {"none", "unlinked", "undefined", "ignored"}

\* No interrupt is late: a program that has its interrupt flag set, no interrupt
\* in service and a request waiting never executes another instruction, in
\* whatever order CLI, STI, POPF, IRET, INT, HLT, ends of interrupts and the
\* requests of devices, between any two steps of their handlers, have come.
Prompt == pc = "user" /\ vif /\ pic.master.isr = {} => pic.master.irr = {}

\* What simulate_irq() says of a machine that has halted: an interrupt that it
\* can take wakes it.
HltEnds == ~(pc = "exit" /\ ~running /\ vif /\ pic.master.isr = {} /\ pic.master.irr # {})

-----------------------------------------------------------------------------
Irqs == (Chips \X Lines) \ {<<"master", Cascade>>}
Rank(i) == IF i[1] = "master" THEN i[2] * 8 ELSE Cascade * 8 + i[2]
Before(i, j) == Rank(i) < Rank(j)
OfSlave(irqs) == {i \in irqs : i[1] = "slave"}

\* The requests, and the lines that the program has masked.  Those of the slave
\* are masked, too, while the master masks the slave or is not connected to it;
\* and overlooked while the master has no request from the slave.
Requested == {i \in Irqs : i[2] \in pic[i[1]].irr}
Overlooked == IF Cascade \in pic.master.irr THEN {} ELSE OfSlave(Requested)
Masked ==
    {i \in Irqs : i[2] \in pic[i[1]].mask} \cup
    IF Cascade \in pic.master.mask \/ ~Linked(pic) THEN OfSlave(Irqs) ELSE {}

Pc == INSTANCE PcInterrupts WITH
    between <- pc \in {"user", "exit"}, requested <- Requested,
    overlooked <- Overlooked, masked <- Masked,
    busy <- pic.master.isr # {}, halted <- ~running

\* The program sees the interrupts of PcInterrupts, as long as the controllers
\* are used as they can be.
ImplementsPc == Pc!Init /\ [][clash' = "none" => Pc!Next]_Pc!vars
=============================================================================
