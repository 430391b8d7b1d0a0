--------------------------- MODULE VirtualIrqProofs ---------------------------
(***************************************************************************)
(* No interrupt of a virtual machine is late, for any lines, devices,      *)
(* masks and links, any depth of interrupts and any number of writes.      *)
(***************************************************************************)
EXTENDS VirtualIrq, TLAPS

\* BSF of a byte that is not 0 returns its lowest bit.
LEMMA MinIn ==
  ASSUME NEW S \in SUBSET Lines, S # {}
  PROVE  Min(S) \in S /\ \A x \in S : Min(S) <= x
<1>a. S \subseteq 0..7
  BY ParametersAssumption
<1> SUFFICES \E x \in S : \A y \in S : x <= y
  BY DEF Min
<1> USE <1>a
<1>0. CASE 0 \in S
  BY <1>0
<1>1. CASE 0 \notin S /\ 1 \in S
  BY <1>1
<1>2. CASE 0 \notin S /\ 1 \notin S /\ 2 \in S
  BY <1>2
<1>3. CASE 0 \notin S /\ 1 \notin S /\ 2 \notin S /\ 3 \in S
  BY <1>3
<1>4. CASE 0 \notin S /\ 1 \notin S /\ 2 \notin S /\ 3 \notin S /\ 4 \in S
  BY <1>4
<1>5. CASE 0 \notin S /\ 1 \notin S /\ 2 \notin S /\ 3 \notin S /\ 4 \notin S /\ 5 \in S
  BY <1>5
<1>6. CASE 0 \notin S /\ 1 \notin S /\ 2 \notin S /\ 3 \notin S /\ 4 \notin S /\ 5 \notin S /\ 6 \in S
  BY <1>6
<1>7. CASE 0 \notin S /\ 1 \notin S /\ 2 \notin S /\ 3 \notin S /\ 4 \notin S /\ 5 \notin S /\ 6 \notin S /\ 7 \in S
  BY <1>7
<1>8. 0 \in S \/ 1 \in S \/ 2 \in S \/ 3 \in S \/ 4 \in S \/ 5 \in S \/ 6 \in S \/ 7 \in S
  <2>1. PICK x : x \in S
    OBVIOUS
  <2>2. x \in Int /\ 0 <= x /\ x <= 7
    BY <2>1
  <2>3. x = 0 \/ x = 1 \/ x = 2 \/ x = 3 \/ x = 4 \/ x = 5 \/ x = 6 \/ x = 7
    BY <2>2
  <2>. QED
    BY <2>1, <2>3
<1>. QED
  BY <1>0, <1>1, <1>2, <1>3, <1>4, <1>5, <1>6, <1>7, <1>8

-----------------------------------------------------------------------------
(* The controllers keep their types.                                        *)

\* A request, of a device or of the slave.
LEMMA RequestType ==
  ASSUME NEW p \in Pair, NEW chip \in Chips, NEW l \in Lines
  PROVE  request_line(p, chip, l) \in Pair
  BY DEF Pair, Chips, Chip, request_line

\* The slave requests its line of the master.
LEMMA LinkType ==
  ASSUME NEW p \in Pair
  PROVE  link_slave(p) \in Pair
<1>1. p.slave.link \in Lines /\ "master" \in Chips
  BY DEF Pair, Chips
<1>. QED
  BY <1>1, RequestType DEF link_slave

\* An interrupt goes into service.
LEMMA AcknowledgeType ==
  ASSUME NEW p \in Pair, p.master.irr # {},
         IsSlave(p, Min(p.master.irr)) => p.slave.irr # {}
  PROVE  acknowledge(p) \in Pair
<1> DEFINE l == Min(p.master.irr)
           q == [p EXCEPT !.master.irr = @ \ {l}, !.master.isr = {l}]
           s == Min(p.slave.irr)
           r == [q EXCEPT !.slave.irr = @ \ {s}]
<1>1. l \in Lines
  <2>1. p.master.irr \in SUBSET Lines
    BY DEF Pair, Chip, Chips
  <2>. QED
    BY <2>1, MinIn
<1>2. q \in Pair
  <2> HIDE DEF l
  <2>1. p.master \in Chip
    BY DEF Pair, Chips
  <2>2. [p.master EXCEPT !.irr = @ \ {l}] \in Chip
    BY <2>1 DEF Chip
  <2>3. [[p.master EXCEPT !.irr = @ \ {l}] EXCEPT !.isr = {l}] \in Chip
    BY <1>1, <2>2 DEF Chip
  <2>4. q = [p EXCEPT !["master"] = [[p.master EXCEPT !.irr = @ \ {l}] EXCEPT !.isr = {l}]]
    BY <2>1 DEF Pair, Chip, Chips
  <2>. QED
    BY <2>1, <2>3, <2>4 DEF Pair, Chip, Chips
<1>3. r \in Pair
  <2> HIDE DEF q, s
  <2>. QED
    BY <1>2 DEF Pair, Chip, Chips
<1>4. link_slave(r) \in Pair
  BY <1>3, LinkType
<1>. QED
  BY <1>2, <1>3, <1>4 DEF acknowledge

\* What the program writes changes no request.
LEMMA CommandType ==
  ASSUME NEW p \in Pair, NEW chip \in Chips, NEW cmd \in Commands
  PROVE  LET q == [p EXCEPT ![chip] = out_command(@, cmd)]
         IN  q \in Pair /\ q.master.irr = p.master.irr
<1>1. p[chip] \in Chip
  BY DEF Pair
<1>2. /\ out_command(p[chip], cmd) \in Chip
      /\ out_command(p[chip], cmd).irr = p[chip].irr
      /\ out_command(p[chip], cmd).link = p[chip].link
      /\ out_command(p[chip], cmd).is_slave = p[chip].is_slave
  <2>1. CASE cmd = "EOI"
    BY <1>1, <2>1 DEF Chip, out_command
  <2>2. CASE cmd # "EOI"
    BY <1>1, <2>2 DEF Chip, Commands, out_command
  <2>. QED
    BY <2>1, <2>2
<1>. QED
  BY <1>2 DEF Pair, Chips

\* What is written to the slave as ICW3 names a line of the master.
Fits(p, chip, byte) == chip = "slave" /\ p[chip].state = "WaitICW3" => byte % 8 \in Lines

\* A mask or an initialisation word is written (vpic_out, ports 0x21 and 0xA1).
LEMMA DataType ==
  ASSUME NEW p \in Pair, NEW chip \in Chips, NEW byte \in 0..255,
         Fits(p, chip, byte)
  PROVE  /\ out_data(p[chip], byte) \in Chip
         /\ out_data(p[chip], byte).irr = p[chip].irr
         /\ out_data(p[chip], byte).is_slave = p[chip].is_slave
         /\ chip = "slave" => out_data(p[chip], byte).link \in Lines
<1>1. Bits(byte) \in SUBSET Lines /\ byte % 8 \in 0..255
  BY DEF Bits
<1>2. p[chip] \in Chip
  BY DEF Pair
<1>3. /\ out_data(p[chip], byte) \in Chip
      /\ out_data(p[chip], byte).irr = p[chip].irr
      /\ out_data(p[chip], byte).is_slave = p[chip].is_slave
  BY <1>1, <1>2 DEF Chip, out_data
<1>4. chip = "slave" => out_data(p[chip], byte).link \in Lines
  BY <1>1, <1>2 DEF Pair, Chips, Chip, out_data, Fits
<1>. QED
  BY <1>3, <1>4

-----------------------------------------------------------------------------
(* The invariant.                                                           *)

\* A request that the program can be interrupted by has its hook, but for the
\* time between setting the flag and calling IF_enabled(); and IF_disabled() is
\* only called with the flag clear.
Hooked ==
    /\ pc = "disable" => ~vif
    /\ pc \notin {"enable", "loaded", "stihlt", "stihlt2"} =>
         (vif /\ pic.master.irr # {} => hook)

IInv == TypeOK /\ Hooked /\ Prompt

\* A new machine has no request, so nothing is late.
LEMMA InitIInv == Init => IInv
<1> SUFFICES ASSUME Init PROVE IInv
  OBVIOUS
<1>1. pic \in Pair /\ pic.master.irr = {}
  <2>1. PICK m \in MasterLinks, s \in SlaveLinks, waits \in Chips \cup {"none"} :
          pic = [c \in Chips |->
                   IF c = "slave" THEN NewChip(TRUE, s % 8, IF c = waits THEN "WaitICW3" ELSE "Normal")
                   ELSE NewChip(FALSE, m, IF c = waits THEN "WaitICW3" ELSE "Normal")]
    BY DEF Init
  <2>2. m \in 0..255 /\ s \in 0..255 /\ s % 8 \in 0..255 /\ s % 8 \in Lines
    BY ParametersAssumption
  <2>3. \A b \in BOOLEAN, link \in 0..255, state \in {"Normal", "WaitICW3"} :
          NewChip(b, link, state) \in Chip
    BY DEF NewChip, Chip
  <2>4. pic \in [Chips -> Chip]
    BY <2>1, <2>2, <2>3
  <2>5. /\ pic["master"] = NewChip(FALSE, m, IF "master" = waits THEN "WaitICW3" ELSE "Normal")
        /\ pic["slave"] = NewChip(TRUE, s % 8, IF "slave" = waits THEN "WaitICW3" ELSE "Normal")
    BY <2>1 DEF Chips
  <2>6. /\ pic["master"].irr = {} /\ pic["master"].is_slave = FALSE
        /\ pic["slave"].link = s % 8 /\ pic["slave"].is_slave = TRUE
    BY <2>5 DEF NewChip
  <2>. QED
    BY <2>2, <2>4, <2>6 DEF Pair
<1>2. TypeOK
  <2>1. vif \in BOOLEAN /\ hlted \in BOOLEAN /\ hook \in BOOLEAN /\ running \in BOOLEAN
    BY Zenon DEF Init
  <2>. QED
    BY <1>1, <2>1 DEF Init, TypeOK
<1>. QED
  BY <1>1, <1>2 DEF Init, IInv, Hooked, Prompt

\* The requests of devices.
LEMMA SimulateIrqIInv ==
  ASSUME IInv, NEW d \in Devices, simulate_irq(d)
  PROVE  IInv'
<1> DEFINE p == request_line(pic, d[1], d[2])
           q == IF d[1] = "slave" THEN link_slave(p) ELSE p
<1>1. q \in Pair
  <2>1. d[1] \in Chips /\ d[2] \in Lines
    BY ParametersAssumption DEF Chips, Devices
  <2>2. p \in Pair
    BY <2>1, RequestType DEF IInv, TypeOK
  <2>3. link_slave(p) \in Pair
    BY <2>2, LinkType
  <2>. QED
    BY <2>2, <2>3
<1>2. CASE d[1] = "slave" /\ ~Linked(p) /\ q # p
  BY <1>2 DEF simulate_irq, IInv, TypeOK, Hooked, Prompt
<1>3. CASE ~(d[1] = "slave" /\ ~Linked(p) /\ q # p)
  <2>1. /\ pic' = q /\ clash' = clash /\ UNCHANGED <<vif, frames, outs>>
        /\ pc' = IF pc = "user" THEN "exit" ELSE pc
    BY <1>3 DEF simulate_irq, Goto
  <2>2. CASE vif
    <3>1. hook' = TRUE /\ hlted' = FALSE /\ running' = (running \/ hlted)
      BY <1>3, <2>2 DEF simulate_irq
    <3>. QED
      BY <1>1, <2>1, <3>1 DEF IInv, TypeOK, Hooked, Prompt
  <2>3. CASE ~vif
    <3>1. UNCHANGED <<hook, hlted, running>>
      BY <1>3, <2>3 DEF simulate_irq
    <3>. QED
      BY <1>1, <2>1, <2>3, <3>1 DEF IInv, TypeOK, Hooked, Prompt
  <2>. QED
    BY <2>2, <2>3
<1>. QED
  BY <1>2, <1>3

\* Real interrupts, and the way back to the program.
LEMMA ReturnIInv ==
  ASSUME IInv, clash = "none", Return
  PROVE  IInv'
<1>1. CASE ~MayServe
  <2>1. /\ hook' = (hook /\ pic.master.irr # {}) /\ pc' = "user"
        /\ UNCHANGED <<pic, vif, frames, clash, hlted, running, outs>>
    BY <1>1 DEF Return, Goto
  <2>2. pc = "exit"
    BY DEF Return
  <2>3. hook' \in BOOLEAN
    BY <2>1
  <2>. QED
    BY <1>1, <2>1, <2>2, <2>3 DEF MayServe, IInv, TypeOK, Hooked, Prompt
<1>2. CASE MayServe /\ wrong(pic) # "none"
  <2>1. /\ clash' = wrong(pic)
        /\ UNCHANGED <<pic, vif, hook, frames, pc, hlted, running, outs>>
    BY <1>2 DEF Return
  <2>2. wrong(pic) \in {"unlinked", "undefined", "none"}
    BY DEF wrong
  <2>. QED
    BY <2>1, <2>2 DEF IInv, TypeOK, Hooked, Prompt
<1>3. CASE MayServe /\ wrong(pic) = "none"
  <2>1. /\ pic' = acknowledge(pic) /\ pc' = "user" /\ vif' = FALSE
        /\ frames' = Append(frames, vif) /\ hook' = (pic'.master.irr # {})
        /\ UNCHANGED <<clash, hlted, running, outs>>
    BY <1>3 DEF Return, Goto
  <2>2. pic \in Pair /\ pic.master.irr # {}
    BY <1>3 DEF MayServe, IInv, TypeOK
  <2>3. IsSlave(pic, Min(pic.master.irr)) => pic.slave.irr # {}
    BY <1>3 DEF wrong
  <2>4. pic' \in Pair
    BY <2>1, <2>2, <2>3, AcknowledgeType
  <2>5. hook' \in BOOLEAN /\ frames' \in Seq(BOOLEAN)
    BY <2>1 DEF IInv, TypeOK
  <2>. QED
    BY <2>1, <2>4, <2>5 DEF IInv, TypeOK, Hooked, Prompt
<1>. QED
  BY <1>1, <1>2, <1>3

\* An interrupt of another device (_do_irq) keeps the hook while a request waits.
LEMMA InterruptIInv ==
  ASSUME IInv, Interrupt
  PROVE  IInv'
<1>1. UNCHANGED <<pic, vif, hlted, running, frames, outs, clash>>
  BY DEF Interrupt
<1>2. CASE pc = "user" /\ pc' = "exit" /\ hook' = hook
  BY <1>1, <1>2 DEF IInv, TypeOK, Hooked, Prompt
<1>3. CASE pc' = pc /\ pc # "user" /\ pic.master.irr = {} /\ hook' = FALSE
  BY <1>1, <1>3 DEF IInv, TypeOK, Hooked, Prompt
<1>. QED
  BY <1>2, <1>3 DEF Interrupt, Goto

\* Instructions of the program.
LEMMA SetFlagIInv ==
  ASSUME IInv, NEW flag \in BOOLEAN, NEW p,
         p \in {"enable", "loaded", "stihlt"} \/ (p = "disable" /\ flag = FALSE),
         SetFlag(p, flag)
  PROVE  IInv'
  BY DEF SetFlag, Goto, IInv, TypeOK, Hooked, Prompt

\* IRET loads the flag and has yet to call IF_enabled() or IF_disabled().
LEMMA IRetIInv ==
  ASSUME IInv, IRet
  PROVE  IInv'
<1>1. frames \in Seq(BOOLEAN) /\ frames # <<>>
  BY DEF IRet, IInv, TypeOK
<1>2. Last(frames) \in BOOLEAN /\ Front(frames) \in Seq(BOOLEAN)
  BY <1>1 DEF Last, Front
<1>. QED
  BY <1>2 DEF IRet, Goto, IInv, TypeOK, Hooked, Prompt

\* simulate_vm_int() leaves the flag clear, so the hook may be what it is.
LEMMA IntIInv ==
  ASSUME IInv, simulate_vm_int
  PROVE  IInv'
<1>1. /\ vif' = FALSE /\ pc' = "exit" /\ frames' = Append(frames, vif)
      /\ UNCHANGED <<pic, hlted, hook, running, outs, clash>>
  BY DEF simulate_vm_int, Goto
<1>2. frames' \in Seq(BOOLEAN)
  BY <1>1 DEF IInv, TypeOK
<1>. QED
  BY <1>1, <1>2 DEF IInv, TypeOK, Hooked, Prompt

\* HLT has changed nothing yet.
LEMMA HltIInv ==
  ASSUME IInv, HLT
  PROVE  IInv'
  BY DEF HLT, In_user, Goto, IInv, TypeOK, Hooked, Prompt

\* An end of interrupt has yet to install the hook; other commands do not touch requests.
LEMMA CommandIInv ==
  ASSUME IInv, NEW chip \in Chips, NEW cmd \in Commands, Command(chip, cmd)
  PROVE  IInv'
<1>1. /\ pc = "user" /\ pc' \in {"eoi", "exit"} /\ outs' \in Nat
      /\ UNCHANGED <<vif, hlted, hook, running, frames>>
  BY DEF Command, In_user, Goto, IInv, TypeOK
<1>2. pic' \in Pair /\ pic'.master.irr = pic.master.irr
  <2>1. pic \in Pair
    BY DEF IInv, TypeOK
  <2>2. CASE pic[chip].state = "Normal"
    <3>1. pic' = [pic EXCEPT ![chip] = out_command(@, cmd)]
      BY <2>2 DEF Command
    <3>. QED
      BY <2>1, <3>1, CommandType
  <2>3. CASE pic[chip].state # "Normal"
    BY <2>1, <2>3 DEF Command
  <2>. QED
    BY <2>2, <2>3
<1>3. clash' \in {"none", "unlinked", "undefined", "ignored"}
  BY DEF Command, IInv, TypeOK
<1>. QED
  BY <1>1, <1>2, <1>3 DEF IInv, TypeOK, Hooked, Prompt

\* A new mask leaves the requests that are there.
LEMMA DataIInv ==
  ASSUME IInv, NEW chip \in Chips, NEW byte \in Bytes(chip), Data(chip, byte)
  PROVE  IInv'
<1>1. /\ pc = "user" /\ pc' = "exit" /\ outs' \in Nat
      /\ UNCHANGED <<vif, hlted, hook, running, frames, clash>>
  BY DEF Data, In_user, Goto, IInv, TypeOK
<1>2. pic' \in Pair /\ pic'.master.irr = pic.master.irr
  <2>1. byte \in 0..255
    BY ParametersAssumption DEF Bytes, Links, Chips
  <2>2. Fits(pic, chip, byte)
    BY ParametersAssumption DEF Bytes, Links, Fits
  <2>3. pic \in Pair
    BY DEF IInv, TypeOK
  <2>4. pic' = [pic EXCEPT ![chip] = out_data(pic[chip], byte)]
    BY <2>3 DEF Data, Pair
  <2>5. /\ out_data(pic[chip], byte) \in Chip
        /\ out_data(pic[chip], byte).irr = pic[chip].irr
        /\ out_data(pic[chip], byte).is_slave = pic[chip].is_slave
        /\ chip = "slave" => out_data(pic[chip], byte).link \in Lines
    BY <2>1, <2>2, <2>3, DataType
  <2>. QED
    BY <2>3, <2>4, <2>5 DEF Pair, Chips
<1>. QED
  BY <1>1, <1>2 DEF IInv, TypeOK, Hooked, Prompt

\* Reading a register changes only its state.
LEMMA InIInv ==
  ASSUME IInv, NEW chip \in Chips, vpic_in(chip)
  PROVE  IInv'
<1>1. /\ pc = "user" /\ pc' = "exit"
      /\ UNCHANGED <<vif, hlted, hook, running, frames, outs, clash>>
  BY DEF vpic_in, In_user, Goto
<1>2. pic' \in Pair /\ pic'.master.irr = pic.master.irr
  <2>1. pic \in Pair /\ pic[chip] \in Chip
    BY DEF IInv, TypeOK, Pair
  <2>2. pic' = [pic EXCEPT ![chip] = [pic[chip] EXCEPT !.state = "Normal"]]
    BY <2>1 DEF vpic_in, Pair, Chips
  <2>3. /\ [pic[chip] EXCEPT !.state = "Normal"] \in Chip
        /\ [pic[chip] EXCEPT !.state = "Normal"].irr = pic[chip].irr
        /\ [pic[chip] EXCEPT !.state = "Normal"].link = pic[chip].link
        /\ [pic[chip] EXCEPT !.state = "Normal"].is_slave = pic[chip].is_slave
    BY <2>1 DEF Chip
  <2>. QED
    BY <2>1, <2>2, <2>3 DEF Pair, Chips
<1>. QED
  BY <1>1, <1>2 DEF IInv, TypeOK, Hooked, Prompt

\* The handlers of traps.
LEMMA TrapStepIInv ==
  ASSUME IInv, TrapStep
  PROVE  IInv'
<1>1. CASE CallVpic
  <2>1. /\ pc' = "exit" /\ UNCHANGED <<pic, vif, hlted, running, frames, outs, clash>>
    BY <1>1 DEF CallVpic, Goto
  <2>2. CASE pc = "disable" \/ (pc = "loaded" /\ ~vif)
    <3>1. hook' = FALSE
      BY <1>1, <2>2 DEF CallVpic, IF_disabled
    <3>2. pc = "disable" => ~vif
      BY <2>2 DEF IInv, Hooked
    <3>. QED
      BY <2>1, <2>2, <3>1, <3>2 DEF IInv, TypeOK, Hooked, Prompt
  <2>3. CASE ~(pc = "disable" \/ (pc = "loaded" /\ ~vif))
    <3>1. hook' = Install
      BY <1>1, <2>3 DEF CallVpic, IF_enabled
    <3>. QED
      BY <2>1, <3>1 DEF Install, IInv, TypeOK, Hooked, Prompt
  <2>. QED
    BY <2>2, <2>3
<1>2. CASE SetHlted
  BY <1>2 DEF SetHlted, Goto, IInv, TypeOK, Hooked, Prompt
<1>3. CASE SuspendSelf
  BY <1>3 DEF SuspendSelf, Goto, IInv, TypeOK, Hooked, Prompt
<1>. QED
  BY <1>1, <1>2, <1>3 DEF TrapStep

\* Every step keeps the invariant.
LEMMA NextIInv == IInv /\ [Next]_vars => IInv'
<1> SUFFICES ASSUME IInv, [Next]_vars PROVE IInv'
  OBVIOUS
<1>1. CASE clash = "none" /\ vm_gpe_handler
  <2>1. ASSUME NEW flag \in BOOLEAN, SetFlag("loaded", flag) PROVE IInv'
    BY <2>1, SetFlagIInv
  <2>2. CASE SetFlag("disable", FALSE) \/ SetFlag("enable", TRUE) \/ SetFlag("stihlt", TRUE)
    BY <2>2, SetFlagIInv
  <2>. QED
    BY <1>1, <2>1, <2>2, IRetIInv, IntIInv, HltIInv, CommandIInv, DataIInv, InIInv
       DEF vm_gpe_handler
<1>2. CASE clash = "none" /\ (TrapStep \/ Interrupt \/ Return)
  BY <1>2, TrapStepIInv, InterruptIInv, ReturnIInv
<1>3. CASE clash = "none" /\ \E d \in Devices : simulate_irq(d)
  BY <1>3, SimulateIrqIInv
<1>4. CASE UNCHANGED vars
  BY <1>4 DEF vars, IInv, TypeOK, Hooked, Prompt
<1>. QED
  BY <1>1, <1>2, <1>3, <1>4 DEF Next

\* The virtual interrupt controller and the simulated instructions never let
\* the program go on past a request that it can be interrupted by
\* (vpic_return_hook, IF_enabled, simulate_irq in vpic.c; vm_gpe_handler).
THEOREM PromptSafe == Spec => []Prompt
<1>1. IInv => Prompt
  BY DEF IInv
<1>. QED
  BY InitIInv, NextIInv, <1>1, PTL DEF Spec

\* The controllers and the machine keep their types.
THEOREM VirtualIrqType == Spec => []TypeOK
<1>1. IInv => TypeOK
  BY DEF IInv
<1>. QED
  BY InitIInv, NextIInv, <1>1, PTL DEF Spec

-----------------------------------------------------------------------------
(* The interrupts that the program sees.                                    *)

\* An interrupt of the program comes from one line of one controller.
LEMMA IrqForms ==
  /\ \A i \in Irqs : i[1] \in {"master", "slave"} /\ i[2] \in Lines
  /\ \A i \in Irqs : i[1] = "master" => i[2] # Cascade
  /\ \A i, j \in Irqs : i[1] = j[1] /\ i[2] = j[2] => i = j
  /\ \A l \in Lines \ {Cascade} : <<"master", l>> \in Irqs
  /\ \A l \in Lines : <<"slave", l>> \in Irqs
  /\ Devices \subseteq Irqs
<1>1. /\ \A i \in Irqs : i[1] \in {"master", "slave"} /\ i[2] \in Lines
      /\ \A i \in Irqs : i[1] = "master" => i[2] # Cascade
      /\ \A i, j \in Irqs : i[1] = j[1] /\ i[2] = j[2] => i = j
      /\ \A l \in Lines \ {Cascade} : <<"master", l>> \in Irqs
      /\ \A l \in Lines : <<"slave", l>> \in Irqs
  BY DEF Irqs, Chips
<1>2. ASSUME NEW d \in Devices PROVE d \in Irqs
  <2>1. \/ \E l \in MasterDevices : d = <<"master", l>>
        \/ \E l \in SlaveDevices : d = <<"slave", l>>
    BY DEF Devices
  <2>. QED
    BY <1>1, <2>1, ParametersAssumption
<1>. QED
  BY <1>1, <1>2

\* A pair of controllers with their registers.
LEMMA PairForms ==
  ASSUME NEW p \in Pair
  PROVE  /\ p.master = p["master"] /\ p.slave = p["slave"]
         /\ \A c \in Chips : p[c].irr \subseteq Lines /\ p[c].mask \subseteq Lines
         /\ p.master.irr \subseteq Lines /\ p.slave.irr \subseteq Lines
         /\ p.slave.link \in Lines
  BY DEF Pair, Chip, Chips

\* A request of a device, and what it leaves of the others.
LEMMA RequestForms ==
  ASSUME NEW p \in Pair, NEW chip \in Chips, NEW l \in Lines
  PROVE  LET q == request_line(p, chip, l)
         IN  /\ q[chip].irr = (p[chip].irr \cup {l}) \ p[chip].mask
             /\ \A c \in Chips \ {chip} : q[c] = p[c]
             /\ \A c \in Chips : /\ q[c].mask = p[c].mask /\ q[c].link = p[c].link
                                 /\ q[c].isr = p[c].isr
  BY DEF Pair, Chip, Chips, request_line

\* A request of the slave.
LEMMA LinkForms ==
  ASSUME NEW p \in Pair
  PROVE  LET q == link_slave(p)
         IN  /\ q.master.irr = (p.master.irr \cup {p.slave.link}) \ p.master.mask
             /\ q.slave = p.slave
             /\ \A c \in Chips : /\ q[c].mask = p[c].mask /\ q[c].link = p[c].link
                                 /\ q[c].isr = p[c].isr
<1>1. "master" \in Chips /\ "slave" \in Chips \ {"master"}
  BY DEF Chips
<1>. QED
  BY <1>1, PairForms, RequestForms DEF link_slave

\* Only the request that goes into service is gone, and behind one of the slave
\* those that the master masks.
LEMMA AcknowledgeForms ==
  ASSUME NEW p \in Pair, p.master.irr # {},
         IsSlave(p, Min(p.master.irr)) => p.slave.irr # {}
  PROVE  LET l == Min(p.master.irr)
             s == Min(p.slave.irr)
             q == acknowledge(p)
         IN  /\ q.master.isr = {l}
             /\ \A c \in Chips : q[c].mask = p[c].mask /\ q[c].link = p[c].link
             /\ ~IsSlave(p, l) => /\ q.master.irr = p.master.irr \ {l}
                                  /\ q.slave.irr = p.slave.irr
             /\ IsSlave(p, l) =>
                  /\ q.slave.irr = p.slave.irr \ {s}
                  /\ q.master.irr =
                       IF q.slave.irr = {} THEN p.master.irr \ {l}
                       ELSE ((p.master.irr \ {l}) \cup {p.slave.link}) \ p.master.mask
<1> DEFINE l == Min(p.master.irr)
           q == [p EXCEPT !.master.irr = @ \ {l}, !.master.isr = {l}]
           s == Min(p.slave.irr)
           r == [q EXCEPT !.slave.irr = @ \ {s}]
<1>1. l \in Lines
  BY PairForms, MinIn
<1> HIDE DEF l, s
<1>2. /\ q \in Pair /\ q.master.isr = {l} /\ q.master.irr = p.master.irr \ {l}
      /\ q.slave = p.slave
      /\ \A c \in Chips : q[c].mask = p[c].mask /\ q[c].link = p[c].link
  <2>1. p.master \in Chip /\ p["master"] = p.master
    BY DEF Pair, Chips
  <2> DEFINE m == [p.master EXCEPT !.irr = @ \ {l}, !.isr = {l}]
  <2>2. /\ m \in Chip /\ m.irr = p.master.irr \ {l} /\ m.isr = {l} /\ m.mask = p.master.mask
        /\ m.link = p.master.link /\ m.is_slave = p.master.is_slave
    BY <1>1, <2>1 DEF Chip
  <2>3. q = [p EXCEPT !["master"] = m]
    BY <2>1 DEF Pair, Chip, Chips
  <2> HIDE DEF m, q
  <2>. QED
    BY <2>1, <2>2, <2>3 DEF Pair, Chips
<1> HIDE DEF q
<1>3. /\ r \in Pair /\ r.slave.irr = p.slave.irr \ {s} /\ r.slave.link = p.slave.link
      /\ r.master = q.master
      /\ \A c \in Chips : r[c].mask = q[c].mask /\ r[c].link = q[c].link
  BY <1>2 DEF Pair, Chip, Chips
<1>4. acknowledge(p) = IF ~IsSlave(p, l) THEN q ELSE IF r.slave.irr = {} THEN r ELSE link_slave(r)
  BY DEF acknowledge, l, q, s
<1> HIDE DEF r
<1>5. LET t == link_slave(r)
      IN  /\ t.master.irr = (r.master.irr \cup {r.slave.link}) \ r.master.mask
          /\ t.slave = r.slave /\ t.master.isr = r.master.isr
          /\ \A c \in Chips : t[c].mask = r[c].mask /\ t[c].link = r[c].link
  BY <1>3, LinkForms, LinkType, PairForms DEF Chips
<1>6. r.master.mask = p.master.mask
  BY <1>2, <1>3, PairForms DEF Chips
<1> SUFFICES
      LET a == acknowledge(p)
      IN  /\ a.master.isr = {l}
          /\ \A c \in Chips : a[c].mask = p[c].mask /\ a[c].link = p[c].link
          /\ ~IsSlave(p, l) => /\ a.master.irr = p.master.irr \ {l}
                               /\ a.slave.irr = p.slave.irr
          /\ IsSlave(p, l) =>
               /\ a.slave.irr = p.slave.irr \ {s}
               /\ a.master.irr =
                    IF a.slave.irr = {} THEN p.master.irr \ {l}
                    ELSE ((p.master.irr \ {l}) \cup {p.slave.link}) \ p.master.mask
  BY DEF l, s
<1>7. CASE ~IsSlave(p, l)
  BY <1>2, <1>4, <1>7
<1>8. CASE IsSlave(p, l) /\ r.slave.irr = {}
  BY <1>2, <1>3, <1>4, <1>8
<1>9. CASE IsSlave(p, l) /\ r.slave.irr # {}
  <2> DEFINE t == link_slave(r)
  <2>1. acknowledge(p) = t
    BY <1>4, <1>9
  <2>2. /\ t.slave = r.slave /\ t.master.isr = r.master.isr
        /\ t.master.irr = ((p.master.irr \ {l}) \cup {p.slave.link}) \ p.master.mask
    BY <1>2, <1>3, <1>5, <1>6
  <2>3. \A c \in Chips : t[c].mask = p[c].mask /\ t[c].link = p[c].link
    BY <1>2, <1>3, <1>5
  <2> HIDE DEF t
  <2>4. t.master.isr = {l} /\ t.slave.irr = p.slave.irr \ {s} /\ t.slave.irr # {}
    BY <1>2, <1>3, <1>9, <2>2
  <2>. QED
    BY <1>9, <2>1, <2>2, <2>3, <2>4
<1>. QED
  BY <1>7, <1>8, <1>9

\* What the program sees of the controllers depends on three of their registers.
LEMMA Unseen ==
  ASSUME \A c \in Chips : /\ pic'[c].irr = pic[c].irr /\ pic'[c].mask = pic[c].mask
                          /\ pic'[c].link = pic[c].link,
         pic \in Pair, pic' \in Pair
  PROVE  UNCHANGED <<Requested, Overlooked, Masked>>
<1>1. \A i \in Irqs : i[1] \in Chips
  BY IrqForms DEF Chips
<1>2. /\ pic'.master.irr = pic.master.irr /\ pic'.master.mask = pic.master.mask
      /\ (Linked(pic))' = Linked(pic)
  BY PairForms DEF Chips, Linked, IsSlave
<1>3. Requested' = Requested
  BY <1>1 DEF Requested
<1>4. Overlooked' = Overlooked
  BY <1>2, <1>3 DEF Overlooked
<1>5. Masked' = Masked
  BY <1>1, <1>2 DEF Masked
<1>. QED
  BY <1>3, <1>4, <1>5

-----------------------------------------------------------------------------
(* The steps of PcInterrupts.                                               *)

\* The link that the master has is one that the program may give it.
Wired == pic.master.link \in MasterLinks

\* ICW3 is all that changes a link.
LEMMA WiredSafe ==
  ASSUME IInv, Wired, [Next]_vars
  PROVE  Wired'
<1>1. pic \in Pair /\ "master" \in Chips
  BY DEF IInv, TypeOK, Chips
<1>2. CASE pic' = pic
  BY <1>2 DEF Wired
<1>3. ASSUME NEW chip \in Chips, NEW cmd \in Commands, Command(chip, cmd) PROVE Wired'
  <2>1. pic[chip] \in Chip
    BY <1>1 DEF Pair
  <2>2. out_command(pic[chip], cmd).link = pic[chip].link
    BY <2>1 DEF out_command, Commands, Chip
  <2>3. pic' = pic \/ pic' = [pic EXCEPT ![chip] = out_command(pic[chip], cmd)]
    BY <1>1, <1>3 DEF Command, Pair
  <2>. QED
    BY <1>1, <2>2, <2>3 DEF Pair, Wired, Chips
<1>4. ASSUME NEW chip \in Chips, NEW byte \in Bytes(chip), Data(chip, byte) PROVE Wired'
  <2>1. pic[chip] \in Chip /\ (chip = "master" => ~pic[chip].is_slave)
    BY <1>1 DEF Pair, Chips
  <2>2. pic[chip].state = "WaitICW3" => byte \in Links[chip]
    BY DEF Bytes
  <2>3. chip = "master" => out_data(pic[chip], byte).link \in MasterLinks
    BY <2>1, <2>2 DEF out_data, Chip, Wired, Links
  <2>4. pic' = [pic EXCEPT ![chip] = out_data(pic[chip], byte)]
    BY <1>1, <1>4 DEF Data, Pair
  <2>. QED
    BY <1>1, <2>3, <2>4 DEF Pair, Wired, Chips
<1>5. ASSUME NEW chip \in Chips, vpic_in(chip) PROVE Wired'
  BY <1>1, <1>5 DEF vpic_in, Pair, Chip, Wired, Chips
<1>6. ASSUME NEW d \in Devices, simulate_irq(d) PROVE Wired'
  <2> DEFINE p == request_line(pic, d[1], d[2])
  <2>1. d[1] \in Chips /\ d[2] \in Lines
    BY ParametersAssumption DEF Chips, Devices
  <2>2. p \in Pair /\ p.master.link = pic.master.link /\ link_slave(p).master.link = p.master.link
    BY <1>1, <2>1, RequestType, RequestForms, LinkForms, PairForms DEF Chips
  <2>3. pic' \in {pic, p, link_slave(p)}
    BY <1>6 DEF simulate_irq
  <2>. QED
    BY <2>2, <2>3 DEF Wired
<1>7. ASSUME Return PROVE Wired'
  <2>1. CASE pic' = acknowledge(pic) /\ MayServe /\ wrong(pic) = "none"
    BY <1>1, <2>1, AcknowledgeForms, AcknowledgeType, PairForms DEF MayServe, wrong, Wired
  <2>. QED
    BY <1>2, <1>7, <2>1 DEF Return
<1>8. \/ pic' = pic \/ Return
      \/ \E d \in Devices : simulate_irq(d)
      \/ \E chip \in Chips :
           \/ \E cmd \in Commands : Command(chip, cmd)
           \/ \E byte \in Bytes(chip) : Data(chip, byte)
           \/ vpic_in(chip)
  <2>1. vm_gpe_handler => \/ pic' = pic
                          \/ \E chip \in Chips : \/ \E cmd \in Commands : Command(chip, cmd)
                                                 \/ \E byte \in Bytes(chip) : Data(chip, byte)
                                                 \/ vpic_in(chip)
    BY DEF vm_gpe_handler, SetFlag, IRet, simulate_vm_int, HLT
  <2>2. TrapStep \/ Interrupt => pic' = pic
    BY DEF TrapStep, CallVpic, SetHlted, SuspendSelf, Interrupt
  <2>3. \/ vm_gpe_handler \/ TrapStep \/ Interrupt \/ Return
        \/ \E d \in Devices : simulate_irq(d)
        \/ pic' = pic
    BY Zenon DEF Next, vars
  <2>. QED
    BY <2>1, <2>2, <2>3, Zenon
<1>. QED
  BY <1>2, <1>3, <1>4, <1>5, <1>6, <1>7, <1>8

\* A request of a device is one of PcInterrupts: what else goes is masked.
LEMMA RequestStep ==
  ASSUME IInv, Wired, NEW d \in Devices, simulate_irq(d), clash = "none", clash' = "none"
  PROVE  Pc!Request(d)
<1> DEFINE p == request_line(pic, d[1], d[2])
           q == IF d[1] = "slave" THEN link_slave(p) ELSE p
<1>1. d \in Irqs /\ d[1] \in {"master", "slave"} /\ d[2] \in Lines /\ pic \in Pair
  BY IrqForms DEF IInv, TypeOK
<1>2. /\ pic' = q /\ UNCHANGED <<vif, frames>>
      /\ pc' = IF pc = "user" THEN "exit" ELSE pc
      /\ running' # running => vif /\ running'
  <2>1. ~(d[1] = "slave" /\ ~Linked(p) /\ q # p)
    BY DEF simulate_irq
  <2>2. CASE vif
    BY <2>1, <2>2 DEF simulate_irq, Goto, IInv, TypeOK
  <2>3. CASE ~vif
    BY <2>1, <2>3 DEF simulate_irq, Goto
  <2>. QED
    BY <2>2, <2>3
<1>3. p \in Pair /\ q \in Pair
  BY <1>1, RequestType, LinkType DEF Chips
<1>4. /\ \A c \in Chips : pic'[c].mask = pic[c].mask /\ pic'[c].link = pic[c].link
      /\ pic'.master.isr = pic.master.isr
      /\ pic'.master.mask = pic.master.mask /\ pic'.master.link = pic.master.link
      /\ pic'.slave.link = pic.slave.link
  BY <1>1, <1>2, <1>3, RequestForms, LinkForms, PairForms DEF Chips
<1>5. d[1] = "master" => /\ pic'["master"].irr = (pic["master"].irr \cup {d[2]}) \ pic["master"].mask
                         /\ pic'["slave"].irr = pic["slave"].irr
  BY <1>1, <1>2, RequestForms DEF Chips
<1>6. d[1] = "slave" =>
        /\ pic'["slave"].irr = (pic["slave"].irr \cup {d[2]}) \ pic["slave"].mask
        /\ pic'["master"].irr = (pic["master"].irr \cup {pic.slave.link}) \ pic["master"].mask
  BY <1>1, <1>2, <1>3, RequestForms, LinkForms, PairForms DEF Chips
<1>7. pic' \in Pair
  BY <1>2, <1>3
<1>link. d[1] = "slave" => \/ pic'["master"].irr = pic["master"].irr /\ ~Linked(pic)
                           \/ pic.slave.link = Cascade
  <2>1. Linked(p) <=> Linked(pic)
    BY <1>1, RequestForms, PairForms DEF Chips, Linked, IsSlave
  <2>2. CASE Linked(pic)
    <3>1. pic.slave.link \in Lines
      BY <1>1, PairForms
    <3>. QED
      BY <2>2, <3>1, WiringAssumption, Zenon DEF Linked, IsSlave, Wired
  <2>3. CASE d[1] = "slave" /\ ~Linked(pic)
    <3>1. q = p
      BY <2>1, <2>3 DEF simulate_irq
    <3>2. pic' = p
      BY <1>2, <3>1
    <3>3. p["master"] = pic["master"]
      BY <1>1, <2>3, RequestForms DEF Chips
    <3>. QED
      BY <2>3, <3>2, <3>3
  <2>. QED
    BY <2>2, <2>3
<1> HIDE DEF p, q
<1>8. Masked' = Masked
  <2>1. (Linked(pic))' = Linked(pic)
    BY <1>4 DEF Linked, IsSlave
  <2>2. \A i \in Irqs : pic'[i[1]].mask = pic[i[1]].mask
    BY <1>4, IrqForms DEF Chips
  <2>. QED
    BY <1>4, <2>1, <2>2 DEF Masked
<1>9. /\ Requested' \subseteq Requested \cup {d}
      /\ (Requested \cup {d}) \ Masked \subseteq Requested'
  <2> SUFFICES ASSUME NEW i \in Irqs
               PROVE  /\ i \in Requested' => i \in Requested \cup {d}
                      /\ i \in Requested \cup {d} => i \in Masked \/ i \in Requested'
    BY <1>1 DEF Requested
  <2>1. i[1] \in {"master", "slave"} /\ (i[1] = "master" => i[2] # Cascade)
    BY IrqForms
  <2>2. i[1] = d[1] /\ i[2] = d[2] <=> i = d
    BY <1>1, IrqForms
  <2>3. /\ i \in Requested <=> i[2] \in pic[i[1]].irr
        /\ i \in Requested' <=> i[2] \in pic'[i[1]].irr
        /\ i[2] \in pic[i[1]].mask => i \in Masked
    BY DEF Requested, Masked
  <2>4. CASE d[1] = "master"
    BY <1>5, <2>1, <2>2, <2>3, <2>4
  <2>5. CASE d[1] = "slave" /\ i[1] = "slave"
    BY <1>6, <2>1, <2>2, <2>3, <2>5
  <2>6. CASE d[1] = "slave" /\ i[1] = "master"
    <3>1. pic.slave.link = Cascade => i[2] # pic.slave.link
      BY <2>1, <2>6
    <3>. QED
      BY <1>6, <1>link, <2>1, <2>2, <2>3, <2>6, <3>1
  <2>. QED
    BY <1>1, <2>1, <2>4, <2>5, <2>6
<1>10. Overlooked' \subseteq Requested' \cap (Overlooked \cup Masked)
  <2>0. "slave" \in Chips /\ pic.master = pic["master"] /\ pic'.master = pic'["master"]
    BY <1>1, <1>7, PairForms DEF Chips
  <2>1. CASE Cascade \in pic'.master.irr
    BY <2>1 DEF Overlooked
  <2>2. CASE Cascade \notin pic'.master.irr /\ (Cascade \in pic.master.mask \/ ~Linked(pic))
    BY <2>2, <1>9 DEF Overlooked, OfSlave, Masked, Requested
  <2>3. CASE Cascade \notin pic'.master.irr /\ Cascade \notin pic.master.mask /\ Linked(pic)
    <3>1. d[1] = "master" /\ Cascade \notin pic.master.irr
      BY <1>1, <1>5, <1>6, <1>link, <2>0, <2>3
    <3>2. OfSlave(Requested') = OfSlave(Requested)
      BY <1>5, <3>1 DEF OfSlave, Requested
    <3>. QED
      BY <2>3, <3>1, <3>2 DEF Overlooked, OfSlave
  <2>. QED
    BY <2>1, <2>2, <2>3
<1>11. d \in Overlooked' => d \in Masked
  <2>0. pic.master = pic["master"] /\ pic'.master = pic'["master"]
    BY <1>1, <1>7, PairForms
  <2>1. d \in Overlooked' => d[1] = "slave" /\ Cascade \notin pic'.master.irr
    BY DEF Overlooked, OfSlave
  <2>2. d[1] = "slave" => \/ Cascade \in pic'.master.irr \/ Cascade \in pic.master.mask
                          \/ ~Linked(pic)
    BY <1>1, <1>6, <1>link, <2>0, ParametersAssumption
  <2>. QED
    BY <1>1, <2>1, <2>2 DEF Masked, OfSlave
<1>12. /\ running' # running => vif /\ running'
       /\ (pc' \in {"user", "exit"}) = (pc \in {"user", "exit"})
  BY <1>2
<1>. QED
  BY <1>2, <1>4, <1>8, <1>9, <1>10, <1>11, <1>12 DEF Pc!Request, Pc!Remain, IInv, TypeOK

\* The interrupt that is made is the first that the program can see; another
\* is lost or overlooked only if it is masked.
LEMMA ServeStep ==
  ASSUME IInv, Wired, Return, MayServe, wrong(pic) = "none"
  PROVE  \E i \in Irqs : Pc!Serve(i)
<1> DEFINE l == Min(pic.master.irr)
           s == Min(pic.slave.irr)
           i == IF IsSlave(pic, l) THEN <<"slave", s>> ELSE <<"master", l>>
<1>1. /\ pic \in Pair /\ pic.master.irr # {} /\ pic.master.isr = {} /\ vif
      /\ pc = "exit" /\ running
  BY DEF MayServe, Return, IInv, TypeOK
<1>2. /\ pic' = acknowledge(pic) /\ frames' = Append(frames, vif) /\ vif' = FALSE
      /\ pc' = "user" /\ running' = running
  BY DEF Return, Goto
<1>3. l \in pic.master.irr /\ l \in Lines /\ \A x \in pic.master.irr : l <= x
  BY <1>1, MinIn, PairForms
<1>4. IsSlave(pic, l) =>
        /\ l = Cascade /\ pic.slave.link = Cascade
        /\ pic.slave.irr # {} /\ s \in pic.slave.irr /\ s \in Lines
        /\ \A x \in pic.slave.irr : s <= x
  <2> SUFFICES ASSUME IsSlave(pic, l) PROVE /\ l = Cascade /\ pic.slave.link = Cascade
                                            /\ pic.slave.irr # {}
    BY <1>1, MinIn, PairForms
  <2>1. Linked(pic) /\ pic.slave.irr # {}
    BY DEF wrong
  <2>2. pic.slave.link \in Lines
    BY <1>1, PairForms
  <2>. QED
    BY <1>3, <2>1, <2>2, WiringAssumption, Zenon DEF Linked, IsSlave, Wired
<1>5. ~IsSlave(pic, l) => l # Cascade
  <2>1. l = Cascade => Linked(pic)
    BY DEF wrong
  <2>2. pic.slave.link \in Lines
    BY <1>1, PairForms
  <2>3. Linked(pic) => pic.slave.link = Cascade
    BY <2>2, WiringAssumption, Zenon DEF Linked, IsSlave, Wired
  <2>. QED
    BY <2>1, <2>3 DEF Linked
<1>6. /\ pic'.master.isr = {l}
      /\ \A c \in Chips : pic'[c].mask = pic[c].mask /\ pic'[c].link = pic[c].link
      /\ ~IsSlave(pic, l) => /\ pic'.master.irr = pic.master.irr \ {l}
                             /\ pic'.slave.irr = pic.slave.irr
      /\ IsSlave(pic, l) =>
           /\ pic'.slave.irr = pic.slave.irr \ {s}
           /\ pic'.master.irr =
                IF pic'.slave.irr = {} THEN pic.master.irr \ {l}
                ELSE ((pic.master.irr \ {l}) \cup {pic.slave.link}) \ pic.master.mask
  BY <1>1, <1>2, <1>4, AcknowledgeForms
<1>7. /\ pic' \in Pair
      /\ pic.master = pic["master"] /\ pic'.master = pic'["master"]
      /\ pic.slave = pic["slave"] /\ pic'.slave = pic'["slave"]
  BY <1>1, <1>2, <1>4, AcknowledgeType, PairForms
<1> HIDE DEF l, s
<1>8. /\ i \in Irqs /\ i[2] \in pic[i[1]].irr /\ (i[1] = "slave" <=> IsSlave(pic, l))
      /\ i[1] \in {"master", "slave"} /\ i[2] = IF IsSlave(pic, l) THEN s ELSE l
  <2>1. CASE IsSlave(pic, l)
    BY <1>4, <1>7, <2>1, IrqForms
  <2>2. CASE ~IsSlave(pic, l)
    BY <1>3, <1>5, <1>7, <2>2, IrqForms
  <2>. QED
    BY <2>1, <2>2
<1> HIDE DEF i
<1>9. Masked' = Masked
  <2>1. (Linked(pic))' = Linked(pic)
    BY <1>6, <1>7 DEF Linked, IsSlave, Chips
  <2>2. \A j \in Irqs : pic'[j[1]].mask = pic[j[1]].mask
    BY <1>6, IrqForms DEF Chips
  <2>. QED
    BY <1>6, <1>7, <2>1, <2>2 DEF Masked, Chips
<1>10. i \in Requested \ Overlooked
  BY <1>3, <1>4, <1>8 DEF Requested, Overlooked, OfSlave
<1>11. ASSUME NEW j \in Requested \ (Overlooked \cup {i}) PROVE Before(i, j)
  <2>1. j \in Irqs /\ j[2] \in pic[j[1]].irr /\ j[1] \in {"master", "slave"} /\ j # i
    BY <1>11, IrqForms DEF Requested
  <2>2. j[1] = i[1] => j[2] # i[2]
    BY <1>8, <2>1, IrqForms
  <2>3. j[1] = "master" => j[2] # Cascade
    BY <2>1, IrqForms
  <2>4. j[1] = "slave" => Cascade \in pic.master.irr
    BY <1>11 DEF Overlooked, OfSlave
  <2>5. /\ i[2] \in Lines /\ j[2] \in Lines /\ Cascade \in Lines /\ Lines \subseteq 0..7
        /\ (i[1] = "master" => i[2] # Cascade)
    BY <1>8, <2>1, IrqForms, ParametersAssumption
  <2>6. i[2] \in Int /\ j[2] \in Int /\ Cascade \in Int /\ i[2] \in 0..7 /\ j[2] \in 0..7
    <3>1. \A x \in Lines : x \in 0..7 /\ x \in Int
      BY ParametersAssumption
    <3>. QED
      BY <2>5, <3>1
  <2>7. CASE i[1] = j[1]
    <3>1. i[2] < j[2]
      <4>1. i[2] <= j[2]
        BY <1>3, <1>4, <1>7, <1>8, <2>1, <2>7
      <4>. QED
        BY <2>2, <2>6, <2>7, <4>1
    <3>. QED
      BY <1>8, <2>1, <2>6, <2>7, <3>1 DEF Before, Rank
  <2>8. CASE i[1] = "slave" /\ j[1] = "master"
    <3>1. Cascade < j[2]
      <4>1. Cascade <= j[2]
        BY <1>3, <1>4, <1>7, <1>8, <2>1, <2>8
      <4>. QED
        BY <2>3, <2>6, <2>8, <4>1
    <3>. QED
      BY <2>6, <2>8, <3>1 DEF Before, Rank
  <2>9. CASE i[1] = "master" /\ j[1] = "slave"
    <3>1. i[2] < Cascade
      <4>1. i[2] <= Cascade
        BY <1>3, <1>8, <2>4, <2>9
      <4>. QED
        BY <2>5, <2>6, <2>9, <4>1
    <3>. QED
      BY <2>6, <2>9, <3>1 DEF Before, Rank
  <2>. QED
    BY <1>8, <2>1, <2>7, <2>8, <2>9
<1>12. /\ Requested' \subseteq Requested \ {i}
       /\ (Requested \ {i}) \ Masked \subseteq Requested'
  <2> SUFFICES ASSUME NEW j \in Irqs
               PROVE  /\ j \in Requested' => j \in Requested /\ j # i
                      /\ j \in Requested /\ j # i => j \in Masked \/ j \in Requested'
    BY DEF Requested
  <2>1. j[1] \in {"master", "slave"} /\ (j[1] = "master" => j[2] # Cascade)
    BY IrqForms
  <2>2. j[1] = i[1] /\ j[2] = i[2] <=> j = i
    BY <1>8, IrqForms
  <2>3. /\ j \in Requested <=> j[2] \in pic[j[1]].irr
        /\ j \in Requested' <=> j[2] \in pic'[j[1]].irr
        /\ j[2] \in pic[j[1]].mask => j \in Masked
    BY DEF Requested, Masked
  <2>4. CASE ~IsSlave(pic, l)
    BY <1>6, <1>7, <1>8, <2>1, <2>2, <2>3, <2>4
  <2>5. CASE IsSlave(pic, l) /\ j[1] = "slave"
    BY <1>6, <1>7, <1>8, <2>1, <2>2, <2>3, <2>5
  <2>6. CASE IsSlave(pic, l) /\ j[1] = "master"
    BY <1>4, <1>6, <1>7, <1>8, <2>1, <2>2, <2>3, <2>6
  <2>. QED
    BY <2>1, <2>4, <2>5, <2>6
<1>13. Overlooked' \subseteq Requested' \cap (Overlooked \cup Masked)
  <2>1. CASE Cascade \in pic'.master.irr
    BY <2>1 DEF Overlooked
  <2>2. CASE ~IsSlave(pic, l) /\ Cascade \notin pic'.master.irr
    <3>1. Cascade \notin pic.master.irr
      BY <1>5, <1>6, <2>2
    <3>2. OfSlave(Requested') = OfSlave(Requested)
      BY <1>6, <1>7, <2>2 DEF OfSlave, Requested
    <3>. QED
      BY <2>2, <3>1, <3>2 DEF Overlooked, OfSlave
  <2>3. CASE IsSlave(pic, l) /\ pic'.slave.irr = {}
    <3>1. OfSlave(Requested') = {}
      BY <1>7, <2>3 DEF OfSlave, Requested
    <3>. QED
      BY <3>1 DEF Overlooked
  <2>4. CASE IsSlave(pic, l) /\ pic'.slave.irr # {} /\ Cascade \notin pic'.master.irr
    <3>1. Cascade \in pic.master.mask
      BY <1>4, <1>6, <2>4
    <3>. QED
      BY <2>4, <3>1 DEF Overlooked, OfSlave, Requested, Masked
  <2>. QED
    BY <2>1, <2>2, <2>3, <2>4
<1>14. Pc!Serve(i)
  <2>1. \A j \in Requested \ (Overlooked \cup {i}) : Before(i, j)
    BY <1>11
  <2>2. pic'.master.isr # {}
    BY <1>6
  <2>3. Masked' = Masked /\ (~running)' = ~running
        /\ (pc' \in {"user", "exit"}) = (pc \in {"user", "exit"})
    BY <1>1, <1>2, <1>9
  <2>. QED
    BY <1>1, <1>2, <1>10, <1>12, <1>13, <2>1, <2>2, <2>3 DEF Pc!Serve, Pc!Remain
<1>. QED
  BY <1>8, <1>14

\* The program starts with no request and with the masks that it finds.
LEMMA InitPc == Init => Pc!Init
<1> SUFFICES ASSUME Init PROVE Pc!Init
  OBVIOUS
<1>1. pic \in Pair
  BY InitIInv DEF IInv, TypeOK
<1>2. \A c \in Chips : pic[c].irr = {} /\ pic[c].isr = {}
  BY DEF Init, NewChip
<1>3. Requested = {}
  BY <1>2, IrqForms DEF Requested, Chips
<1>4. Overlooked = {}
  BY <1>3 DEF Overlooked, OfSlave
<1>5. Masked \subseteq Irqs
  BY DEF Masked, OfSlave
<1>6. pic.master.isr = {}
  BY <1>1, <1>2, PairForms DEF Chips
<1>. QED
  BY <1>3, <1>4, <1>5, <1>6 DEF Init, Pc!Init

\* Interrupt flag, INT, IRET and HLT do not touch the controllers.
LEMMA FlagStep ==
  ASSUME IInv, UNCHANGED pic,
         \/ \E flag \in BOOLEAN, p \in {"disable", "enable", "stihlt", "loaded"} : SetFlag(p, flag)
         \/ IRet \/ simulate_vm_int \/ HLT
  PROVE  Pc!Next
<1>1. UNCHANGED <<Requested, Overlooked, Masked>> /\ UNCHANGED pic.master.isr
  BY DEF Requested, Overlooked, Masked, Linked, IsSlave
<1>2. ASSUME NEW flag \in BOOLEAN, NEW p \in {"disable", "enable", "stihlt", "loaded"},
             SetFlag(p, flag)
      PROVE  Pc!SetFlag
  BY <1>1, <1>2 DEF SetFlag, In_user, Goto, Pc!SetFlag
<1>3. CASE IRet
  <2>1. frames \in Seq(BOOLEAN) /\ frames # <<>>
    BY <1>3 DEF IRet, IInv, TypeOK
  <2>2. vif' = frames[Len(frames)] /\ frames' = SubSeq(frames, 1, Len(frames) - 1)
    BY <1>3 DEF IRet, Last, Front
  <2>3. pc = "user" /\ pc' = "loaded" /\ running /\ running' = running
    BY <1>3 DEF IRet, In_user, Goto
  <2>4. (pc' \in {"user", "exit"}) = FALSE
    BY <2>3
  <2>. QED
    BY <1>1, <2>1, <2>2, <2>3, <2>4 DEF Pc!IRet, Pc!Next
<1>4. CASE simulate_vm_int
  <2>1. /\ pc = "user" /\ pc' = "exit" /\ running /\ running' = running
        /\ vif' = FALSE /\ frames' = Append(frames, vif)
    BY <1>4 DEF simulate_vm_int, In_user, Goto
  <2>2. (pc' \in {"user", "exit"}) = (pc \in {"user", "exit"})
    BY <2>1
  <2>. QED
    BY <1>1, <2>1, <2>2 DEF Pc!SoftInt, Pc!Next
<1>5. CASE HLT
  <2>1. /\ pc = "user" /\ pc' = "hlt" /\ running /\ running' = running
        /\ UNCHANGED <<vif, frames>>
    BY <1>5 DEF HLT, In_user, Goto
  <2>2. (pc' \in {"user", "exit"}) = FALSE
    BY <2>1
  <2>. QED
    BY <1>1, <2>1, <2>2 DEF Pc!Start, Pc!Next
<1>. QED
  BY <1>2, <1>3, <1>4, <1>5 DEF Pc!Next

\* A command changes nothing that the program sees but the end of an interrupt.
LEMMA CommandStep ==
  ASSUME IInv, NEW chip \in Chips, NEW cmd \in Commands, Command(chip, cmd),
         clash = "none", clash' = "none"
  PROVE  [Pc!Next]_Pc!vars
<1>1. /\ pc = "user" /\ running /\ running' = running /\ UNCHANGED <<vif, frames>>
      /\ pc' = IF cmd = "EOI" THEN "eoi" ELSE "exit"
      /\ pic \in Pair
  BY DEF Command, In_user, Goto, IInv, TypeOK
<1> DEFINE c == out_command(pic[chip], cmd)
<1>2. pic' = pic \/ pic' = [pic EXCEPT ![chip] = c]
  BY <1>1 DEF Command, Pair
<1>3. /\ pic[chip] \in Chip
      /\ c.irr = pic[chip].irr /\ c.mask = pic[chip].mask /\ c.link = pic[chip].link
      /\ c.isr = IF cmd = "EOI" /\ ~pic[chip].is_slave THEN {} ELSE pic[chip].isr
  <2>1. pic[chip] \in Chip
    BY <1>1 DEF Pair
  <2>2. CASE cmd = "EOI"
    BY <2>1, <2>2 DEF Chip, out_command
  <2>3. CASE cmd # "EOI"
    BY <2>1, <2>3 DEF Chip, Commands, out_command
  <2>. QED
    BY <2>1, <2>2, <2>3
<1>4. pic' \in Pair
  BY <1>1, <1>2, CommandType
<1> HIDE DEF c
<1>5. UNCHANGED <<Requested, Overlooked, Masked>>
  <2>1. \A x \in Chips : /\ pic'[x].irr = pic[x].irr /\ pic'[x].mask = pic[x].mask
                         /\ pic'[x].link = pic[x].link
    BY <1>1, <1>2, <1>3 DEF Pair
  <2>. QED
    BY <1>1, <1>4, <2>1, Unseen
<1>6. \/ pic'.master.isr = pic.master.isr
      \/ pic'.master.isr = {} /\ cmd = "EOI"
  BY <1>1, <1>2, <1>3 DEF Pair, Chips
<1>7. CASE cmd # "EOI"
  <2>1. (pc' \in {"user", "exit"}) = (pc \in {"user", "exit"}) /\ pic'.master.isr = pic.master.isr
    BY <1>1, <1>6, <1>7
  <2>. QED
    BY <1>1, <1>5, <2>1 DEF Pc!vars
<1>8. CASE cmd = "EOI"
  <2>1. (pc' \in {"user", "exit"}) = FALSE /\ pc \in {"user", "exit"}
    BY <1>1, <1>8
  <2>2. CASE pic'.master.isr = pic.master.isr
    BY <1>1, <1>5, <2>1, <2>2 DEF Pc!Start, Pc!Next
  <2>3. CASE pic'.master.isr = {}
    BY <1>1, <1>5, <2>1, <2>3 DEF Pc!EndOfInterrupt, Pc!Next
  <2>. QED
    BY <1>6, <2>2, <2>3
<1>. QED
  BY <1>7, <1>8

\* A mask, and the words that say how the controllers are connected.
LEMMA DataStep ==
  ASSUME IInv, NEW chip \in Chips, NEW byte \in Bytes(chip), Data(chip, byte)
  PROVE  Pc!Mask
<1>1. /\ pc = "user" /\ pc' = "exit" /\ running /\ running' = running
      /\ UNCHANGED <<vif, frames>>
      /\ pic \in Pair /\ pic' = [pic EXCEPT ![chip] = out_data(pic[chip], byte)]
  BY DEF Data, In_user, Goto, IInv, TypeOK, Pair
<1>2. out_data(pic[chip], byte).irr = pic[chip].irr /\ out_data(pic[chip], byte).isr = pic[chip].isr
  <2>1. pic[chip] \in Chip
    BY <1>1 DEF Pair
  <2>. QED
    BY <2>1 DEF Chip, out_data
<1>3. \A c \in Chips : pic'[c].irr = pic[c].irr /\ pic'[c].isr = pic[c].isr
  BY <1>1, <1>2 DEF Pair
<1>4. pic'.master.irr = pic.master.irr /\ pic'.master.isr = pic.master.isr
  BY <1>1, <1>3 DEF Pair, Chips
<1>5. Requested' = Requested
  BY <1>3, IrqForms DEF Requested, Chips
<1>6. Overlooked' = Overlooked
  BY <1>4, <1>5 DEF Overlooked
<1>7. Masked' \subseteq Irqs
  BY DEF Masked, OfSlave
<1>8. (pc' \in {"user", "exit"}) = (pc \in {"user", "exit"}) /\ pc \in {"user", "exit"}
  BY <1>1
<1>. QED
  BY <1>1, <1>4, <1>5, <1>6, <1>7, <1>8 DEF Pc!Mask

\* Reading a register shows no interrupt and hides none.
LEMMA InStep ==
  ASSUME IInv, NEW chip \in Chips, vpic_in(chip)
  PROVE  UNCHANGED Pc!vars
<1>1. /\ pc = "user" /\ pc' = "exit" /\ running' = running /\ UNCHANGED <<vif, frames>>
      /\ pic \in Pair /\ pic' = [pic EXCEPT ![chip] = [pic[chip] EXCEPT !.state = "Normal"]]
  BY DEF vpic_in, In_user, Goto, IInv, TypeOK, Pair
<1>2. pic' \in Pair
  BY InIInv DEF IInv, TypeOK
<1>3. \A c \in Chips : /\ pic'[c].irr = pic[c].irr /\ pic'[c].isr = pic[c].isr
                       /\ pic'[c].mask = pic[c].mask /\ pic'[c].link = pic[c].link
  BY <1>1 DEF Pair, Chip
<1>4. UNCHANGED <<Requested, Overlooked, Masked>> /\ pic'.master.isr = pic.master.isr
  BY <1>1, <1>2, <1>3, Unseen, PairForms DEF Chips
<1>5. (pc' \in {"user", "exit"}) = (pc \in {"user", "exit"})
  BY <1>1
<1>. QED
  BY <1>1, <1>4, <1>5 DEF Pc!vars

\* The handlers of traps, other interrupts, and the way back without one.
LEMMA OtherStep ==
  ASSUME IInv, UNCHANGED pic,
         TrapStep \/ Interrupt \/ (Return /\ ~MayServe)
  PROVE  [Pc!Next]_Pc!vars
<1>1. UNCHANGED <<Requested, Overlooked, Masked>> /\ UNCHANGED pic.master.isr
  BY DEF Requested, Overlooked, Masked, Linked, IsSlave
<1>2. CASE CallVpic
  <2>1. UNCHANGED <<vif, frames, running>>
    BY <1>2 DEF CallVpic
  <2>2. (pc' \in {"user", "exit"}) = TRUE /\ pc \notin {"user", "exit"}
    BY <1>2 DEF CallVpic, Goto
  <2>. QED
    BY <1>1, <2>1, <2>2 DEF Pc!Finish, Pc!Next
<1>3. CASE SetHlted
  <2>1. UNCHANGED <<vif, frames, running>>
    BY <1>3 DEF SetHlted
  <2>2. (pc' \in {"user", "exit"}) = (pc \in {"user", "exit"})
    BY <1>3 DEF SetHlted, Goto
  <2>. QED
    BY <1>1, <2>1, <2>2 DEF Pc!vars
<1>4. CASE SuspendSelf
  <2>1. UNCHANGED <<vif, frames>> /\ running' = FALSE
    BY <1>4 DEF SuspendSelf
  <2>2. (pc' \in {"user", "exit"}) \in BOOLEAN /\ pc \notin {"user", "exit"}
    BY <1>4 DEF SuspendSelf, Goto
  <2>. QED
    BY <1>1, <2>1, <2>2 DEF Pc!Halt, Pc!Next
<1>5. CASE Interrupt
  <2>1. UNCHANGED <<vif, frames, running>>
    BY <1>5 DEF Interrupt
  <2>2. (pc' \in {"user", "exit"}) = (pc \in {"user", "exit"})
    BY <1>5 DEF Interrupt, Goto
  <2>. QED
    BY <1>1, <2>1, <2>2 DEF Pc!vars
<1>6. CASE Return /\ ~MayServe
  <2>1. UNCHANGED <<vif, frames, running>>
    BY <1>6 DEF Return
  <2>2. (pc' \in {"user", "exit"}) = (pc \in {"user", "exit"})
    BY <1>6 DEF Return, Goto
  <2>. QED
    BY <1>1, <2>1, <2>2 DEF Pc!vars
<1>. QED
  BY <1>2, <1>3, <1>4, <1>5, <1>6 DEF TrapStep

\* A new machine has been wired as the program may do it.
LEMMA InitWired == Init => Wired
  BY DEF Init, NewChip, Chips, Wired

\* Every step that does not leave the model is one of PcInterrupts, or none.
LEMMA NextStep ==
  ASSUME IInv, Wired, [Next]_vars, clash' = "none"
  PROVE  [Pc!Next]_Pc!vars
<1>1. CASE clash = "none" /\ vm_gpe_handler
  <2>1. ASSUME SetFlag("disable", FALSE) \/ SetFlag("enable", TRUE) \/ SetFlag("stihlt", TRUE)
               \/ (\E flag \in BOOLEAN : SetFlag("loaded", flag))
               \/ IRet \/ simulate_vm_int \/ HLT
        PROVE  Pc!Next
    <3>1. UNCHANGED pic
      BY <2>1 DEF SetFlag, IRet, simulate_vm_int, HLT
    <3>2. \/ \E flag \in BOOLEAN, p \in {"disable", "enable", "stihlt", "loaded"} : SetFlag(p, flag)
          \/ IRet \/ simulate_vm_int \/ HLT
      BY <2>1
    <3>. QED
      BY <3>1, <3>2, FlagStep
  <2>2. ASSUME NEW chip \in Chips, NEW cmd \in Commands, Command(chip, cmd)
        PROVE  [Pc!Next]_Pc!vars
    BY <1>1, <2>2, CommandStep
  <2>3. ASSUME NEW chip \in Chips, NEW byte \in Bytes(chip), Data(chip, byte)
        PROVE  Pc!Next
    BY <2>3, DataStep DEF Pc!Next
  <2>4. ASSUME NEW chip \in Chips, vpic_in(chip) PROVE UNCHANGED Pc!vars
    BY <2>4, InStep
  <2>. QED
    BY <1>1, <2>1, <2>2, <2>3, <2>4 DEF vm_gpe_handler
<1>2. CASE clash = "none" /\ (TrapStep \/ Interrupt)
  <2>1. UNCHANGED pic
    BY <1>2 DEF TrapStep, CallVpic, SetHlted, SuspendSelf, Interrupt
  <2>. QED
    BY <1>2, <2>1, OtherStep
<1>3. CASE clash = "none" /\ Return
  <2>1. CASE ~MayServe
    <3>1. UNCHANGED pic
      BY <1>3, <2>1 DEF Return
    <3>. QED
      BY <1>3, <2>1, <3>1, OtherStep
  <2>2. CASE MayServe
    <3>1. wrong(pic) = "none"
      BY <1>3, <2>2 DEF Return
    <3>2. PICK i \in Irqs : Pc!Serve(i)
      BY <1>3, <2>2, <3>1, ServeStep
    <3>. QED
      BY <3>2 DEF Pc!Next
  <2>. QED
    BY <2>1, <2>2
<1>4. CASE clash = "none" /\ \E d \in Devices : simulate_irq(d)
  <2>1. PICK d \in Devices : simulate_irq(d)
    BY <1>4
  <2>2. d \in Irqs /\ Pc!Request(d)
    BY <1>4, <2>1, IrqForms, RequestStep
  <2>. QED
    BY <2>2 DEF Pc!Next
<1>5. CASE UNCHANGED vars
  BY <1>5 DEF vars, Pc!vars, Requested, Overlooked, Masked, Linked, IsSlave
<1>. QED
  BY <1>1, <1>2, <1>3, <1>4, <1>5 DEF Next

\* The controllers and the simulated instructions interrupt the program as
\* PcInterrupts says: between instructions, with its flag set, one at a time, the
\* first of the requests first, each once (vpic_return_hook and simulate_irq in
\* vpic.c, vm_gpe_handler in fault.c).
THEOREM PcSafe == Spec => ImplementsPc
<1>1. IInv /\ Wired /\ [Next]_vars => [clash' = "none" => Pc!Next]_Pc!vars
  BY NextStep
<1>. QED
  BY InitIInv, InitPc, InitWired, NextIInv, WiredSafe, <1>1, PTL DEF Spec, ImplementsPc
=============================================================================
