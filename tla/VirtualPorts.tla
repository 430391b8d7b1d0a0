---------------------------- MODULE VirtualPorts ----------------------------
(***************************************************************************)
(* The port handlers of virtual machines (drivers/virtual/vm/vmach.c) and   *)
(* two devices that have several ports each, the virtual printers and the   *)
(* virtual serial ports (vprinter.c, vserial.c, which differ in names only). *)
(* Shells create the devices; the program in a machine reads and writes     *)
(* their ports; killing a machine deletes its devices.                      *)
(*                                                                         *)
(* The model stops, with clash_o, where                                     *)
(*   "template" create_vprinter() copies its static handler after another   *)
(*              shell has put other ports into it;                          *)
(*   "deaf"     a port is accessed that has a handler but is beyond         *)
(*              total_ports, as a port before it was given as 0;            *)
(*   "second"   a device takes the slot of another of its kind, whose       *)
(*              handlers then stay for ever.                                *)
(* Writes and reads at the status and control ports have no effect.         *)
(***************************************************************************)
EXTENDS Integers, Sequences, SequencesExt, FiniteSets

CONSTANTS
    Makers,             \* shells that create devices
    Guests,             \* virtual machines
    PortArgs,           \* the arguments given: one base for each port, or 0
    PortValues,         \* what programs write
    MAX_LPR_OFFSET,
    MaxMade             \* bound: devices created

VARIABLES
    ports,      \* the device of each kind that each machine has, or NoDevice
    local_io,   \* the handlers of each machine, the newest first
    template,   \* printer_io, serial_io: the base in the static handler
    stage,      \* of each machine: "init", "running" or "killed"
    lprports,   \* vm->hardware.lprports
    making,     \* the create function that each shell is in
    written,    \* what the program last wrote to each device's data ports
    made, clash_o

ovars == <<ports, local_io, template, stage, lprports, making, written, made, clash_o>>

Kinds == {"vprinter", "vserial"}
Index == DOMAIN (CHOOSE a \in PortArgs : TRUE)
NoDevice == [total |-> 0, base_addr |-> [i \in Index |-> 0], last |-> [i \in Index |-> 0]]
NotMaking == [g |-> CHOOSE g \in Guests : TRUE, kind |-> "none", args |-> <<>>, i |-> 0]
Bases == {a[i] : a \in PortArgs, i \in Index} \ {0}

add_io_handler(g, h) == [local_io EXCEPT ![g] = <<h>> \o @]

\* Mutant: only the newest handler is looked at.
remove_io_handler_first(list, h) == IF list # <<>> /\ Head(list) = h THEN Tail(list) ELSE list

remove_io_handler(list, h) == SelectSeq(list, LAMBDA e : e # h)

\* The handler that covers a port: the newest.
get_io_handler(g, port) ==
    LET covers(h) == port >= h.low /\ port <= h.high
    IN SelectInSeq(local_io[g], covers)

\* The machine has a device of the kind, or is being given one.
Taken(g, k) == ports[g][k] # NoDevice \/ \E s \in Makers : making[s].g = g /\ making[s].kind = k

\* The device is in the machine's slot before its ports are, whatever was there.
create_device(t, g, k, args) ==
    /\ making[t] = NotMaking /\ made < MaxMade /\ stage[g] = "init"
    /\ making' = [making EXCEPT ![t] = [g |-> g, kind |-> k, args |-> args, i |-> 1]]
    /\ made' = made + 1
    /\ ports' = [ports EXCEPT ![g][k] = NoDevice]
    /\ clash_o' = IF Taken(g, k) THEN "second" ELSE clash_o
    /\ UNCHANGED <<local_io, template, stage, lprports, written>>

create_vprinter(t, g) == \E args \in PortArgs : create_device(t, g, "vprinter", args)
create_vserial(t, g) == \E args \in PortArgs : create_device(t, g, "vserial", args)

\* The next port: it is skipped if it is 0, else its base goes into the static handler.
create_port(t) ==
    LET m == making[t]
    IN /\ m.kind # "none" /\ m.i \in Index
       /\ \/ /\ m.args[m.i] = 0
             /\ making' = [making EXCEPT ![t].i = @ + 1]
             /\ UNCHANGED <<ports, template>>
          \/ /\ m.args[m.i] # 0 /\ ports[m.g][m.kind].base_addr[m.i] = 0
             /\ ports' = [ports EXCEPT ![m.g][m.kind].base_addr[m.i] = m.args[m.i]]
             /\ template' = [template EXCEPT ![m.kind] = m.args[m.i]]
             /\ UNCHANGED making
       /\ UNCHANGED <<local_io, stage, lprports, written, made, clash_o>>

\* The static handler is copied, and the copy added to the machine's.
copy_handler(t) ==
    LET m == making[t]
        base == template[m.kind]
    IN /\ m.kind # "none" /\ m.i \in Index /\ ports[m.g][m.kind].base_addr[m.i] # 0
       /\ local_io' = add_io_handler(m.g, [kind |-> m.kind, i |-> m.i, low |-> base, high |-> base + MAX_LPR_OFFSET])
       /\ lprports' = [lprports EXCEPT ![m.g][m.i] = m.args[m.i]]
       /\ ports' = [ports EXCEPT ![m.g][m.kind].total = @ + 1, ![m.g][m.kind].last[m.i] = 0]
       /\ making' = [making EXCEPT ![t].i = @ + 1]
       /\ clash_o' = IF base # m.args[m.i] THEN "template" ELSE clash_o
       /\ UNCHANGED <<template, stage, written, made>>

created(t) ==
    /\ making[t].kind # "none" /\ making[t].i \notin Index
    /\ making' = [making EXCEPT ![t] = NotMaking]
    /\ UNCHANGED <<ports, local_io, template, stage, lprports, written, made, clash_o>>

\* The port of the device that a port number belongs to, or 0.
PortOf(dev, port) ==
    LET at == {i \in 1..dev.total : port >= dev.base_addr[i] /\ port <= dev.base_addr[i] + MAX_LPR_OFFSET}
    IN IF at = {} THEN 0 ELSE CHOOSE i \in at : \A j \in at : i <= j

\* Mutant: the value goes to the device's first port.
device_out_first(dev, i, val) == [dev EXCEPT !.last[1] = val]

device_out(dev, i, val) == [dev EXCEPT !.last[i] = val]

\* The program writes to the port at a base.
guest_out(g, base, val) ==
    LET n == get_io_handler(g, base)
        k == local_io[g][n].kind
        i == PortOf(ports[g][k], base)
    IN /\ stage[g] = "running" /\ n # 0
       /\ ports' = IF i = 0 THEN ports ELSE [ports EXCEPT ![g][k] = device_out(@, i, val)]
       /\ written' = [written EXCEPT ![g][k][base] = val]
       /\ clash_o' = IF i = 0 THEN "deaf" ELSE clash_o
       /\ UNCHANGED <<local_io, template, stage, lprports, making, made>>

\* What it reads there.
device_in(g, k, base) ==
    LET i == PortOf(ports[g][k], base) IN IF i = 0 THEN -1 ELSE ports[g][k].last[i]

RECURSIVE Deleted(_, _, _, _)
Deleted(list, dev, k, i) ==
    IF i \notin Index THEN list
    ELSE LET mine == SelectSeq(list, LAMBDA h : h.kind = k /\ h.i = i)
         IN Deleted(IF dev.base_addr[i] = 0 \/ mine = <<>> THEN list ELSE remove_io_handler(list, Head(mine)),
                    dev, k, i + 1)

\* A kill handler of the machine: the device's handlers are removed, then it is freed.
delete_device(g, k) ==
    /\ stage[g] = "killed" /\ ports[g][k] # NoDevice
    /\ local_io' = [local_io EXCEPT ![g] = Deleted(@, ports[g][k], k, 1)]
    /\ ports' = [ports EXCEPT ![g][k] = NoDevice]
    /\ written' = [written EXCEPT ![g][k] = [b \in Bases |-> 0]]
    /\ UNCHANGED <<template, stage, lprports, making, made, clash_o>>

delete_vprinter(g) == delete_device(g, "vprinter")
delete_vserial(g) == delete_device(g, "vserial")

\* cmd_vmlaunch(); kill_vm(), before its handlers and, for a new machine, after them.
NextStage(g) ==
    /\ stage[g] = "init" => \A t \in Makers : making[t].kind = "none" \/ making[t].g # g
    /\ stage[g] = "killed" => \A k \in Kinds : ports[g][k] = NoDevice
    /\ stage' = [stage EXCEPT ![g] = CASE @ = "init" -> "running" [] @ = "running" -> "killed" [] OTHER -> "init"]
    /\ lprports' = IF stage[g] = "killed" THEN [lprports EXCEPT ![g] = [i \in Index |-> 0]] ELSE lprports
    /\ UNCHANGED <<ports, local_io, template, making, written, made, clash_o>>

OInit ==
    /\ stage = [g \in Guests |-> "init"]
    /\ ports = [g \in Guests |-> [k \in Kinds |-> NoDevice]]
    /\ local_io = [g \in Guests |-> <<>>]
    /\ template = [k \in Kinds |-> 0]
    /\ lprports = [g \in Guests |-> [i \in Index |-> 0]]
    /\ making = [t \in Makers |-> NotMaking]
    /\ written = [g \in Guests |-> [k \in Kinds |-> [b \in Bases |-> 0]]]
    /\ made = 0 /\ clash_o = "none"

ONext ==
    /\ clash_o = "none"
    /\ \/ \E t \in Makers : \/ create_port(t) \/ copy_handler(t) \/ created(t)
                            \/ \E g \in Guests : create_vprinter(t, g) \/ create_vserial(t, g)
       \/ \E g \in Guests : \/ NextStage(g)
                            \/ \E base \in Bases, val \in PortValues : guest_out(g, base, val)
                            \/ delete_vprinter(g) \/ delete_vserial(g)

OSpec == OInit /\ [][ONext]_ovars

-----------------------------------------------------------------------------
(* Every handler of a machine leads to a device that the machine has, at a    *)
(* port of its own, so that no access goes to a device that is gone; and the  *)
(* program reads at every data port what it last wrote through the handler    *)
(* that covers it, though devices of both kinds come and go and may be given  *)
(* the same ports (add_io_handler, remove_io_handler, vprinter_in,            *)
(* vprinter_out, delete_vprinter and their twins in vserial.c).               *)
PortsAnswer == clash_o = "none" => \A g \in Guests :
    /\ \A n \in DOMAIN local_io[g] :
          LET h == local_io[g][n] IN ports[g][h.kind].base_addr[h.i] = h.low
    /\ stage[g] = "running" => \A base \in Bases :
          LET n == get_io_handler(g, base)
              k == local_io[g][n].kind
          IN n # 0 => device_in(g, k, base) = written[g][k][base] \/ ports[g][k].base_addr[1] = 0
=============================================================================
