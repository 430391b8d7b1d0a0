------------------------------- MODULE Machines -------------------------------
(***************************************************************************)
(* How virtual machines come and go: the commands vminit, vmvxd and        *)
(* vmlaunch of several shells (drivers/virtual/vm/glue.c), the functions   *)
(* that virtual devices register to be called when their machine is killed *)
(* and kill_vm() (vmach.c), which another shell may call at any time.      *)
(*                                                                         *)
(* The model stops, with clash_v, where the code                           *)
(*   "dangling" uses a machine in init_vm_list that has been killed;       *)
(*   "twice"    goes on killing a machine after a handler has slept in the *)
(*              file system, and another shell has killed it meanwhile, or *)
(*              has freed the structure that the next handler is in;       *)
(*   "late"     gives a device to a machine that is being killed: its      *)
(*              handler is in front of the ones still to be called.        *)
(***************************************************************************)
EXTENDS Integers, Sequences, SequencesExt, FiniteSets

CONSTANTS
    Shells, Vms,
    Devices,        \* modules of virtual devices
    Sleepy,         \* those that close a file when they are deleted
    MaxDevices      \* devices that a machine is given

VARIABLES
    init_vm_list,   \* the newest first: [sh, vm]
    machine,        \* of each machine: state, slots, kill_list, devices created
    alive,          \* the structures of devices: <<vm, device, number>>
    killer,         \* the kill_vm() that a shell is in
    busy,           \* the shell that runs with scheduling forbidden
    clash_v

vvars == <<init_vm_list, machine, alive, killer, busy, clash_v>>

NoShell == "none"
NoKill == [vm |-> NoShell, todo |-> <<>>]
NoMachine == [state |-> "none", slots |-> [d \in Devices |-> 0], kill_list |-> <<>>]
Created(v) == Len(machine[v].kill_list)

MayRun(sh) == busy \in {NoShell, sh}

-----------------------------------------------------------------------------
\* cmd_vminit(), when create_vm() succeeds.
cmd_vminit(sh, v) ==
    /\ MayRun(sh) /\ killer[sh] = NoKill /\ machine[v].state = "none"
    /\ machine' = [machine EXCEPT ![v].state = "init"]
    /\ init_vm_list' = <<[sh |-> sh, vm |-> v]>> \o init_vm_list
    /\ UNCHANGED <<alive, killer, busy, clash_v>>

\* find_init_vm(): the newest machine of the shell; 0 if it has none.
find_init_vm(sh) == LET mine(e) == e.sh = sh IN SelectInSeq(init_vm_list, mine)

unlink_init_vm(i) == RemoveAt(init_vm_list, i)

\* The machine of the entry has been killed and freed.
dangling ==
    /\ clash_v' = "dangling"
    /\ UNCHANGED <<machine, alive, killer, busy>>

add_vm_kill_handler(m, d) == [m EXCEPT !.kill_list = <<d>> \o @]

\* cmd_vmvxd(), with the functions that create devices: one of a kind that the
\* machine already has takes the other's slot.  open_module() may sleep after
\* find_init_vm(); a kill_vm() in that sleep is met as one before the command is.
cmd_vmvxd(sh, d) ==
    LET i == find_init_vm(sh)
        v == init_vm_list[i].vm
        n == Created(v) + 1
    IN  /\ MayRun(sh) /\ killer[sh] = NoKill /\ i # 0
        /\ UNCHANGED init_vm_list
        /\ IF machine[v].state = "freed" THEN dangling
           ELSE /\ Created(v) < MaxDevices
                /\ machine' = [machine EXCEPT ![v] = [add_vm_kill_handler(@, d) EXCEPT !.slots[d] = n]]
                /\ alive' = alive \cup {<<v, d, n>>}
                /\ clash_v' = IF machine[v].state = "killed" THEN "late" ELSE clash_v
                /\ UNCHANGED <<killer, busy>>

\* cmd_vmlaunch()
cmd_vmlaunch(sh) ==
    LET i == find_init_vm(sh)
        v == init_vm_list[i].vm
    IN  /\ MayRun(sh) /\ killer[sh] = NoKill /\ i # 0
        /\ init_vm_list' = unlink_init_vm(i)
        /\ IF machine[v].state = "freed" THEN dangling
           ELSE /\ machine' = [machine EXCEPT ![v].state = IF @ = "killed" THEN @ ELSE "running"]
                /\ UNCHANGED <<alive, killer, busy, clash_v>>

-----------------------------------------------------------------------------
\* kill_vm(): the task is frozen, and the handlers are called from the newest.
kill_vm(sh, v) ==
    /\ MayRun(sh) /\ killer[sh] = NoKill /\ machine[v].state \in {"init", "running", "killed"}
    /\ machine' = [machine EXCEPT ![v].state = "killed"]
    /\ killer' = [killer EXCEPT ![sh] = [vm |-> v, todo |-> machine[v].kill_list]]
    /\ busy' = sh
    /\ UNCHANGED <<init_vm_list, alive, clash_v>>

\* Mutant: the slot is not looked at, or not cleared.
delete_uncleared(m, d) == m

\* The handler of a device clears its slot before it sleeps.
delete_vxd(m, d) == [m EXCEPT !.slots[d] = 0]

\* A handler is in the structure of its device: the last of those to be called is
\* that of the first device.
Embedded(k) == <<k.vm, Head(k.todo), Len(k.todo)>>

\* The next handler.  It finds its structure through the slot, and does nothing
\* if that is empty; it may sleep, and then other shells run.
kill_handler(sh) ==
    LET k == killer[sh]
        v == k.vm
        d == Head(k.todo)
    IN  /\ MayRun(sh) /\ k.todo # <<>>
        /\ IF machine[v].state = "freed" \/ Embedded(k) \notin alive
           THEN clash_v' = "twice" /\ UNCHANGED <<machine, alive, killer, busy>>
           ELSE /\ alive' = alive \ {<<v, d, machine[v].slots[d]>>}
                /\ machine' = [machine EXCEPT ![v] = delete_vxd(@, d)]
                /\ killer' = [killer EXCEPT ![sh].todo = Tail(@)]
                /\ busy' = IF d \in Sleepy /\ machine[v].slots[d] # 0 THEN NoShell ELSE sh
                /\ UNCHANGED clash_v
        /\ UNCHANGED init_vm_list

\* The machine's tty, its task and the machine itself.
kill_end(sh) ==
    LET k == killer[sh]
    IN  /\ MayRun(sh) /\ k # NoKill /\ k.todo = <<>>
        /\ clash_v' = IF machine[k.vm].state = "freed" THEN "twice" ELSE clash_v
        /\ machine' = [machine EXCEPT ![k.vm].state = "freed"]
        /\ killer' = [killer EXCEPT ![sh] = NoKill] /\ busy' = NoShell
        /\ UNCHANGED <<init_vm_list, alive>>

-----------------------------------------------------------------------------
VInit ==
    /\ init_vm_list = <<>> /\ machine = [v \in Vms |-> NoMachine] /\ alive = {}
    /\ killer = [sh \in Shells |-> NoKill] /\ busy = NoShell /\ clash_v = "none"

VNext ==
    /\ clash_v = "none"
    /\ \E sh \in Shells :
        \/ cmd_vmlaunch(sh) \/ kill_handler(sh) \/ kill_end(sh)
        \/ \E v \in Vms : cmd_vminit(sh, v) \/ kill_vm(sh, v)
        \/ \E d \in Devices : cmd_vmvxd(sh, d)

VSpec == VInit /\ [][VNext]_vvars

-----------------------------------------------------------------------------
\* The structure of a device lives as long as its machine, unless another of its
\* kind has taken its slot: then nobody frees it.  No slot points to a structure
\* that has been freed, a machine that runs is no more in init_vm_list, and
\* every machine that waits for vmlaunch is there once.
DevicesLive ==
    clash_v = "none" =>
        /\ \A v \in Vms, d \in Devices :
            LET last == {x \in alive : x[1] = v /\ x[2] = d /\ \A y \in alive : y[1] = v /\ y[2] = d => y[3] <= x[3]}
            IN  /\ machine[v].slots[d] # 0 => <<v, d, machine[v].slots[d]>> \in last
                /\ machine[v].state = "freed" => machine[v].slots[d] = 0
                /\ \A x \in alive : x[1] = v /\ x[2] = d => machine[v].slots[d] = x[3] \/ \E i, j \in DOMAIN machine[v].kill_list :
                        i # j /\ machine[v].kill_list[i] = d /\ machine[v].kill_list[j] = d
        /\ \A v \in Vms : Cardinality({i \in DOMAIN init_vm_list : init_vm_list[i].vm = v})
                \in IF machine[v].state = "init" THEN {1} ELSE IF machine[v].state \in {"none", "running"} THEN {0} ELSE {0, 1}
=============================================================================
