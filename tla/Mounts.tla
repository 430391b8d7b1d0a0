-------------------------------- MODULE Mounts --------------------------------
(***************************************************************************)
(* The devices of the file system (fs/dev.c) and the commands that add and *)
(* remove them: mount, umount and mkfs for partitions of a hard disk       *)
(* (fs/fs_cmds.c, hd/generic.c), addrd and delrd for RAM disks             *)
(* (ramdisk.c), and the floppy drive (fd-fs.c), whose test_media() says    *)
(* that there is never a disk.  A device is kept while it is in the list,  *)
(* its root is in memory, an inode of it is open or a task has a pointer   *)
(* to it; get_device() and the rest of a command are not atomic.           *)
(*                                                                         *)
(* The model stops, with clash_f, where the code                           *)
(*   "twice"  puts a second device for the same disk into the list;        *)
(*   "super"  takes the boot block that another task has read into tmp_bb, *)
(*            or the one left from an earlier device after a read error;   *)
(*   "removed" takes a device out of the list that another task has taken  *)
(*            out since it was found, and counts the list off once more;   *)
(*   "gone"   removes a device whose boot block add_device() still reads;  *)
(*   "mkfs"   goes on making a file system on a disk mounted meanwhile;    *)
(*   "ram"    uses the memory of a RAM disk that delrd has freed.          *)
(***************************************************************************)
EXTENDS Integers, Sequences, SequencesExt, FiniteSets

CONSTANTS
    Callers,            \* tasks
    Structs,            \* device_pool
    Partitions, Ramdisks, Floppies,
    MaxMounts,          \* commands
    MaxErrors           \* of reads and allocations

\* The tasks are finitely many, and NoDev, the null pointer, is no structure.
ASSUME MountsAssumption == IsFiniteSet(Callers) /\ "none" \notin Structs

VARIABLES
    dev,                \* the structures, see Blank
    device_list,
    tmp_bb,             \* the disk whose boot block is in tmp_bb
    disk,               \* of each disk: "none", "raw", "good"; RAM disks also "freed"
    call,               \* what each task does, see Resting
    opened,             \* inodes that are open: a sequence of structures
    left_f,             \* [mounts, errors]
    clash_f

fvars == <<dev, device_list, tmp_bb, disk, call, opened, left_f, clash_f>>

Disks == Partitions \cup Ramdisks \cup Floppies
NoDev == "none"
Blank == [state |-> "free", name |-> NoDev, use_count |-> 0, invalid |-> TRUE, root |-> FALSE]
Resting == [op |-> "rest", pc |-> "rest", name |-> NoDev, dev |-> NoDev, hold |-> 0]

Done(t) == call' = [call EXCEPT ![t] = Resting]
On(t, pc) == clash_f = "none" /\ call[t].pc = pc
To(t, pc, d, h) == call' = [call EXCEPT ![t].pc = pc, ![t].dev = d, ![t].hold = h]
Stop(why) == clash_f' = why /\ UNCHANGED <<dev, device_list, tmp_bb, disk, call, opened, left_f>>

\* A read or an allocation that goes wrong.
Error == left_f.errors > 0 /\ left_f' = [left_f EXCEPT !.errors = @ - 1]
NoError == UNCHANGED left_f

-----------------------------------------------------------------------------
\* get_device(): the first of that name.
Find(n) ==
    LET is(d) == dev[d].name = n
        i == SelectInSeq(device_list, is)
    IN  IF i = 0 THEN NoDev ELSE device_list[i]

\* Mutant: the device is freed although somebody uses it.
release_device_soon(ds, d) ==
    IF ds[d].use_count <= 2 THEN [ds EXCEPT ![d] = Blank] ELSE [ds EXCEPT ![d].use_count = @ - 1]

\* release_device(), free_device(): the last reference.
release_device(ds, d) ==
    IF ds[d].use_count <= 1 THEN [ds EXCEPT ![d] = Blank] ELSE [ds EXCEPT ![d].use_count = @ - 1]

get(ds, d) == [ds EXCEPT ![d].use_count = @ + 1]

Pool == {d \in Structs : dev[d].state = "free"}
alloc_device(n) == LET d == CHOOSE x \in Pool : TRUE IN <<d, [dev EXCEPT ![d] = [Blank EXCEPT !.state = "taken", !.name = n]]>>

-----------------------------------------------------------------------------
begin_call(t, op, n) ==
    /\ clash_f = "none" /\ call[t] = Resting /\ left_f.mounts > 0
    /\ call' = [call EXCEPT ![t] = [Resting EXCEPT !.op = op, !.name = n,
                    !.pc = CASE op \in {"mount", "mkfs"} -> "check" [] op = "addrd" -> "ram" [] op = "floppy" -> "add" [] OTHER -> op]]
    /\ left_f' = [left_f EXCEPT !.mounts = @ - 1]
    /\ UNCHANGED <<dev, device_list, tmp_bb, disk, opened, clash_f>>

\* create_ramdisk(): the memory, and then mkfs.  The names are never used again.
create_ramdisk(t) ==
    LET n == call[t].name
    IN  /\ On(t, "ram") /\ NoError
        /\ IF disk[n] # "none" THEN Done(t) /\ UNCHANGED disk
           ELSE disk' = [disk EXCEPT ![n] = "raw"] /\ To(t, "check", NoDev, 0)
        /\ UNCHANGED <<dev, device_list, tmp_bb, opened, clash_f>>

\* hd_mount_partition(), hd_mkfs_partition(), ramdisk_mkfs_disk(): the disk must
\* not be mounted.
check_mounted(t) ==
    /\ On(t, "check") /\ NoError
    /\ IF Find(call[t].name) # NoDev THEN Done(t)
       ELSE To(t, IF call[t].op = "mount" THEN "add" ELSE "mkfs", NoDev, 0)
    /\ UNCHANGED <<dev, device_list, tmp_bb, disk, opened, clash_f>>

\* mkfs() writes to a disk with a structure of its own, which nobody frees.
begin_mkfs(t) ==
    LET a == alloc_device(call[t].name)
    IN  /\ On(t, "mkfs") /\ NoError
        /\ IF Pool = {} THEN Done(t) /\ UNCHANGED dev
           ELSE dev' = a[2] /\ To(t, "format", a[1], 0)
        /\ UNCHANGED <<device_list, tmp_bb, disk, opened, clash_f>>

mkfs(t) ==
    LET n == call[t].name
    IN  /\ On(t, "format")
        /\ IF Find(n) # NoDev THEN Stop("mkfs")
           ELSE /\ \/ /\ NoError /\ disk' = [disk EXCEPT ![n] = "good"]
                      /\ IF call[t].op = "addrd" THEN To(t, "add", NoDev, 0) ELSE Done(t)
                   \/ Error /\ Done(t) /\ UNCHANGED disk
                /\ UNCHANGED <<dev, device_list, tmp_bb, opened, clash_f>>

\* Mutant: a structure that is put into the list counts no reference for it.
added_uncounted(x) == [x EXCEPT !.state = "listed", !.use_count = 0]

added(x) == [x EXCEPT !.state = "listed", !.use_count = 1]

\* alloc_device() and the first half of add_device()
add_device(t) ==
    LET n == call[t].name
        a == alloc_device(n)
    IN  /\ On(t, "add") /\ NoError
        /\ IF Pool = {} THEN Done(t) /\ UNCHANGED <<dev, device_list, clash_f>>
           ELSE /\ clash_f' = IF Find(n) # NoDev THEN "twice" ELSE clash_f
                /\ dev' = [a[2] EXCEPT ![a[1]] = added(@)]
                /\ device_list' = <<a[1]>> \o device_list
                /\ To(t, "meta", a[1], 0)
        /\ UNCHANGED <<tmp_bb, disk, opened>>

Freed(n) == disk[n] = "freed"

\* read_meta_data(): the boot block is read.  A read error is a positive number,
\* which is taken for success.
read_meta(t) ==
    LET c == call[t]
    IN  /\ On(t, "meta")
        /\ IF Freed(c.name) THEN Stop("ram")
           ELSE /\ \/ NoError /\ tmp_bb' = c.name
                   \/ Error /\ UNCHANGED tmp_bb
                /\ To(t, "magic", c.dev, 0)
                /\ UNCHANGED <<dev, device_list, disk, opened, clash_f>>

\* The magic number, the copy of the super block and the root.  A device that
\* says that it has no disk is made invalid by make_inode().
validate_device(t) ==
    LET c == call[t]
        d == c.dev
        rooted == [dev EXCEPT ![d].invalid = FALSE, ![d].root = TRUE, ![d].use_count = @ + 1]
    IN  /\ On(t, "magic") /\ UNCHANGED <<device_list, tmp_bb, disk, opened>>
        /\ IF tmp_bb # c.name
           THEN clash_f' = "super" /\ UNCHANGED <<dev, call, left_f>>
           ELSE /\ Done(t) /\ UNCHANGED clash_f
                /\ IF disk[c.name] # "good" \/ c.name \in Floppies THEN UNCHANGED <<dev, left_f>>
                   ELSE \/ NoError /\ dev' = rooted
                        \/ Error /\ dev' = [dev EXCEPT ![d].invalid = FALSE]

-----------------------------------------------------------------------------
\* find_parent() of a name with a device: the pointer is kept while an inode is
\* opened.
open_get(t) ==
    LET d == Find(call[t].name)
    IN  /\ On(t, "open") /\ NoError
        /\ IF d = NoDev \/ ~dev[d].root THEN Done(t) /\ UNCHANGED dev
           ELSE dev' = get(dev, d) /\ To(t, "inode", d, 1)
        /\ UNCHANGED <<device_list, tmp_bb, disk, opened, clash_f>>

\* make_inode(), release_device()
open_inode(t) ==
    LET c == call[t]
    IN  /\ On(t, "inode")
        /\ IF Freed(c.name) THEN Stop("ram")
           ELSE /\ \/ /\ NoError /\ opened' = Append(opened, c.dev)
                      /\ dev' = release_device(get(dev, c.dev), c.dev)
                   \/ Error /\ dev' = release_device(dev, c.dev) /\ UNCHANGED opened
                /\ Done(t)
                /\ UNCHANGED <<device_list, tmp_bb, disk, clash_f>>

\* close_inode() of the last file writes the inode.
close_inode(t) ==
    /\ clash_f = "none" /\ opened # <<>> /\ call[t] = Resting
    /\ IF Freed(dev[Head(opened)].name) THEN Stop("ram")
       ELSE /\ dev' = release_device(dev, Head(opened)) /\ opened' = Tail(opened)
            /\ UNCHANGED <<device_list, tmp_bb, disk, call, left_f, clash_f>>

\* cmd_umount(), and delete_ramdisk() as far as it is the same: get_device().
get_device(t) ==
    LET d == Find(call[t].name)
    IN  /\ \E op \in {"umount", "delrd"} : On(t, op)
        /\ NoError
        /\ IF d = NoDev THEN Done(t) /\ UNCHANGED dev
           ELSE dev' = get(dev, d) /\ To(t, "remove", d, 1)
        /\ UNCHANGED <<device_list, tmp_bb, disk, opened, clash_f>>

\* The memory of the disk is freed, whoever still uses the device.
delete_ramdisk(n) == disk' = [disk EXCEPT ![n] = "freed"]

\* remove_device() takes the device out of the list if it is there, and releases
\* it in any case; the command releases the pointer that it got.
remove_device(t) ==
    LET d == call[t].dev
        off == [dev EXCEPT ![d].state = "off"]
    IN  /\ On(t, "remove") /\ NoError
        /\ device_list' = RemoveFirst(device_list, d)
        /\ IF dev[d].state = "off"
           THEN clash_f' = "removed" /\ UNCHANGED <<dev, disk, call>>
           ELSE IF \E u \in Callers : call[u].dev = d /\ call[u].pc \in {"meta", "magic"}
           THEN clash_f' = "gone" /\ UNCHANGED <<dev, disk, call>>
           ELSE /\ dev' = release_device(release_device(off, d), d)
                /\ IF call[t].op = "umount" THEN Done(t) /\ UNCHANGED disk
                   ELSE delete_ramdisk(call[t].name) /\ Done(t)
                /\ UNCHANGED clash_f
        /\ UNCHANGED <<tmp_bb, opened>>

-----------------------------------------------------------------------------
FInit ==
    /\ dev = [d \in Structs |-> Blank] /\ device_list = <<>>
    /\ tmp_bb = NoDev /\ opened = <<>>
    /\ disk \in [Disks -> {"none", "raw", "good"}]
    /\ \A n \in Disks : disk[n] = "none" <=> n \in Ramdisks
    /\ call = [t \in Callers |-> Resting]
    /\ left_f = [mounts |-> MaxMounts, errors |-> MaxErrors]
    /\ clash_f = "none"

FNext ==
    \E t \in Callers :
        \/ \E n \in Partitions, op \in {"mount", "mkfs"} : begin_call(t, op, n)
        \/ \E n \in Ramdisks, op \in {"addrd", "delrd"} : begin_call(t, op, n)
        \/ \E n \in Floppies : begin_call(t, "floppy", n)
        \/ \E n \in Disks, op \in {"umount", "open"} : begin_call(t, op, n)
        \/ create_ramdisk(t) \/ check_mounted(t) \/ begin_mkfs(t) \/ mkfs(t) \/ add_device(t)
        \/ read_meta(t) \/ validate_device(t) \/ open_get(t) \/ open_inode(t) \/ close_inode(t)
        \/ get_device(t) \/ remove_device(t)

FSpec == FInit /\ [][FNext]_fvars

-----------------------------------------------------------------------------
\* A device counts the list, its root, the inodes that are open and the tasks
\* that have got it, and is in the pool just when there is none of these (but for
\* the structures that mkfs never frees, and those being mounted).  What is in
\* the list can be used: a name finds one device, and no device of the list has
\* been freed.
DevicesCounted ==
    clash_f = "none" =>
        /\ \A d \in Structs :
            LET refs == (IF d \in Range(device_list) THEN 1 ELSE 0) + (IF dev[d].root THEN 1 ELSE 0)
                        + Cardinality({i \in DOMAIN opened : opened[i] = d})
                        + Cardinality({t \in Callers : call[t].dev = d /\ call[t].hold = 1})
            IN  /\ dev[d].use_count = refs
                /\ dev[d].state \in {"free", "taken"} <=> refs = 0
                /\ dev[d].state = "listed" <=> d \in Range(device_list)
        /\ \A i, j \in DOMAIN device_list : dev[device_list[i]].name = dev[device_list[j]].name => i = j
=============================================================================
