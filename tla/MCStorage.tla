------------------------------ MODULE MCStorage ------------------------------
(* The kernel's memory and what it loads, names, mounts, spools and reads   *)
(* from floppy disks: parts that share no state in their models, checked    *)
(* one at a time. Each behaviour runs one of them.                          *)
EXTENDS Mounts

CONSTANTS
    Frames, Boundary, Wrap, Base, Top, Extended, Half, MaxBreak, BLOCKLOG,
    LIST, INFO, HEAPSIZE, FINAL_FREE_BLOCKS, CoreLimit, Sizes, MaxLive, Users,
    Wanted, Slots, MaxRequests, MaxFaults, Inums, Titles, MaxNesting,
    MaxCommands, MaxFailures, Printers, Numbers, Stamps, MaxJobs,
    MaxLosses, Askers, Drives, SectorsPerTrack, HeadsPerCylinder,
    FloppyBlocks, FloppyAsks, FloppyRetries, MaxAsked, MaxDiskFaults

VARIABLES
    part,
    free, used_pages, available_pages, brk, heap_pages, dma, vm, fault,
    leaked, clash,
    heap, live,
    open_count, holds, stack, current, owner_task, lost, requests, faults,
    clash_m,
    entries, node, cwd, cmd, tmp_dir_blk, nesting, budget, clash_n,
    spool_list, handle, files, work, stock, chances, clash_s,
    request, current_fd, fd_reqs, fd_intr, flag, recalibrate, ctx, fdc,
    track_buf, motor, in, asked, disk_faults, clash_y

P == INSTANCE Pages WITH heap <- heap_pages
H == INSTANCE Heap
M == INSTANCE Modules
N == INSTANCE Directories
S == INSTANCE Spooler
Y == INSTANCE Floppy WITH current <- current_fd, faults <- disk_faults

pages_vars == <<free, used_pages, available_pages, brk, heap_pages, dma, vm, fault,
      leaked, clash>>
heap_vars == <<heap, live>>
modules_vars == <<open_count, holds, stack, current, owner_task, lost, requests, faults,
      clash_m>>
directories_vars == <<entries, node, cwd, cmd, tmp_dir_blk, nesting, budget, clash_n>>
spooler_vars == <<spool_list, handle, files, work, stock, chances, clash_s>>
floppy_vars == <<request, current_fd, fd_reqs, fd_intr, flag, recalibrate, ctx, fdc,
      track_buf, motor, in, asked, disk_faults, clash_y>>

\* The variables of a part that does not run hold nothing.
pages_off ==
    /\ free = 0 /\ used_pages = 0 /\ available_pages = 0 /\ brk = 0
    /\ heap_pages = 0 /\ dma = 0 /\ vm = 0 /\ fault = 0 /\ leaked = 0
    /\ clash = 0
heap_off ==
    /\ heap = 0 /\ live = 0
modules_off ==
    /\ open_count = 0 /\ holds = 0 /\ stack = 0 /\ current = 0
    /\ owner_task = 0 /\ lost = 0 /\ requests = 0 /\ faults = 0 /\ clash_m = 0
directories_off ==
    /\ entries = 0 /\ node = 0 /\ cwd = 0 /\ cmd = 0 /\ tmp_dir_blk = 0
    /\ nesting = 0 /\ budget = 0 /\ clash_n = 0
mounts_off ==
    /\ FInit /\ \A n \in Disks : disk[n] # "raw"
spooler_off ==
    /\ spool_list = 0 /\ handle = 0 /\ files = 0 /\ work = 0 /\ stock = 0
    /\ chances = 0 /\ clash_s = 0
floppy_off ==
    /\ request = 0 /\ current_fd = 0 /\ fd_reqs = 0 /\ fd_intr = 0 /\ flag = 0
    /\ recalibrate = 0 /\ ctx = 0 /\ fdc = 0 /\ track_buf = 0 /\ motor = 0
    /\ in = 0 /\ asked = 0 /\ disk_faults = 0 /\ clash_y = 0

vars == <<part, pages_vars, heap_vars, modules_vars, directories_vars,
          fvars, spooler_vars, floppy_vars>>

\* The part that runs; the others stay as they start.
Init ==
    /\ part \in {"pages", "heap", "modules", "directories", "mounts",
                "spooler", "floppy"}
    /\ IF part = "pages" THEN P!Init ELSE pages_off
    /\ IF part = "heap" THEN H!HInit ELSE heap_off
    /\ IF part = "modules" THEN M!MInit ELSE modules_off
    /\ IF part = "directories" THEN N!NInit ELSE directories_off
    /\ IF part = "mounts" THEN FInit ELSE mounts_off
    /\ IF part = "spooler" THEN S!SInit ELSE spooler_off
    /\ IF part = "floppy" THEN Y!YInit ELSE floppy_off

Next ==
    /\ UNCHANGED part
    /\ \/ part = "pages" /\ P!Next
       \/ part = "heap" /\ H!HNext
       \/ part = "modules" /\ M!MNext
       \/ part = "directories" /\ N!NNext
       \/ part = "mounts" /\ FNext
       \/ part = "spooler" /\ S!SNext
       \/ part = "floppy" /\ Y!YNext
    /\ part # "pages" => UNCHANGED pages_vars
    /\ part # "heap" => UNCHANGED heap_vars
    /\ part # "modules" => UNCHANGED modules_vars
    /\ part # "directories" => UNCHANGED directories_vars
    /\ part # "mounts" => UNCHANGED fvars
    /\ part # "spooler" => UNCHANGED spooler_vars
    /\ part # "floppy" => UNCHANGED floppy_vars

Spec == Init /\ [][Next]_vars

MCFrames == 0..4

\* A read over two tracks, one over the end of the disk, one of the other drive,
\* a write and a seek.
MCFloppyAsks ==
    {[cmd |-> "read", dev |-> 0, block |-> 1, len |-> 4], [cmd |-> "read", dev |-> 0, block |-> 6, len |-> 3],
     [cmd |-> "read", dev |-> 1, block |-> 2, len |-> 1], [cmd |-> "write", dev |-> 0, block |-> 0, len |-> 1],
     [cmd |-> "seek", dev |-> 0, block |-> 1, len |-> 0]}

-----------------------------------------------------------------------------
\* Every page frame has one owner and is counted (Pages!PagesOwned), with the
\* A20 gate closed addresses wrap round at 1 MB (Pages!WrapsRound), and malloc()
\* hands out blocks that do not overlap and merges the free ones
\* (Heap!HeapInOrder).
MemoryOwned ==
    /\ part = "pages" => P!PagesOwned /\ P!WrapsRound
    /\ part = "heap" => H!HeapInOrder

\* A module has as many users as it counts, and is loaded once
\* (Modules!CountsAreTrue, Modules!LoadedOnce).
ModulesCounted == part = "modules" => M!CountsAreTrue /\ M!LoadedOnce

\* Links, users and directory entries agree (Directories!NamesResolve), and every
\* print job has its file (Spooler!JobsHaveFiles).
NamesResolve ==
    /\ part = "directories" => N!NamesResolve
    /\ part = "spooler" => S!JobsHaveFiles

\* Every request to the floppy disk is in one place, has someone to answer it, and
\* its answer is what was read (Floppy!RequestsServed).
RequestsServed == part = "floppy" => Y!RequestsServed
=============================================================================
