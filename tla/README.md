# A TLA+ model of VMM386

VMM386 is a small multitasking kernel for one 80386 processor that runs DOS
programs in virtual machines. This directory models the parts of it that
schedule, share and remember: the scheduler, semaphores, interrupts, timers,
pages and the heap, modules, the buffer and inode caches, files, directories and
devices, the disk drivers, the log and the spooler, the console, and virtual
machines with their interrupts and devices. Paths below are relative to `src/src/src/`.

## 1. Inventory

Everything runs on one processor. What can interleave is (a) interrupt handlers,
which come between any two instructions unless interrupts are masked
(`cli` ... `load_flags`), and (b) tasks, which are switched by an interrupt or by
`schedule()` unless the current task has called `forbid()`, and which give the
processor away when they sleep. `forbid()` does not stop a task that sleeps.

| Component | State | Operations | Talks to |
|---|---|---|---|
| Tasks and scheduler (`kernel/tasks`) | `TaskArray`, the lists of running, suspended and zombie tasks, `current_task`, `need_resched`, `TaskCount`, per task flags, priority, time left, `forbid_count` | `add_task`, `kill_task`, `suspend_task`, `wake_task`, `schedule`, `forbid`/`permit`, freeze and thaw | called by everybody; by the timer interrupt and the interrupt return path |
| Semaphores (`vmm/tasks.h`) | `blocked`, the list of waiters | `wait`, `signal`, `wake_up_task_list` | scheduler; used by drivers, timers, log |
| Interrupt lines (`kernel/misc/interrupt.c`) | handlers, mask registers, the ring of queued interrupts | `alloc_irq`, `alloc_queued_irq`, their inverses, the stubs, the dispatcher task | drivers, scheduler |
| Buffer cache (`fs/buffer.c`) | hash table of buffers, free list, per buffer use count, dirty and locked flags | `bread`, `bwrite`, `bdirty`, `brelse` | file system above, block drivers below |
| Inodes in memory (`fs/inode.c`) | open and free lists, use counts, dirty and locked flags | `make_inode`, `dup_inode`, `write_inode`, `close_inode` | directories and files above, buffer cache below |
| File system on disk (`fs/dir.c`, `file.c`, `bitmap.c`, `mkfs.c`, rest of `inode.c`) | maps of free blocks and inodes, directories, files and their block lists | open, create, remove, link, read, write, truncate | inodes and buffers |
| Devices (`fs/dev.c`) | list and pool of devices, use counts, valid or not | add, get, release, remove, validate, invalidate | drivers, inodes, buffers |
| Hard disk (`drivers/physical/hd`) | queue of requests, current request, expected interrupt, pending reset and recalibrations | read and write sectors, retry, recalibrate, reset; partitions | buffer cache; interrupt 14 |
| Floppy, RAM disk (`drivers/physical/fd`, `ramdisk`) | the same with motors and timers; an array | read and write | buffer cache |
| Keyboard, console, line editor (`drivers/physical/kbd`, `tty`) | decoder state, focus, ring of characters, screens, the edited line | keys in, characters and pictures out | queued interrupt 1, shell, virtual keyboard |
| Virtual machines (`drivers/virtual/vm`) | register frame, port and memory handlers, pending virtual interrupts | create, kill, arpl and fault handling, simulated instructions | all virtual devices |
| Virtual devices (`drivers/virtual/v*`) | the registers of a PIC, PIT, CMOS, DMA, IDE, keyboard, CRT, printer, serial port | port in and out | virtual machine, physical drivers |
| Pages, heap (`kernel/mm`, `kernel/alloc`) | list of free pages, page tables | allocate, free, map | everybody |
| Time (`kernel/misc/time.c`) | tick count, list of timer requests, the date | add and remove timers, the tick | drivers, sleepers |
| Modules, DMA, log, spooler | lists and counters | open, close, load, expunge; claim a channel; append to the log | drivers, shell |
| Shell, debugger, printf, traps, start-up, tools | none that others use | text | everything |

Hard behaviours and what correctness means:

* **Preemption between two statements.** Lists and flags are changed in separate
  statements, in separate masked sections, or with no protection at all. Correct
  means: a task is on the list its flags say; a buffer or an inode has as many
  users as its count; an interrupt is in the ring as often as the count says.
* **Sleeping in the middle.** `bread()`, `make_inode()` and everything that calls
  them sleep while the disk works; what was tested before may not hold after.
  Correct means: the caches behave like the disk would, nothing that was written
  is lost, nothing that is in use is freed.
* **Waking.** A sleeper must be woken by whoever has the thing it waits for.
* **Failure and retry.** The disk fails at any step; a request must be tried
  again from where it was, and must end. A buffer may not be available.
* **Limits.** The ring, the pool of buffers, the pool of inodes, the task table,
  the number of retries.

`PROJECT.json` lists each place where one of these bites under "hazards".

## 2. Modules

| Module | Models | Notes |
|---|---|---|
| `Sched` | `kernel/tasks/sched.c`, `task.c`, `vmm/tasks.h`, tick and interrupt return | one record `k` holds what masked sections share; kernel functions are operators from `k` to `k`, actions compose them |
| `Semaphore` | `wait()` and `signal()` on one semaphore | one action per masked section |
| `IrqQueue`, `IrqFifo` | `kernel/misc/interrupt.c` | `IrqFifo` is what the ring promises; `IrqQueue` is shown to implement it |
| `BufferCache`, `BlockStore` | `fs/buffer.c` | `BlockStore` is a store of blocks with readers and writers; `BufferCache` is shown to implement it |
| `InodeCache` | `fs/inode.c` and the parts of `fs/dir.c`, `fs/file.c` that use inodes | inodes on disk change in one step, which is what `BlockStore` allows |
| `FileData`, `FlatFiles` | `fs/file.c`, the block pointers of `fs/inode.c`, the bitmap of blocks (`fs/bitmap.c`), `fs/mkfs.c` | `FlatFiles` is a file as a sequence of words; `FileData` is shown to implement it; one step per pointer of the walk to a block and per block that a truncation frees |
| `IdeDisk` | `drivers/physical/hd/ide.c`, `vmm/blkdev.h` | tasks and the interrupt handler run the same `do_request()`; the drive is external |
| `VirtualIrq`, `PcInterrupts` | `drivers/virtual/vpic/vpic.c`, the instructions about interrupts in `drivers/virtual/vm/fault.c`, the return paths in `kernel/traps/entry.S` and `kernel/misc/irq_entry.S` | `PcInterrupts` is what a program on a PC sees of interrupts; `VirtualIrq` is shown to implement it; the program is any sequence of instructions |
| `Pages` | `kernel/mm`, the page tables of `drivers/virtual/vm` | free list, the break, DMA blocks, faults of a machine and of interrupts, the A20 gate |
| `Heap` | `kernel/alloc` | `malloc`, `free`, `realloc`; the list of clusters, the lists of fragments, the table that moves |
| `Modules` | `kernel/modules` and the `*_init`, `*_expunge` of every module | who has opened what, also after an initialisation that fails half-way |
| `Timers` | `kernel/misc/time.c`, the timer of `vpit`, the clock request of `vcmos` | tick counter of finite width; requests renewed inside the interrupt; the steps of `wait()` in a sleep |
| `Dma` | `kernel/misc/dma.c`, `drivers/virtual/vdma` | one step per port write; real chips are external |
| `Syslog`, `Spooler` | `syslogd`, `spooler` | one step between two sleeps; the log's `wait()` and its senders' `signal()` step by step |
| `Directories` | `fs/dir.c`, `fs/fs_cmds.c` | each command is a list of steps between which it may sleep |
| `Mounts` | `fs/dev.c`, `hd/generic.c`, `ramdisk`, `fd-fs.c` | devices and their use counts while they are mounted, unmounted and made |
| `Floppy` | `drivers/physical/fd` | requests, motors, the timer and the phases of a command of the controller; the controller is external |
| `Console` | `kbd/kbd.c`, `kbd/cooked.c`, `tty/tty.c` | scan codes, shift keys and lights, focus, the ring and its reader |
| `LineEditor` | `tty/readline.c` | the line, mark, prefix argument, history, place on the screen |
| `Machines` | `drivers/virtual/vm/glue.c`, `vmach.c` | creation and destruction of machines by several shells |
| `VirtualPorts` | port handlers of `vmach.c`, `vprinter`, `vserial` | |
| `VirtualKeyboard`, `VirtualDisk`, `VirtualFloppy` | `vkbd`, `vide`, `vfloppy` and the BIOS calls in `vbios` that use them | the guest is any sequence of port accesses and BIOS calls |
| `Clocks` | `vcmos` and its BIOS calls; the date of `kernel/misc/time.c` | the time against seconds counted, the date against a reference calendar, day by day |
| `ListLemmas`, `SchedProofs`, `KernelProofs`, `BufferCacheProofs`, `InodeCacheProofs`, `FileDataProofs`, `IdeDiskProofs`, `VirtualIrqProofs` | | theorems; those about `Semaphore`, `IrqQueue`, `Timers`, `Mounts`, `Machines` and `Syslog` are in `KernelProofs` |
| `MC*` | | instances for TLC |

How state and actions correspond to the code: variables have the names of the
code's variables; an action has the name of the function, or of what a part of
it does, and its comment says which part; `PROJECT.json` "map" gives the lines.
One action is what nothing else can come between: a section with interrupts
masked (`Sched`, `Semaphore`, `IrqQueue`, `IdeDisk`, `Floppy`, `Timers`,
`VirtualIrq`), a function that runs inside `forbid()` and does not sleep
(`Heap`), or the code between two sleeps of one that does (`BufferCache`,
`InodeCache`, `Modules`, `Mounts`) or that touches one block of the cache
(`FileData`, `Directories`);
functions that run without protection are cut between the statements that touch
shared state. What a task is doing is kept in `call`, `pc` or `todo`.

### clash

Most components contain races in which the code acts on a structure that has
been freed, taken or started by somebody else, and the virtual devices sequences
of calls that they were not written for. What happens afterwards is arbitrary,
so the models have a variable `clash` (with a letter of its own in the newer
modules) that names the case, and stop there. The cases are actions like all
others: the guards of the other actions do not avoid them, TLC visits them, and
the properties say that *nothing else* goes wrong. They are:

* `Sched`: an operator's kill or freeze, or an `add_task()`, acts on an entry
  that has been killed, freed or claimed since it was looked up (`kill_task()`
  sleeps in the middle, `alloc_task()` leaves the entry looking free).
* `InodeCache`: `reused` (opened while it is being closed), `overwritten`
  (changed while it is being written), `dropped` (a failed read takes another
  inode off the list), `removed` (opened by a number whose file has been
  removed), `unwritten` (closed though writing it failed), and at the exits of
  `create_file()` `refreed` (the inode is freed a second time, when another task
  may have allocated it) and `returned` (the caller is given a file that has been
  closed).
* `FileData`: `twice` (two writers allocate a block for the same place),
  `uncleared` (a walk or a truncation enters an indirect block that is linked but
  not cleared: another task is about to clear it, or no buffer was found to do it
  in), `freed` (a file is truncated while another task is on its way in its blocks
  or truncates it too, or a task begins to read or write it meanwhile), `shrunk` (a
  writer stores a size that is no longer the largest), `negative` (a file is made
  shorter between the two looks that `read_file()` takes at its size).
* `IdeDisk`: `overtaken` (a task polls for a command that the handler has
  failed), `recursion` (recalibrating a drive that still waits for data).
* `VirtualIrq`: `unlinked` (the slave's request reaches the master on a line the
  master does not take for the slave's, as it does until a program writes ICW3),
  `undefined` (the master has the slave's request, but the slave's mask has
  hidden it), `ignored` (an end of interrupt is written to a controller that
  waits for a register to be read or for an initialisation word).
* The comment at the head of each of the other modules lists its cases. The ones
  that tasks reach by running at the wrong moment are in `Modules` (a module
  expunged while its file is being read), `Directories` (the shared directory
  block, an entry taken twice), `Mounts` (a device added or removed twice, the
  shared boot block), `Spooler` and `Syslog` (one handle for two callers),
  `Machines`, `VirtualFloppy` and `VirtualPorts` (a machine killed, or a device
  made by another shell, meanwhile), `Console` (a reader that sleeps on its key; a
  terminal that another one has replaced, or that is freed, before `tty_to_front()`
  has moved the keyboard),
  `Dma` (two drivers in one flip-flop), `Floppy` (one interrupt handler for two
  commands), `Clocks` (a time read in two halves) and `Timers` (a request whose
  owner is freed). `Timers` and `Syslog` also stop with `unwoken` when a `signal()`
  comes between the steps of `wait()` and is lost, as run `semaphore_lost` shows in
  general. The ones that one caller reaches alone are in `VirtualFloppy` (`leaked`: an
  image opened for a machine without a drive), `VirtualPorts` (`second`: a device in
  the slot of another), `LineEditor`
  (a history entry that trimming frees), `VirtualDisk` and `VirtualKeyboard` (what
  a guest may ask and the device does not do), `Pages` (no page left for a fault),
  `Timers` (a time beyond the width of the counter), `Floppy` (its handling of
  errors) and `Directories` (the current directory after a failed `rmdir`).

The ones that contradict a comment or the manual are listed under "findings".

## 3. Runs

| Run | States | Checks |
|---|---|---|
| `sched` | 541 k | types; a task is on the list its flags say; run queue ordered by priority; the current task is never reclaimed; `TasksAccounted`: tasks of one priority are ordered by the time they have left, a suspended current task leaves, the counts are the numbers of tasks; a switch goes to the right task and never takes the processor from a task inside `forbid()` |
| `semaphore` | small | one owner, hand-over without a gap, served in order |
| `semaphore_lost` | violation | a `signal()` inside `wait()` is lost |
| `irq_queue` | 203 k | `QueueSound`: ring and count agree, and a queued stub has a handler; implements `IrqFifo`; what is in the ring of an awake dispatcher is served |
| `buffers` | 169 k | `CacheSound`: one buffer per block, counts, lists, an unused buffer is clean, sleepers are woken; implements `BlockStore` |
| `inodes` | 492 k | `InodesSound`: lists and counts, sleepers are woken; an inode is freed only when unused; nothing that was written is lost |
| `files` | 198 k | every block has one owner, and none is lost but those that `delete_inode_data()` leaves behind, the indirect blocks and what it finds no buffer for; implements `FlatFiles` |
| `disk` | 117 k | `RequestsSound`: every request is in one place, and the queue never stands still; a good result means every sector was moved; every request ends |
| `virtual_irq` | 2.1 M | no interrupt of a virtual machine is late; implements `PcInterrupts` |
| `service` | 296 k | `Timers`: the list holds the armed requests in order, no sleep is short, every sleep ends; `Syslog`: messages are logged in order, none is left in the buffer; both up to a signal that is lost in `wait()` |
| `storage` | 909 k | `Pages`, `Heap`: every page and every block of the heap has one owner, and free ones are merged and counted; `Modules`: a module has as many users as it counts, whatever failed; `Directories`, `Spooler`: entries, links and users agree, every job has its file; `Mounts`: a device counts its mount, root, files and users; `Floppy`: every request is in one place, will be answered, and the answer is what was read |
| `machine` | 1.2 M | `Machines`, `VirtualPorts`, `VirtualFloppy`, `Dma`: the devices of a machine live as long as it does, and its ports, images and channels hold what was put there; `VirtualDisk`: a guest reads what was last written; `VirtualKeyboard`: no code is left without an interrupt, and the guest knows which shift keys are down; `Console`: the keyboard belongs to the terminal in front or is on its way there, a reader with a key is woken; `LineEditor`: the cursor is in the line, the history loses no line; `Clocks`: the clock and the date are right |

The last three runs hold several modules each. These modules share no variable,
so nothing is gained by letting them interleave: `part` says which of them a
behaviour runs, and the variables of the others do not change. A property of
such a run is the conjunction of those that the modules state.

`PermitPreempts` of `Sched`, `ErrorsReturnNull` of `BufferCache` and `HltEnds` of
`VirtualIrq` say what a comment or the manual promises and the code does not do.
No run checks them; with any of them added to the run of its module TLC finds
a counterexample, which the finding describes.

Bounds, and why they are enough:

* `sched`: four entries with different roles (idle, a shell that kills and
  freezes, a driver that forbids and wakes, a task that comes and goes), two
  priorities, a quantum of one tick: three tasks in one band and two bands, an
  entry that is freed and claimed again, and a zombie behind another.
  `TasksAccounted` and `SwitchIsFair` need three tasks at least.
* `semaphore`: four tasks: an owner, two waiters with an order, a newcomer.
* `irq_queue`: four lines (queued, contended, direct and removable, direct and
  permanent) and a ring of four places, which fills up and wraps round.
* `buffers`: two tasks, three blocks in two buckets, two buffers, so that one is
  evicted while the other is in use; and one buffer, so that none can be had.
  The number of buffers is a variable that never changes, to have both.
* `inodes`: two tasks, two inodes and two entries; references up to two per
  task; the count of links has three values, so that it wraps round as the
  code's does after 2^32.
* `files`: two tasks with one file or two, four calls, blocks of two words and
  one direct pointer, so that 0, 5 and 29 are in the direct, the double and the
  triple indirect blocks and calls of three words cross the borders between
  them; five free blocks, so that a write runs out of space at each level. A step
  that finds no buffer counts as a call: one alone can leave an indirect block
  uncleared, and another truncate the file that has it or walk into it. The
  blocks start with the word that one of the tasks writes, and read as stale.
  `FlatFiles` allows two things that nobody would expect: once one word of a hole is
  written, the rest of its block may be anything (`file.c:209`); and a truncation
  takes words away in any order, and leaves some when it fails.
* `disk`: two tasks, two disks, one and two sectors, a block beyond the end;
  three retries with a recalibration at the second and a reset at the third
  (16, 4 and 8 in the code; the recalibration comes before the reset in both).
  Errors are unlimited: every select, command and sector may fail each time.
* `virtual_irq`: three lines for each controller, the second of the master's being
  the slave's; two devices at the slave and one behind it at the master, so that
  the order of interrupts depends on what the master sees of the slave;
  interrupts and INT nest twice; the controllers are
  programmed twice with masks and links right and wrong, besides ends of
  interrupts and reads, which are unlimited. Machines start with any links, or
  with one controller in the middle of its initialisation, so that a whole
  initialisation need not be among the two.

* `service`: ticks modulo 8, so that the counter wraps round while tasks sleep and
  timers are armed; sleeps of one and three ticks, a task, a machine whose timer
  and clock renew their requests; a log buffer that two messages fill, two tasks
  that log and three messages.
* `storage`: five page frames in pieces of four, so that a block for DMA does and
  does not fit before a boundary and a machine runs out of pages; a heap of seven
  blocks of eight bytes whose table of four entries has to grow once, with pieces
  of half a block, one and three blocks, three of them in use at a time; the real
  modules with what each opens, two tasks, five requests, three slots and one
  module that cannot be read; two tasks that run one or two commands on four
  inodes and two names with one failure; a partition, a RAM disk and a floppy, three
  structures of devices and three commands; two handles, four names of spool files
  and three jobs; two floppy drives with cylinders of two sides of two sectors,
  reads that cross a cylinder, that reach beyond the end and of the other drive, two
  requests and one fault.
* `machine`: two shells, two machines, two devices for each; three choices of ports;
  two changes of a floppy image by two shells, with images that do and do not
  fill their tracks, also of a machine without a drive; three channels on both controllers and bytes of three values;
  disks that fill their cylinders and that do not, that have too many, and that have
  the geometry of any physical disk of their size, odd heads included, with requests inside, across and beyond the end; a ring of six scan codes (an E0
  sequence has up to four), keys of each kind; three strokes of four keys and three
  terminals, two of them of machines, whose tasks bring them to the front while keys
  do the same; lines of three characters on a screen of three rows of two, with a
  history of three entries and eight keys, from which the command keys are chosen;
  a clock set before midnight, before the end of a month and of a century; 430 days
  from starts before leap days and at the first and last year that the clock has.

`VIEW` in `sched` and `inodes` makes states equal that differ only in the
contents of a free entry, which the code clears before it reads it.
`SYMMETRY` is over tasks, values and stamps, which no definition tells apart,
and only in runs without liveness. `disk` does not check for deadlock: a task
whose wake-up is lost in `wait()` (run `semaphore_lost`) sleeps for ever, and
when all of them do the system has stopped. Nor do the last three runs, whose
behaviours end with their bounds and with the cases of `clash`.

Fairness. `irq_queue`: weak fairness of the dispatcher, the task with the highest
priority. `disk`: weak fairness of the drive, of the delivery of its interrupts
and of the handler, and strong fairness of the tasks, because each interrupt
disables them for its duration; it holds for tasks of one priority, which the
scheduler serves in turn (`SwitchIsFair`), and on a drive that answers.
`service`: weak fairness of the timer interrupt and its handler, which the clock
raises for ever, until one of the cases of `clash_t`; of the log task, whose
priority is that of shells and above that of machines; and of the tasks that log,
inside `signal()`. A sleeper itself needs no fairness: if it does not get so far as
to be suspended, its signal lets it pass `wait()` or is lost. Nothing
else assumes fairness: the other properties are safety properties.

## 4. Proofs

`SchedProofs` proves, for any table of tasks, any priorities, quantum and calls:
`TypeCorrect`, `ListsSafe`, `QueueSafe` and `CurrentSafe`. The inductive
invariant is `TypeOK /\ Ok(k) /\ CallsMatch`. `Ok` says of a value of `k` that
its lists have no repetitions and are disjoint, agree with the flags, that the
run queue is sorted and holds the idle task, and that `zombies` is the length of
`zombie_tasks`; each kernel function is shown to preserve it once, as a lemma
about an operator, and the actions, being compositions, inherit it. `CallsMatch`
ties the entry a task is in the middle of adding to the lists it is not yet on:
without it the proof that `AddAppend` keeps lists free of repetitions fails.
`ListLemmas` has the facts about inserting into, removing from and moving
between lists that these rest on.

The second half of `SchedProofs` adds the order within a band and what a task is
in the middle of. `Right` strengthens the invariant with `Banded` (among the
tasks of one priority those with time left come first, except for the current
task, whose time runs out where it stands) and `Leaves` (a current task that is
not runnable has set `need_resched`); from it
follow `BandsSafe` and, since a switch is one step from a state that is `Right`,
`SwitchSafe`. `CInv` adds `CountsMatch` and `CallersMatch`, which says that a task
in the steps of `add_task()` is on a list and one that may call it, and that a
kill under way is of the caller itself or of a task that may be named;
`AccountsSafe` follows, under the hypothesis `AddersNotKilled`: no
task that may be killed from outside calls `add_task()`. The hypothesis is
needed. `add_task()` appends the new task and only then counts it, and a caller
killed in between never does: with one task that is both an adder and a target
TLC finds `TaskCount` one too low after ten steps. `MCSched` meets the hypothesis.

In `KernelProofs`, for any set of tasks, `SemTypeCorrect`, `HandOverSafe`,
`MutexSafe` and `OrderSafe` follow from the invariant `SemTypeOK /\ WaitersListed /\
HandOver` of `Semaphore`. `WaitersListed` says that a task on the list is between joining it and the
return of `schedule()` and is not runnable once it is suspended: mutual exclusion
alone is not inductive, because a waiter that could return by itself would be a
second owner.

Its second part proves `QueueSafe` and the refinement `FifoSafe` for any lines,
drivers and size of the ring of `IrqQueue`. The invariant adds to `QueueSound` what
`dealloc_irq()` has read between its sections (`DeallocHolds`) and that the
places between `irq_q_out` and `irq_q_in` hold lines (`RingHolds`). Each step
then maps to an arrival, a removal, the end of a service or nothing: the
arithmetic modulo the size of the ring is in five lemmas.

`BufferCacheProofs` proves `CacheSafe` and the refinement `StoreSafe` for any
finite set of tasks and any buffers, buckets, blocks and values. `CacheSound` is
far from inductive: that an unused buffer is clean depends on who has seen its
dirty flag. The invariant `BInv` adds that a user's buffer is cached
(`UsersCached`), that a buffer is locked exactly while its only user has it filled
(`LocksHeld`), that each request of the device is the one its task waits for
(`RequestsMatch`), that a dirty buffer has a user who has yet to test the flag or
is about to clear it and write (`DirtyNoticed`), and that a cached block differs
from the disk only if it is dirty, being filled or written, or changed and not
marked yet (`ChangesKept`). Actions are classed by what they do to a buffer (use
it, get it, give it up), and each class has its lemmas. For the refinement, a
block holds what its unlocked buffer holds and otherwise what the disk does
(`ContentRight`); eviction cannot be seen because of `ChangesKept`, filling a
buffer because of `LocksHeld`.

`InodeCacheProofs` proves `InodesSafe` and the refinement `InodesStored` for any
finite set of tasks, any inodes, contents and number of entries, any set of inodes whose block may find no buffer.
What `InodesSound` says depends on who is where: that a count is right, on
the references each task holds; that an inode is freed only when it is unused, on the
links it counts, which its content and the directory must agree about while a file is
created or removed by tasks that sleep in between. The invariant `IInv` has two
layers. The first (`Layer1`) makes the lists and counts inductive: an entry taken off one
list and not yet on the other is held by one task only (`Listed`); a locked inode has one
reader, and every reader a locked inode (`LocksHeld`), so that sleepers are woken; a
task in the middle of a call has references, and one that takes an inode off the list
is alone with it (`UsersHold`). The second (`Layer2`) says what an inode's number
means: an allocated inode has an entry, or one task that is removing the entry or about
to make it, and never two (`Claimed`); an open inode is allocated, and one about to be
freed is nobody's (`Allocated`); an inode differs from the disk only while a task knows
(`Kept`); and an inode with an entry counts one link, or none while `create_file()`
has yet to count it, in memory if it is there and else on disk (`LinksCounted`), which is
why an inode that `close_inode()` finds without links has no entry. Steps
are classed by what they do to the holder (keep its inode, get a reference, stay
outside), and each class has one lemma per layer. The model counts how often a task
may have an inode open; the proof needs two, because `create_file()` calls
`make_file()`, and with it `dup_inode()`, on the inode that it has.

For `InodesStored` (that `InodesKept` holds) an inode holds what is in memory if it is
there and has been read, and otherwise what is on disk (`ContentRight`,
`AccessRight`). Only the steps that change an inode (`Modify`, `InitInode`, `CountLink`,
`RemoveLink`) are writes of the store. All others must leave every content as it was:
that reading an inode, and dropping it from memory, cannot be seen follows from
`Kept`, by which an inode without a dirty flag and without a task that knows of a change
is equal to the one on disk; that writing it cannot, from the entry being the only
one of its number.

`FileDataProofs` proves `BlocksSafe` for any files, tasks and handles, any size of
blocks and any number of direct pointers: the blocks below the inodes are trees that
stay apart while tasks walk down them and others change them. `BlocksOwned` follows
pointers that it finds in blocks, and a task goes by a pointer that it read some
steps ago. The invariant `FInv` adds where each task is. A walk (`OnTheWay`) holds a
block that lies in the tree of its file at the level that the rest of its path is
long, between the pointer of the inode and the data, and a pointer that it found 0 lies
in a block that has been cleared; a truncation (`Descended`) is at a path that leads
from the inode over indirect blocks that are cleared; it is alone in its file
(`Alone`); and no two tasks are about to clear the same block (`ClearOnce`).
The proof turns the nested unions of `indirect_blocks()` and `Behind()` into four
levels of a tree (`TreesAreRead`), shows that no block is on two levels nor in two
trees (`LevelsApart`), and then that each of the ways in which trees change keeps it
so: a new block at a pointer (`NewOwner`), a block that is cleared (`SameOwners`), one
that is written with data (`WriteKeeps`), and a pointer that is set to 0, be it to a
block of data or to an empty indirect block (`CutOff`), or to a whole tree, when a
truncation fails. An indirect block counts as empty until it is cleared: this is
why a new pointer may be stored before the block behind it is made ready, and why a
block that never is does no harm until somebody enters it. The five
cases of `clash` are where the argument fails: in a walk that enters such a block, a
pointer stored twice, a tree given up with a task inside, and, for the sizes only,
two more.

`FilesFlat` says that `FileData` implements `FlatFiles`, up to the first clash. It needs
more of a task on its way than `BlocksSafe` does: not only that its block lies on the
right level of the right tree, but that it is the one on the path to the place of its
position (`Ways`, part of `WInv`). A path is told from its pointers (`PathInjective`: the
way in which `get_data_blkno()` cuts a number into one to four pointers is undone by
`Number`), so that two places of a file never share a block. Each step is then one of
`FlatFiles` or leaves the files alone: a walk that ends at a pointer 0 reads a hole
(`UnderwayOn`, `ReadSteps`); a block allocated behind a pointer that was 0 fills a hole of
one file and is on the path to nothing else (`AllocateStep`); clearing an indirect block
changes nothing that any path finds, because it counted as empty before
(`FoundSame`); `WriteCopy` changes the words at its position and no others, except in a
hole (`WordsWritten`, `WriteStep`). A step of a truncation takes pointers away
(`Cuts`): whatever a path still finds it found before (`FoundLess`), so that words
become holes and none changes (`CutStep`), and at the end, when no pointer of the inode
is left, all are holes (`CutSteps`). It touches no other file, because the trees are
apart (`CutElsewhere`), and no walk in its own, because it is alone there. That the
walks of others stay where they were follows for all other steps from one fact, that no
pointer on a path from the inode changes unless it was 0 (`Stays`, `WayStays`).

`IdeDiskProofs` proves `RequestsSafe` and `ResultSafe` for any tasks, disks and
requests and any limits on the tries. `QueueMoves` and `ResultIsTrue` speak of
requests only; what makes them true is where the drive is. The invariant `IInv`
therefore says, for each value of `ide_intr`, what the drive is doing (`Served`):
a drive that reads is at the sector that the current request is at; one that
writes has been given that sector and will interrupt, or has written it and
interrupted, or is polled for it by the one context that works
(`ContextsSound`); and a drive on which nobody waits has been given no sector
(`DriveSound`), so that a command that was given up can move nothing for a later
request. `Progress` says that the sectors behind the position of a request have
been moved. The ends of a try, well or badly, in a task or in the handler, are one
lemma (`SettledSafe`). The steps in which the model stops (`clash`) change nothing
else, so the theorems hold of everything before them.

`VirtualIrqProofs` proves `PromptSafe`, `VirtualIrqType` and the refinement
`PcSafe` for any lines, devices, masks and links, any depth of nesting and any
number of writes. `Prompt`
speaks of a program that executes; the invariant adds `Hooked`, which says in
which steps of the handlers the hook may be missing though an interrupt could be
made, namely those that still lead over `IF_enabled()`, and that the flag is what
the step says. Without it nothing is known when a handler returns. That a search
for the lowest request finds one of them is a lemma about eight lines, by cases.
For `PcSafe` each step of the two controllers is a step of `PcInterrupts` or none,
unless it ends in `clash`: a request of a device is a `Request` (`RequestStep`), and
the interrupt that `vpic_return_hook()` makes is the `Serve` of the first request
(`ServeStep`), where the order of the two searches, first in the master and then in
the slave, has to be that of the lines. It is so only if the master takes no line but
`Cascade` for the slave's, which is the assumption `WiringAssumption` about the bytes
that a program writes as ICW3, with the invariant `Wired`. The proof found what an
earlier instance without a device behind the slave did not show: a request of the
slave that comes while the master masks the cascade stays in the slave, and when
the master unmasks the cascade nobody looks for it (`vpic_out()`, OCW1), so that
interrupts of a lower priority come first until the slave has another request.
`PcInterrupts` allows this by name (`overlooked`): only for requests that were
masked, and never for one that is made again with no mask in its way.

In the third part of `KernelProofs`, `TimersSafe` and `SleepsSafe` prove `TimersListed` and
`NeverEarly` for any tasks and machines, any lengths and intervals and any width of
the counter. `TimersListed` is not inductive: a request may be linked a second time
if a task that is awake, or between the two halves of `add_timer()`, can have one in
the list; `Owned` says that it has none, and says nothing of a killed task, whose
request stays behind. `Ordered` has to allow for a request that changes its time, which
is safe only while it is not listed (`RenewedSafe`, `SetTimer`). For `NeverEarly` the
invariant adds `Remains`: what is left of a sleep is the difference between the time
of its request and the time, from the moment the time is read and not only while the
request is listed, so that a tick between the two halves of `add_timer()` is counted;
and the counter can wrap round only when nothing is left of any sleep whose sum
fitted.

The fourth part proves `DevicesSafe`, that is `DevicesCounted`, for any tasks, disks
and structures of `Mounts`. The invariant `MountsInv` says of each structure
(`DeviceRight`) that its count is its place in the list, its root, its open inodes and
the tasks that hold it, and that what is not allocated has none of these; that a name
is in the list once (`NamesApart`); and, of a device whose blocks are being read while
it is mounted, that it is listed, has no root yet and has only that one task
(`MountersApart`). Without the last, a root could be set twice and counted
once. A task that finds a device in the list takes a count before it sleeps: why the
device cannot be freed under it is `ReleaseRight`, used by every step that gives
something up.

The fifth proves `MachinesSafe`, that is `DevicesLive`, for any shells, machines and
kinds of devices of `Machines`. The devices of a machine have the numbers of the
handlers that will release them, counted from the oldest, and the slot has the greatest
of its kind (`DevicesRight`); a shell that kills a machine has yet to call a handler for
each device whose slot is not empty (`KillRight`), which is why none is left when it frees
the machine, also if two shells kill it, each with a list of its own; and a machine is
once in `init_vm_list` exactly while it waits, or was killed while it waited
(`WaitersOnce`).

The sixth proves `LogSafe`, that is `LogInOrder`, for any tasks, handles and length of
the buffer of `Syslog`. Messages are numbered as they are sent. The invariant `LogRight`
says that each is in the log, in the buffer or known to be lost, that the numbers rise in
the log and in the buffer, and that every message in the buffer is later than all in the
log except those that the log task has just written (`wrote`): these are in both until
`mesg_buf` is emptied.

Assumptions: the named `ASSUME`s of `Sched` (finitely many entries, the idle task
has the lowest priority and makes no call that would end it), of `VirtualIrq`
(eight lines at most, bytes that are bytes; for `PcSafe` only, that a program which
connects the slave does so at its line), of `IrqQueue` (a ring of two places
at least) and of `BufferCache` (finitely many tasks, a hash of every block that is
a bucket), of `IdeDisk` (disks that are numbers, limits that are positive, markers
that are not tasks), of `InodeCache` (finitely
many tasks, two references at least, a count of links that tells 0 from 1), of
`FileData` (finitely many tasks, numbers of blocks, words and pointers that are
positive, lengths and places that are natural numbers), of `Timers` (times that are
natural numbers, a counter of positive width) and of `Mounts` (finitely many tasks, a null pointer that is no structure);
`AddersNotKilled` for `AccountsSafe`; and none in `Semaphore`, `Machines` and `Syslog`.
The invariants `QInv`, `BInv`, `IInv`, `CInv`, `TInv`, `FInv`, `WInv`, `MountsInv`,
`MachinesRight` and `LogRight` were checked by TLC on the instances of the runs before they were proved.

Checked by TLC only: everything about the modules that this section does not name,
and the four liveness properties (liveness under fairness is out of the prover's reach).
`Heap`, `Clocks` and `VirtualPorts` use recursive operators, which the
prover does not take.

## 5. What is not modelled

* Descriptor tables, stacks and page directories of tasks (set up once, nothing
  shared), traps and start-up code, dumps of registers.
* Removable media in the caches: the only driver that could report a changed
  medium always answers that there is none.
* The tables of partitions, read once at start-up; the copying of blocks in and
  out of a RAM disk.
* Of the instructions that a virtual machine may not execute itself, those that
  do not concern interrupts: they decode, move data between registers, memory and
  the ports, and step over the instruction. (`fault.c:528` falls from the string
  instructions into the next case, which this model would not show.)
* Display adapters and the video BIOS: pictures, for which no property but the
  picture itself could be stated.
* Shell, debugger, disassembler, printf, and the tools that run on the host: text.
* `Directories`, `InodeCache` and `FileData` are not composed. Each assumes of the
  one below what that one is shown to do outside its cases of `clash`: an inode, or
  a block of a directory, is read and written in one step.

## 6. Plan

1. **Proofs**: the counts of `Modules`.
2. **Composition**: `Directories` over `InodeCache`, so that the cases of `clash` of
   the latter are met by commands; `Pages` under `Heap`.
3. **Instructions**: the port instructions of a virtual machine with their repeat
   prefixes.
