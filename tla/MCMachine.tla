------------------------------ MODULE MCMachine ------------------------------
(* What a virtual machine and a terminal are made of: the devices of        *)
(* machines, their ports, disks, DMA controllers, keyboard and clock, the   *)
(* terminals and the line editor: parts that share no state in their        *)
(* models, checked one at a time. Each behaviour runs one of them.          *)
EXTENDS Machines

CONSTANTS
    Makers, Guests, PortArgs, PortValues, MAX_LPR_OFFSET, MaxMade, Changers,
    Images, Tracks, MaxChanges,
    MaxBadReads, Asked, Owners, Channels, Byte, Infos, Stored, MaxAccesses,
    Sizes, Track, MaxCylinders, Width, Values, MaxRequests, MaxFaults, Keys,
    Ring, BiosRoom, MaxKeys, MaxWrites, Ttys, Readers, PhysicalKeys,
    COOKED_BUFSIZ, MaxStrokes, MaxOpened, Letters, Cols, Rows, Digits,
    rl_history_max, MaxLength, MaxTyped, TimesOfDay, DatesOfYear, MaxUpdates,
    MaxCalls, Starts, MaxDays

VARIABLES
    part,
    ports, local_io, template, stage, lprports, making, written, made, clash_o,
    flop, change, opened_images, reading, changes, badreads, clash_g,
    dma_chans, setup, chip, flipflop, vdma, wrote, half, accesses, clash_q,
    v, disk, ideal, got, wanted, requests, faults, clash_d,
    vk, held, focus, leds, pending, gate, guest, turns, clash_b,
    wire, down, shift_state, prev_scancode, tty_list, current_tty, kbd_focus,
    in_focus, fronting, lock_state, lights, ring, receiver, reader, strokes, opened,
    clash_k,
    line, cursor_pos, mark_pos, rl_history, rl_history_size, current_item,
    arg, had, place, origin, cursor, bottom, typed, clash_e,
    cmos, op, irq8, true_time, updates, calls, clash_c,
    date, today, days

O == INSTANCE VirtualPorts
G == INSTANCE VirtualFloppy WITH opened <- opened_images
Q == INSTANCE Dma
D == INSTANCE VirtualDisk
B == INSTANCE VirtualKeyboard
K == INSTANCE Console
E == INSTANCE LineEditor
C == INSTANCE Clocks

vports_vars == <<ports, local_io, template, stage, lprports, making, written, made,
      clash_o>>
vfloppy_vars == <<flop, change, opened_images, reading, changes, badreads, clash_g>>
dma_vars == <<dma_chans, setup, chip, flipflop, vdma, wrote, half, accesses, clash_q>>
vdisk_vars == <<v, disk, ideal, got, wanted, requests, faults, clash_d>>
vkbd_vars == <<vk, held, focus, leds, pending, gate, guest, turns, clash_b>>
console_vars == <<wire, down, shift_state, prev_scancode, tty_list, current_tty,
      kbd_focus, in_focus, fronting, lock_state, lights, ring, receiver, reader,
      strokes, opened, clash_k>>
readline_vars == <<line, cursor_pos, mark_pos, rl_history, rl_history_size, current_item,
      arg, had, place, origin, cursor, bottom, typed, clash_e>>
clock_vars == <<cmos, op, irq8, true_time, updates, calls, clash_c>>
calendar_vars == <<date, today, days>>

\* The variables of a part that does not run hold nothing; those of Machines
\* are then as they start.
vports_off ==
    /\ ports = 0 /\ local_io = 0 /\ template = 0 /\ stage = 0 /\ lprports = 0
    /\ making = 0 /\ written = 0 /\ made = 0 /\ clash_o = 0
vfloppy_off ==
    /\ flop = 0 /\ change = 0 /\ opened_images = 0 /\ reading = 0
    /\ changes = 0 /\ badreads = 0 /\ clash_g = 0
dma_off ==
    /\ dma_chans = 0 /\ setup = 0 /\ chip = 0 /\ flipflop = 0 /\ vdma = 0
    /\ wrote = 0 /\ half = 0 /\ accesses = 0 /\ clash_q = 0
vdisk_off ==
    /\ v = 0 /\ disk = 0 /\ ideal = 0 /\ got = 0 /\ wanted = 0 /\ requests = 0
    /\ faults = 0 /\ clash_d = 0
vkbd_off ==
    /\ vk = 0 /\ held = 0 /\ focus = 0 /\ leds = 0 /\ pending = 0 /\ gate = 0
    /\ guest = 0 /\ turns = 0 /\ clash_b = 0
console_off ==
    /\ wire = 0 /\ down = 0 /\ shift_state = 0 /\ prev_scancode = 0
    /\ tty_list = 0 /\ current_tty = 0 /\ kbd_focus = 0 /\ in_focus = 0 /\ fronting = 0
    /\ lock_state = 0 /\ lights = 0 /\ ring = 0 /\ receiver = 0 /\ reader = 0
    /\ strokes = 0 /\ opened = 0 /\ clash_k = 0
readline_off ==
    /\ line = 0 /\ cursor_pos = 0 /\ mark_pos = 0 /\ rl_history = 0
    /\ rl_history_size = 0 /\ current_item = 0 /\ arg = 0 /\ had = 0
    /\ place = 0 /\ origin = 0 /\ cursor = 0 /\ bottom = 0 /\ typed = 0
    /\ clash_e = 0
clock_off ==
    /\ cmos = 0 /\ op = 0 /\ irq8 = 0 /\ true_time = 0 /\ updates = 0
    /\ calls = 0 /\ clash_c = 0
calendar_off ==
    /\ date = 0 /\ today = 0 /\ days = 0

vars == <<part, vvars, vports_vars, vfloppy_vars, dma_vars,
          vdisk_vars, vkbd_vars, console_vars, readline_vars, clock_vars,
          calendar_vars>>

\* The part that runs; the others stay as they start.
Init ==
    /\ part \in {"machines", "vports", "vfloppy", "dma", "vdma", "vdisk",
                "vkbd", "console", "readline", "clock",
                "calendar"}
    /\ VInit
    /\ IF part = "vports" THEN O!OInit ELSE vports_off
    /\ IF part = "vfloppy" THEN G!GInit ELSE vfloppy_off
    /\ IF part \in {"dma", "vdma"} THEN Q!QInit ELSE dma_off
    /\ IF part = "vdisk" THEN D!DkInit ELSE vdisk_off
    /\ IF part = "vkbd" THEN B!BInit ELSE vkbd_off
    /\ IF part = "console" THEN K!KInit ELSE console_off
    /\ IF part = "readline" THEN E!EInit ELSE readline_off
    /\ IF part = "clock" THEN C!CInit ELSE clock_off
    /\ IF part = "calendar" THEN C!DInit ELSE calendar_off

Next ==
    /\ UNCHANGED part
    /\ \/ part = "machines" /\ VNext
       \/ part = "vports" /\ O!ONext
       \/ part = "vfloppy" /\ G!GNext
       \/ part = "dma" /\ clash_q = "none" /\ Q!Drivers
       \/ part = "vdma" /\ Q!Guest
       \/ part = "vdisk" /\ D!DkNext
       \/ part = "vkbd" /\ B!BNext
       \/ part = "console" /\ K!KNext
       \/ part = "readline" /\ E!ENext
       \/ part = "clock" /\ C!CNext
       \/ part = "calendar" /\ C!DNext
    /\ part # "machines" => UNCHANGED vvars
    /\ part # "vports" => UNCHANGED vports_vars
    /\ part # "vfloppy" => UNCHANGED vfloppy_vars
    /\ part \notin {"dma", "vdma"} => UNCHANGED dma_vars
    /\ part # "vdisk" => UNCHANGED vdisk_vars
    /\ part # "vkbd" => UNCHANGED vkbd_vars
    /\ part # "console" => UNCHANGED console_vars
    /\ part # "readline" => UNCHANGED readline_vars
    /\ part # "clock" => UNCHANGED clock_vars
    /\ part # "calendar" => UNCHANGED calendar_vars

Spec == Init /\ [][Next]_vars

MCPortArgs == {<<10, 20>>, <<20, 0>>, <<0, 10>>}
MCImages == [a |-> 4, b |-> 7]
MCAsked ==
    {[track |-> 0, sector |-> 1, count |-> 2], [track |-> 1, sector |-> 2, count |-> 3],
     [track |-> 1, sector |-> 3, count |-> 1], [track |-> 2, sector |-> 1, count |-> 1]}
MCInfos == {[Page |-> 1, Offset |-> 4, Len |-> 3], [Page |-> 0, Offset |-> 5, Len |-> 8]}

\* A left shift, a right control, NumLock, the cursor key up, Home and A.
MCKeys == {\h2A, \h61, \h45, \h67, \h66, \h1E}

MCTimes == {<<23, 59, 59>>, <<9, 58, 59>>}
MCDates == {<<99, 12, 31>>, <<96, 1, 28>>}
MCStarts == {<<1970, 1, 1>>, <<1995, 12, 1>>, <<2000, 1, 28>>, <<2001, 12, 31>>, <<2068, 1, 1>>}

-----------------------------------------------------------------------------
\* The devices of a machine live as long as it does: DevicesLive, in Machines.

\* What a guest reaches through its ports: the device that owns them
\* (VirtualPorts!PortsAnswer), in its floppy drive the image that is open
\* (VirtualFloppy!ImageIsOpen), on its hard disk what was last written
\* (VirtualDisk!DiskIsTrue), and through the channels of the DMA controllers, real
\* and virtual, what was programmed (Dma!ChannelsLoaded).
DevicesServe ==
    /\ part = "vports" => O!PortsAnswer
    /\ part = "vfloppy" => G!ImageIsOpen
    /\ part = "vdisk" => D!DiskIsTrue
    /\ part \in {"dma", "vdma"} => Q!ChannelsLoaded


\* The keyboard follows the terminal in front (Console!KeyboardFollows), and a task
\* that waits for a key is woken (Console!ReaderIsWoken).
ConsoleListens == part = "console" => K!KeyboardFollows /\ K!ReaderIsWoken

\* The cursor stays in the line (LineEditor!CursorInLine), and going through the
\* history loses no line (LineEditor!HistoryKeepsLine).
LineIsKept == part = "readline" => E!CursorInLine /\ E!HistoryKeepsLine

\* The virtual clock keeps time (Clocks!ClockKeepsTime), and the kernel's date is the
\* day it is (Clocks!DateIsRight).
ClockIsRight ==
    /\ part = "clock" => C!ClockKeepsTime
    /\ part = "calendar" => C!DateIsRight
=============================================================================
