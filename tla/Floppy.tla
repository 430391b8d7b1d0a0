------------------------------- MODULE Floppy -------------------------------
(***************************************************************************)
(* The driver of the floppy disks, drivers/physical/fd: the queue of        *)
(* requests of floppy.c and vmm/blkdev.h, and the commands that fdc.c gives *)
(* the controller and waits for by sleeping, with one handler, fd_intr, for *)
(* whichever interrupt comes next.                                          *)
(*                                                                         *)
(* do_request() runs in a task or, called by read_intr(), in the interrupt  *)
(* handler (context "irq"), where its sleeps suspend the task that happened *)
(* to be interrupted.  A read takes both sides of a cylinder into the track *)
(* buffer; what belongs to the request is copied from there, one side at a  *)
(* time.  Writes are answered and never done.                               *)
(*                                                                         *)
(* The recovery from errors does not work, and the model stops where it     *)
(* goes wrong (variable clash_y):                                           *)
(*   twice     handle_error() puts the request back on the queue, and       *)
(*             do_request(), which still holds it, queues or starts it      *)
(*             again, be it finished or not;                                *)
(*   stranded  do_request() recalibrates a drive and returns without        *)
(*             starting what is on the queue, nor does anyone else;         *)
(*   unseen    a read failed on the first drive: the test of the result     *)
(*             looks at the drive's number, so that reads of the first      *)
(*             never fail and reads of the second always do;                *)
(*   slow      a motor that start_motor() for the other drive turned off    *)
(*             is not given the time to get up to speed;                    *)
(*   lost      the interrupt of a read does not come: no timer waits for it; *)
(*   stolen    a shell command uses the controller, or a drive is           *)
(*             recalibrated, while another command is under way, and takes  *)
(*             over its interrupt.                                          *)
(***************************************************************************)
EXTENDS Integers, Sequences, FiniteSets, SequencesExt

CONSTANTS
    Askers,             \* the tasks, each with one request on its stack
    Drives,             \* the numbers of the drives, in fd_devs
    SectorsPerTrack, HeadsPerCylinder, FloppyBlocks,    \* disk_p
    FloppyAsks,         \* what may be asked for: [cmd, dev, block, len]
    FloppyRetries,      \* MAX_RETRIES
    MaxAsked,           \* bound: requests and shell commands
    MaxDiskFaults       \* bound: commands that fail or come late

VARIABLES
    request,            \* the requests of the tasks
    current, fd_reqs,
    fd_intr,            \* the handler of the next interrupt, or "none"
    flag,               \* int_recal_flag, int_seek_flag, int_read_id_flag
    recalibrate,        \* the drives with the flag set
    ctx,                \* what each context is doing
    fdc,                \* the command the controller is carrying out
    track_buf,          \* the drive and cylinder the track buffer holds
    motor,              \* the motors that are on, up to speed, and motor_count
    in,                 \* select_drive() is being executed
    asked, faults, clash_y

state == <<request, current, fd_reqs>>
device == <<fdc, track_buf, motor, in>>
yvars == <<state, fd_intr, flag, recalibrate, ctx, device, asked, faults, clash_y>>

Contexts == Askers \cup {"irq"}
None == "none"
Idle == [at |-> "idle", req |-> None, op |-> None, dev |-> 0, for |-> None]
NoCommand == [op |-> None, dev |-> 0, cyl |-> 0]

(* The places: idle; do, at the label top of do_request() with req; select,  *)
(* spin, send and sleep in one of the functions of fdc.c, called for seek    *)
(* (the request's), for recal (a drive's flag) or for a shell command.       *)
Running == clash_y = "none"
At(c, place) == Running /\ ctx[c].at = place
Goto(c, place, r) == ctx' = [ctx EXCEPT ![c] = [Idle EXCEPT !.at = place, !.req = r]]
Return(c) == ctx' = [ctx EXCEPT ![c] = Idle]
Calls(c, op, dev, for) ==
    ctx' = [ctx EXCEPT ![c] = [@ EXCEPT !.at = "select", !.op = op, !.dev = dev, !.for = for]]

Inside == {c \in Contexts : ctx[c].at # "idle"}

\* Those that are in do_request().
Serving == {c \in Contexts : ctx[c].at = "do" \/ ctx[c].for \in {"seek", "recal"}}

\* The contexts with a command under way.
Using == {c \in Contexts : ctx[c].at \in {"spin", "send", "sleep"}}

Queued(r) == r \in Range(fd_reqs)

\* The fields of the request that the geometry of the disk is applied to.
Cylinder(q) == IF q.cmd = "seek" THEN q.block
                                 ELSE (q.block \div SectorsPerTrack) \div HeadsPerCylinder

YInit ==
    /\ request = [t \in Askers |-> [cmd |-> "none"]]
    /\ current = None /\ fd_reqs = <<>> /\ fd_intr = None
    /\ flag = [op \in {"recal", "seek", "read_id"} |-> FALSE]
    /\ recalibrate = {}
    /\ ctx = [c \in Contexts |-> Idle]
    /\ fdc = NoCommand /\ track_buf = <<0, -1>>
    /\ motor = [on |-> {}, fast |-> {}, count |-> [d \in Drives |-> 0]]
    /\ in = FALSE /\ asked = 0 /\ faults = 0 /\ clash_y = "none"

\* A step that the rest of the driver does not survive.
Stops(why) == clash_y' = why /\ UNCHANGED <<state, fd_intr, flag, recalibrate, ctx, device, asked, faults>>

-----------------------------------------------------------------------------
(* floppy.c.                                                                 *)

\* floppy_read_blocks(), floppy_write_blocks(), floppy_force_seek().
sync_request(t) ==
    /\ At(t, "idle") /\ asked < MaxAsked
    /\ request[t].cmd = "none"
    /\ \E ask \in FloppyAsks :
          request' = [request EXCEPT ![t] =
            [cmd |-> ask.cmd, dev |-> ask.dev, block |-> ask.block, left |-> ask.len,
             from |-> ask.block, len |-> ask.len, got |-> <<>>,
             retries |-> 0, completed |-> FALSE, result |-> 0]]
    /\ asked' = asked + 1
    /\ Goto(t, "do", t)
    /\ UNCHANGED <<current, fd_reqs, fd_intr, flag, recalibrate, device, faults, clash_y>>

\* wait() is over: the task goes on and its request is gone.
answered(t) ==
    /\ At(t, "idle")
    /\ request[t].cmd # "none" /\ request[t].completed
    /\ request' = [request EXCEPT ![t] = [cmd |-> "none"]]
    /\ UNCHANGED <<current, fd_reqs, fd_intr, flag, recalibrate, ctx, device, asked, faults, clash_y>>

Ended(requests, r, result) == [requests EXCEPT ![r].completed = TRUE, ![r].result = result]

\* The node of a request that is on the queue, current or over is linked again.
Relinked(r) == Queued(r) \/ current = r \/ request[r].cmd = "none" \/ request[r].completed

\* do_request() finds another request being processed.
do_request_busy(c) ==
    /\ At(c, "do") /\ current # None
    /\ IF ctx[c].req # None /\ Relinked(ctx[c].req)
         THEN Stops("twice")
         ELSE /\ fd_reqs' = IF ctx[c].req = None THEN fd_reqs ELSE Append(fd_reqs, ctx[c].req)
              /\ Return(c)
              /\ UNCHANGED <<request, current, fd_intr, flag, recalibrate, device, asked, faults, clash_y>>

\* It finds a drive that is to be recalibrated.
do_request_recal(c) ==
    /\ At(c, "do") /\ current = None /\ recalibrate # {}
    /\ Calls(c, "recal", CHOOSE d \in recalibrate : \A e \in recalibrate : d <= e, "recal")
    /\ UNCHANGED <<state, fd_intr, flag, recalibrate, device, asked, faults, clash_y>>

\* And what it does when it has done so.
recal_return(c) ==
    LET r == ctx[c].req
    IN IF r # None /\ Relinked(r) THEN Stops("twice")
       ELSE /\ fd_reqs' = IF r = None THEN fd_reqs ELSE Append(fd_reqs, r)
            /\ Return(c)
            /\ clash_y' = IF fd_reqs' # <<>> /\ current = None /\ Serving = {c} THEN "stranded" ELSE "none"
            /\ UNCHANGED <<request, current>>

\* Nothing is being processed, and nothing is to be.
do_request_none(c) ==
    /\ At(c, "do") /\ current = None /\ recalibrate = {}
    /\ ctx[c].req = None /\ fd_reqs = <<>>
    /\ Return(c)
    /\ UNCHANGED <<state, fd_intr, flag, recalibrate, device, asked, faults, clash_y>>

(* The request becomes the current one, and is answered or its seek begun.   *)
\* Mutant: the request at the head of the queue is started and stays there.
process_kept(c) ==
    LET r == IF ctx[c].req = None THEN Head(fd_reqs) ELSE ctx[c].req
        q == request[r]
    IN /\ current' = r /\ request' = request /\ fd_reqs' = fd_reqs
       /\ ctx' = [ctx EXCEPT ![c] = [Idle EXCEPT !.at = "select", !.req = r, !.op = "seek",
                                                 !.dev = q.dev, !.for = "seek"]]

process(c) ==
    LET r == IF ctx[c].req = None THEN Head(fd_reqs) ELSE ctx[c].req
        q == request[r]
        beyond == q.cmd # "seek" /\ q.block >= FloppyBlocks
    IN /\ fd_reqs' = IF ctx[c].req = None THEN Tail(fd_reqs) ELSE fd_reqs
       /\ IF beyond \/ q.cmd = "write"
            THEN /\ request' = Ended(request, r, IF beyond THEN -1 ELSE 0)
                 /\ Goto(c, "do", None)
                 /\ UNCHANGED current
            ELSE /\ current' = r
                 /\ ctx' = [ctx EXCEPT ![c] = [Idle EXCEPT !.at = "select", !.req = r,
                                !.op = IF Cylinder(q) = 0 THEN "recal" ELSE "seek",
                                !.dev = q.dev, !.for = "seek"]]
                 /\ UNCHANGED request

do_request_next(c) ==
    /\ At(c, "do") /\ current = None /\ recalibrate = {}
    /\ ctx[c].req # None \/ fd_reqs # <<>>
    /\ IF ctx[c].req # None /\ Relinked(ctx[c].req)
         THEN Stops("twice")
         ELSE /\ process(c)
              /\ UNCHANGED <<fd_intr, flag, recalibrate, device, asked, faults, clash_y>>

\* handle_error(): r is tried again, or is over.
handle_error(r) ==
    IF request[r].retries < FloppyRetries
      THEN /\ request' = [request EXCEPT ![r].retries = @ + 1]
           /\ fd_reqs' = <<r>> \o fd_reqs
      ELSE /\ request' = Ended([request EXCEPT ![r].retries = @ + 1], r, -1)
           /\ UNCHANGED fd_reqs

-----------------------------------------------------------------------------
(* fdc.c: a command, from the selection of the drive to the interrupt.       *)

\* start_motor(): the other motors are turned off by the mask.
Started(d) == [motor EXCEPT !.on = {d}, !.fast = @ \cap {d}, !.count[d] = 2]

\* The handler is set, the drive selected, and its motor given time.
select_drive(c) ==
    /\ At(c, "select")
    /\ LET d == ctx[c].dev
       IN IF Using # {} \/ fdc.op # None \/ (ctx[c].for # "seek" /\ current # None)
            THEN Stops("stolen")
          ELSE /\ fd_intr' = ctx[c].op
               /\ flag' = [flag EXCEPT ![ctx[c].op] = FALSE]
               /\ motor' = IF in THEN motor ELSE Started(d)
               /\ LET waits == ~in /\ motor.count[d] = 0
                  IN /\ ctx' = [ctx EXCEPT ![c].at = IF waits THEN "spin" ELSE "send"]
                     /\ in' = (in \/ waits)
                     /\ clash_y' = IF waits \/ d \in motor'.fast THEN "none" ELSE "slow"
               /\ UNCHANGED <<state, recalibrate, fdc, track_buf, asked, faults>>

spin_up(c) ==
    /\ At(c, "spin")
    /\ ctx' = [ctx EXCEPT ![c].at = "send"]
    /\ in' = FALSE
    /\ motor' = [motor EXCEPT !.fast = @ \cup (motor.on \cap {ctx[c].dev})]
    /\ UNCHANGED <<state, fd_intr, flag, recalibrate, fdc, track_buf, asked, faults, clash_y>>

\* fdc_specify(), send_command() and send_param().
send_command(c) ==
    /\ At(c, "send")
    /\ fdc' = [op |-> ctx[c].op, dev |-> ctx[c].dev,
               cyl |-> IF ctx[c].op = "seek" THEN Cylinder(request[ctx[c].req]) ELSE 0]
    /\ ctx' = [ctx EXCEPT ![c].at = "sleep"]
    /\ UNCHANGED <<state, fd_intr, flag, recalibrate, track_buf, motor, in, asked, faults, clash_y>>

\* fd_int_handler(), for recal_intr(), fdc_seek_int() and fdc_read_id_int().
fd_int_handler ==
    /\ Running /\ fdc.op \in DOMAIN flag
    /\ fdc' = NoCommand
    /\ flag' = IF fd_intr \in DOMAIN flag THEN [flag EXCEPT ![fd_intr] = TRUE] ELSE flag
    /\ fd_intr' = None
    /\ UNCHANGED <<state, recalibrate, ctx, track_buf, motor, in, asked, faults, clash_y>>

\* The command is lost, or never ends; nothing waits for a read but its interrupt.
fdc_lost ==
    /\ Running /\ fdc.op # None /\ faults < MaxDiskFaults
    /\ IF fdc.op = "read" THEN Stops("lost")
       ELSE /\ fdc' = NoCommand /\ faults' = faults + 1
            /\ UNCHANGED <<state, fd_intr, flag, recalibrate, ctx, track_buf, motor, in, asked, clash_y>>

(* The interrupt has come or has been waited for long enough: fdc_recal() and *)
(* fdc_seek() do not notice which.  Then comes Read ID, for a request.        *)
Over(c) == At(c, "sleep") /\ (flag[ctx[c].op] \/ fdc.op = None)

fdc_recal(c) ==
    /\ Over(c) /\ ctx[c].op = "recal"
    /\ fd_intr' = None
    /\ recalibrate' = recalibrate \ {ctx[c].dev}
    /\ CASE ctx[c].for = "seek" ->
              /\ ctx' = [ctx EXCEPT ![c].at = "select", ![c].op = "read_id"]
              /\ UNCHANGED <<state, clash_y>>
         [] ctx[c].for = "recal" -> recal_return(c)
         [] ctx[c].for = "shell" -> Return(c) /\ UNCHANGED <<state, clash_y>>
    /\ UNCHANGED <<flag, device, asked, faults>>

fdc_seek(c) ==
    /\ Over(c) /\ ctx[c].op = "seek"
    /\ fd_intr' = None
    /\ ctx' = [ctx EXCEPT ![c].at = "select", ![c].op = "read_id"]
    /\ UNCHANGED <<state, flag, recalibrate, device, asked, faults, clash_y>>

\* fdc_read(): the command is sent, for both heads from the first sector.
fdc_read(c) ==
    LET q == request[ctx[c].req]
    IN /\ fd_intr' = "read"
       /\ fdc' = [op |-> "read", dev |-> q.dev, cyl |-> Cylinder(q)]
       /\ Return(c)
       /\ UNCHANGED <<state, recalibrate>>

\* The end of the read id: for a seek command that is all, else the read begins.
fdc_read_id(c) ==
    /\ Over(c) /\ ctx[c].op = "read_id" /\ flag["read_id"]
    /\ CASE ctx[c].for = "shell" -> Return(c) /\ fd_intr' = None /\ UNCHANGED <<state, fdc, recalibrate>>
         [] ctx[c].for = "seek" /\ request[ctx[c].req].cmd = "seek" ->
              /\ request' = Ended(request, current, 0) /\ current' = None
              /\ Goto(c, "do", None) /\ fd_intr' = None
              /\ UNCHANGED <<fd_reqs, fdc, recalibrate>>
         [] OTHER -> fdc_read(c)
    /\ UNCHANGED <<flag, track_buf, motor, in, asked, faults, clash_y>>

(* Read ID fails if its interrupt is late or there is no mark, a seek if its *)
(* interrupt comes in the last interval of the wait: goto top.               *)
fdc_fails(c) ==
    /\ Over(c)
    /\ \/ ctx[c].op = "read_id" /\ ~flag["read_id"] /\ UNCHANGED faults
       \/ ctx[c].op # "recal" /\ flag[ctx[c].op] /\ faults < MaxDiskFaults /\ faults' = faults + 1
    /\ fd_intr' = None
    /\ recalibrate' = recalibrate \cup {ctx[c].dev}
    /\ IF ctx[c].for = "seek"
         THEN handle_error(current) /\ current' = None /\ Goto(c, "do", ctx[c].req)
         ELSE Return(c) /\ UNCHANGED state
    /\ UNCHANGED <<flag, device, asked, clash_y>>

-----------------------------------------------------------------------------
(* read_intr(): what the track buffer has of the request is copied.          *)

\* The sectors of q that are left in its track.
Part(q) == LET rest == SectorsPerTrack - (q.block % SectorsPerTrack)
           IN IF q.left > rest THEN rest ELSE q.left

\* Mutant: the sectors of the second side are taken from the first.
Start_first(q) == q.block % SectorsPerTrack

Start(q) == (q.block % SectorsPerTrack)
              + ((q.block \div SectorsPerTrack) % HeadsPerCylinder) * SectorsPerTrack

Copied(q) == [k \in 1..Part(q) |->
                track_buf'[2] * SectorsPerTrack * HeadsPerCylinder + Start(q) + k - 1]

copy(r) ==
    LET q == request[r]
        got == Copied(q)
        rest == [q EXCEPT !.got = @ \o got, !.block = @ + Len(got), !.left = @ - Len(got)]
    IN IF rest.left = 0
         THEN request' = Ended([request EXCEPT ![r] = rest], r, 0) /\ UNCHANGED fd_reqs
         ELSE request' = [request EXCEPT ![r] = rest] /\ fd_reqs' = <<r>> \o fd_reqs

\* Mutant: the handler does not go on to the next request.
next_none == UNCHANGED ctx

next_request == Goto("irq", "do", None)

read_intr ==
    /\ Running /\ fdc.op = "read"
    /\ \/ fdc.dev % 2 = 1                   \* from_fdc[0] & (ST0_INTR != 0)
          /\ handle_error(current)
          /\ recalibrate' = recalibrate \cup (IF request[current].retries < FloppyRetries
                                                THEN {} ELSE {fdc.dev})
          /\ UNCHANGED <<track_buf, clash_y>>
       \/ fdc.dev % 2 = 0
          /\ track_buf' = <<fdc.dev, fdc.cyl>>
          /\ copy(current)
          /\ UNCHANGED <<recalibrate, clash_y>>
       \/ fdc.dev % 2 = 0 /\ faults < MaxDiskFaults
          /\ clash_y' = "unseen"
          /\ UNCHANGED <<request, fd_reqs, recalibrate, track_buf>>
    /\ current' = None
    /\ next_request
    /\ fdc' = NoCommand /\ fd_intr' = None
    /\ UNCHANGED <<flag, motor, in, asked, faults>>

-----------------------------------------------------------------------------
(* The timer and the shell commands.                                         *)

\* Mutant: the motors run down while a request is being processed.
may_stop_always == TRUE

may_stop == current = None

\* timer_intr() and stop_motor_test().
timer_intr ==
    /\ Running /\ may_stop
    /\ LET count == [d \in Drives |-> IF motor.count[d] > 0 THEN motor.count[d] - 1 ELSE 0]
           off == {d \in Drives : motor.count[d] = 1}
       IN motor' = [on |-> motor.on \ off, fast |-> motor.fast \ off, count |-> count]
    /\ UNCHANGED <<state, fd_intr, flag, recalibrate, ctx, fdc, track_buf, in, asked, faults, clash_y>>

Asks(t) == At(t, "idle") /\ request[t].cmd = "none" /\ asked < MaxAsked

\* cmd_fdrecal() and cmd_fdid(), of the first drive.
cmd_fdcommand(t) ==
    /\ Asks(t) /\ asked' = asked + 1
    /\ \E op \in {"recal", "read_id"} : Calls(t, op, 0, "shell")
    /\ UNCHANGED <<state, fd_intr, flag, recalibrate, device, faults, clash_y>>

\* cmd_fdreset(): reset_fdc() forgets the motors and keeps their counts.
cmd_fdreset(t) ==
    /\ Asks(t) /\ asked' = asked + 1
    /\ motor' = [motor EXCEPT !.on = {}, !.fast = {}]
    /\ clash_y' = IF current = None /\ Inside = {} THEN "none" ELSE "stolen"
    /\ UNCHANGED <<state, fd_intr, flag, recalibrate, ctx, fdc, track_buf, in, faults>>

Step(c) ==
    \/ do_request_busy(c) \/ do_request_recal(c) \/ do_request_none(c) \/ do_request_next(c)
    \/ select_drive(c) \/ spin_up(c) \/ send_command(c)
    \/ fdc_recal(c) \/ fdc_seek(c) \/ fdc_read_id(c) \/ fdc_fails(c)

YNext ==
    \/ \E t \in Askers : sync_request(t) \/ answered(t) \/ cmd_fdcommand(t) \/ cmd_fdreset(t)
    \/ \E c \in Contexts : Step(c)
    \/ fd_int_handler \/ fdc_lost \/ read_intr \/ timer_intr

YSpec == YInit /\ [][YNext]_yvars

-----------------------------------------------------------------------------
Pending(t) == request[t].cmd # "none" /\ ~request[t].completed

(* Until the recovery from an error goes wrong, every request that is not     *)
(* answered has one place: it is the current one, or on the queue once, or in *)
(* the hands of the task that brings it; what is queued has a request or a    *)
(* context before it that will start it (do_request(), read_intr(),           *)
(* handle_error()).  A read that is answered without an error has all its     *)
(* blocks, in order, through the cuts at the ends of tracks and the other     *)
(* requests in between, and reads are made with the motor up to speed.        *)
RequestsServed == Running =>
    /\ \A t \in Askers : Pending(t) =>
          \/ current = t /\ ~Queued(t)
          \/ current # t /\ Cardinality({k \in DOMAIN fd_reqs : fd_reqs[k] = t}) = 1
          \/ current # t /\ ~Queued(t) /\ ctx[t].req = t
    /\ fd_reqs # <<>> => current # None \/ Serving # {}
    /\ current # None => Pending(current) /\ (fdc.op = "read" \/ Serving # {})
    /\ \A t \in Askers : request[t].cmd = "read" =>
          /\ request[t].got = [k \in 1..Len(request[t].got) |-> request[t].from + k - 1]
          /\ request[t].completed /\ request[t].result = 0 => Len(request[t].got) = request[t].len
          /\ request[t].completed /\ request[t].result # 0 =>
                request[t].retries > 0 \/ request[t].from + request[t].len > FloppyBlocks
    /\ fdc.op = "read" => fdc.dev \in motor.on \cap motor.fast
=============================================================================
