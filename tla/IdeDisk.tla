------------------------------- MODULE IdeDisk -------------------------------
(***************************************************************************)
(* The driver of the hard disks, drivers/physical/hd/ide.c, with the       *)
(* queue of requests of vmm/blkdev.h: requests are started by the tasks    *)
(* that make them or by the interrupt handler, tried again with resets and *)
(* recalibrations after an error, and finished by the handler.             *)
(*                                                                         *)
(* The code of do_request() runs in two kinds of context.  The handler     *)
(* (IRQ) runs with interrupts masked: no task runs until it returns.  A    *)
(* task runs it with interrupts masked in its first section only; while it *)
(* selects the drive and polls it, interrupts and other tasks may come in  *)
(* between.  The drive works by itself all the time.                       *)
(*                                                                         *)
(* Two things go wrong in the recovery from errors, and the model stops    *)
(* there (variable clash):                                                 *)
(*   overtaken  a task goes on polling for a write command after the       *)
(*              handler has failed, and perhaps started again or finished, *)
(*              the request;                                               *)
(*   recursion  a drive is to be recalibrated while it still waits for the *)
(*              data of a command that was given up: recalibrate_drive()   *)
(*              and do_request() call each other for ever.                 *)
(***************************************************************************)
EXTENDS Integers, Sequences, SequencesExt, FiniteSetsExt

CONSTANTS
    Tasks,          \* each has one request at a time, named like the task
    Devs,           \* the disks, numbered in the order of ide_devs
    MaxSectors,     \* the longest request
    Asks,           \* what each task may ask for
    MAX_RETRIES, RESET_FREQ, RECAL_FREQ,
    IRQ,            \* the context of the interrupt handler
    NULL, FAKE_REQ

ASSUME ParametersAssumption ==
    /\ Devs \subseteq Nat /\ MaxSectors \in Nat \ {0}
    /\ Asks \in [Tasks -> SUBSET [cmd : {"read", "write"}, dev : Devs,
                                  len : 1..MaxSectors, beyond : BOOLEAN]]
    /\ MAX_RETRIES \in Nat /\ RESET_FREQ \in Nat \ {0} /\ RECAL_FREQ \in Nat \ {0}
    /\ IRQ \notin Tasks /\ NULL \notin Tasks \cup {IRQ} /\ FAKE_REQ \notin Tasks \cup {NULL}

VARIABLES
    req,            \* the request of each task, on its stack
    current_req, ide_reqs, ide_intr, reset_pending,
    recalibrate,    \* the flag of each disk
    pc, doing,      \* where each context is, and with which request
    drive, irq,     \* the disks' controller and its interrupt line
    moved,          \* the sectors of each request that really were moved
    clash

driver == <<current_req, ide_reqs, ide_intr, reset_pending, recalibrate>>
vars == <<req, driver, pc, doing, drive, irq, moved, clash>>

Contexts == Tasks \cup {IRQ}

(* A request, blkreq_t: pos is how far block, buf and nblocks have moved on, *)
(* blocked the state of its semaphore.                                       *)
NoReq == [cmd |-> "none"]
Requests ==
    [cmd : {"read", "write"}, dev : Devs, beyond : BOOLEAN, len : 1..MaxSectors,
     pos : 0..(MaxSectors - 1), retries : 0..(MAX_RETRIES + 1),
     completed : BOOLEAN, result : {0, -1}, blocked : BOOLEAN]

(* The places in the code.
     idle      outside the driver
     do        at the start of do_request(doing)
     command   doing has just become the current request
     poll      the drive has a write command and is polled for its data
     overtaken as poll, but the handler has run since
     wait      a task at the start of wait()
     sleepy    it has found its semaphore blocked
     asleep    it is on the list of its semaphore
     woken     about to return from sync_request()                           *)
Places == {"idle", "do", "command", "poll", "overtaken", "wait", "sleepy", "asleep", "woken"}

\* The handler, once started, runs until it is done.
Running(c) == clash = "none" /\ (c = IRQ \/ pc[IRQ] = "idle")

At(c, place) == Running(c) /\ pc[c] = place

\* Where a context goes when do_request() returns.
Returned(c) == IF c = IRQ THEN "idle" ELSE "wait"
Return(c) == pc' = [pc EXCEPT ![c] = Returned(c)] /\ doing' = [doing EXCEPT ![c] = NULL]
Goto(c, place, r) == pc' = [pc EXCEPT ![c] = place] /\ doing' = [doing EXCEPT ![c] = r]

-----------------------------------------------------------------------------
(* The drive.  It is ready, busy, has data (it asks for the next sector of a *)
(* write, or offers one of a read) or reports an error.  at and left are the *)
(* sector it is at and the number left; data says whether it has been given  *)
(* the right sector of the right request.  Reading its status takes back the *)
(* interrupt.                                                                *)
ReadyDrive == [st |-> "ready", op |-> "none", req |-> NULL, at |-> 0, left |-> 0, data |-> "none"]

Drives == [st : {"ready", "busy", "data", "error"}, op : {"none", "read", "write", "recal"},
           req : Tasks \cup {NULL}, at : 0..MaxSectors, left : 0..MaxSectors,
           data : {"none", "right", "wrong"}]

Started(r) == [st |-> "busy", op |-> req[r].cmd, req |-> r, at |-> req[r].pos,
               left |-> req[r].len - req[r].pos, data |-> "none"]
Recalibrating == [st |-> "busy", op |-> "recal", req |-> NULL, at |-> 0, left |-> 0, data |-> "none"]

\* The next sector of the command, or the end of it.
NextSector(st) ==
    IF drive.left > 1 THEN [drive EXCEPT !.st = st, !.at = @ + 1, !.left = @ - 1, !.data = "none"]
                      ELSE ReadyDrive

\* OUT_SECT: the sector of r at its position.
Given(r) == [drive EXCEPT !.st = "busy",
                !.data = IF drive.req = r /\ drive.at = req[r].pos THEN "right" ELSE "wrong"]

DriveUnchanged == UNCHANGED <<req, driver, pc, doing, clash>>

\* A sector has been found, a sector is wanted, the heads are at track zero.
DriveReady ==
    /\ clash = "none" /\ drive.st = "busy" /\ drive.data = "none"
    /\ drive' = IF drive.op = "recal" THEN ReadyDrive ELSE [drive EXCEPT !.st = "data"]
    /\ irq' = (irq \/ drive.op # "write")
    /\ UNCHANGED moved /\ DriveUnchanged

\* A sector has been written.
DriveWrites ==
    /\ clash = "none" /\ drive.st = "busy" /\ drive.data # "none"
    /\ drive' = NextSector("data")
    /\ moved' = [moved EXCEPT ![drive.req] = IF drive.data = "right" THEN @ \cup {drive.at} ELSE @]
    /\ irq' = TRUE
    /\ DriveUnchanged

DriveFails ==
    /\ clash = "none" /\ drive.st = "busy"
    /\ drive' = [ReadyDrive EXCEPT !.st = "error"]
    /\ irq' = TRUE
    /\ UNCHANGED moved /\ DriveUnchanged

Drive == DriveReady \/ DriveWrites \/ DriveFails

-----------------------------------------------------------------------------
(* The end of a request, and what is done about an error.                    *)

\* The task that waits for r is woken, or will find the semaphore open.
end_request(r, result) ==
    req' = [req EXCEPT ![r].completed = TRUE, ![r].result = result,
                       ![r].blocked = (pc[r] = "asleep")]
Signalled(r, places) == IF places[r] = "asleep" THEN [places EXCEPT ![r] = "woken"] ELSE places

\* Mutant: a request is tried once more than the driver can count.
retries_left_one_more(r) == req[r].retries <= MAX_RETRIES

retries_left(r) == req[r].retries < MAX_RETRIES

\* Mutant: the request that failed also stays the current one.
retry_kept(r) ==
    /\ req' = [req EXCEPT ![r].retries = @ + 1]
    /\ ide_reqs' = <<r>> \o ide_reqs
    /\ UNCHANGED <<current_req, reset_pending, recalibrate>>

\* Mutant: a new try is like a new request.
retry_uncounted(r) ==
    /\ req' = [req EXCEPT ![r].retries = 0]
    /\ ide_reqs' = <<r>> \o ide_reqs
    /\ current_req' = NULL
    /\ UNCHANGED <<reset_pending, recalibrate>>

\* The current request is put in front of the queue, to be tried again.
retry(r) ==
    LET n == req[r].retries + 1
    IN  /\ req' = [req EXCEPT ![r].retries = n]
        /\ reset_pending' = (reset_pending \/ n % RESET_FREQ = 0)
        /\ recalibrate' = [recalibrate EXCEPT ![req[r].dev] = @ \/ n % RECAL_FREQ = 0]
        /\ ide_reqs' = <<r>> \o ide_reqs
        /\ current_req' = NULL

\* It has been tried often enough.
give_up(r) ==
    /\ req' = [req EXCEPT ![r].retries = @ + 1, ![r].completed = TRUE, ![r].result = -1,
                          ![r].blocked = (pc[r] = "asleep")]
    /\ reset_pending' = TRUE
    /\ recalibrate' = [recalibrate EXCEPT ![req[r].dev] = TRUE]
    /\ current_req' = NULL
    /\ UNCHANGED ide_reqs

\* handle_error(), after which c calls do_request(NULL); the other contexts are
\* at places.
handle_error(c, r, places) ==
    /\ ide_intr' = "none"
    /\ IF retries_left(r)
       THEN retry(r) /\ pc' = [places EXCEPT ![c] = "do"]
       ELSE give_up(r) /\ pc' = Signalled(r, [places EXCEPT ![c] = "do"])
    /\ doing' = [doing EXCEPT ![c] = NULL]

-----------------------------------------------------------------------------
(* do_request(), in the context c.                                           *)

\* What reset_controller() leaves; it is called first if a reset is pending.
ResetDrive == IF reset_pending THEN ReadyDrive ELSE drive

\* A request is being processed: this one has to wait.
Enqueue(c) ==
    /\ At(c, "do") /\ current_req # NULL
    /\ ide_reqs' = IF doing[c] = NULL THEN ide_reqs ELSE Append(ide_reqs, doing[c])
    /\ Return(c)
    /\ UNCHANGED <<req, current_req, ide_intr, reset_pending, recalibrate, drive, irq, moved, clash>>

\* A drive is to be recalibrated: the request has to wait.
recalibrate_drive(c, d) ==
    /\ At(c, "do") /\ current_req = NULL
    /\ recalibrate[d] /\ \A e \in Devs : recalibrate[e] => d <= e
    /\ ResetDrive.st \in {"ready", "error"}
    /\ current_req' = FAKE_REQ
    /\ ide_reqs' = IF doing[c] = NULL THEN ide_reqs ELSE Append(ide_reqs, doing[c])
    /\ ide_intr' = "recal"
    /\ reset_pending' = FALSE
    /\ recalibrate' = [recalibrate EXCEPT ![d] = FALSE]
    /\ drive' = Recalibrating /\ irq' = FALSE
    /\ Return(c)
    /\ UNCHANGED <<req, moved, clash>>

\* It cannot be: it waits for data that will not come.
Recursion(c) ==
    /\ At(c, "do") /\ current_req = NULL
    /\ \E d \in Devs : recalibrate[d]
    /\ ResetDrive.st = "data"
    /\ clash' = "recursion"
    /\ UNCHANGED <<req, driver, pc, doing, drive, irq, moved>>

\* There is nothing to do, or the next request is started.
Start(c) ==
    /\ At(c, "do") /\ current_req = NULL
    /\ \A d \in Devs : ~recalibrate[d]
    /\ reset_pending' = FALSE
    /\ drive' = ResetDrive /\ irq' = (irq /\ ~reset_pending)
    /\ IF doing[c] = NULL /\ ide_reqs = <<>>
       THEN Return(c) /\ UNCHANGED <<current_req, ide_reqs>>
       ELSE LET queued == doing[c] = NULL
                r == IF queued THEN Head(ide_reqs) ELSE doing[c]
            IN  /\ current_req' = r
                /\ ide_reqs' = IF queued THEN Tail(ide_reqs) ELSE ide_reqs
                /\ Goto(c, "command", r)
    /\ UNCHANGED <<req, ide_intr, recalibrate, moved, clash>>

\* The device does not have the block; do_request() starts again.
BeyondEnd(c) ==
    /\ At(c, "command") /\ req[doing[c]].beyond
    /\ end_request(doing[c], -1)
    /\ pc' = Signalled(doing[c], [pc EXCEPT ![c] = "do"])
    /\ doing' = [doing EXCEPT ![c] = NULL]
    /\ current_req' = NULL
    /\ UNCHANGED <<ide_reqs, ide_intr, reset_pending, recalibrate, drive, irq, moved, clash>>

\* The drive stays busy, wants data, or is not there.
SelectFails(c) ==
    /\ At(c, "command") /\ ~req[doing[c]].beyond
    /\ handle_error(c, doing[c], pc)
    /\ irq' = FALSE
    /\ UNCHANGED <<drive, moved, clash>>

\* The command is given.  A read is left to the handler; the drive is polled
\* until it takes the first sector of a write.
Command(c) ==
    /\ At(c, "command") /\ ~req[doing[c]].beyond
    /\ drive.st \in {"ready", "error"}
    /\ drive' = Started(doing[c]) /\ irq' = FALSE
    /\ ide_intr' = req[doing[c]].cmd
    /\ IF req[doing[c]].cmd = "read" THEN Return(c) ELSE Goto(c, "poll", doing[c])
    /\ UNCHANGED <<req, current_req, ide_reqs, reset_pending, recalibrate, moved, clash>>

OutSector(c) ==
    /\ At(c, "poll") /\ drive.st = "data"
    /\ drive' = Given(doing[c]) /\ irq' = FALSE
    /\ ide_intr' = "write"
    /\ Return(c)
    /\ UNCHANGED <<req, current_req, ide_reqs, reset_pending, recalibrate, moved, clash>>

\* The drive reports an error, or has been busy for too long.
PollFails(c) ==
    /\ At(c, "poll") /\ drive.st # "data"
    /\ handle_error(c, doing[c], pc)
    /\ irq' = FALSE
    /\ UNCHANGED <<drive, moved, clash>>

\* A task goes on polling, but the command is no longer its own.
Overtaken(c) ==
    /\ At(c, "overtaken")
    /\ clash' = "overtaken"
    /\ UNCHANGED <<req, driver, pc, doing, drive, irq, moved>>

do_request(c) ==
    \/ Enqueue(c) \/ Start(c) \/ Recursion(c) \/ \E d \in Devs : recalibrate_drive(c, d)
    \/ BeyondEnd(c) \/ SelectFails(c) \/ Command(c)
    \/ OutSector(c) \/ PollFails(c) \/ Overtaken(c)

-----------------------------------------------------------------------------
(* The interrupt handler, ide_int_handler().                                 *)

\* f is called; a task that was polling finds, later, that it was.
Handler(f) == irq /\ At(IRQ, "idle") /\ ide_intr = f
Polled == [c \in Contexts |-> IF pc[c] = "poll" THEN "overtaken" ELSE pc[c]]

\* What test_stat() accepts: DRQ must be set for a read, and is not looked at
\* for a write.
Good(f) == IF f = "read" THEN {"data"} ELSE {"data", "ready"}

Unexpected ==
    /\ Handler("none")
    /\ irq' = FALSE
    /\ UNCHANGED <<req, driver, pc, doing, drive, moved, clash>>

\* read_intr() and write_intr() find that the drive has failed.
IntrError ==
    /\ \E f \in {"read", "write"} : Handler(f) /\ drive.st \notin Good(f)
    /\ handle_error(IRQ, current_req, Polled)
    /\ irq' = FALSE
    /\ UNCHANGED <<drive, moved, clash>>

\* Mutant: the next request is not started.
FinishAlone(r) ==
    /\ end_request(r, 0)
    /\ current_req' = NULL /\ ide_intr' = "none"
    /\ pc' = Signalled(r, Polled)
    /\ UNCHANGED doing

\* The last sector: the request ends and the next one is started.
Finish(r) ==
    /\ end_request(r, 0)
    /\ current_req' = NULL /\ ide_intr' = "none"
    /\ pc' = Signalled(r, [Polled EXCEPT ![IRQ] = "do"])
    /\ UNCHANGED doing

Advanced(r) == req' = [req EXCEPT ![r].pos = @ + 1, ![r].retries = 0]

read_intr ==
    /\ Handler("read") /\ drive.st \in Good("read")
    /\ LET r == current_req
       IN  /\ moved' = [moved EXCEPT ![r] =
                            IF drive.req = r /\ drive.at = req[r].pos THEN @ \cup {drive.at} ELSE @]
           /\ IF req[r].pos + 1 < req[r].len
              THEN Advanced(r) /\ pc' = Polled /\ UNCHANGED <<doing, current_req, ide_intr>>
              ELSE Finish(r)
    /\ drive' = NextSector("busy") /\ irq' = FALSE
    /\ UNCHANGED <<ide_reqs, reset_pending, recalibrate, clash>>

\* Mutant: the sector that has been written is sent again as the next one.
write_intr_unmoved ==
    /\ Handler("write") /\ drive.st \in Good("write")
    /\ LET r == current_req
       IN  IF drive.left > 0
           THEN /\ ide_intr' = "none"
                /\ pc' = [Polled EXCEPT ![IRQ] = "poll"] /\ doing' = [doing EXCEPT ![IRQ] = r]
                /\ UNCHANGED <<current_req, req>>
           ELSE Finish(r)
    /\ irq' = FALSE
    /\ UNCHANGED <<ide_reqs, reset_pending, recalibrate, drive, moved, clash>>

\* Another sector is sent as soon as the drive takes it.
write_intr ==
    /\ Handler("write") /\ drive.st \in Good("write")
    /\ LET r == current_req
       IN  IF req[r].pos + 1 < req[r].len
           THEN /\ Advanced(r) /\ ide_intr' = "none"
                /\ pc' = [Polled EXCEPT ![IRQ] = "poll"] /\ doing' = [doing EXCEPT ![IRQ] = r]
                /\ UNCHANGED current_req
           ELSE Finish(r)
    /\ irq' = FALSE
    /\ UNCHANGED <<ide_reqs, reset_pending, recalibrate, drive, moved, clash>>

recal_intr ==
    /\ Handler("recal")
    /\ current_req' = NULL /\ ide_intr' = "none"
    /\ pc' = [Polled EXCEPT ![IRQ] = "do"]
    /\ irq' = FALSE
    /\ UNCHANGED <<req, ide_reqs, reset_pending, recalibrate, doing, drive, moved, clash>>

ide_int_handler == Unexpected \/ IntrError \/ read_intr \/ write_intr \/ recal_intr

-----------------------------------------------------------------------------
(* sync_request().                                                           *)

\* ide_read_blocks() and ide_write_blocks() fill in a request.
Request(t) ==
    /\ At(t, "idle")
    /\ \E ask \in Asks[t] :
        req' = [req EXCEPT ![t] =
                  [cmd |-> ask.cmd, dev |-> ask.dev, beyond |-> ask.beyond, len |-> ask.len,
                   pos |-> 0, retries |-> 0, completed |-> FALSE, result |-> 0, blocked |-> TRUE]]
    /\ moved' = [moved EXCEPT ![t] = {}]
    /\ Goto(t, "do", t)
    /\ UNCHANGED <<driver, drive, irq, clash>>

\* wait(): the test, and later the sleep (module Semaphore has the details).
WaitTest(t) ==
    /\ At(t, "wait")
    /\ pc' = [pc EXCEPT ![t] = IF req[t].blocked THEN "sleepy" ELSE "woken"]
    /\ UNCHANGED <<req, driver, doing, drive, irq, moved, clash>>

Sleep(t) ==
    /\ At(t, "sleepy")
    /\ pc' = [pc EXCEPT ![t] = "asleep"]
    /\ UNCHANGED <<req, driver, doing, drive, irq, moved, clash>>

Done(t) ==
    /\ At(t, "woken")
    /\ pc' = [pc EXCEPT ![t] = "idle"]
    /\ req' = [req EXCEPT ![t] = NoReq]
    /\ moved' = [moved EXCEPT ![t] = {}]
    /\ UNCHANGED <<driver, doing, drive, irq, clash>>

sync_request(t) == WaitTest(t) \/ Sleep(t) \/ Done(t)

-----------------------------------------------------------------------------
\* ide_init()
Init ==
    /\ req = [t \in Tasks |-> NoReq]
    /\ current_req = NULL /\ ide_reqs = <<>> /\ ide_intr = "none"
    /\ reset_pending = FALSE /\ recalibrate = [d \in Devs |-> FALSE]
    /\ pc = [c \in Contexts |-> "idle"] /\ doing = [c \in Contexts |-> NULL]
    /\ drive = ReadyDrive /\ irq = FALSE
    /\ moved = [t \in Tasks |-> {}]
    /\ clash = "none"

Next ==
    \/ Drive \/ ide_int_handler
    \/ \E c \in Contexts : do_request(c)
    \/ \E t \in Tasks : Request(t) \/ sync_request(t)
    \/ clash # "none" /\ UNCHANGED vars

\* The drive answers, its interrupts arrive and their handler runs to its end.
\* A task is held up by every interrupt, but between them the scheduler gives
\* each task that can run its turn.
Fairness ==
    /\ WF_vars(Drive) /\ WF_vars(ide_int_handler) /\ WF_vars(do_request(IRQ))
    /\ \A t \in Tasks : SF_vars(do_request(t)) /\ SF_vars(sync_request(t))

Spec == Init /\ [][Next]_vars /\ Fairness

-----------------------------------------------------------------------------
\* The types of the variables; the tries of a request are counted within the
\* limit.
TypeOK ==
    /\ req \in [Tasks -> Requests \cup {NoReq}]
    /\ current_req \in Tasks \cup {NULL, FAKE_REQ}
    /\ ide_reqs \in Seq(Tasks)
    /\ ide_intr \in {"none", "read", "write", "recal"}
    /\ reset_pending \in BOOLEAN /\ recalibrate \in [Devs -> BOOLEAN]
    /\ pc \in [Contexts -> Places] /\ doing \in [Contexts -> Tasks \cup {NULL}]
    /\ drive \in Drives /\ irq \in BOOLEAN
    /\ moved \in [Tasks -> SUBSET (0..(MaxSectors - 1))]
    /\ clash \in {"none", "overtaken", "recursion"}

Pending(t) == req[t] # NoReq /\ ~req[t].completed

\* A request that has been made and is not completed is in exactly one place:
\* on its way into do_request(), in the queue, once, or the current one.  One
\* that is completed is in none, though its task may already be reusing the
\* stack it was on.
RequestsPlaced ==
    /\ IsInjective(ide_reqs)
    /\ \A t \in Tasks :
        LET places == {p \in {"own", "queued", "current"} :
                        \/ p = "own" /\ pc[t] = "do" /\ doing[t] = t
                        \/ p = "queued" /\ t \in ToSet(ide_reqs)
                        \/ p = "current" /\ current_req = t}
        IN  Cardinality(places) = IF Pending(t) THEN 1 ELSE 0

\* The queue never stands still: while there are requests, somebody is about to
\* call do_request(), or the current one is being started, or its interrupt has
\* come or will come and has a handler.
QueueMoves ==
    /\ (current_req = NULL /\ ide_reqs # <<>>) => \E c \in Contexts : pc[c] = "do"
    /\ current_req # NULL =>
        \/ \E c \in Contexts : pc[c] \in {"command", "poll"} /\ doing[c] = current_req
        \/ ide_intr # "none" /\ (irq \/ drive.st = "busy")

\* No request is lost, done twice or left alone, whatever fails and is tried
\* again (do_request, end_request, handle_error).
RequestsSound == TypeOK /\ RequestsPlaced /\ QueueMoves

\* A request that ends with the result 0 has moved every one of its sectors
\* between the right place in memory and the right place on the disk, whatever
\* was tried again on the way.
ResultIsTrue ==
    \A t \in Tasks : req[t] # NoReq =>
        (req[t].completed /\ req[t].result = 0 => moved[t] = 0..(req[t].len - 1))

\* Every request ends, well or badly.
RequestsEnd == \A t \in Tasks : Pending(t) ~> (~Pending(t) \/ clash # "none")
=============================================================================
