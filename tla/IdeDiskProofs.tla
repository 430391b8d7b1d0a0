---------------------------- MODULE IdeDiskProofs ----------------------------
(***************************************************************************)
(* The driver of the hard disks loses no request, does none twice, never   *)
(* leaves its queue alone and reports no success that it did not have, for *)
(* any number of tasks, disks and sectors and any limits on the tries.     *)
(***************************************************************************)
EXTENDS IdeDisk, ListLemmas, FiniteSetTheorems

Working == {"command", "poll"}
Polling == \E c \in Contexts : pc[c] = "poll"

\* At most one context works, and on the current request; the others have
\* nothing in hand, but for a task with its own new request.
ContextsSound ==
    /\ pc[IRQ] \in {"idle", "do", "command", "poll"}
    /\ \A c \in Contexts :
        /\ pc[c] \in {"idle", "wait", "sleepy", "asleep", "woken"} => doing[c] = NULL
        /\ pc[c] = "do" => doing[c] \in {NULL, c}
        /\ pc[c] \in Working => current_req \in Tasks /\ doing[c] = current_req
    /\ \A c, d \in Contexts : pc[c] \in Working /\ pc[d] \in Working => c = d

\* What was moved of a request: all that its position has left behind, and all
\* of it when it has succeeded.
Progress(r, s) ==
    /\ r.pos < r.len
    /\ s \subseteq 0..(r.len - 1) /\ 0..(r.pos - 1) \subseteq s
    /\ r.completed /\ r.result = 0 => s = 0..(r.len - 1)

\* A task is in the driver with its request, and leaves with it completed.
RequestsKept ==
    \A t \in Tasks :
        /\ req[t] = NoReq <=> pc[t] = "idle"
        /\ req[t] # NoReq =>
            /\ Progress(req[t], moved[t])
            /\ ~req[t].completed => req[t].retries <= MAX_RETRIES /\ req[t].blocked
            /\ pc[t] = "woken" => req[t].completed

\* RequestsPlaced, place by place.
Own(t) == pc[t] = "do" /\ doing[t] = t
Queued(t) == t \in ToSet(ide_reqs)
Placed ==
    /\ NoRepeats(ide_reqs)
    /\ \A t \in Tasks :
        /\ Pending(t) <=> Own(t) \/ Queued(t) \/ current_req = t
        /\ Own(t) => ~Queued(t) /\ current_req # t
        /\ Queued(t) => current_req # t

\* The drive has a transfer to do while it has data or is busy, and it has been
\* given a sector only by a command whose end the handler awaits.
DriveSound ==
    /\ drive.st # "busy" => drive.data = "none"
    /\ drive.st \in {"busy", "data"} /\ drive.op # "recal" =>
         drive.req \in Tasks /\ drive.left >= 1 /\ drive.at + drive.left <= MaxSectors
    /\ drive.data # "none" =>
         drive.op = "write" /\ ide_intr = "write" /\ ~Polling

\* The drive is at the sector of r that r is at.
Serves(r) ==
    /\ drive.st \in {"busy", "data"} /\ drive.op = req[r].cmd /\ drive.req = r
    /\ drive.at = req[r].pos /\ drive.left = req[r].len - req[r].pos

\* It has written that sector, and wants the next one if there is one.
HasWritten(r) ==
    /\ req[r].pos \in moved[r]
    /\ IF req[r].pos + 1 = req[r].len THEN drive.st = "ready"
       ELSE /\ drive.st = "data" /\ drive.op = "write" /\ drive.req = r
            /\ drive.at = req[r].pos + 1 /\ drive.left = req[r].len - req[r].pos - 1

\* The drive works on the current request, or an interrupt is on its way.
ReadServed ==
    /\ drive.st = "error" \/ (Serves(current_req) /\ drive.data = "none")
    /\ irq \/ drive.st = "busy"
WriteServed ==
    \/ Polling /\ (drive.st = "error" \/ (Serves(current_req) /\ drive.data = "none" /\ ~irq))
    \/ ~Polling /\ Serves(current_req) /\ drive.st = "busy" /\ drive.data = "right" /\ ~irq
    \/ ~Polling /\ irq /\ (drive.st = "error" \/ HasWritten(current_req))
Served ==
    /\ current_req = NULL => ide_intr = "none"
    /\ current_req = FAKE_REQ => ide_intr = "recal"
    /\ ide_intr = "recal" => current_req = FAKE_REQ /\ (irq \/ drive = Recalibrating)
    /\ ide_intr \in {"read", "write"} =>
         /\ current_req \in Tasks /\ req[current_req].cmd = ide_intr
         /\ \A c \in Contexts : pc[c] # "command"
    /\ ide_intr = "read" => ReadServed /\ ~Polling
    /\ ide_intr = "write" => WriteServed
    /\ ide_intr = "none" /\ current_req \in Tasks =>
         \/ \E c \in Contexts : pc[c] = "command"
         \/ /\ Polling /\ drive.st = "data" /\ req[current_req].cmd = "write"
            /\ Serves(current_req)

QueueAttended == current_req = NULL /\ ide_reqs # <<>> => \E c \in Contexts : pc[c] = "do"

\* The inductive invariant.
IInv ==
    /\ TypeOK /\ ContextsSound /\ RequestsKept /\ Placed /\ DriveSound /\ Served
    /\ QueueAttended

-----------------------------------------------------------------------------
(* The drive.                                                               *)

\* The constants are told apart.
LEMMA Distinct ==
  /\ IRQ \notin Tasks /\ NULL \notin Tasks /\ NULL # IRQ
  /\ FAKE_REQ \notin Tasks /\ FAKE_REQ # NULL
  /\ Devs \subseteq Nat /\ MaxSectors \in Nat \ {0} /\ MAX_RETRIES \in Nat
BY ParametersAssumption

\* What is known of a request that has been made.
LEMMA RequestForm ==
  ASSUME IInv, NEW t \in Tasks, req[t] # NoReq
  PROVE  /\ req[t] \in Requests /\ req[t].cmd \in {"read", "write"} /\ req[t].dev \in Devs
         /\ req[t].len \in 1..MaxSectors /\ req[t].pos \in 0..(MaxSectors - 1)
         /\ req[t].retries \in 0..(MAX_RETRIES + 1)
         /\ req[t].completed \in BOOLEAN /\ req[t].result \in {0, -1}
         /\ req[t].blocked \in BOOLEAN /\ Progress(req[t], moved[t])
<1>1. req[t] \in Requests
  BY DEF IInv, TypeOK
<1>2. Progress(req[t], moved[t])
  BY DEF IInv, RequestsKept
<1>. QED
  BY <1>1, <1>2 DEF Requests

\* The current request has been made and is not completed.
LEMMA CurrentPending ==
  ASSUME IInv, current_req \in Tasks
  PROVE  Pending(current_req)
BY DEF IInv, Placed

\* The lists of the drive's states.
LEMMA DriveForms ==
  ASSUME IInv
  PROVE  /\ ReadyDrive \in Drives /\ ReadyDrive.st = "ready" /\ ReadyDrive.data = "none"
         /\ Recalibrating \in Drives /\ Recalibrating.st = "busy"
         /\ Recalibrating.op = "recal" /\ Recalibrating.data = "none"
         /\ [ReadyDrive EXCEPT !.st = "error"] \in Drives
         /\ drive \in Drives /\ drive.st \in {"ready", "busy", "data", "error"}
         /\ drive.op \in {"none", "read", "write", "recal"}
         /\ drive.at \in 0..MaxSectors /\ drive.left \in 0..MaxSectors
         /\ drive.data \in {"none", "right", "wrong"}
<1>1. drive \in Drives
  BY DEF IInv, TypeOK
<1>2. ReadyDrive \in Drives
  BY Distinct DEF ReadyDrive, Drives
<1>3. Recalibrating \in Drives
  BY Distinct DEF Recalibrating, Drives
<1>4. [ReadyDrive EXCEPT !.st = "error"] \in Drives
  BY Distinct DEF ReadyDrive, Drives
<1>. QED
  BY <1>1, <1>2, <1>3, <1>4 DEF Drives, ReadyDrive, Recalibrating

\* The drive goes on to the next sector or has done the last one.
LEMMA NextSectorForms ==
  ASSUME IInv, NEW st \in {"busy", "data"}, drive.at + drive.left <= MaxSectors
  PROVE  /\ NextSector(st) \in Drives /\ NextSector(st).data = "none"
         /\ drive.left > 1 =>
              /\ NextSector(st).st = st /\ NextSector(st).op = drive.op
              /\ NextSector(st).req = drive.req
              /\ NextSector(st).at = drive.at + 1
              /\ NextSector(st).left = drive.left - 1
         /\ ~(drive.left > 1) => NextSector(st).st = "ready"
<1>1. drive.at \in 0..MaxSectors /\ drive.left \in 0..MaxSectors /\ drive \in Drives
  BY DriveForms
<1>2. CASE ~(drive.left > 1)
  BY <1>2, DriveForms DEF NextSector
<1>3. CASE drive.left > 1
  <2>1. drive.at + 1 \in 0..MaxSectors /\ drive.left - 1 \in 0..MaxSectors
    BY <1>1, <1>3, Distinct
  <2>2. NextSector(st) = [drive EXCEPT !.st = st, !.at = @ + 1, !.left = @ - 1, !.data = "none"]
    BY <1>3 DEF NextSector
  <2>3. NextSector(st) = [st |-> st, op |-> drive.op, req |-> drive.req, at |-> drive.at + 1,
                          left |-> drive.left - 1, data |-> "none"]
    BY <2>2, <1>1 DEF Drives
  <2>. QED  BY <1>1, <1>3, <2>1, <2>3 DEF Drives
<1>. QED
  BY <1>2, <1>3

\* A sector has been found, or a sector is wanted.
LEMMA DriveReadySafe ==
  ASSUME IInv, DriveReady
  PROVE  IInv'
<1>1. TypeOK'
  <2>1. drive' \in Drives /\ irq' \in BOOLEAN
    BY DriveForms DEF IInv, TypeOK, DriveReady, Drives
  <2>. QED  BY <2>1 DEF IInv, TypeOK, DriveReady, DriveUnchanged, driver
<1>2. ContextsSound' /\ RequestsKept' /\ Placed' /\ QueueAttended'
  BY DEF IInv, ContextsSound, RequestsKept, Placed, QueueAttended, Own, Queued, Pending,
         DriveReady, DriveUnchanged, driver
<1>3. DriveSound'
  BY DEF IInv, TypeOK, DriveSound, Polling, DriveReady, DriveUnchanged, driver, ReadyDrive, Drives
<1>4. Served'
  <2>1. /\ drive.st = "busy" /\ drive.data = "none"
        /\ drive' = IF drive.op = "recal" THEN ReadyDrive ELSE [drive EXCEPT !.st = "data"]
        /\ irq' = (irq \/ drive.op # "write") /\ Polling' = Polling
        /\ UNCHANGED <<req, current_req, ide_intr, pc, moved>>
    BY DEF DriveReady, DriveUnchanged, driver, Polling
  <2>2. CASE ide_intr = "recal"
    BY <2>1, <2>2, DriveForms DEF IInv, Served
  <2>3. CASE ide_intr # "recal"
    BY <2>1, <2>3, DriveForms
    DEF IInv, TypeOK, Served, ReadServed, WriteServed, Serves, HasWritten, Drives
  <2>. QED  BY <2>2, <2>3
<1>. QED
  BY <1>1, <1>2, <1>3, <1>4 DEF IInv

LEMMA DriveFailsSafe ==
  ASSUME IInv, DriveFails
  PROVE  IInv'
<1>1. TypeOK'
  BY DriveForms DEF IInv, TypeOK, DriveFails, DriveUnchanged, driver
<1>2. ContextsSound' /\ RequestsKept' /\ Placed' /\ QueueAttended'
  BY DEF IInv, ContextsSound, RequestsKept, Placed, QueueAttended, Own, Queued, Pending,
         DriveFails, DriveUnchanged, driver
<1>3. DriveSound'
  BY DEF IInv, TypeOK, DriveSound, Polling, DriveFails, DriveUnchanged, driver, ReadyDrive, Drives
<1>4. Served'
  BY DEF IInv, TypeOK, DriveSound, Served, ReadServed, WriteServed, Serves, HasWritten, Polling,
         DriveFails, DriveUnchanged, driver, ReadyDrive, Recalibrating, Drives
<1>. QED
  BY <1>1, <1>2, <1>3, <1>4 DEF IInv

\* A sector has been written: it is the one the current request is at.
LEMMA DriveWritesSafe ==
  ASSUME IInv, DriveWrites
  PROVE  IInv'
<1> DEFINE r == current_req
<1>1. /\ ide_intr = "write" /\ ~Polling /\ r \in Tasks /\ req[r].cmd = "write"
      /\ Serves(r) /\ drive.data = "right" /\ drive.req = r
  BY DEF IInv, DriveSound, Served, WriteServed, DriveWrites, Serves, HasWritten
<1>2. req[r] # NoReq /\ req[r] \in Requests /\ Progress(req[r], moved[r])
      /\ req[r].pos \in Nat /\ req[r].len \in 1..MaxSectors /\ drive.at = req[r].pos
      /\ drive.left = req[r].len - req[r].pos /\ ~req[r].completed
  BY <1>1, CurrentPending, RequestForm, Distinct DEF Pending, Serves
<1> HIDE DEF r
<1>3. /\ moved' = [moved EXCEPT ![r] = @ \cup {req[r].pos}]
      /\ drive' = NextSector("data") /\ irq' = TRUE
      /\ UNCHANGED <<req, driver, pc, doing, clash>>
  BY <1>1, <1>2 DEF DriveWrites, DriveUnchanged
<1>4. /\ drive' \in Drives /\ drive'.data = "none"
      /\ drive.left > 1 => /\ drive'.st = "data" /\ drive'.op = "write" /\ drive'.req = r
                           /\ drive'.at = req[r].pos + 1
                           /\ drive'.left = req[r].len - req[r].pos - 1
      /\ ~(drive.left > 1) => drive'.st = "ready"
  BY <1>1, <1>2, <1>3, NextSectorForms, Distinct DEF Serves
<1>5. TypeOK'
  <2>1. moved' \in [Tasks -> SUBSET (0..(MaxSectors - 1))]
    BY <1>1, <1>2, <1>3, RequestForm DEF IInv, TypeOK, Progress
  <2>. QED  BY <1>3, <1>4, <2>1 DEF IInv, TypeOK, driver
<1>6. RequestsKept'
  <2>1. Progress(req[r], moved'[r])
    BY <1>1, <1>2, <1>3, Distinct DEF Progress, IInv, TypeOK
  <2>. QED
    BY <1>1, <1>2, <1>3, <2>1 DEF RequestsKept, IInv, TypeOK
<1>7. ContextsSound' /\ Placed' /\ QueueAttended'
  BY <1>3 DEF IInv, ContextsSound, Placed, QueueAttended, Own, Queued, Pending, driver
<1>8. DriveSound'
  BY <1>1, <1>2, <1>4, Distinct DEF DriveSound, IInv
<1>9. Served'
  <2>1. HasWritten(r)'
    <3>1. r' = r /\ req' = req /\ req[r].pos \in moved'[r]
      BY <1>1, <1>2, <1>3 DEF IInv, TypeOK, driver, r
    <3>2. drive.left > 1 <=> req[r].pos + 1 # req[r].len
      BY <1>2, Distinct DEF Progress
    <3>. QED
      BY <1>4, <3>1, <3>2 DEF HasWritten
  <2>2. WriteServed'
    BY <1>1, <1>3, <2>1 DEF WriteServed, Polling, driver, r
  <2>. QED
    BY <1>1, <1>3, <2>2 DEF IInv, Served, driver, r
<1>. QED
  BY <1>5, <1>6, <1>7, <1>8, <1>9 DEF IInv

-----------------------------------------------------------------------------
(* do_request()                                                             *)

LEMMA EnqueueSafe ==
  ASSUME IInv, NEW c \in Contexts, Enqueue(c)
  PROVE  IInv'
<1>1. TypeOK'
  BY Distinct DEF IInv, TypeOK, Enqueue, Return, Returned, Contexts, Places
<1>2. ContextsSound'
  BY Distinct DEF IInv, TypeOK, ContextsSound, Enqueue, Return, Returned, Contexts, At, Working
<1>3. RequestsKept'
  BY Distinct DEF IInv, TypeOK, ContextsSound, RequestsKept, Enqueue, Return, Returned, Contexts, At
<1>4. Placed'
  <2>1. CASE doing[c] = NULL
    BY <2>1, Distinct DEF IInv, TypeOK, ContextsSound, Placed, Own, Queued, Pending,
       Enqueue, Return, Returned, Contexts, At
  <2>2. CASE doing[c] = c
    <3>1. c \in Tasks /\ doing[c] # NULL /\ Own(c)
      BY <2>2, Distinct DEF IInv, TypeOK, Contexts, Enqueue, At, Own
    <3>2. /\ NoRepeats(ide_reqs')
          /\ ToSet(ide_reqs') = ToSet(ide_reqs) \cup {c}
      BY <2>2, <3>1, AppendNode DEF IInv, TypeOK, Placed, Queued, Enqueue
    <3>. QED
      BY <3>1, <3>2, <2>2, Distinct DEF IInv, TypeOK, ContextsSound, Placed, Own, Queued, Pending,
         Enqueue, Return, Returned, Contexts, At
  <2>. QED  BY <2>1, <2>2 DEF IInv, ContextsSound, Enqueue, At
<1>5. DriveSound' /\ Served' /\ QueueAttended'
  BY Distinct DEF IInv, TypeOK, DriveSound, Served, ReadServed, WriteServed, Serves, HasWritten, Polling, QueueAttended, Enqueue, Return, Returned, Contexts, At
<1>. QED
  BY <1>1, <1>2, <1>3, <1>4, <1>5 DEF IInv

\* A drive is to be recalibrated.
LEMMA RecalibrateSafe ==
  ASSUME IInv, NEW c \in Contexts, NEW d \in Devs, recalibrate_drive(c, d)
  PROVE  IInv'
<1>1. /\ pc[c] = "do" /\ current_req = NULL /\ current_req' = FAKE_REQ /\ ide_intr' = "recal"
      /\ drive' = Recalibrating /\ irq' = FALSE /\ reset_pending' = FALSE
      /\ recalibrate' = [recalibrate EXCEPT ![d] = FALSE]
      /\ ide_reqs' = IF doing[c] = NULL THEN ide_reqs ELSE Append(ide_reqs, doing[c])
      /\ UNCHANGED <<req, moved, clash>>
      /\ pc' = [pc EXCEPT ![c] = IF c = IRQ THEN "idle" ELSE "wait"]
      /\ doing' = [doing EXCEPT ![c] = NULL]
  BY DEF recalibrate_drive, At, Return, Returned
<1>2. \A e \in Contexts : pc[e] \notin Working
  BY <1>1, Distinct DEF IInv, ContextsSound
<1>3. TypeOK'
  <2>1. pc' \in [Contexts -> Places] /\ doing' \in [Contexts -> Tasks \cup {NULL}]
    BY <1>1, Distinct DEF IInv, TypeOK, Places
  <2>2. drive' \in Drives /\ recalibrate' \in [Devs -> BOOLEAN]
    BY <1>1, DriveForms DEF IInv, TypeOK
  <2>3. ide_reqs' \in Seq(Tasks)
    BY <1>1, Distinct DEF IInv, TypeOK
  <2>. QED  BY <1>1, <2>1, <2>2, <2>3 DEF IInv, TypeOK
<1>4. ContextsSound'
  BY <1>1, <1>2, Distinct DEF IInv, TypeOK, ContextsSound, Contexts, Working
<1>5. RequestsKept'
  BY <1>1, Distinct DEF IInv, TypeOK, ContextsSound, RequestsKept, Contexts
<1>6. Placed'
  <2>1. CASE doing[c] = NULL
    BY <1>1, <2>1, Distinct DEF IInv, TypeOK, ContextsSound, Placed, Own, Queued, Pending, Contexts
  <2>2. CASE doing[c] = c
    <3>1. c \in Tasks /\ doing[c] # NULL /\ Own(c)
      BY <1>1, <2>2, Distinct DEF IInv, TypeOK, Contexts, Own
    <3>2. /\ NoRepeats(ide_reqs')
          /\ ToSet(ide_reqs') = ToSet(ide_reqs) \cup {c}
      BY <1>1, <2>2, <3>1, AppendNode DEF IInv, TypeOK, Placed, Queued
    <3>. QED
      BY <1>1, <3>1, <3>2, <2>2, Distinct
      DEF IInv, TypeOK, ContextsSound, Placed, Own, Queued, Pending, Contexts
  <2>. QED  BY <1>1, <2>1, <2>2 DEF IInv, ContextsSound
<1>7. DriveSound' /\ Served' /\ QueueAttended'
  BY <1>1, DriveForms, Distinct DEF IInv, DriveSound, Served, QueueAttended
<1>. QED
  BY <1>3, <1>4, <1>5, <1>6, <1>7 DEF IInv

\* The model stops: a task has been overtaken, or the calls do not end.
LEMMA ClashSafe ==
  ASSUME IInv, clash' \in {"none", "overtaken", "recursion"},
         UNCHANGED <<req, driver, pc, doing, drive, irq, moved>>
  PROVE  IInv'
BY DEF IInv, TypeOK, ContextsSound, RequestsKept, Placed, Own, Queued, Pending, DriveSound, Served,
       ReadServed, WriteServed, Serves, HasWritten, Polling, QueueAttended, driver

\* The drive, as it is or as a reset leaves it.
LEMMA ResetForms ==
  ASSUME IInv, drive.data = "none"
  PROVE  /\ ResetDrive \in Drives /\ ResetDrive.data = "none"
         /\ ResetDrive.st \in {"busy", "data"} /\ ResetDrive.op # "recal" =>
              /\ ResetDrive.req \in Tasks /\ ResetDrive.left >= 1
              /\ ResetDrive.at + ResetDrive.left <= MaxSectors
BY DriveForms DEF IInv, DriveSound, ResetDrive

\* The next request is started, if there is one.
LEMMA StartSafe ==
  ASSUME IInv, NEW c \in Contexts, Start(c)
  PROVE  IInv'
<1>1. /\ pc[c] = "do" /\ current_req = NULL /\ doing[c] \in {NULL, c} /\ ide_intr = "none"
      /\ reset_pending' = FALSE /\ drive' = ResetDrive /\ irq' = (irq /\ ~reset_pending)
      /\ UNCHANGED <<req, ide_intr, recalibrate, moved, clash>>
  BY DEF Start, At, IInv, ContextsSound, Served
<1>2. \A e \in Contexts : pc[e] \notin Working
  BY <1>1, Distinct DEF IInv, ContextsSound
<1>3. drive.data = "none"
  BY <1>1, DriveForms DEF IInv, DriveSound
<1>4. /\ drive' \in Drives /\ irq' \in BOOLEAN /\ DriveSound'
  BY <1>1, <1>3, ResetForms DEF IInv, TypeOK, DriveSound
<1>5. CASE doing[c] = NULL /\ ide_reqs = <<>>
  <2>1. /\ current_req' = NULL /\ ide_reqs' = ide_reqs
        /\ pc' = [pc EXCEPT ![c] = IF c = IRQ THEN "idle" ELSE "wait"]
        /\ doing' = [doing EXCEPT ![c] = NULL]
    BY <1>1, <1>5 DEF Start, Return, Returned
  <2>2. TypeOK'
    BY <1>1, <1>4, <2>1, Distinct DEF IInv, TypeOK, Places
  <2>3. ContextsSound'
    BY <1>1, <1>2, <2>1, Distinct DEF IInv, TypeOK, ContextsSound, Contexts, Working
  <2>4. RequestsKept'
    BY <1>1, <2>1, Distinct DEF IInv, TypeOK, RequestsKept, Contexts
  <2>5. Placed'
    BY <1>1, <1>5, <2>1, Distinct
    DEF IInv, TypeOK, Placed, Own, Queued, Pending, Contexts
  <2>6. Served' /\ QueueAttended'
    BY <1>1, <1>5, <2>1, Distinct DEF IInv, Served, QueueAttended
  <2>. QED  BY <1>4, <2>2, <2>3, <2>4, <2>5, <2>6 DEF IInv
<1>6. ASSUME NEW r \in Tasks, current_req' = r, Goto(c, "command", r),
             ide_reqs' \in Seq(Tasks), NoRepeats(ide_reqs'),
             \/ doing[c] = NULL /\ Queued(r) /\ ToSet(ide_reqs') = ToSet(ide_reqs) \ {r}
             \/ c = r /\ doing[c] = c /\ ide_reqs' = ide_reqs
      PROVE  IInv'
  <2>1. /\ pc' = [pc EXCEPT ![c] = "command"] /\ doing' = [doing EXCEPT ![c] = r]
    BY <1>6 DEF Goto
  <2>2. TypeOK'
    BY <1>1, <1>4, <1>6, <2>1, Distinct DEF IInv, TypeOK, Places
  <2>3. ContextsSound'
    BY <1>1, <1>2, <1>6, <2>1, Distinct DEF IInv, TypeOK, ContextsSound, Contexts, Working
  <2>4. RequestsKept'
    BY <1>1, <2>1, Distinct DEF IInv, TypeOK, RequestsKept, Contexts
  <2>5. Placed'
    BY <1>1, <1>6, <2>1, Distinct
    DEF IInv, TypeOK, Placed, Own, Queued, Pending, Contexts
  <2>6. Served' /\ QueueAttended'
    BY <1>1, <1>6, <2>1, Distinct DEF IInv, TypeOK, Served, QueueAttended
  <2>. QED  BY <1>4, <2>2, <2>3, <2>4, <2>5, <2>6 DEF IInv
<1>7. CASE doing[c] = NULL /\ ide_reqs # <<>>
  <2>1. /\ Head(ide_reqs) \in Tasks /\ Tail(ide_reqs) \in Seq(Tasks)
        /\ NoRepeats(Tail(ide_reqs)) /\ Head(ide_reqs) \in ToSet(ide_reqs)
        /\ ToSet(Tail(ide_reqs)) = ToSet(ide_reqs) \ {Head(ide_reqs)}
    BY <1>7, TailNode DEF IInv, TypeOK, Placed
  <2>2. /\ current_req' = Head(ide_reqs) /\ ide_reqs' = Tail(ide_reqs)
        /\ Goto(c, "command", Head(ide_reqs))
    BY <1>7 DEF Start
  <2>. QED  BY <1>6, <1>7, <2>1, <2>2 DEF Queued
<1>8. CASE doing[c] = c /\ doing[c] # NULL
  <2>1. c \in Tasks
    BY <1>8, Distinct DEF IInv, TypeOK, Contexts
  <2>2. current_req' = c /\ ide_reqs' = ide_reqs /\ Goto(c, "command", c)
    BY <1>8 DEF Start
  <2>. QED  BY <1>6, <1>8, <2>1, <2>2 DEF IInv, TypeOK, Placed
<1>. QED
  BY <1>1, <1>5, <1>7, <1>8

-----------------------------------------------------------------------------
(* The end of a try.                                                        *)

\* The places of the other contexts when c has done with the current request.
Settles(c, places) ==
    /\ places \in [Contexts -> Places]
    /\ c # IRQ => pc[IRQ] = "idle" /\ pc[c] \in Working
    /\ \A d \in Contexts \ {c} :
        /\ places[d] \notin Working
        /\ places[d] = pc[d] \/ (pc[d] = "poll" /\ places[d] = "overtaken")

\* A request is not the request of a task that has none.
LEMMA NotNoReq ==
  ASSUME NEW q \in Requests
  PROVE  /\ q # NoReq /\ q.cmd \in {"read", "write"} /\ q.completed \in BOOLEAN
         /\ q.len \in 1..MaxSectors /\ q.pos \in 0..(MaxSectors - 1)
BY DEF Requests, NoReq

\* The current request becomes q, to be tried again or completed, and c goes on
\* with the next.
LEMMA SettledSafe ==
  ASSUME IInv, NEW c \in Contexts, NEW places, Settles(c, places),
         NEW r \in Tasks, current_req = r, NEW q \in Requests, NEW s,
         req' = [req EXCEPT ![r] = q], moved' = [moved EXCEPT ![r] = s], Progress(q, s),
         current_req' = NULL, ide_intr' = "none", doing' = [doing EXCEPT ![c] = NULL],
         drive' \in Drives, DriveSound', drive'.data = "none", irq' \in BOOLEAN,
         reset_pending' \in BOOLEAN, recalibrate' \in [Devs -> BOOLEAN], clash' = clash,
         \/ /\ ~q.completed /\ q.retries <= MAX_RETRIES /\ q.blocked
            /\ ide_reqs' = <<r>> \o ide_reqs /\ pc' = [places EXCEPT ![c] = "do"]
         \/ /\ q.completed
            /\ ide_reqs' = ide_reqs /\ pc' = Signalled(r, [places EXCEPT ![c] = "do"])
  PROVE  IInv'
<1>1. /\ Pending(r) /\ ~Own(r) /\ ~Queued(r) /\ req[r] # NoReq
      /\ \A t \in Tasks : t # r => req'[t] = req[t] /\ moved'[t] = moved[t]
      /\ req'[r] = q /\ moved'[r] = s
  BY DEF IInv, TypeOK, Placed, Pending
<1>2. /\ q # NoReq /\ q.len \in 1..MaxSectors /\ q.pos \in 0..(MaxSectors - 1)
      /\ q.completed \in BOOLEAN
  BY NotNoReq
<1>3. /\ pc' \in [Contexts -> Places] /\ pc'[c] = "do"
      /\ \A d \in Contexts \ {c} :
           /\ pc'[d] \notin Working
           /\ \/ pc'[d] = pc[d]
              \/ pc[d] = "poll" /\ pc'[d] = "overtaken"
              \/ q.completed /\ d = r /\ pc[d] = "asleep" /\ pc'[d] = "woken"
  BY DEF Settles, Signalled, Places, Working, Contexts
<1>4. /\ NoRepeats(ide_reqs') /\ ide_reqs' \in Seq(Tasks)
      /\ \/ q.completed /\ ToSet(ide_reqs') = ToSet(ide_reqs)
         \/ ~q.completed /\ ToSet(ide_reqs') = ToSet(ide_reqs) \cup {r}
  <2>1. ide_reqs \in Seq(Tasks) /\ NoRepeats(ide_reqs) /\ r \notin ToSet(ide_reqs)
    BY <1>1 DEF IInv, TypeOK, Placed, Queued
  <2>2. CASE ide_reqs' = <<r>> \o ide_reqs /\ ~q.completed
    <3>1. /\ <<r>> \o ide_reqs \in Seq(Tasks) /\ NoRepeats(<<r>> \o ide_reqs)
          /\ ToSet(<<r>> \o ide_reqs) = ToSet(ide_reqs) \cup {r}
      BY <2>1, ConsNode
    <3>. QED  BY <2>2, <3>1, Zenon
  <2>3. CASE ide_reqs' = ide_reqs /\ q.completed
    BY <2>1, <2>3
  <2>. QED  BY <2>2, <2>3
<1>10. TypeOK'
  <2>1. moved' \in [Tasks -> SUBSET (0..(MaxSectors - 1))]
    <3>1. s \subseteq 0..(MaxSectors - 1)
      BY <1>2, Distinct DEF Progress
    <3>. QED  BY <3>1 DEF IInv, TypeOK
  <2>2. ide_reqs' \in Seq(Tasks)
    BY <1>4 DEF IInv, TypeOK
  <2>3. doing' \in [Contexts -> Tasks \cup {NULL}] /\ req' \in [Tasks -> Requests \cup {NoReq}]
    BY DEF IInv, TypeOK
  <2>. QED  BY <1>3, <2>1, <2>2, <2>3 DEF IInv, TypeOK
<1>5. /\ pc[IRQ] \in {"idle", "do", "command", "poll"} /\ (c # IRQ => pc[IRQ] = "idle")
      /\ IRQ \in Contexts /\ IRQ # r /\ doing \in [Contexts -> Tasks \cup {NULL}]
  BY Distinct DEF IInv, TypeOK, ContextsSound, Settles, Contexts
<1>6. ContextsSound'
  <2>1. pc'[IRQ] \in {"idle", "do", "command", "poll"}
    BY <1>3, <1>5
  <2>2. ASSUME NEW d \in Contexts
        PROVE  /\ pc'[d] \in {"idle", "wait", "sleepy", "asleep", "woken"} => doing'[d] = NULL
               /\ pc'[d] = "do" => doing'[d] \in {NULL, d}
               /\ pc'[d] \notin Working
    BY <1>3, <1>5 DEF IInv, ContextsSound, Working
  <2>. QED  BY <2>1, <2>2 DEF ContextsSound
<1>7. RequestsKept'
  <2>1. ASSUME NEW t \in Tasks, t # r
        PROVE  /\ req'[t] = NoReq <=> pc'[t] = "idle"
               /\ pc'[t] = "woken" => pc[t] = "woken"
    <3>1. t \in Contexts /\ (req[t] = NoReq <=> pc[t] = "idle") /\ req'[t] = req[t]
      BY <1>1, <2>1 DEF IInv, RequestsKept, Contexts
    <3>2. t = c => pc[t] # "idle"
      BY Distinct DEF Settles, Working
    <3>. QED  BY <1>3, <2>1, <3>1, <3>2
  <2>2. pc'[r] # "idle" /\ (pc'[r] = "woken" => q.completed)
    <3>1. pc[r] # "idle" /\ (pc[r] = "woken" => FALSE) /\ r \in Contexts
      BY <1>1 DEF IInv, RequestsKept, Pending, Contexts
    <3>. QED  BY <1>3, <3>1
  <2>3. ASSUME NEW t \in Tasks
        PROVE  /\ req'[t] = NoReq <=> pc'[t] = "idle"
               /\ req'[t] # NoReq =>
                   /\ Progress(req'[t], moved'[t])
                   /\ ~req'[t].completed => req'[t].retries <= MAX_RETRIES /\ req'[t].blocked
                   /\ pc'[t] = "woken" => req'[t].completed
    BY <1>1, <1>2, <2>1, <2>2 DEF IInv, RequestsKept
  <2>. QED  BY <2>3 DEF RequestsKept
<1>8. Placed'
  <2>1. ASSUME NEW t \in Tasks PROVE Own(t)' <=> Own(t) /\ t # c
    BY <1>3, <1>5, Distinct DEF Own, Contexts
  <2>2. ~Own(c)
    BY <1>1, <1>5, Distinct DEF Own, Settles, Working
  <2>. QED
    BY <1>1, <1>2, <1>4, <2>1, <2>2, Distinct DEF IInv, Placed, Queued, Pending
<1>9. Served' /\ QueueAttended'
  BY <1>3, Distinct DEF Served, QueueAttended
<1>. QED
  BY <1>6, <1>7, <1>8, <1>9, <1>10 DEF IInv

\* The current request, and what becomes of it.
LEMMA CurrentForms ==
  ASSUME IInv, NEW r \in Tasks, current_req = r
  PROVE  /\ req[r] \in Requests /\ req[r] # NoReq /\ Progress(req[r], moved[r])
         /\ ~req[r].completed /\ req[r].blocked /\ req[r].retries \in 0..MAX_RETRIES
         /\ req[r].pos \in Nat /\ req[r].len \in 1..MaxSectors
         /\ req[r].pos + 1 <= req[r].len /\ pc[r] \notin {"idle", "woken"}
         /\ moved \in [Tasks -> SUBSET (0..(MaxSectors - 1))]
         /\ req \in [Tasks -> Requests \cup {NoReq}]
         /\ \A n \in 0..(MAX_RETRIES + 1) : [req[r] EXCEPT !.retries = n] \in Requests
         /\ \A n \in 0..(MAX_RETRIES + 1), x \in {0, -1}, b \in BOOLEAN :
              [req[r] EXCEPT !.retries = n, !.completed = TRUE, !.result = x, !.blocked = b]
                \in Requests
<1>1. Pending(r) /\ req[r] # NoReq
  BY CurrentPending DEF Pending
<1>2. /\ req[r] \in Requests /\ Progress(req[r], moved[r]) /\ ~req[r].completed
      /\ req[r].blocked /\ req[r].retries <= MAX_RETRIES
      /\ pc[r] \notin {"idle", "woken"}
  BY <1>1, RequestForm DEF Pending, IInv, RequestsKept
<1>3. /\ req[r].pos \in Nat /\ req[r].len \in 1..MaxSectors /\ req[r].pos + 1 <= req[r].len
      /\ req[r].retries \in 0..MAX_RETRIES
  BY <1>1, <1>2, RequestForm, Distinct DEF Progress
<1>4. ASSUME NEW n \in 0..(MAX_RETRIES + 1)
      PROVE  [req[r] EXCEPT !.retries = n] \in Requests
  BY <1>2 DEF Requests
<1>5. ASSUME NEW n \in 0..(MAX_RETRIES + 1), NEW x \in {0, -1}, NEW b \in BOOLEAN
      PROVE  [req[r] EXCEPT !.retries = n, !.completed = TRUE, !.result = x, !.blocked = b]
               \in Requests
  BY <1>2 DEF Requests
<1>. QED
  BY <1>1, <1>2, <1>3, <1>4, <1>5 DEF IInv, TypeOK

\* An error is handled.
LEMMA HandleErrorSafe ==
  ASSUME IInv, NEW c \in Contexts, NEW places, Settles(c, places),
         NEW r \in Tasks, current_req = r, handle_error(c, r, places),
         drive.data = "none", irq' = FALSE, UNCHANGED <<drive, moved, clash>>
  PROVE  IInv'
<1>0. /\ req[r].retries \in 0..MAX_RETRIES /\ MAX_RETRIES \in Nat
      /\ req[r].pos \in Nat /\ req[r].len \in 1..MaxSectors /\ MaxSectors \in Nat
      /\ req[r].pos + 1 <= req[r].len /\ Progress(req[r], moved[r])
      /\ ~req[r].completed /\ req[r].blocked
  BY CurrentForms, Distinct
<1>9. /\ \A n \in 0..(MAX_RETRIES + 1) : [req[r] EXCEPT !.retries = n] \in Requests
       /\ \A m \in 0..(MAX_RETRIES + 1), x \in {0, -1}, b \in BOOLEAN :
            [req[r] EXCEPT !.retries = m, !.completed = TRUE, !.result = x, !.blocked = b]
              \in Requests
  BY CurrentForms
<1>1. /\ ide_intr' = "none" /\ current_req' = NULL /\ doing' = [doing EXCEPT ![c] = NULL]
      /\ drive' = drive /\ clash' = clash /\ moved' = moved
  BY DEF handle_error, retry, give_up
<1>2. drive' \in Drives /\ drive'.data = "none" /\ DriveSound'
  BY <1>1, DriveForms DEF IInv, DriveSound
<1>3. moved' = [moved EXCEPT ![r] = moved[r]]
  BY <1>1, CurrentForms
<1>4. CASE retries_left(r)
  <2> DEFINE n == req[r].retries + 1
             q == [req[r] EXCEPT !.retries = n]
  <2>1. /\ req' = [req EXCEPT ![r] = q]
        /\ reset_pending' \in BOOLEAN /\ recalibrate' \in [Devs -> BOOLEAN]
        /\ ide_reqs' = <<r>> \o ide_reqs /\ pc' = [places EXCEPT ![c] = "do"]
    BY <1>4 DEF handle_error, retry, IInv, TypeOK
  <2>2. n \in 0..MAX_RETRIES /\ n \in 0..(MAX_RETRIES + 1)
    BY <1>0, <1>4 DEF retries_left
  <2> HIDE DEF n
  <2>3. q \in Requests
    BY <1>9, <2>2
  <2>4. /\ q.retries = n /\ q.completed = req[r].completed
        /\ q.blocked = req[r].blocked /\ q.pos = req[r].pos /\ q.len = req[r].len
        /\ q.result = req[r].result
    BY CurrentForms DEF Requests
  <2> HIDE DEF q
  <2>5. Progress(q, moved[r]) /\ ~q.completed /\ q.retries <= MAX_RETRIES /\ q.blocked
    BY <1>0, <2>2, <2>4 DEF Progress
  <2>. QED
    BY <1>1, <1>2, <1>3, <2>1, <2>3, <2>5, SettledSafe
<1>5. CASE ~retries_left(r)
  <2> DEFINE n == req[r].retries + 1
             b == pc[r] = "asleep"
             q == [req[r] EXCEPT !.retries = n, !.completed = TRUE, !.result = -1, !.blocked = b]
  <2>1. /\ req' = [req EXCEPT ![r] = q]
        /\ reset_pending' \in BOOLEAN /\ recalibrate' \in [Devs -> BOOLEAN]
        /\ ide_reqs' = ide_reqs /\ pc' = Signalled(r, [places EXCEPT ![c] = "do"])
    BY <1>5 DEF handle_error, give_up, IInv, TypeOK
  <2>2. n \in 0..(MAX_RETRIES + 1) /\ b \in BOOLEAN
    BY <1>0
  <2> HIDE DEF n, b
  <2>3. q \in Requests
    BY <1>9, <2>2
  <2>4. /\ q.completed /\ q.result = -1 /\ q.pos = req[r].pos /\ q.len = req[r].len
    BY CurrentForms DEF Requests
  <2> HIDE DEF q
  <2>5. Progress(q, moved[r])
    BY <1>0, <2>4 DEF Progress
  <2>. QED
    BY <1>1, <1>2, <1>3, <2>1, <2>3, <2>4, <2>5, SettledSafe
<1>. QED
  BY <1>4, <1>5

\* The current request ends, in the handler or because its block does not exist.
LEMMA EndRequestSafe ==
  ASSUME IInv, NEW c \in Contexts, NEW places, Settles(c, places),
         NEW r \in Tasks, current_req = r, NEW x \in {0, -1}, NEW s,
         end_request(r, x), moved' = [moved EXCEPT ![r] = s],
         moved[r] \subseteq s, s \subseteq 0..(req[r].len - 1),
         x = 0 => s = 0..(req[r].len - 1),
         pc' = Signalled(r, [places EXCEPT ![c] = "do"]), doing' = [doing EXCEPT ![c] = NULL],
         current_req' = NULL, ide_intr' = "none",
         drive' \in Drives, DriveSound', drive'.data = "none", irq' \in BOOLEAN,
         UNCHANGED <<ide_reqs, reset_pending, recalibrate, clash>>
  PROVE  IInv'
<1> DEFINE n == req[r].retries
           b == pc[r] = "asleep"
           q == [req[r] EXCEPT !.retries = n, !.completed = TRUE, !.result = x, !.blocked = b]
<1>0. /\ req[r].retries \in 0..MAX_RETRIES /\ MAX_RETRIES \in Nat
      /\ req[r].pos \in Nat /\ req[r].len \in 1..MaxSectors /\ MaxSectors \in Nat
      /\ req[r].pos + 1 <= req[r].len /\ Progress(req[r], moved[r])
      /\ ~req[r].completed /\ req[r].blocked
  BY CurrentForms, Distinct
<1>9. \A k \in 0..(MAX_RETRIES + 1), e \in {0, -1}, w \in BOOLEAN :
            [req[r] EXCEPT !.retries = k, !.completed = TRUE, !.result = e, !.blocked = w]
              \in Requests
  BY CurrentForms
<1>1. /\ reset_pending' \in BOOLEAN /\ recalibrate' \in [Devs -> BOOLEAN]
  BY DEF IInv, TypeOK
<1>2. n \in 0..(MAX_RETRIES + 1) /\ b \in BOOLEAN
  BY <1>0
<1>3. req' = [req EXCEPT ![r] = [req[r] EXCEPT !.completed = TRUE, !.result = x, !.blocked = b]]
  BY DEF end_request
<1>4. [req[r] EXCEPT !.completed = TRUE, !.result = x, !.blocked = b] = q
  BY CurrentForms DEF Requests
<1> HIDE DEF n, b
<1>5. q \in Requests
  BY <1>2, <1>9
<1>6. /\ q.completed /\ q.result = x /\ q.pos = req[r].pos /\ q.len = req[r].len
  BY CurrentForms DEF Requests
<1> HIDE DEF q
<1>7. Progress(q, s)
  BY <1>0, <1>6 DEF Progress
<1>. QED
  BY <1>1, <1>3, <1>4, <1>5, <1>6, <1>7, SettledSafe

\* A context that has the current request in hand leaves the others as they are.
LEMMA WorkerSettles ==
  ASSUME IInv, NEW c \in Contexts, Running(c), pc[c] \in Working
  PROVE  /\ Settles(c, pc) /\ current_req \in Tasks /\ doing[c] = current_req
         /\ drive.data = "none" /\ (pc[c] = "command" => ide_intr = "none")
BY Distinct, DriveForms
DEF IInv, TypeOK, ContextsSound, Settles, Running, Working, DriveSound, Served, Polling

\* The handler, called for a transfer, finds a task at most polling.
LEMMA HandlerSettles ==
  ASSUME IInv, NEW f \in {"read", "write"}, Handler(f)
  PROVE  /\ Settles(IRQ, Polled) /\ current_req \in Tasks /\ req[current_req].cmd = f
         /\ IRQ \in Contexts /\ (doing' = doing => doing' = [doing EXCEPT ![IRQ] = NULL])
         /\ pc[IRQ] = "idle" /\ doing[IRQ] = NULL /\ irq /\ ide_intr = f
         /\ Polled \in [Contexts -> Places] /\ Polled[IRQ] = "idle"
<1>1. /\ irq /\ pc[IRQ] = "idle" /\ ide_intr = f /\ IRQ \in Contexts /\ doing[IRQ] = NULL
      /\ current_req \in Tasks /\ req[current_req].cmd = f
      /\ \A c \in Contexts : pc[c] # "command"
  BY DEF Handler, At, Running, IInv, ContextsSound, Contexts, Served
<1>2. Polled \in [Contexts -> Places] /\ Polled[IRQ] = "idle"
  BY <1>1 DEF Polled, IInv, TypeOK, Places
<1>3. Settles(IRQ, Polled)
  BY <1>1, <1>2 DEF Settles, Polled, Working
<1>. QED
  BY <1>1, <1>2, <1>3 DEF IInv, TypeOK

\* The block of a request is beyond the end of its device.
LEMMA BeyondEndSafe ==
  ASSUME IInv, NEW c \in Contexts, BeyondEnd(c)
  PROVE  IInv'
<1> DEFINE r == current_req
<1>1. /\ Settles(c, pc) /\ r \in Tasks /\ doing[c] = r /\ drive.data = "none"
      /\ ide_intr = "none"
  BY WorkerSettles DEF BeyondEnd, At, Working
<1>2. /\ end_request(r, -1) /\ pc' = Signalled(r, [pc EXCEPT ![c] = "do"])
      /\ doing' = [doing EXCEPT ![c] = NULL] /\ current_req' = NULL /\ ide_intr' = "none"
      /\ UNCHANGED <<ide_reqs, reset_pending, recalibrate, drive, irq, moved, clash>>
  BY <1>1 DEF BeyondEnd
<1> HIDE DEF r
<1>3. /\ moved' = [moved EXCEPT ![r] = moved[r]] /\ moved[r] \subseteq 0..(req[r].len - 1)
      /\ moved[r] \subseteq moved[r] /\ current_req = r
  BY <1>1, <1>2, CurrentForms DEF Progress, r
<1>4. /\ drive' \in Drives /\ drive'.data = "none" /\ DriveSound' /\ irq' \in BOOLEAN
  BY <1>1, <1>2, DriveForms DEF IInv, TypeOK, DriveSound
<1>5. -1 \in {0, -1} /\ -1 # 0
  OBVIOUS
<1>. QED
  BY <1>1, <1>2, <1>3, <1>4, <1>5, EndRequestSafe

\* An error is found when the drive is selected, polled, or has interrupted.
LEMMA SelectFailsSafe ==
  ASSUME IInv, NEW c \in Contexts, SelectFails(c) \/ PollFails(c)
  PROVE  IInv'
<1>1. /\ Settles(c, pc) /\ current_req \in Tasks /\ doing[c] = current_req
      /\ drive.data = "none"
  BY WorkerSettles DEF SelectFails, PollFails, At, Working
<1>2. /\ handle_error(c, current_req, pc) /\ irq' = FALSE /\ UNCHANGED <<drive, moved, clash>>
  BY <1>1 DEF SelectFails, PollFails
<1>. QED
  BY <1>1, <1>2, HandleErrorSafe

LEMMA IntrErrorSafe ==
  ASSUME IInv, IntrError
  PROVE  IInv'
<1>1. PICK f \in {"read", "write"} : Handler(f) /\ drive.st \notin Good(f)
  BY DEF IntrError
<1>2. /\ Settles(IRQ, Polled) /\ current_req \in Tasks /\ IRQ \in Contexts
      /\ irq /\ ide_intr = f
  BY <1>1, HandlerSettles
<1>3. drive.data = "none"
  BY <1>1, <1>2, DriveForms
  DEF Good, IInv, Served, ReadServed, WriteServed, HasWritten, DriveSound
<1>4. /\ handle_error(IRQ, current_req, Polled) /\ irq' = FALSE
      /\ UNCHANGED <<drive, moved, clash>>
  BY DEF IntrError
<1>. QED
  BY <1>2, <1>3, <1>4, HandleErrorSafe

-----------------------------------------------------------------------------
(* The transfer.                                                            *)

\* The command is given.
LEMMA CommandSafe ==
  ASSUME IInv, NEW c \in Contexts, Command(c)
  PROVE  IInv'
<1> DEFINE r == current_req
<1>1. /\ Settles(c, pc) /\ r \in Tasks /\ doing[c] = r /\ drive.data = "none"
      /\ ide_intr = "none" /\ pc[c] = "command"
  BY WorkerSettles DEF Command, At, Working
<1>2. /\ drive' = Started(r) /\ irq' = FALSE /\ ide_intr' = req[r].cmd
      /\ UNCHANGED <<req, current_req, ide_reqs, reset_pending, recalibrate, moved, clash>>
      /\ IF req[r].cmd = "read" THEN Return(c) ELSE Goto(c, "poll", r)
  BY <1>1 DEF Command
<1>3. /\ req[r] \in Requests /\ req[r].cmd \in {"read", "write"}
      /\ req[r].pos \in Nat /\ req[r].len \in 1..MaxSectors /\ req[r].pos + 1 <= req[r].len
      /\ MaxSectors \in Nat
  BY <1>1, CurrentForms, NotNoReq, Distinct
<1>4. /\ drive' \in Drives /\ drive'.st = "busy" /\ drive'.data = "none" /\ drive'.req = r
      /\ drive'.op = req[r].cmd /\ drive'.at = req[r].pos
      /\ drive'.left = req[r].len - req[r].pos
  BY <1>1, <1>2, <1>3 DEF Started, Drives
<1>5. /\ pc' = [pc EXCEPT ![c] = IF req[r].cmd = "write" THEN "poll"
                                 ELSE IF c = IRQ THEN "idle" ELSE "wait"]
      /\ doing' = [doing EXCEPT ![c] = IF req[r].cmd = "write" THEN r ELSE NULL]
  BY <1>2, <1>3 DEF Return, Returned, Goto
<1> HIDE DEF r
<1>6. \A d \in Contexts \ {c} : pc[d] \notin Working
  BY <1>1 DEF Settles
<1>7. TypeOK'
  BY <1>1, <1>2, <1>3, <1>4, <1>5, Distinct DEF IInv, TypeOK, Places
<1>8. ContextsSound'
  BY <1>1, <1>2, <1>3, <1>5, <1>6, Distinct
  DEF IInv, TypeOK, ContextsSound, Contexts, Working, r
<1>9. RequestsKept'
  BY <1>1, <1>2, <1>5, Distinct DEF IInv, TypeOK, RequestsKept, Contexts
<1>10. Placed'
  BY <1>1, <1>2, <1>5, Distinct DEF IInv, TypeOK, Placed, Own, Queued, Pending, Contexts
<1>11. DriveSound'
  BY <1>1, <1>2, <1>3, <1>4, Distinct DEF DriveSound
<1>12. Polling' <=> req[r].cmd = "write"
  BY <1>1, <1>3, <1>5, <1>6, Distinct DEF Polling, IInv, TypeOK, Working
<1>13. \A d \in Contexts : pc'[d] # "command"
  BY <1>1, <1>3, <1>5, <1>6, Distinct DEF IInv, TypeOK, Working
<1>14. Served'
  BY <1>1, <1>2, <1>3, <1>4, <1>12, <1>13, Distinct
  DEF Served, ReadServed, WriteServed, Serves, r
<1>15. QueueAttended'
  BY <1>1, <1>2, Distinct DEF QueueAttended, r
<1>. QED
  BY <1>7, <1>8, <1>9, <1>10, <1>11, <1>14, <1>15 DEF IInv

\* The drive takes the sector it has asked for.
LEMMA OutSectorSafe ==
  ASSUME IInv, NEW c \in Contexts, OutSector(c)
  PROVE  IInv'
<1> DEFINE r == current_req
<1>1. /\ Settles(c, pc) /\ r \in Tasks /\ doing[c] = r /\ drive.data = "none"
      /\ pc[c] = "poll" /\ drive.st = "data"
  BY WorkerSettles DEF OutSector, At, Working
<1>2. /\ drive' = Given(r) /\ irq' = FALSE /\ ide_intr' = "write"
      /\ UNCHANGED <<req, current_req, ide_reqs, reset_pending, recalibrate, moved, clash>>
      /\ pc' = [pc EXCEPT ![c] = IF c = IRQ THEN "idle" ELSE "wait"]
      /\ doing' = [doing EXCEPT ![c] = NULL]
  BY <1>1 DEF OutSector, Return, Returned
<1>3. \A d \in Contexts \ {c} : pc[d] \notin Working
  BY <1>1 DEF Settles
<1>4. Polling /\ \A d \in Contexts : pc[d] # "command"
  BY <1>1, <1>3 DEF Polling, Working
<1>5. Serves(r) /\ req[r].cmd = "write"
  BY <1>1, <1>4, Distinct DEF IInv, TypeOK, Served, WriteServed, r
<1> HIDE DEF r
<1>6. /\ drive' \in Drives /\ drive'.st = "busy" /\ drive'.data = "right" /\ drive'.req = r
      /\ drive'.op = "write" /\ drive'.at = req[r].pos
      /\ drive'.left = req[r].len - req[r].pos
  BY <1>2, <1>5, DriveForms DEF Given, Serves, Drives
<1>7. TypeOK'
  BY <1>1, <1>2, <1>6, Distinct DEF IInv, TypeOK, Places
<1>8. ContextsSound'
  BY <1>1, <1>2, <1>3, Distinct DEF IInv, TypeOK, ContextsSound, Contexts, Working
<1>9. RequestsKept'
  BY <1>1, <1>2, Distinct DEF IInv, TypeOK, RequestsKept, Contexts
<1>10. Placed'
  BY <1>1, <1>2, Distinct DEF IInv, TypeOK, Placed, Own, Queued, Pending, Contexts
<1>11. ~Polling' /\ \A d \in Contexts : pc'[d] # "command"
  BY <1>1, <1>2, <1>3, <1>4, Distinct DEF Polling, IInv, TypeOK, Working
<1>12. DriveSound'
  BY <1>1, <1>2, <1>5, <1>6, <1>11 DEF IInv, DriveSound, Serves
<1>13. Served'
  BY <1>1, <1>2, <1>5, <1>6, <1>11, Distinct DEF Served, WriteServed, Serves, r
<1>14. QueueAttended'
  BY <1>1, <1>2, Distinct DEF QueueAttended, r
<1>. QED
  BY <1>7, <1>8, <1>9, <1>10, <1>12, <1>13, <1>14 DEF IInv

\* The request goes on to its next sector.
LEMMA AdvancedForms ==
  ASSUME IInv, NEW r \in Tasks, current_req = r, NEW s,
         s = moved[r] \cup {req[r].pos}, req[r].pos + 1 < req[r].len, Advanced(r)
  PROVE  /\ req' \in [Tasks -> Requests \cup {NoReq}] /\ req'[r] # NoReq
         /\ req'[r].pos = req[r].pos + 1 /\ req'[r].len = req[r].len
         /\ req'[r].cmd = req[r].cmd /\ req'[r].completed = req[r].completed
         /\ req'[r].blocked = req[r].blocked /\ req'[r].retries <= MAX_RETRIES
         /\ Progress(req'[r], s)
         /\ \A t \in Tasks : t # r => req'[t] = req[t]
<1>1. /\ req[r] \in Requests /\ Progress(req[r], moved[r]) /\ ~req[r].completed
      /\ req[r].pos \in Nat /\ req[r].len \in 1..MaxSectors
      /\ req \in [Tasks -> Requests \cup {NoReq}] /\ MaxSectors \in Nat /\ MAX_RETRIES \in Nat
  BY CurrentForms, Distinct
<1> DEFINE n == req[r].pos + 1
           q == [req[r] EXCEPT !.pos = n, !.retries = 0]
<1>2. req' = [req EXCEPT ![r] = q]
  BY DEF Advanced
<1>3. /\ n \in 0..(MaxSectors - 1) /\ n < req[r].len /\ n = req[r].pos + 1
      /\ 0 \in 0..(MAX_RETRIES + 1)
  BY <1>1
<1> HIDE DEF n
<1>4. /\ q \in Requests /\ q.pos = n /\ q.len = req[r].len /\ q.cmd = req[r].cmd
      /\ q.completed = req[r].completed /\ q.blocked = req[r].blocked /\ q.retries = 0
  BY <1>1, <1>3 DEF Requests
<1> HIDE DEF q
<1>5. Progress(q, s)
  BY <1>1, <1>3, <1>4 DEF Progress
<1>. QED
  BY <1>1, <1>2, <1>3, <1>4, <1>5, NotNoReq

\* The handler takes a sector that has been read.
LEMMA ReadIntrSafe ==
  ASSUME IInv, read_intr
  PROVE  IInv'
<1> DEFINE r == current_req
           s == moved[r] \cup {req[r].pos}
<1>1. Handler("read") /\ drive.st = "data"
  BY DEF read_intr, Good
<1>2. /\ Settles(IRQ, Polled) /\ r \in Tasks /\ req[r].cmd = "read" /\ IRQ \in Contexts
      /\ (doing' = doing => doing' = [doing EXCEPT ![IRQ] = NULL])
      /\ pc[IRQ] = "idle" /\ doing[IRQ] = NULL /\ ide_intr = "read"
      /\ Polled \in [Contexts -> Places] /\ Polled[IRQ] = "idle"
  BY <1>1, HandlerSettles
<1>3. Serves(r) /\ drive.data = "none" /\ ~Polling
  BY <1>1, <1>2 DEF IInv, Served, ReadServed
<1>4. /\ req[r] \in Requests /\ Progress(req[r], moved[r]) /\ ~req[r].completed
      /\ req[r].pos \in Nat /\ req[r].len \in 1..MaxSectors /\ req[r].pos + 1 <= req[r].len
      /\ moved \in [Tasks -> SUBSET (0..(MaxSectors - 1))] /\ MaxSectors \in Nat
  BY <1>2, CurrentForms, Distinct
<1>5. /\ moved' = [moved EXCEPT ![r] = s] /\ drive' = NextSector("busy") /\ irq' = FALSE
      /\ UNCHANGED <<ide_reqs, reset_pending, recalibrate, clash>>
      /\ IF req[r].pos + 1 < req[r].len
         THEN Advanced(r) /\ pc' = Polled /\ UNCHANGED <<doing, current_req, ide_intr>>
         ELSE Finish(r)
  BY <1>3 DEF read_intr, Serves
<1> HIDE DEF r
<1>6. drive.at + drive.left <= MaxSectors /\ drive.left = req[r].len - req[r].pos
      /\ drive.at = req[r].pos /\ drive.op = "read" /\ drive.req = r
  BY <1>2, <1>3, <1>4 DEF Serves
<1>7. /\ drive' \in Drives /\ drive'.data = "none"
      /\ drive.left > 1 => /\ drive'.st = "busy" /\ drive'.op = "read" /\ drive'.req = r
                           /\ drive'.at = req[r].pos + 1
                           /\ drive'.left = req[r].len - req[r].pos - 1
      /\ ~(drive.left > 1) => drive'.st = "ready"
  BY <1>5, <1>6, NextSectorForms
<1>8. DriveSound'
  BY <1>2, <1>4, <1>6, <1>7 DEF DriveSound
<1>9. moved[r] \subseteq s /\ s \subseteq 0..(req[r].len - 1) /\ r = current_req
      /\ s \subseteq 0..(MaxSectors - 1)
  BY <1>4 DEF Progress, r
<1>10. CASE ~(req[r].pos + 1 < req[r].len)
  <2>1. s = 0..(req[r].len - 1)
    BY <1>4, <1>10 DEF Progress
  <2>2. /\ end_request(r, 0) /\ current_req' = NULL /\ ide_intr' = "none"
        /\ pc' = Signalled(r, [Polled EXCEPT ![IRQ] = "do"])
        /\ doing' = [doing EXCEPT ![IRQ] = NULL]
    BY <1>2, <1>5, <1>10 DEF Finish
  <2> HIDE DEF s
  <2>. QED
    BY <1>2, <1>5, <1>7, <1>8, <1>9, <2>1, <2>2, EndRequestSafe
<1>11. CASE req[r].pos + 1 < req[r].len
  <2>1. Advanced(r) /\ pc' = Polled /\ UNCHANGED <<doing, current_req, ide_intr>>
    BY <1>5, <1>11
  <2>2. /\ req' \in [Tasks -> Requests \cup {NoReq}] /\ req'[r] # NoReq
        /\ req'[r].pos = req[r].pos + 1 /\ req'[r].len = req[r].len
        /\ req'[r].cmd = req[r].cmd /\ req'[r].completed = req[r].completed
        /\ req'[r].blocked = req[r].blocked /\ req'[r].retries <= MAX_RETRIES
        /\ Progress(req'[r], s)
        /\ \A t \in Tasks : t # r => req'[t] = req[t]
    BY <1>2, <1>9, <1>11, <2>1, AdvancedForms
  <2> HIDE DEF s
  <2>3. TypeOK'
    BY <1>2, <1>4, <1>5, <1>7, <1>9, <2>1, <2>2 DEF IInv, TypeOK
  <2>4. pc' = pc
    BY <1>3, <2>1 DEF Polled, Polling, IInv, TypeOK
  <2>5. ContextsSound'
    BY <2>1, <2>4 DEF IInv, ContextsSound
  <2>6. RequestsKept'
    BY <1>2, <1>4, <1>5, <2>2, <2>4, CurrentForms, <1>9 DEF IInv, RequestsKept
  <2>7. Placed'
    BY <1>4, <1>5, <1>9, <2>1, <2>2, <2>4, CurrentPending
    DEF IInv, Placed, Own, Queued, Pending
  <2>8. Served'
    <3>1. drive.left > 1
      BY <1>4, <1>6, <1>11
    <3>2. Serves(r)'
      BY <1>2, <1>4, <1>7, <2>1, <2>2, <3>1 DEF Serves, r
    <3>3. ReadServed' /\ ~Polling'
      BY <1>3, <1>7, <2>1, <2>4, <3>1, <3>2 DEF ReadServed, Polling, r
    <3>. QED
      BY <1>2, <2>1, <2>2, <2>4, <3>3 DEF IInv, Served, r
  <2>9. QueueAttended'
    BY <1>2, <1>9, <2>1, Distinct DEF QueueAttended
  <2>. QED
    BY <1>8, <2>3, <2>5, <2>6, <2>7, <2>8, <2>9 DEF IInv
<1>. QED
  BY <1>10, <1>11

\* The handler finds that a sector has been written.
LEMMA WriteIntrSafe ==
  ASSUME IInv, write_intr
  PROVE  IInv'
<1> DEFINE r == current_req
           s == moved[r]
<1>1. Handler("write") /\ drive.st \in {"data", "ready"}
  BY DEF write_intr, Good
<1>2. /\ Settles(IRQ, Polled) /\ r \in Tasks /\ req[r].cmd = "write" /\ IRQ \in Contexts
      /\ (doing' = doing => doing' = [doing EXCEPT ![IRQ] = NULL])
      /\ pc[IRQ] = "idle" /\ doing[IRQ] = NULL /\ ide_intr = "write" /\ irq
      /\ Polled \in [Contexts -> Places] /\ Polled[IRQ] = "idle"
      /\ \A c \in Contexts : pc[c] # "command"
  BY <1>1, HandlerSettles DEF IInv, Served
<1>3. ~Polling /\ HasWritten(r)
  BY <1>1, <1>2 DEF IInv, Served, WriteServed
<1>4. /\ req[r] \in Requests /\ Progress(req[r], moved[r]) /\ ~req[r].completed
      /\ req[r].pos \in Nat /\ req[r].len \in 1..MaxSectors /\ req[r].pos + 1 <= req[r].len
      /\ moved \in [Tasks -> SUBSET (0..(MaxSectors - 1))] /\ MaxSectors \in Nat
  BY <1>2, CurrentForms, Distinct
<1>5. /\ irq' = FALSE
      /\ UNCHANGED <<ide_reqs, reset_pending, recalibrate, drive, moved, clash>>
      /\ IF req[r].pos + 1 < req[r].len
         THEN /\ Advanced(r) /\ ide_intr' = "none" /\ current_req' = current_req
              /\ pc' = [Polled EXCEPT ![IRQ] = "poll"] /\ doing' = [doing EXCEPT ![IRQ] = r]
         ELSE Finish(r)
  BY DEF write_intr
<1> HIDE DEF r
<1>6. /\ drive' \in Drives /\ drive'.data = "none" /\ DriveSound'
  BY <1>1, <1>5, DriveForms DEF IInv, DriveSound
<1>7. /\ moved[r] \subseteq s /\ s \subseteq 0..(req[r].len - 1) /\ r = current_req
      /\ s = moved[r] \cup {req[r].pos} /\ moved' = [moved EXCEPT ![r] = s]
  BY <1>2, <1>3, <1>4, <1>5 DEF Progress, HasWritten, r
<1>8. CASE ~(req[r].pos + 1 < req[r].len)
  <2>1. s = 0..(req[r].len - 1)
    <3>1. req[r].pos \in moved[r] /\ s = moved[r]
      BY <1>3 DEF HasWritten
    <3> HIDE DEF s
    <3>2. req[r].pos = req[r].len - 1 /\ 0..(req[r].pos - 1) \subseteq moved[r]
      BY <1>4, <1>8 DEF Progress
    <3>3. 0..(req[r].len - 1) \subseteq s
      BY <1>4, <3>1, <3>2
    <3>. QED  BY <1>7, <3>3
  <2>2. /\ end_request(r, 0) /\ current_req' = NULL /\ ide_intr' = "none"
        /\ pc' = Signalled(r, [Polled EXCEPT ![IRQ] = "do"])
        /\ doing' = [doing EXCEPT ![IRQ] = NULL]
    BY <1>2, <1>5, <1>8 DEF Finish
  <2> HIDE DEF s
  <2>. QED
    BY <1>2, <1>5, <1>6, <1>7, <2>1, <2>2, EndRequestSafe
<1>9. CASE req[r].pos + 1 < req[r].len
  <2>1. /\ Advanced(r) /\ ide_intr' = "none" /\ current_req' = current_req
        /\ pc' = [Polled EXCEPT ![IRQ] = "poll"] /\ doing' = [doing EXCEPT ![IRQ] = r]
    BY <1>5, <1>9
  <2>2. /\ req' \in [Tasks -> Requests \cup {NoReq}] /\ req'[r] # NoReq
        /\ req'[r].pos = req[r].pos + 1 /\ req'[r].len = req[r].len
        /\ req'[r].cmd = req[r].cmd /\ req'[r].completed = req[r].completed
        /\ req'[r].blocked = req[r].blocked /\ req'[r].retries <= MAX_RETRIES
        /\ Progress(req'[r], s)
        /\ \A t \in Tasks : t # r => req'[t] = req[t]
    BY <1>2, <1>7, <1>9, <2>1, AdvancedForms
  <2>3. pc' = [pc EXCEPT ![IRQ] = "poll"]
    BY <1>3, <2>1 DEF Polled, Polling, IInv, TypeOK
  <2>4. TypeOK'
    BY <1>2, <1>4, <1>5, <1>6, <2>1, <2>2, <2>3 DEF IInv, TypeOK, Places
  <2>5. ContextsSound'
    BY <1>2, <1>3, <1>7, <2>1, <2>3 DEF IInv, TypeOK, ContextsSound, Polling, Working
  <2>6. RequestsKept'
    <3>1. pc[r] \notin {"idle", "woken"} /\ req[r].blocked
      BY <1>2, <1>7, CurrentForms
    <3>2. \A t \in Tasks : pc'[t] = pc[t]
      BY <1>2, <2>3, Distinct DEF IInv, TypeOK, Contexts
    <3>3. moved'[r] = s /\ \A t \in Tasks : t # r => moved'[t] = moved[t]
      BY <1>4, <1>5
    <3> HIDE DEF s
    <3>. QED
      BY <1>2, <2>2, <3>1, <3>2, <3>3 DEF IInv, RequestsKept
  <2>7. Placed'
    BY <1>2, <1>4, <1>5, <1>7, <2>1, <2>2, <2>3, CurrentPending, Distinct
    DEF IInv, TypeOK, Placed, Own, Queued, Pending, Contexts
  <2>8. Served'
    <3>1. Serves(r)' /\ drive'.st = "data"
      BY <1>2, <1>3, <1>4, <1>5, <1>9, <2>1, <2>2 DEF Serves, HasWritten, r
    <3>2. Polling'
      BY <1>2, <2>3 DEF Polling, IInv, TypeOK
    <3>. QED
      BY <1>2, <1>7, <2>1, <2>2, <3>1, <3>2, Distinct DEF Served, r
  <2>9. QueueAttended'
    BY <1>2, <1>7, <2>1, Distinct DEF QueueAttended
  <2>. QED
    BY <1>6, <2>4, <2>5, <2>6, <2>7, <2>8, <2>9 DEF IInv
<1>. QED
  BY <1>8, <1>9

\* The heads are at track zero.
LEMMA RecalIntrSafe ==
  ASSUME IInv, recal_intr
  PROVE  IInv'
<1>1. /\ pc[IRQ] = "idle" /\ ide_intr = "recal" /\ current_req = FAKE_REQ
      /\ current_req' = NULL /\ ide_intr' = "none"
      /\ pc' = [Polled EXCEPT ![IRQ] = "do"] /\ irq' = FALSE /\ IRQ \in Contexts
      /\ UNCHANGED <<req, ide_reqs, reset_pending, recalibrate, doing, drive, moved, clash>>
  BY DEF recal_intr, Handler, At, IInv, Served, Contexts
<1>2. \A c \in Contexts : pc[c] \notin Working
  BY <1>1, Distinct DEF IInv, ContextsSound
<1>3. pc' = [pc EXCEPT ![IRQ] = "do"]
  BY <1>1, <1>2 DEF Polled, Working, IInv, TypeOK
<1>4. TypeOK'
  BY <1>1, <1>3 DEF IInv, TypeOK, Places
<1>5. ContextsSound'
  BY <1>1, <1>2, <1>3 DEF IInv, TypeOK, ContextsSound, Working
<1>6. RequestsKept' /\ Placed'
  BY <1>1, <1>3, Distinct
  DEF IInv, TypeOK, RequestsKept, Placed, Own, Queued, Pending, Contexts
<1>7. DriveSound'
  BY <1>1, DriveForms DEF IInv, DriveSound
<1>8. Served' /\ QueueAttended'
  BY <1>1, <1>3, Distinct DEF Served, QueueAttended, IInv, TypeOK
<1>. QED
  BY <1>4, <1>5, <1>6, <1>7, <1>8 DEF IInv

\* An interrupt that nobody expects.
LEMMA UnexpectedSafe ==
  ASSUME IInv, Unexpected
  PROVE  IInv'
<1>1. /\ ide_intr = "none" /\ irq' = FALSE
      /\ UNCHANGED <<req, driver, pc, doing, drive, moved, clash>>
  BY DEF Unexpected, Handler
<1>2. TypeOK' /\ ContextsSound' /\ QueueAttended'
  BY <1>1 DEF IInv, TypeOK, ContextsSound, QueueAttended, driver
<1>3. RequestsKept' /\ Placed'
  BY <1>1 DEF IInv, RequestsKept, Placed, Own, Queued, Pending, driver
<1>4. DriveSound' /\ Served'
  BY <1>1 DEF IInv, DriveSound, Served, Serves, Polling, driver
<1>. QED
  BY <1>2, <1>3, <1>4 DEF IInv

-----------------------------------------------------------------------------
(* sync_request()                                                           *)

\* A request is filled in.
LEMMA RequestSafe ==
  ASSUME IInv, NEW t \in Tasks, Request(t)
  PROVE  IInv'
<1>1. PICK ask \in Asks[t] :
        req' = [req EXCEPT ![t] =
                  [cmd |-> ask.cmd, dev |-> ask.dev, beyond |-> ask.beyond, len |-> ask.len,
                   pos |-> 0, retries |-> 0, completed |-> FALSE, result |-> 0, blocked |-> TRUE]]
  BY DEF Request
<1> DEFINE q == [cmd |-> ask.cmd, dev |-> ask.dev, beyond |-> ask.beyond, len |-> ask.len,
                 pos |-> 0, retries |-> 0, completed |-> FALSE, result |-> 0, blocked |-> TRUE]
<1>2. ask \in [cmd : {"read", "write"}, dev : Devs, len : 1..MaxSectors, beyond : BOOLEAN]
  BY ParametersAssumption
<1>3. /\ q \in Requests /\ q.pos = 0 /\ q.retries = 0 /\ q.len \in 1..MaxSectors
      /\ ~q.completed /\ q.blocked
  BY <1>2, Distinct DEF Requests
<1>4. /\ req' = [req EXCEPT ![t] = q] /\ pc[t] = "idle" /\ pc' = [pc EXCEPT ![t] = "do"]
      /\ doing' = [doing EXCEPT ![t] = t] /\ moved' = [moved EXCEPT ![t] = {}]
      /\ t \in Contexts /\ t # IRQ
      /\ UNCHANGED <<driver, drive, irq, clash>>
  BY <1>1, Distinct DEF Request, At, Goto, Contexts
<1> HIDE DEF q
<1>5. q # NoReq /\ Progress(q, {})
  BY <1>3, NotNoReq, Distinct DEF Progress
<1>6. req[t] = NoReq /\ ~Pending(t) /\ ~Queued(t) /\ current_req # t
  BY <1>4 DEF IInv, RequestsKept, Placed, Pending
<1>7. TypeOK'
  BY <1>3, <1>4 DEF IInv, TypeOK, Places, driver
<1>8. ContextsSound'
  BY <1>4 DEF IInv, TypeOK, ContextsSound, Working, driver
<1>9. RequestsKept'
  BY <1>3, <1>4, <1>5, Distinct DEF IInv, TypeOK, RequestsKept, Contexts
<1>10. Placed'
  BY <1>3, <1>4, <1>5, <1>6, Distinct
  DEF IInv, TypeOK, Placed, Own, Queued, Pending, Contexts, driver
<1>11. Polling' = Polling
  BY <1>4 DEF Polling, IInv, TypeOK
<1>12. DriveSound'
  BY <1>4, <1>11 DEF IInv, DriveSound, driver
<1>13. Served'
  BY <1>4, <1>6, <1>11
  DEF IInv, TypeOK, Served, ReadServed, WriteServed, Serves, HasWritten, driver
<1>14. QueueAttended'
  BY <1>4 DEF IInv, TypeOK, QueueAttended, driver
<1>. QED
  BY <1>7, <1>8, <1>9, <1>10, <1>12, <1>13, <1>14 DEF IInv

\* A task waits, or leaves with its request completed.
LEMMA WaitSafe ==
  ASSUME IInv, NEW t \in Tasks, sync_request(t)
  PROVE  IInv'
<1>1. /\ pc[t] \in {"wait", "sleepy", "woken"} /\ t \in Contexts /\ t # IRQ
      /\ req[t] # NoReq /\ doing[t] = NULL
      /\ UNCHANGED <<driver, doing, drive, irq, clash>>
  BY Distinct DEF sync_request, WaitTest, Sleep, Done, At, Contexts, IInv, ContextsSound, RequestsKept
<1>2. /\ \/ /\ pc' = [pc EXCEPT ![t] = "sleepy"] \/ pc' = [pc EXCEPT ![t] = "asleep"]
            /\ req' = req /\ moved' = moved
         \/ /\ pc' = [pc EXCEPT ![t] = "woken"] /\ req[t].completed
            /\ req' = req /\ moved' = moved
         \/ /\ pc' = [pc EXCEPT ![t] = "idle"] /\ req[t].completed
            /\ req' = [req EXCEPT ![t] = NoReq] /\ moved' = [moved EXCEPT ![t] = {}]
  BY <1>1 DEF sync_request, WaitTest, Sleep, Done, At, IInv, RequestsKept
<1>3. \/ req' = req /\ moved' = moved /\ pc'[t] # "idle"
      \/ req[t].completed /\ req' = [req EXCEPT ![t] = NoReq] /\ moved' = [moved EXCEPT ![t] = {}]
         /\ pc'[t] = "idle"
  BY <1>1, <1>2 DEF IInv, TypeOK
<1>4. /\ pc' \in [Contexts -> Places] /\ \A c \in Contexts \ {t} : pc'[c] = pc[c]
      /\ pc'[t] \in {"sleepy", "asleep", "woken", "idle"}
      /\ pc'[t] = "woken" => req[t].completed
  BY <1>1, <1>2 DEF IInv, TypeOK, Places
<1>5. Pending(t)' = Pending(t) /\ \A u \in Tasks \ {t} : req'[u] = req[u] /\ moved'[u] = moved[u]
  BY <1>1, <1>3 DEF Pending, IInv, TypeOK
<1>6. TypeOK'
  BY <1>1, <1>3, <1>4 DEF IInv, TypeOK, driver
<1>7. ContextsSound'
  BY <1>1, <1>4 DEF IInv, ContextsSound, Working, Contexts, driver
<1>8. RequestsKept'
  BY <1>1, <1>3, <1>4, <1>5, Distinct DEF IInv, TypeOK, RequestsKept, Contexts
<1>9. Placed'
  <2>1. \A u \in Tasks : Pending(u)' = Pending(u) /\ Own(u)' = Own(u)
    BY <1>1, <1>4, <1>5, Distinct DEF Own, Pending, Contexts
  <2>. QED  BY <1>1, <2>1 DEF IInv, Placed, Queued, driver
<1>10. Polling' = Polling /\ \A c \in Contexts : pc'[c] = "command" <=> pc[c] = "command"
  BY <1>1, <1>4 DEF Polling
<1>11. DriveSound'
  BY <1>1, <1>10 DEF IInv, DriveSound, driver
<1>12. current_req \in Tasks => req'[current_req] = req[current_req] /\ moved'[current_req] = moved[current_req]
  BY <1>3, <1>5, CurrentPending DEF Pending
<1>13. Served'
  BY <1>1, <1>10, <1>12
  DEF IInv, TypeOK, Served, ReadServed, WriteServed, Serves, HasWritten, driver
<1>14. QueueAttended'
  BY <1>1, <1>4 DEF IInv, QueueAttended, driver
<1>. QED
  BY <1>6, <1>7, <1>8, <1>9, <1>11, <1>13, <1>14 DEF IInv

-----------------------------------------------------------------------------
(* The theorems.                                                            *)

LEMMA InitSafe == Init => IInv
<1> SUFFICES ASSUME Init PROVE IInv
  OBVIOUS
<1>1. TypeOK
  <2>1. drive \in Drives
    BY Distinct DEF Init, ReadyDrive, Drives
  <2>2. /\ pc \in [Contexts -> Places] /\ doing \in [Contexts -> Tasks \cup {NULL}]
        /\ req \in [Tasks -> Requests \cup {NoReq}] /\ ide_reqs \in Seq(Tasks)
        /\ moved \in [Tasks -> SUBSET (0..(MaxSectors - 1))] /\ recalibrate \in [Devs -> BOOLEAN]
    BY DEF Init, Places
  <2>. QED  BY <2>1, <2>2 DEF Init, TypeOK
<1>2. ContextsSound /\ Polling = FALSE
  BY Distinct DEF Init, ContextsSound, Polling, Contexts, Working
<1>3. RequestsKept
  BY Distinct DEF Init, RequestsKept, Contexts
<1>4. Placed
  BY Distinct DEF Init, Placed, Own, Queued, Pending, NoRepeats, ToSet, Contexts
<1>5. DriveSound /\ Served /\ QueueAttended
  BY <1>2, Distinct DEF Init, DriveSound, Served, QueueAttended, ReadyDrive
<1>. QED
  BY <1>1, <1>2, <1>3, <1>4, <1>5 DEF IInv

\* Every step keeps the invariant.
LEMMA NextSafe == IInv /\ [Next]_vars => IInv'
<1> SUFFICES ASSUME IInv, [Next]_vars PROVE IInv'
  OBVIOUS
<1>1. CASE Drive
  BY <1>1, DriveReadySafe, DriveWritesSafe, DriveFailsSafe DEF Drive
<1>2. CASE ide_int_handler
  BY <1>2, UnexpectedSafe, IntrErrorSafe, ReadIntrSafe, WriteIntrSafe, RecalIntrSafe
  DEF ide_int_handler
<1>3. ASSUME NEW c \in Contexts, do_request(c) PROVE IInv'
  <2>1. CASE Recursion(c) \/ Overtaken(c)
    BY <2>1, ClashSafe DEF Recursion, Overtaken
  <2>2. CASE Enqueue(c) \/ Start(c) \/ \E d \in Devs : recalibrate_drive(c, d)
    BY <2>2, EnqueueSafe, StartSafe, RecalibrateSafe
  <2>3. CASE BeyondEnd(c) \/ SelectFails(c) \/ Command(c) \/ OutSector(c) \/ PollFails(c)
    BY <2>3, BeyondEndSafe, SelectFailsSafe, CommandSafe, OutSectorSafe
  <2>. QED  BY <1>3, <2>1, <2>2, <2>3 DEF do_request
<1>4. ASSUME NEW t \in Tasks, Request(t) \/ sync_request(t) PROVE IInv'
  BY <1>4, RequestSafe, WaitSafe
<1>5. CASE UNCHANGED vars
  <2>1. clash' \in {"none", "overtaken", "recursion"}
    BY <1>5 DEF vars, IInv, TypeOK
  <2>. QED  BY <1>5, <2>1, ClashSafe DEF vars
<1>. QED
  BY <1>1, <1>2, <1>3, <1>4, <1>5 DEF Next

\* The driver keeps its requests, its contexts and the drive in step.
THEOREM Invariant == Spec => []IInv
BY InitSafe, NextSafe, PTL DEF Spec

\* A set of at most one, and of exactly one, of three places.
LEMMA PlacesCounted ==
  ASSUME NEW a \in BOOLEAN, NEW b \in BOOLEAN, NEW c \in BOOLEAN,
         a => ~b /\ ~c, b => ~c
  PROVE  Cardinality({p \in {"own", "queued", "current"} :
                        \/ p = "own" /\ a
                        \/ p = "queued" /\ b
                        \/ p = "current" /\ c}) = IF a \/ b \/ c THEN 1 ELSE 0
<1> DEFINE S == {p \in {"own", "queued", "current"} :
                        \/ p = "own" /\ a
                        \/ p = "queued" /\ b
                        \/ p = "current" /\ c}
<1>1. CASE ~a /\ ~b /\ ~c
  <2>1. S = {}
    BY <1>1
  <2>. QED  BY <1>1, <2>1, FS_EmptySet
<1>2. CASE a
  <2>1. S = {"own"}
    BY <1>2
  <2>. QED  BY <1>2, <2>1, FS_Singleton
<1>3. CASE b
  <2>1. S = {"queued"}
    BY <1>3
  <2>. QED  BY <1>3, <2>1, FS_Singleton
<1>4. CASE c
  <2>1. S = {"current"}
    BY <1>4
  <2>. QED  BY <1>4, <2>1, FS_Singleton
<1>. QED
  BY <1>1, <1>2, <1>3, <1>4

LEMMA InvariantImplies == IInv => RequestsSound /\ ResultIsTrue
<1> SUFFICES ASSUME IInv PROVE RequestsSound /\ ResultIsTrue
  OBVIOUS
<1>1. RequestsPlaced
  <2>1. IsInjective(ide_reqs)
    <3>1. NoRepeats(ide_reqs) /\ ide_reqs \in Seq(Tasks)
      BY DEF IInv, Placed, TypeOK
    <3>. QED  BY <3>1, NoRepeatsInjective
  <2>2. ASSUME NEW t \in Tasks
        PROVE  Cardinality({p \in {"own", "queued", "current"} :
                        \/ p = "own" /\ pc[t] = "do" /\ doing[t] = t
                        \/ p = "queued" /\ t \in ToSet(ide_reqs)
                        \/ p = "current" /\ current_req = t}) = IF Pending(t) THEN 1 ELSE 0
    <3> DEFINE a == pc[t] = "do" /\ doing[t] = t
               b == t \in ToSet(ide_reqs)
               c == current_req = t
    <3>1. (a => ~b /\ ~c) /\ (b => ~c) /\ (Pending(t) <=> a \/ b \/ c)
      BY DEF IInv, Placed, Own, Queued
    <3>2. a \in BOOLEAN /\ b \in BOOLEAN /\ c \in BOOLEAN
      OBVIOUS
    <3> HIDE DEF a, b, c
    <3>3. Cardinality({p \in {"own", "queued", "current"} :
                        \/ p = "own" /\ a
                        \/ p = "queued" /\ b
                        \/ p = "current" /\ c}) = IF a \/ b \/ c THEN 1 ELSE 0
      BY <3>1, <3>2, PlacesCounted
    <3>4. Cardinality({p \in {"own", "queued", "current"} :
                        \/ p = "own" /\ a
                        \/ p = "queued" /\ b
                        \/ p = "current" /\ c}) = IF Pending(t) THEN 1 ELSE 0
      BY <3>1, <3>3
    <3>. QED  BY <3>4 DEF a, b, c
  <2>. QED  BY <2>1, <2>2 DEF RequestsPlaced
<1>2. QueueMoves
  <2>1. (current_req = NULL /\ ide_reqs # <<>>) => \E c \in Contexts : pc[c] = "do"
    BY DEF IInv, QueueAttended
  <2>2. ASSUME current_req # NULL
        PROVE  \/ \E c \in Contexts : pc[c] \in {"command", "poll"} /\ doing[c] = current_req
               \/ ide_intr # "none" /\ (irq \/ drive.st = "busy")
    <3>1. \A c \in Contexts : pc[c] \in {"command", "poll"} => doing[c] = current_req
      BY DEF IInv, ContextsSound, Working
    <3>2. CASE current_req = FAKE_REQ
      BY <3>2, DriveForms DEF IInv, Served
    <3>3. CASE current_req \in Tasks
      BY <3>1, <3>3, Distinct DEF IInv, TypeOK, Served, ReadServed, WriteServed, Polling
    <3>. QED  BY <2>2, <3>2, <3>3 DEF IInv, TypeOK
  <2>. QED  BY <2>1, <2>2 DEF QueueMoves
<1>3. ResultIsTrue
  BY DEF IInv, RequestsKept, Progress, ResultIsTrue
<1>. QED
  BY <1>1, <1>2, <1>3 DEF RequestsSound, IInv

\* No request is lost, done twice or left alone (do_request, end_request,
\* handle_error), for any number of tasks and disks.
THEOREM RequestsSafe == Spec => []RequestsSound
BY Invariant, InvariantImplies, PTL

\* A request that ends well has moved all of its sectors, each between the right
\* places, whatever failed and was tried again (read_intr, write_intr).
THEOREM ResultSafe == Spec => []ResultIsTrue
BY Invariant, InvariantImplies, PTL
=============================================================================
