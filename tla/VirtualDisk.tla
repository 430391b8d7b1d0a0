------------------------------ MODULE VirtualDisk ------------------------------
(***************************************************************************)
(* The disk of a virtual machine (drivers/virtual/vide/vide.c): a file or  *)
(* a partition, seen through the ports of an IDE controller or through     *)
(* the BIOS (drivers/virtual/vbios/disk.c).                                *)
(*                                                                         *)
(* A block is two halves of 256 bytes, the unit in which the guest reads   *)
(* and writes the data port: the controller takes 256 for the length of a  *)
(* block.  Machine words have Width values.                                *)
(*                                                                         *)
(* The model stops, with clash_d, where the code                           *)
(*   "half"   fetches the next block, or stores one, after half a block;   *)
(*   "beyond" uses the buffer beyond its end;                              *)
(*   "zero"   counts the blocks left down from zero, for a request of 256  *)
(*            blocks (a count of 0) and at the end of a request;           *)
(*   "sector" accepts sector 0, the block before the first one;            *)
(*   "told"   reports a failed request to the guest as a success.          *)
(***************************************************************************)
EXTENDS Integers, Sequences, SequencesExt, FiniteSets

CONSTANTS
    Sizes,              \* of images, in blocks
    Track,              \* sectors of a track, 62 in the code
    MaxCylinders,       \* 1024 in the code
    Width,
    Values,             \* contents of blocks
    MaxRequests, MaxFaults

VARIABLES
    v,                  \* struct vide, see DkInit
    disk,               \* the image
    ideal,              \* history: what it should hold
    got,                \* history: halves that the guest has read since its command
    wanted,             \* history: the first block of that command, and which way it came: [via, block]
    requests, faults, clash_d

dkvars == <<v, disk, ideal, got, wanted, requests, faults, clash_d>>

Nothing == [via |-> "none", block |-> 0]
Halves(x) == <<<<x, 1>>, <<x, 2>>>>

-----------------------------------------------------------------------------
(* create_vide(): cylinders, heads and sectors for an image of n blocks.    *)

Heads(n) ==
    LET tracks == n \div Track
        enough == {h \in 1..(tracks + 2) : h % 2 = 0 /\ tracks \div h < MaxCylinders}
    IN  CHOOSE h \in enough : \A g \in enough : h <= g

Derived(n) == [heads |-> Heads(n), cylinders |-> (n \div Track) \div Heads(n), sectors |-> Track]

\* A partition that is the whole of a hard disk has the geometry of that disk; nothing
\* keeps it within what the BIOS can address.
Geometry(n) == {Derived(n)} \cup
    {g \in [heads : 1..n, cylinders : 1..n, sectors : 1..(Track + 1)] : g.heads * g.cylinders * g.sectors = n}

\* Mutant: the blocks that make no whole track are offered as well.
Blocks_all(g) == g.cylinders * g.heads * g.sectors + 1

Blocks(g) == g.cylinders * g.heads * g.sectors

\* make_blkno(), with registers that the guest set: unsigned, and unchecked.
make_blkno(r) == ((r.sector - 1) + r.head * v.geom.sectors + r.cyl * v.geom.heads * v.geom.sectors) % Width

-----------------------------------------------------------------------------
(* The ports.                                                               *)

Running == clash_d = "none"
Fails == faults < MaxFaults /\ faults' = faults + 1
Keep == UNCHANGED <<disk, ideal>>

\* read_next_block(), which sleeps in the file system or the disk driver.
read_next_block(w) ==
    \/ /\ w.block >= Blocks(w.geom)
       /\ v' = [w EXCEPT !.status = "error"] /\ UNCHANGED faults
    \/ /\ w.block < Blocks(w.geom) /\ Fails
       /\ v' = [w EXCEPT !.status = "error"]
    \/ /\ w.block < Blocks(w.geom) /\ UNCHANGED faults
       /\ v' = [w EXCEPT !.status = "data", !.block = @ + 1, !.left = @ - 1, !.index = 0,
                         !.buf = Halves(disk[w.block]), !.intrq = TRUE]

\* vide_out(HD_CURRENT): there is no second drive.
select_drive(one) ==
    /\ Running
    /\ v' = [v EXCEPT !.status = IF one THEN "busy" ELSE "ready"]
    /\ UNCHANGED <<disk, ideal, got, wanted, requests, faults, clash_d>>

\* HD_DEVCTRL: a reset of the controller; the registers are set again before a command.
reset ==
    /\ Running /\ v' = [v EXCEPT !.status = "ready"]
    /\ UNCHANGED <<disk, ideal, got, wanted, requests, faults, clash_d>>

Request == Running /\ requests < MaxRequests /\ requests' = requests + 1

\* The registers r are written, then HD_CMD_READ.
command_read(r) ==
    LET w == [v EXCEPT !.block = make_blkno(r), !.left = r.count, !.writing = FALSE]
    IN  /\ Request
        /\ read_next_block(w)
        /\ got' = <<>> /\ wanted' = IF v'.status = "data" THEN [via |-> "port", block |-> w.block] ELSE Nothing
        /\ clash_d' = IF v'.left < 0 THEN "zero" ELSE clash_d
        /\ Keep

\* HD_CMD_WRITE: the buffer is used from wherever the last command left it.
command_write(r) ==
    /\ Request
    /\ v' = [v EXCEPT !.block = make_blkno(r), !.left = r.count, !.status = "data", !.intrq = TRUE,
                      !.writing = TRUE]
    /\ got' = <<>> /\ wanted' = Nothing
    /\ UNCHANGED <<disk, ideal, faults, clash_d>>

command_other(known) ==
    /\ Running
    /\ v' = IF known THEN [v EXCEPT !.intrq = TRUE] ELSE [v EXCEPT !.status = "error"]
    /\ UNCHANGED <<disk, ideal, got, wanted, requests, faults, clash_d>>

\* vide_in(HD_DATA): half a block.  The next block comes after it.
data_in ==
    LET w == [v EXCEPT !.index = @ + 1, !.status = "ready"]
    IN  /\ Running /\ ~v.writing
        /\ IF v.index >= 2
           THEN clash_d' = "beyond" /\ UNCHANGED <<v, got, wanted, faults>>
           ELSE /\ IF wanted.via = "port" THEN got' = Append(got, v.buf[v.index + 1]) /\ UNCHANGED wanted
                   ELSE got' = <<>> /\ wanted' = Nothing
                /\ IF v.left > 0 THEN clash_d' = "half" /\ v' = w /\ UNCHANGED faults
                   ELSE v' = w /\ UNCHANGED <<clash_d, faults>>
        /\ UNCHANGED <<disk, ideal, requests>>

write_block(x) ==
    /\ disk' = IF v.block < Blocks(v.geom) /\ v.index < 2 THEN [disk EXCEPT ![v.block] = x] ELSE disk
    /\ v' = [v EXCEPT !.index = 0, !.left = @ - 1]

\* vide_out(HD_DATA): half a block fills the buffer.
data_out(x) ==
    /\ Running /\ v.writing
    /\ clash_d' = IF v.index >= 2 THEN "beyond" ELSE IF v.left = 0 THEN "zero" ELSE "half"
    /\ write_block(x)
    /\ UNCHANGED <<ideal, got, wanted, requests, faults>>

\* vide_in(HD_STATUS)
read_status ==
    /\ Running /\ v.intrq /\ v' = [v EXCEPT !.intrq = FALSE]
    /\ UNCHANGED <<disk, ideal, got, wanted, requests, faults, clash_d>>

-----------------------------------------------------------------------------
(* The BIOS: read_user_blocks() and write_user_blocks().                    *)

Refused(r, blkno) ==
    \/ r.head >= v.geom.heads \/ r.cyl >= v.geom.cylinders \/ r.sector > v.geom.sectors
    \/ (blkno + r.count) % Width >= Blocks(v.geom)

\* set_stat(): the expression for the status is 0 whatever has happened.
set_stat(ok) == [v EXCEPT !.status = "0", !.error = ~ok]

\* get_hd_stat() looks at the error only when the status says so.
get_hd_stat(w) == w.status # "error"

bios_refuse(r) ==
    /\ Request /\ Refused(r, make_blkno(r))
    /\ v' = set_stat(FALSE)
    /\ clash_d' = IF get_hd_stat(v') THEN "told" ELSE clash_d
    /\ UNCHANGED <<disk, ideal, got, wanted, faults>>

Span(first, n) == first..(first + n - 1)

\* Mutant: the block after the last one of the request is read.
bios_read_late(r) ==
    LET b == make_blkno(r)
    IN  /\ Request /\ ~Refused(r, b) /\ r.sector > 0
        /\ v' = set_stat(TRUE) /\ UNCHANGED <<clash_d, faults>>
        /\ got' = FlattenSeq([i \in 1..r.count |-> Halves(disk[b + i])]) /\ wanted' = [via |-> "bios", block |-> b]
        /\ Keep

\* Some of the blocks may not be read.
bios_read(r) ==
    LET b == make_blkno(r)
    IN  /\ Request /\ ~Refused(r, b)
        /\ IF r.sector = 0 THEN clash_d' = "sector" /\ UNCHANGED <<v, got, wanted, faults>>
           ELSE \/ /\ v' = set_stat(TRUE) /\ UNCHANGED <<clash_d, faults>>
                   /\ got' = FlattenSeq([i \in 1..r.count |-> Halves(disk[b + i - 1])]) /\ wanted' = [via |-> "bios", block |-> b]
                \/ /\ Fails /\ v' = set_stat(FALSE) /\ UNCHANGED <<got, wanted>>
                   /\ clash_d' = IF get_hd_stat(v') THEN "told" ELSE clash_d
        /\ Keep

\* A count of 0 writes one block all the same.
bios_write(r, x) ==
    LET b == make_blkno(r)
        n == IF r.count = 0 THEN 1 ELSE r.count
    IN  /\ Request /\ ~Refused(r, b)
        /\ IF r.sector = 0 THEN clash_d' = "sector" /\ UNCHANGED <<v, disk, ideal, faults>>
           ELSE /\ ideal' = [i \in DOMAIN ideal |-> IF i \in Span(b, n) THEN x ELSE ideal[i]]
                /\ \/ /\ disk' = [i \in DOMAIN disk |-> IF i \in Span(b, n) THEN x ELSE disk[i]]
                      /\ v' = set_stat(TRUE) /\ UNCHANGED <<clash_d, faults>>
                   \/ /\ Fails /\ UNCHANGED disk /\ v' = set_stat(FALSE)
                      /\ clash_d' = IF get_hd_stat(v') THEN "told" ELSE clash_d
        /\ got' = <<>> /\ wanted' = Nothing

-----------------------------------------------------------------------------
\* INT 13, functions 2 and 3, with what the guest has in its registers.
vbios_disk_handler(r) == bios_refuse(r) \/ bios_read(r) \/ \E x \in Values : bios_write(r, x)

DkInit ==
    \E n \in Sizes :
        /\ \E g \in Geometry(n) :
             v = [geom |-> g,
                block |-> 0, left |-> 0, index |-> 0, buf |-> Halves(0), status |-> "ready", error |-> FALSE,
                intrq |-> FALSE, writing |-> FALSE]
        /\ disk = [b \in 0..(n - 1) |-> b] /\ ideal = disk
        /\ got = <<>> /\ wanted = Nothing
        /\ requests = 0 /\ faults = 0 /\ clash_d = "none"

Registers == [sector : 0..Track, head : 0..1, cyl : 0..1, count : 0..2]

DkNext ==
    \/ \E r \in Registers : command_read(r) \/ command_write(r) \/ vbios_disk_handler(r)
    \/ \E one \in BOOLEAN : select_drive(one) \/ command_other(one)
    \/ reset \/ data_in \/ read_status
    \/ \E x \in Values : data_out(x)

DkSpec == DkInit /\ [][DkNext]_dkvars

-----------------------------------------------------------------------------
\* What a guest reads is what was last written to the blocks that its request
\* names, through the ports one block at a time or through the BIOS, and writes
\* change those blocks alone; the geometry the guest is told of covers no block
\* that the image does not have, and one that is derived has an even number of
\* heads and few enough cylinders for the BIOS (create_vide, read_user_blocks,
\* write_user_blocks).
DiskIsTrue ==
    clash_d = "none" =>
        /\ disk = ideal
        /\ wanted # Nothing =>
            IsPrefix(got, FlattenSeq([i \in 1..((Len(got) + 1) \div 2) |-> Halves(ideal[wanted.block + i - 1])]))
        /\ Blocks(v.geom) <= Cardinality(DOMAIN disk)
        /\ v.geom = Derived(Cardinality(DOMAIN disk)) => v.geom.heads % 2 = 0 /\ v.geom.cylinders < MaxCylinders
=============================================================================
