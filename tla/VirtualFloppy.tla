---------------------------- MODULE VirtualFloppy ----------------------------
(***************************************************************************)
(* The virtual floppy disk of one machine (drivers/virtual/vfloppy), whose  *)
(* image a shell changes with the command vdisk while the program in the    *)
(* machine reads sectors through the BIOS (vbios/disk.c) and while the       *)
(* machine is killed.  Opening, closing, and reading files sleep.            *)
(*                                                                         *)
(* The model stops, with clash_g, where                                      *)
(*   "freed"   change_vfloppy() stores into the device that it looked up     *)
(*             before opening the file, and that was freed meanwhile;        *)
(*   "closing" sectors are read from, or the deletion of the machine closes, *)
(*             the old image, which is being closed;                         *)
(*   "both"    two commands replace the same image: it is closed twice, or   *)
(*             one of the new ones is never closed;                          *)
(*   "swapped" an image is put in between the seek and the last read;        *)
(*   "leaked"  change_vfloppy() opens a file for a machine without a drive.   *)
(***************************************************************************)
EXTENDS Integers, FiniteSets

CONSTANTS
    Changers,       \* shells
    Images,         \* files: the number of sectors each has
    Tracks,         \* 160 of the two sides
    MaxChanges,     \* bound: vdisk commands
    MaxBadReads,    \* bound: reads of the file that fail
    Asked           \* at least one sector: [track, sector, count] that programs ask for

VARIABLES
    flop,           \* the device: state, got_disk, is_file, file, sectors_per_track, last_stat
    change,         \* the change_vfloppy() of each shell
    opened,         \* the files that are open: each image and who opened it
    reading,        \* the sectors that the program has asked for and got
    changes, badreads, clash_g

gvars == <<flop, change, opened, reading, changes, badreads, clash_g>>

NoFile == "none"
NotChanging == [at |-> "idle", new |-> NoFile, drive |-> FALSE]
NotReading == [at |-> "idle", ask |-> [track |-> 0, sector |-> 0, count |-> 0], image |-> NoFile, got |-> 0, ok |-> FALSE]

\* The device is looked up, and whether there is one or not, the file is opened.
change_vfloppy(t, f) ==
    /\ change[t] = NotChanging /\ changes < MaxChanges
    /\ change' = [change EXCEPT ![t] = [at |-> "opening", new |-> f, drive |-> flop.state = "live"]]
    /\ changes' = changes + 1
    /\ UNCHANGED <<flop, opened, reading, badreads, clash_g>>

cmd_vdisk(t) == \E f \in DOMAIN Images : change_vfloppy(t, f)

\* The file cannot be opened: the old one stays open, but there is no disk.
open_failed(t) ==
    /\ change[t].at = "opening"
    /\ change' = [change EXCEPT ![t] = NotChanging]
    /\ flop' = IF change[t].drive THEN [flop EXCEPT !.got_disk = FALSE] ELSE flop
    /\ clash_g' = IF change[t].drive /\ flop.state # "live" THEN "freed" ELSE clash_g
    /\ UNCHANGED <<opened, reading, changes, badreads>>

\* Mutant: the old image is left open.
close_old_never(t) == "storing"

\* The step after the file is open: the old one, if any, is closed.
close_old(t) == IF flop.file = NoFile THEN "storing" ELSE "closing"

open_done(t) ==
    /\ change[t].at = "opening" /\ change[t].drive
    /\ opened' = opened \cup {<<change[t].new, t, changes>>}
    /\ change' = [change EXCEPT ![t].at = close_old(t)]
    /\ clash_g' = IF flop.state # "live" THEN "freed"
                  ELSE IF \E s \in Changers \ {t} : change[s].at \in {"closing", "storing"} THEN "both" ELSE clash_g
    /\ UNCHANGED <<flop, reading, changes, badreads>>

\* There is no drive: the file stays open.
open_leaks(t) ==
    /\ change[t].at = "opening" /\ ~change[t].drive
    /\ opened' = opened \cup {<<change[t].new, t, changes>>}
    /\ change' = [change EXCEPT ![t] = NotChanging]
    /\ clash_g' = "leaked"
    /\ UNCHANGED <<flop, reading, changes, badreads>>

\* fs->close() of the old image, which is still the device's.
closed_old(t) ==
    /\ change[t].at = "closing"
    /\ opened' = opened \ {flop.file}
    /\ change' = [change EXCEPT ![t].at = "storing"]
    /\ clash_g' = IF reading.at = "reading" \/ flop.state # "live" THEN "closing" ELSE clash_g
    /\ UNCHANGED <<flop, reading, changes, badreads>>

\* Mutant: the geometry of the first image is kept.
Inserted_flat(f, img) == [f EXCEPT !.file = img, !.last_stat = 0, !.got_disk = TRUE, !.is_file = TRUE]

\* The image is put in; its sectors are spread over the tracks.
Inserted(f, img) == [f EXCEPT !.file = img, !.sectors_per_track = Images[img[1]] \div Tracks,
                              !.last_stat = 0, !.got_disk = TRUE, !.is_file = TRUE]

change_done(t) ==
    LET mine == CHOOSE o \in opened : o[1] = change[t].new /\ o[2] = t /\ o # flop.file
    IN /\ change[t].at = "storing"
       /\ IF flop.state = "live" THEN flop' = Inserted(flop, mine) ELSE UNCHANGED flop
       /\ change' = [change EXCEPT ![t] = NotChanging]
       /\ clash_g' = IF flop.state # "live" THEN "freed"
                     ELSE IF reading.at = "reading" THEN "swapped" ELSE clash_g
       /\ UNCHANGED <<opened, reading, changes, badreads>>

\* vfloppy_read_sectors(): the checks, and the seek to the first sector.
read_sectors(a) ==
    LET OK == flop.got_disk /\ a.track < Tracks /\ a.sector - 1 \in 0..(flop.sectors_per_track - 1)
    IN /\ flop.state = "live" /\ reading.at = "idle"
       /\ reading' = [at |-> IF OK THEN "reading" ELSE "idle", ask |-> a, image |-> flop.file, got |-> 0, ok |-> FALSE]
       /\ flop' = IF OK THEN flop ELSE [flop EXCEPT !.last_stat = IF flop.got_disk THEN 4 ELSE 128]
       /\ clash_g' = IF OK /\ \E t \in Changers : change[t].at \in {"closing", "storing"} /\ flop.file # NoFile
                       THEN "closing" ELSE clash_g
       /\ UNCHANGED <<change, opened, changes, badreads>>

\* The block of the image that a sector is.
blkno(a, spt) == a.sector - 1 + a.track * spt

\* fs->read() of the next block: it fails at the end of the file, or for a disk error.
read_one(fails) ==
    LET b == blkno(reading.ask, flop.sectors_per_track) + reading.got
        bad == fails \/ b >= Images[flop.file[1]]
        all == reading.got + 1 = reading.ask.count
    IN /\ reading.at = "reading" /\ reading.got < reading.ask.count
       /\ fails => badreads < MaxBadReads
       /\ badreads' = badreads + (IF fails THEN 1 ELSE 0)
       /\ reading' = IF bad THEN [reading EXCEPT !.at = "idle"]
                     ELSE [reading EXCEPT !.got = @ + 1, !.ok = all, !.at = IF all THEN "idle" ELSE "reading"]
       /\ flop' = [flop EXCEPT !.last_stat = IF bad THEN 12 ELSE IF all THEN 0 ELSE @]
       /\ UNCHANGED <<change, opened, changes, clash_g>>

\* kill_vm() freezes the machine's task, so that a read that sleeps is cut off for ever,
\* and calls delete_vfloppy(): the slot is cleared, and the image closed.
delete_vfloppy ==
    /\ flop.state = "live"
    /\ flop' = [flop EXCEPT !.state = IF flop.is_file THEN "deleting" ELSE "gone"]
    /\ reading' = [reading EXCEPT !.at = "idle"]
    /\ UNCHANGED <<change, opened, changes, badreads, clash_g>>

delete_done ==
    /\ flop.state = "deleting"
    /\ flop' = [flop EXCEPT !.state = "gone"]
    /\ opened' = opened \ {flop.file}
    /\ clash_g' = IF \E t \in Changers : change[t].drive THEN "freed" ELSE clash_g
    /\ UNCHANGED <<change, reading, changes, badreads>>

GInit ==
    /\ flop = [state |-> "live", got_disk |-> FALSE, is_file |-> FALSE, file |-> NoFile,
               sectors_per_track |-> 0, last_stat |-> 0]
    /\ change = [t \in Changers |-> NotChanging]
    /\ opened = {} /\ reading = NotReading
    /\ changes = 0 /\ badreads = 0 /\ clash_g = "none"

GNext ==
    /\ clash_g = "none"
    /\ \/ \E t \in Changers : open_failed(t) \/ open_done(t) \/ open_leaks(t) \/ closed_old(t) \/ change_done(t)
                              \/ cmd_vdisk(t)
       \/ \E a \in Asked : read_sectors(a)
       \/ read_one(FALSE) \/ read_one(TRUE)
       \/ delete_vfloppy \/ delete_done

GSpec == GInit /\ [][GNext]_gvars

-----------------------------------------------------------------------------
(* A machine that has a disk has its image open, with the geometry of that    *)
(* image, and no other file is left open by commands that are over, whatever  *)
(* images were put in and whichever could not be opened; when the machine is  *)
(* gone none is (change_vfloppy, delete_vfloppy).  A read that succeeds has    *)
(* got as many sectors as it asked for, all of them within the image it       *)
(* began with, and the status it leaves is 0 exactly then                     *)
(* (vfloppy_read_sectors).                                                    *)
ImageIsOpen == clash_g = "none" =>
    /\ flop.state # "gone" /\ flop.file # NoFile /\ (\A t \in Changers : change[t].at # "storing") => flop.file \in opened
    /\ flop.got_disk => flop.file # NoFile /\ flop.sectors_per_track = Images[flop.file[1]] \div Tracks
    /\ (\A t \in Changers : change[t].at = "idle") =>
          opened = IF flop.state = "gone" \/ flop.file = NoFile THEN {} ELSE {flop.file}
    /\ reading.ok => /\ reading.got = reading.ask.count
                     /\ blkno(reading.ask, Images[reading.image[1]] \div Tracks) + reading.got <= Images[reading.image[1]]
=============================================================================
