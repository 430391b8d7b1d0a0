-------------------------------- MODULE Spooler --------------------------------
(***************************************************************************)
(* The print spooler (spooler/spooler.c): programs write into spool files  *)
(* through handles, shells queue files with lpr and remove jobs with lprm. *)
(* Each copy gets a file whose name is made of the time and four bits of   *)
(* the timer.  Everything sleeps in the file system, and nothing is        *)
(* locked; scheduling is modelled between any two calls of the fs.         *)
(*                                                                         *)
(* The model stops, with clash_s, where the code                           *)
(*   "handle" gives a handle to a second caller of open_spool_file() while *)
(*            the first one sleeps in open(), before `used' is set;        *)
(*   "reused" goes on closing a handle that has been opened again since;   *)
(*   "name"   makes a spool file under a name that another job has.        *)
(***************************************************************************)
EXTENDS Integers, Sequences, SequencesExt, FiniteSets

CONSTANTS
    Printers,           \* tasks
    Numbers,            \* handles
    Stamps,             \* names of spool files
    MaxJobs, MaxLosses  \* jobs that are begun, and calls of the fs that fail

VARIABLES
    spool_list,         \* [job, file]
    handle,             \* of each: [used, owner, file, size]
    files,              \* names in the spool directory
    work,               \* what each task does, see Nothing
    stock,              \* entries that malloc() gave and nobody has, files never closed
    chances,            \* [jobs, losses]
    clash_s

svars == <<spool_list, handle, files, work, stock, chances, clash_s>>

None == "none"
Nothing == [at |-> "", file |-> None, src |-> None, h |-> 0, job |-> 0]
Unopened == [used |-> FALSE, owner |-> None, file |-> None, size |-> 0]

Here(t, step) == clash_s = "none" /\ work[t].at = step
Next_(t, new) == work' = [work EXCEPT ![t] = new]
Loses == chances.losses > 0 /\ chances' = [chances EXCEPT !.losses = @ - 1]
Ends == UNCHANGED chances
Collides(n) == n \in files

-----------------------------------------------------------------------------
\* open_spool_file(): the first handle that is not used, and a file for it.
open_spool_file(t, n) ==
    LET free == {h \in Numbers : ~handle[h].used}
        h == CHOOSE x \in free : \A y \in free : x <= y
    IN  /\ Here(t, "") /\ free # {} /\ chances.jobs > 0
        /\ chances' = [chances EXCEPT !.jobs = @ - 1]
        /\ handle' = [handle EXCEPT ![h] = [@ EXCEPT !.owner = t, !.file = n]]
        /\ files' = files \cup {n}
        /\ clash_s' = IF \E u \in Printers : work[u].at = "opening" /\ work[u].h = h THEN "handle"
                      ELSE IF \E u \in Printers : work[u].at \in {"spool", "copy", "unlink"} /\ work[u].h = h THEN "reused"
                      ELSE IF Collides(n) THEN "name" ELSE clash_s
        /\ Next_(t, [Nothing EXCEPT !.at = "opening", !.h = h])
        /\ UNCHANGED <<spool_list, stock>>

opened_spool_file(t) ==
    LET h == work[t].h
    IN  /\ Here(t, "opening")
        /\ \/ Ends /\ handle' = [handle EXCEPT ![h].used = TRUE, ![h].size = 0]
              /\ Next_(t, [Nothing EXCEPT !.at = "open", !.h = h]) /\ UNCHANGED files
           \/ Loses /\ handle' = [handle EXCEPT ![h] = Unopened] /\ files' = files \ {handle[h].file}
              /\ Next_(t, Nothing)
        /\ UNCHANGED <<spool_list, stock, clash_s>>

write_spool_file(t) ==
    /\ Here(t, "open") /\ handle[work[t].h].size = 0
    /\ handle' = [handle EXCEPT ![work[t].h].size = 1]
    /\ UNCHANGED <<spool_list, files, work, stock, chances, clash_s>>

\* close_spool_file(), which queues what was written, and discard_spool_file()
close_spool_file(t, keep) ==
    LET h == work[t].h
    IN  /\ Here(t, "open") /\ Ends
        /\ handle' = [handle EXCEPT ![h].used = FALSE]
        /\ Next_(t, [work[t] EXCEPT !.at = IF keep /\ handle[h].size > 0 THEN "spool" ELSE "unlink", !.src = handle[h].file])
        /\ UNCHANGED <<spool_list, files, stock, clash_s>>

unlink_spool_file(t) ==
    /\ Here(t, "unlink") /\ Ends
    /\ files' = files \ {work[t].src}
    /\ handle' = [handle EXCEPT ![work[t].h] = Unopened]
    /\ Next_(t, Nothing)
    /\ UNCHANGED <<spool_list, stock, clash_s>>

-----------------------------------------------------------------------------
\* The caller of add_spool_file() goes on: cmd_lpr(), or close_spool_file().
Caller(t) == IF work[t].h = 0 THEN Nothing ELSE [work[t] EXCEPT !.at = "unlink", !.file = None]

cmd_lpr(t) ==
    /\ Here(t, "") /\ chances.jobs > 0
    /\ chances' = [chances EXCEPT !.jobs = @ - 1]
    /\ Next_(t, [Nothing EXCEPT !.at = "spool"])
    /\ UNCHANGED <<spool_list, handle, files, stock, clash_s>>

\* add_spool_file(): memory for the entry and the name, the source is opened and
\* the copy is made.  Nothing is given back when it fails.
add_spool_file(t, n) ==
    /\ Here(t, "spool") /\ UNCHANGED <<spool_list, handle>>
    /\ \/ /\ Ends /\ files' = files \cup {n}
          /\ clash_s' = IF Collides(n) THEN "name" ELSE clash_s
          /\ stock' = [stock EXCEPT !.job = @ + 1]
          /\ Next_(t, [work[t] EXCEPT !.at = "copy", !.file = n, !.job = stock.job])
       \/ /\ Loses /\ stock' = [stock EXCEPT !.job = @ + 1, !.memory = @ + 1]
          /\ Next_(t, Caller(t)) /\ UNCHANGED <<files, clash_s>>

\* The source of a copy that is made stays open.
copy_spool_file(t) ==
    /\ Here(t, "copy") /\ UNCHANGED <<handle, files, clash_s>>
    /\ Next_(t, Caller(t))
    /\ \/ /\ Ends /\ spool_list' = Append(spool_list, [job |-> work[t].job, file |-> work[t].file])
          /\ stock' = [stock EXCEPT !.files = @ + 1]
       \/ /\ Loses /\ stock' = [stock EXCEPT !.memory = @ + 1, !.stray = @ \cup {work[t].file}]
          /\ UNCHANGED spool_list

\* Mutant: the entry stays in the queue until its file is removed.
removed_late(j) == spool_list

removed(j) == LET other(e) == e.job # j IN SelectSeq(spool_list, other)

\* cmd_lprm(), remove_spool_file(): the entry leaves the queue before the file.
cmd_lprm(t) ==
    \E i \in DOMAIN spool_list :
        /\ Here(t, "") /\ Ends
        /\ spool_list' = removed(spool_list[i].job)
        /\ Next_(t, [Nothing EXCEPT !.at = "remove", !.file = spool_list[i].file])
        /\ UNCHANGED <<handle, files, stock, clash_s>>

remove_spool_file(t) ==
    /\ Here(t, "remove") /\ Ends
    /\ files' = files \ {work[t].file} /\ Next_(t, Nothing)
    /\ UNCHANGED <<spool_list, handle, stock, clash_s>>

-----------------------------------------------------------------------------
SInit ==
    /\ spool_list = <<>> /\ files = {} /\ handle = [h \in Numbers |-> Unopened]
    /\ work = [t \in Printers |-> Nothing]
    /\ stock = [job |-> 1, memory |-> 0, files |-> 0, stray |-> {}]
    /\ chances = [jobs |-> MaxJobs, losses |-> MaxLosses] /\ clash_s = "none"

SNext ==
    \E t \in Printers :
        \/ cmd_lpr(t) \/ cmd_lprm(t) \/ opened_spool_file(t) \/ write_spool_file(t) \/ unlink_spool_file(t)
        \/ copy_spool_file(t) \/ remove_spool_file(t)
        \/ \E n \in Stamps : open_spool_file(t, n) \/ add_spool_file(t, n)
        \/ \E keep \in BOOLEAN : close_spool_file(t, keep)

SSpec == SInit /\ [][SNext]_svars

-----------------------------------------------------------------------------
\* Every job that is queued has its own file, which exists; a task that writes
\* has the handle to itself; and a file of the spool directory belongs to a job,
\* to a handle, to a copy that is being made or removed, or is one that a failed
\* copy has left.
JobsHaveFiles ==
    clash_s = "none" =>
        /\ \A i, j \in DOMAIN spool_list : i # j =>
            spool_list[i].job # spool_list[j].job /\ spool_list[i].file # spool_list[j].file
        /\ \A t, u \in Printers : t # u /\ work[t].at = "open" => work[u].h # work[t].h
        /\ \A t \in Printers : work[t].at = "open" => handle[work[t].h].used /\ handle[work[t].h].owner = t
        /\ LET queued == {spool_list[i].file : i \in DOMAIN spool_list}
               held == {handle[h].file : h \in Numbers} \ {None}
               busy == {work[t].file : t \in Printers} \ {None}
           IN  /\ files = queued \cup held \cup busy \cup stock.stray
               /\ queued \cap held = {}
=============================================================================
