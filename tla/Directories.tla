----------------------------- MODULE Directories -----------------------------
(***************************************************************************)
(* Names (fs/dir.c, fs/fs_cmds.c): several tasks run the commands that     *)
(* make, open, rename and remove files and directories.  Nothing locks a   *)
(* directory: a task sleeps between looking through it and writing an      *)
(* entry, and the block that it looks through, tmp_dir_blk, is shared.     *)
(* Each command is the list of the steps between which it may sleep.  The  *)
(* contents of files, permissions and paths of more than one name are left *)
(* out: the directory in which a command works is open.                    *)
(*                                                                         *)
(* The model stops, with clash_n, where the code                           *)
(*   "shared"  looks through tmp_dir_blk after another task has filled it; *)
(*   "taken"   writes an entry over one that another task wrote meanwhile, *)
(*             or a second one with the same name;                         *)
(*   "freed"   lists an inode that was freed after its entry was read:     *)
(*             close_inode() frees it, and what it has become, once more;  *)
(*   "orphan"  frees a directory in which there are entries again;         *)
(*   "closed"  returns from create_file() a file that it has closed;       *)
(*   "cwd"     leaves a closed file as the current directory (rmdir of a   *)
(*             name that is not there);                                    *)
(*   "linked"  removes a directory through a symbolic link to it.          *)
(***************************************************************************)
EXTENDS Integers, Sequences, SequencesExt, FiniteSets, FiniteSetsExt

CONSTANTS
    Users,              \* tasks
    Inums,              \* inodes of the device; 1 is the root
    Titles,             \* names of files
    MaxNesting,         \* MAX_SYMLINK_DEPTH
    MaxCommands, MaxFailures

VARIABLES
    entries,            \* of each directory: [name, inum], name "" in a free one
    node,               \* of each inode, see Unused
    cwd,                \* the current directory of each task
    cmd,                \* the command that it runs, see Idle
    tmp_dir_blk,        \* the task that filled it
    nesting,            \* symlink_nesting
    budget,             \* commands and failures still to come
    clash_n

nvars == <<entries, node, cwd, cmd, tmp_dir_blk, nesting, budget, clash_n>>

Nobody == "nobody"

\* dir and held are the inodes of the files that the command has open, gone is the
\* inode of an entry that it has deleted and not yet counted.
Idle == [op |-> "", todo |-> <<>>, name |-> "", look |-> "", to |-> "", dir |-> 0, held |-> <<>>,
         seen |-> <<>>, slot |-> 0, gone |-> 0, depth |-> 0]

\* lost: links counted without an entry; kept: files that are never closed.
Unused == [kind |-> "free", nlinks |-> 0, users |-> 0, lost |-> 0, kept |-> 0, target |-> ""]
Vacant == [name |-> "", inum |-> 0]

Named(es, n) == {i \in DOMAIN es : es[i].name = n}
Index(es, n) == IF Named(es, n) = {} THEN 0 ELSE Min(Named(es, n))

-----------------------------------------------------------------------------
\* make_file(), dup_file(): one more user of the inode.
make_file(nd, i) == [nd EXCEPT ![i].users = @ + 1]

\* Mutant: an inode that somebody has open is freed with its last link.
close_inode_early(nd, i) ==
    LET n == [nd[i] EXCEPT !.users = @ - 1]
    IN  [nd EXCEPT ![i] = IF n.nlinks = 0 THEN Unused ELSE n]

\* close_inode(), close_file(): the last user frees an inode without links.
close_inode(nd, i) ==
    LET n == [nd[i] EXCEPT !.users = @ - 1]
    IN  [nd EXCEPT ![i] = IF n.users = 0 /\ n.nlinks = 0 THEN Unused ELSE n]

\* The new inodes; a directory that is freed loses its entries.
Store(nd) ==
    LET freed(i) == nd[i].kind = "free"
    IN  /\ node' = nd
        /\ entries' = [i \in Inums |-> IF freed(i) THEN <<>> ELSE entries[i]]
        /\ clash_n' = IF \E i \in Inums : freed(i) /\ \E k \in DOMAIN entries[i] : entries[i][k] # Vacant
                      THEN "orphan" ELSE clash_n

Open(c) == (IF c.dir = 0 THEN <<>> ELSE <<c.dir>>) \o c.held

\* The command ends, and closes what it has open.
Return(t, nd) ==
    /\ Store(FoldLeft(close_inode, nd, Open(cmd[t])))
    /\ nesting' = nesting - cmd[t].depth
    /\ cmd' = [cmd EXCEPT ![t] = Idle]

At(t, step) == cmd[t].todo # <<>> /\ Head(cmd[t].todo)[1] = step /\ clash_n = "none"
Arg(t) == Head(cmd[t].todo)[2]
Go(t, new) == cmd' = [cmd EXCEPT ![t] = [new EXCEPT !.todo = Tail(@)]]
Clash(why) == clash_n' = why /\ UNCHANGED <<entries, node, cmd, nesting>>
Disk == UNCHANGED <<entries, node, nesting, clash_n>>

\* Disk errors, and pools that are empty.
Fails == budget.failures > 0 /\ budget' = [budget EXCEPT !.failures = @ - 1]

-----------------------------------------------------------------------------
\* The steps of the commands: what is done, and for which name if it is not the
\* one that the command was given.
Opening == << <<"parent", "">>, <<"read", "">>, <<"find", "">> >>
Entering(n) == << <<"read", n>>, <<"room", n>>, <<"link", n>> >>
Deleting(n) == << <<"read", n>>, <<"delete", n>>, <<"unlink", n>> >>
make_link == << <<"parent", "">> >> \o Entering("")
remove_link == << <<"parent", "">> >> \o Deleting("")
create_file == << <<"parent", "">>, <<"read", "">>, <<"absent", "">>, <<"alloc", "">> >> \o Entering("")
Into == << <<"into", "">> >>
Drop == << <<"drop", "">> >>
End == << <<"end", "">> >>

remove_directory ==
    Opening \o Into \o << <<"read", "">>, <<"empty", "">> >> \o Deleting(".") \o Deleting("..")
        \o << <<"back", "">> >> \o Deleting("")

make_directory == create_file \o Drop \o << <<"parent", "">> >> \o Into \o Entering(".") \o Entering("..")

cmd_type == Opening \o End
cmd_cp == Opening \o Drop \o Opening \o End
cmd_ls == << <<"parent", "">>, <<"peek", "">>, <<"list", "">> >> \o End
cmd_cd == Opening \o << <<"swap", "">> >>
cmd_ln == Opening \o Drop \o make_link \o End
make_symlink == create_file \o End
cmd_mkdir == make_directory \o End
cmd_rm == Opening \o Drop \o remove_link \o End
cmd_rmdir == remove_directory \o End
cmd_mv == Opening \o Drop \o make_link \o Drop \o remove_link \o End

Commands == [type |-> cmd_type, cp |-> cmd_cp, ls |-> cmd_ls, cd |-> cmd_cd, ln |-> cmd_ln, lns |-> make_symlink,
             mkdir |-> cmd_mkdir, rm |-> cmd_rm, rmdir |-> cmd_rmdir, mv |-> cmd_mv]

begin(t) ==
    /\ clash_n = "none" /\ cmd[t] = Idle /\ budget.commands > 0
    /\ \E c \in DOMAIN Commands, n, m \in Titles :
         cmd' = [cmd EXCEPT ![t] = [Idle EXCEPT !.op = c, !.todo = Commands[c], !.name = n, !.look = n, !.to = m]]
    /\ budget' = [budget EXCEPT !.commands = @ - 1]
    /\ UNCHANGED <<cwd, tmp_dir_blk>> /\ Disk

\* A step that fails.  make_directory() and remove_directory() go on when "." and
\* ".." cannot be made or removed; remove_directory() leaves its parent, closed, as
\* the current directory when the directory cannot be opened; cmd_mv() does not close
\* the file that it could not link; create_file() returns the file that it closed.
Fail(t) ==
    LET c == cmd[t]
        step == Head(c.todo)[1]
        other(x) == x[2] # Arg(t) \/ x[1] \in {"end", "back"}
        making == c.op \in {"cp", "lns", "mkdir"} /\ step \in {"room", "link"}
    IN  IF Arg(t) # "" /\ step # "unlink"
        THEN cmd' = [cmd EXCEPT ![t].todo = SubSeq(@, SelectInSeq(@, other), Len(@))] /\ Disk
        ELSE IF c.op = "rmdir" /\ step \in {"read", "find"} /\ c.held = <<>> THEN Clash("cwd")
        ELSE IF making THEN Clash("closed")
        ELSE IF c.op = "mkdir" /\ step = "parent" /\ c.held # <<>> THEN Return(t, node)
        ELSE IF c.op = "mv" /\ c.held # <<>> /\ <<"link", "">> \in Range(c.todo)
        THEN Return(t, [node EXCEPT ![Last(c.held)].kept = @ + 1, ![Last(c.held)].users = @ + 1])
        ELSE Return(t, node)

\* find_parent() of a name alone.
parent(t) ==
    /\ At(t, "parent") /\ UNCHANGED <<cwd, tmp_dir_blk>>
    /\ \/ /\ Store(make_file(node, cwd[t])) /\ Go(t, [cmd[t] EXCEPT !.dir = cwd[t]])
          /\ UNCHANGED <<nesting, budget>>
       \/ Fails /\ Fail(t)

\* The last file that was opened: the one that is made, linked or removed.
Subject(t) == Last(cmd[t].held)

\* read_file() of the directory into tmp_dir_blk.  An error counts as success in
\* create_file_entry(), and as a name that is not there in open_file().
read(t) ==
    LET c == cmd[t]
        before == c.todo[2][1]
    IN  /\ At(t, "read") /\ UNCHANGED cwd
        /\ \/ /\ tmp_dir_blk' = t /\ Go(t, [c EXCEPT !.seen = entries[c.dir]])
              /\ UNCHANGED budget /\ Disk
           \/ /\ Fails /\ UNCHANGED tmp_dir_blk
              /\ IF before = "room"
                 THEN /\ LET i == IF Arg(t) = ".." THEN cwd[t] ELSE Subject(t)
                         IN  Store([node EXCEPT ![i].nlinks = @ + 1, ![i].lost = @ + 1])
                      /\ cmd' = [cmd EXCEPT ![t].todo = SubSeq(@, 4, Len(@))]
                      /\ UNCHANGED nesting
                 ELSE IF before = "absent"
                 THEN cmd' = [cmd EXCEPT ![t].todo = SubSeq(@, 3, Len(@))] /\ Disk
                 ELSE Fail(t)

Mine(t) == tmp_dir_blk = t
Looking == UNCHANGED <<cwd, tmp_dir_blk, budget>>

\* The name that the link n holds is looked for in the current directory.
read_symlink(t, n) ==
    /\ Store(make_file(make_file(node, n), cwd[t]))
    /\ nesting' = nesting + 1
    /\ cmd' = [cmd EXCEPT ![t] = [@ EXCEPT !.look = node[n].target, !.dir = cwd[t], !.held = <<cmd[t].dir, n>> \o @,
                                           !.depth = @ + 1, !.todo = << <<"read", "">> >> \o @]]

\* find_file_entry() and the rest of open_file().  A symbolic link is read, and the
\* name that it holds is looked for in the current directory.  The file that cp
\* writes is created if it is not there.
find(t) ==
    LET c == cmd[t]
        i == Index(c.seen, c.look)
        n == c.seen[i].inum
        dst == c.op = "cp" /\ c.held # <<>>
    IN  /\ At(t, "find") /\ Looking
        /\ IF ~Mine(t) THEN Clash("shared")
           ELSE IF i = 0 /\ dst
           THEN /\ cmd' = [cmd EXCEPT ![t] = [c EXCEPT !.todo = create_file \o Tail(@), !.held = <<c.dir>> \o @, !.dir = 0]]
                /\ Disk
           ELSE IF i = 0 THEN Fail(t)
           ELSE IF node[n].kind = "link" /\ c.op \notin {"rm", "mv"}
           THEN IF nesting >= MaxNesting THEN Fail(t)
                ELSE read_symlink(t, n)
           ELSE IF node[n].kind = "dir" /\ c.op \notin {"cd", "rmdir", "mv"} THEN Fail(t)
           ELSE /\ Store(make_file(node, n))
                /\ Go(t, [c EXCEPT !.held = @ \o <<n>>, !.look = c.to])
                /\ UNCHANGED nesting

\* cmd_ls() reads the directory into a block of its own, and the inodes of its
\* entries one after the other.
peek(t) == At(t, "peek") /\ Looking /\ Go(t, [cmd[t] EXCEPT !.seen = entries[cmd[t].dir]]) /\ Disk

list(t) ==
    LET c == cmd[t]
        i == Head(c.seen).inum
    IN  /\ At(t, "list") /\ Looking
        /\ IF c.seen = <<>> THEN Go(t, c) /\ Disk
           ELSE IF i # 0 /\ node[i].kind = "free" THEN Clash("freed")
           ELSE cmd' = [cmd EXCEPT ![t].seen = Tail(@)] /\ Disk

\* The directory is closed, and the command goes on.
drop(t) ==
    /\ At(t, "drop") /\ Looking
    /\ Store(close_inode(node, cmd[t].dir)) /\ Go(t, [cmd[t] EXCEPT !.dir = 0])
    /\ UNCHANGED nesting

\* file_exists_p() in create_file()
absent(t) ==
    /\ At(t, "absent") /\ Looking
    /\ IF ~Mine(t) THEN Clash("shared")
       ELSE IF Index(cmd[t].seen, cmd[t].to) # 0 THEN Return(t, node)
       ELSE Go(t, cmd[t]) /\ Disk

\* alloc_inode(), make_inode() and make_file(): the inode has no link yet.
alloc(t) ==
    LET free == {i \in Inums : node[i].kind = "free"}
        kind == CASE cmd[t].op = "lns" -> "link" [] cmd[t].op = "mkdir" -> "dir" [] OTHER -> "file"
    IN  /\ At(t, "alloc") /\ Looking
        /\ IF free = {} THEN Return(t, node)
           ELSE /\ Store([node EXCEPT ![Min(free)] = [Unused EXCEPT !.kind = kind, !.users = 1, !.target = cmd[t].name]])
                /\ Go(t, [cmd[t] EXCEPT !.held = @ \o <<Min(free)>>])
                /\ UNCHANGED nesting

Title(t) == IF Arg(t) = "" THEN cmd[t].to ELSE Arg(t)

\* The first part of create_file_entry(): the last free entry, or the end.
room(t) ==
    LET c == cmd[t]
        holes == Named(c.seen, "")
    IN  /\ At(t, "room") /\ Looking
        /\ IF ~Mine(t) THEN Clash("shared")
           ELSE IF Index(c.seen, Title(t)) # 0 THEN Fail(t)
           ELSE Go(t, [c EXCEPT !.slot = IF holes = {} THEN Len(c.seen) + 1 ELSE Max(holes)]) /\ Disk

\* The rest of create_file_entry(); make_link() and create_file() count the link.
link(t) ==
    LET c == cmd[t]
        es == entries[c.dir]
        i == IF Arg(t) = ".." THEN cwd[t] ELSE Subject(t)
        e == [name |-> Title(t), inum |-> i]
    IN  /\ At(t, "link") /\ UNCHANGED <<cwd, tmp_dir_blk>>
        /\ \/ /\ UNCHANGED budget
              /\ IF Index(es, Title(t)) # 0 \/ c.slot > Len(es) + 1 \/ (c.slot <= Len(es) /\ es[c.slot] # Vacant)
                 THEN Clash("taken")
                 ELSE /\ entries' = [entries EXCEPT ![c.dir] = IF c.slot > Len(@) THEN Append(@, e) ELSE [@ EXCEPT ![c.slot] = e]]
                      /\ node' = [node EXCEPT ![i].nlinks = @ + 1]
                      /\ Go(t, c) /\ UNCHANGED <<nesting, clash_n>>
           \/ Fails /\ Fail(t)

\* make_directory() and remove_directory() go on in the directory, and keep the
\* parent open.
into(t) ==
    /\ At(t, "into") /\ Looking
    /\ IF cmd[t].op = "rmdir" /\ cmd[t].depth > 0 THEN Clash("linked")
       ELSE /\ Store(make_file(node, Subject(t)))
            /\ Go(t, [cmd[t] EXCEPT !.dir = Subject(t), !.held = <<cmd[t].dir>> \o @])
            /\ UNCHANGED nesting

\* directory_empty_p()
empty(t) ==
    LET c == cmd[t]
    IN  /\ At(t, "empty") /\ Looking
        /\ IF ~Mine(t) THEN Clash("shared")
           ELSE IF node[c.dir].kind = "dir" /\ \A k \in DOMAIN c.seen : c.seen[k].name \in {"", ".", ".."}
           THEN Go(t, c) /\ Disk
           ELSE Return(t, node)

back(t) ==
    /\ At(t, "back") /\ Looking
    /\ Store(close_inode(node, cmd[t].dir))
    /\ Go(t, [cmd[t] EXCEPT !.dir = Head(cmd[t].held), !.held = Tail(@)])
    /\ UNCHANGED nesting

\* delete_file_entry(), at the place where the entry was seen.
delete(t) ==
    LET c == cmd[t]
        i == Index(c.seen, IF Arg(t) = "" THEN c.name ELSE Arg(t))
    IN  /\ At(t, "delete") /\ UNCHANGED <<cwd, tmp_dir_blk>>
        /\ \/ /\ UNCHANGED budget
              /\ IF ~Mine(t) THEN Clash("shared")
                 ELSE IF i = 0 THEN Fail(t)
                 ELSE /\ entries' = [entries EXCEPT ![c.dir][i] = Vacant]
                      /\ Go(t, [c EXCEPT !.gone = c.seen[i].inum])
                      /\ UNCHANGED <<node, nesting, clash_n>>
           \/ Fails /\ Fail(t)

\* Mutant: the link is not counted off if the file is open.
unlinked_closed(n) == IF n.users > 0 THEN n ELSE [n EXCEPT !.nlinks = @ - 1]

unlinked(n) == [n EXCEPT !.nlinks = @ - 1]

\* The link is counted off, in the inode that make_inode() finds or reads.
unlink(t) ==
    LET c == cmd[t]
        i == c.gone
        open == Arg(t) = "" /\ c.op = "rmdir"
    IN  /\ At(t, "unlink") /\ UNCHANGED <<cwd, tmp_dir_blk, nesting>>
        /\ Go(t, [c EXCEPT !.gone = 0])
        /\ \/ /\ UNCHANGED budget
              /\ Store(close_inode(make_file([node EXCEPT ![i] = unlinked(@)], i), i))
           \/ ~open /\ Fails /\ Store([node EXCEPT ![i].lost = @ + 1])

\* cmd_cd(): a file that is not a directory stays open.
swap(t) ==
    LET i == Subject(t)
        others == [cmd[t] EXCEPT !.held = Front(@)]
        nd == IF node[i].kind = "dir" THEN close_inode(node, cwd[t]) ELSE [node EXCEPT ![i].kept = @ + 1]
    IN  /\ At(t, "swap") /\ UNCHANGED <<tmp_dir_blk, budget>>
        /\ cwd' = IF node[i].kind = "dir" THEN [cwd EXCEPT ![t] = i] ELSE cwd
        /\ Store(FoldLeft(close_inode, nd, Open(others)))
        /\ nesting' = nesting - cmd[t].depth
        /\ cmd' = [cmd EXCEPT ![t] = Idle]

end(t) == At(t, "end") /\ Looking /\ Return(t, node)

-----------------------------------------------------------------------------
Dots(i, p) == << [name |-> ".", inum |-> i], [name |-> "..", inum |-> p] >>

\* The root, with the directory "a" in it.
NInit ==
    /\ entries = [i \in Inums |-> CASE i = 1 -> Dots(1, 1) \o << [name |-> "a", inum |-> 2] >>
                                    [] i = 2 -> Dots(2, 1) [] OTHER -> <<>>]
    /\ node = [i \in Inums |-> CASE i = 1 -> [Unused EXCEPT !.kind = "dir", !.nlinks = 3, !.users = Cardinality(Users) + 1]
                                 [] i = 2 -> [Unused EXCEPT !.kind = "dir", !.nlinks = 2]
                                 [] OTHER -> Unused]
    /\ cwd = [t \in Users |-> 1] /\ cmd = [t \in Users |-> Idle]
    /\ tmp_dir_blk = Nobody /\ nesting = 0
    /\ budget = [commands |-> MaxCommands, failures |-> MaxFailures]
    /\ clash_n = "none"

NNext ==
    \E t \in Users :
        \/ begin(t) \/ parent(t) \/ read(t) \/ peek(t) \/ list(t) \/ find(t) \/ drop(t) \/ absent(t) \/ alloc(t) \/ room(t) \/ link(t)
        \/ into(t) \/ empty(t) \/ back(t) \/ delete(t) \/ unlink(t) \/ swap(t) \/ end(t)

NSpec == NInit /\ [][NNext]_nvars

-----------------------------------------------------------------------------
\* An inode has as many links as there are entries that name it, but for those
\* that a failure has lost and those whose entry has just been deleted; as many
\* users as it has files; and no entry names an inode that is free.
NamesResolve ==
    clash_n = "none" => \A i \in Inums :
        LET names == UNION {{d} \X {k \in DOMAIN entries[d] : entries[d][k].inum = i} : d \in Inums}
            gone == {t \in Users : cmd[t].gone = i}
            files == UNION {{t} \X {k \in DOMAIN Open(cmd[t]) : Open(cmd[t])[k] = i} : t \in Users}
            dirs == {t \in Users : cwd[t] = i}
        IN  /\ node[i].nlinks = Cardinality(names) + Cardinality(gone) + node[i].lost
            /\ node[i].users = Cardinality(files) + Cardinality(dirs) + node[i].kept + (IF i = 1 THEN 1 ELSE 0)
            /\ node[i].kind = "free" => names = {} /\ node[i] = Unused
=============================================================================
