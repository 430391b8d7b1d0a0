----------------------------- MODULE MCInodeCache -----------------------------
(* Two tasks, two inodes on disk, two entries in memory.                     *)
EXTENDS InodeCache, TLC

Symmetry == Permutations(Tasks) \cup Permutations(Stamps)

\* What is left in a free entry is never read: make_inode() sets its fields and
\* read_inode() fills it.  States that differ only there are one state.
View == <<[x \in Entries |-> IF x \in ToSet(inode_free_list) THEN <<>> ELSE core[x]],
          lists, dev_use_count, ondisk, call, clash, lost>>
=============================================================================
