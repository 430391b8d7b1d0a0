---------------------------- MODULE MCBufferCache ----------------------------
(* Two tasks, three blocks in two buckets, and one buffer (which the other   *)
(* task may hold) or two (among which one is chosen for eviction).           *)
EXTENDS BufferCache, TLC

CONSTANTS b1, b2, b3
MCHash == [b \in Blocks |-> IF b = b2 THEN 1 ELSE 0]
Symmetry == Permutations(Tasks) \cup Permutations(Values)
=============================================================================
