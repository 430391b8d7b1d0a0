------------------------------ MODULE MCIdeDisk ------------------------------
(* Two tasks and two disks.                                                  *)
EXTENDS IdeDisk, TLC

CONSTANTS t1, t2
Ask(cmd, d, n, b) == [cmd |-> cmd, dev |-> d, len |-> n, beyond |-> b]
MCAsks == t1 :> {Ask("write", 0, 1, FALSE), Ask("read", 0, 1, TRUE)}
       @@ t2 :> {Ask("read", 0, 2, FALSE), Ask("write", 1, 2, FALSE)}
=============================================================================
