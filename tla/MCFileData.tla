------------------------------ MODULE MCFileData ------------------------------
(* Two tasks with one file between them or one each, four calls in all, on    *)
(* five free blocks of two words.  A call of three words at 0 writes a block  *)
(* and enters the single indirect one, at 5 it leaves that for the double     *)
(* one, and at 29 it fills the last block behind the triple one and fails.    *)
EXTENDS FileData, TLC

CONSTANTS t1, t2, f1, f2
MCHandles == {[t \in Tasks |-> f1], t1 :> f1 @@ t2 :> f2}
MCData == t1 :> 2 @@ t2 :> 3
=============================================================================
