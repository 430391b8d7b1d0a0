----------------------------- MODULE PcInterrupts -----------------------------
(***************************************************************************)
(* What a program in a virtual machine sees of interrupts, if drivers/     *)
(* virtual/vm and vpic do their work: it is interrupted only between two   *)
(* instructions, only while its interrupt flag is set and no interrupt is  *)
(* in service, by the request of highest priority, once for each request   *)
(* that is not masked.  A machine that has halted executes nothing until   *)
(* there is a request.                                                     *)
(*                                                                         *)
(* Three things are left open.  A request for a masked line, even one made *)
(* before it was masked, may be forgotten.  It may also be overlooked,     *)
(* until any later interrupt or request: others then come first, whatever  *)
(* their priority.  And a halted machine may go on after a request without *)
(* being interrupted.                                                      *)
(***************************************************************************)
EXTENDS Integers, Sequences

CONSTANTS
    Irqs,
    Before(_, _)    \* which of two has the higher priority

VARIABLES
    between,        \* whether the program is between two instructions
    vif,            \* its interrupt flag
    requested,      \* interrupts requested and not yet served
    overlooked,     \* those of them that have been masked and are not seen again
    masked,
    busy,           \* one is in service, and its end has not been announced
    halted,
    frames          \* the flags saved by INT instructions and interrupts

vars == <<between, vif, requested, overlooked, masked, busy, halted, frames>>

Init ==
    /\ between = TRUE /\ vif = FALSE /\ requested = {} /\ overlooked = {}
    /\ masked \subseteq Irqs /\ busy = FALSE /\ halted = FALSE /\ frames = <<>>

\* Of the requests, any that are masked are forgotten or overlooked.
Remain(requests) ==
    /\ requested' \subseteq requests /\ requests \ masked \subseteq requested'
    /\ overlooked' \subseteq requested' \cap (overlooked \cup masked)

Request(i) ==
    /\ Remain(requested \cup {i}) /\ (i \in overlooked' => i \in masked)
    /\ halted' # halted => vif /\ ~halted'
    /\ UNCHANGED <<between, vif, masked, busy, frames>>

Serve(i) ==
    /\ between /\ vif /\ ~busy /\ ~halted
    /\ i \in requested \ overlooked
    /\ \A j \in requested \ (overlooked \cup {i}) : Before(i, j)
    /\ Remain(requested \ {i}) /\ busy' = TRUE
    /\ vif' = FALSE /\ frames' = Append(frames, vif)
    /\ UNCHANGED <<between, masked, halted>>

-----------------------------------------------------------------------------
(* Instructions.                                                            *)

\* CLI, STI and POPF.
SetFlag ==
    /\ between /\ ~halted /\ between' = FALSE /\ vif' \in BOOLEAN
    /\ UNCHANGED <<requested, overlooked, masked, busy, halted, frames>>

SoftInt ==
    /\ between /\ ~halted
    /\ vif' = FALSE /\ frames' = Append(frames, vif)
    /\ UNCHANGED <<between, requested, overlooked, masked, busy, halted>>

IRet ==
    /\ between /\ ~halted /\ frames # <<>> /\ between' = FALSE
    /\ vif' = frames[Len(frames)] /\ frames' = SubSeq(frames, 1, Len(frames) - 1)
    /\ UNCHANGED <<requested, overlooked, masked, busy, halted>>

\* OUT to the controllers: a new mask, or the end of the interrupt in service.
Mask ==
    /\ between /\ ~halted /\ masked' \subseteq Irqs
    /\ UNCHANGED <<between, vif, requested, overlooked, busy, halted, frames>>
EndOfInterrupt ==
    /\ between /\ ~halted /\ between' = FALSE
    /\ busy' = FALSE
    /\ UNCHANGED <<vif, requested, overlooked, masked, halted, frames>>

\* HLT, alone or behind an STI.
Start ==
    /\ between /\ ~halted /\ between' = FALSE
    /\ UNCHANGED <<vif, requested, overlooked, masked, busy, halted, frames>>
Halt ==
    /\ ~between /\ between' \in BOOLEAN /\ halted' = TRUE
    /\ UNCHANGED <<vif, requested, overlooked, masked, busy, frames>>

Finish ==
    /\ ~between /\ between' = TRUE
    /\ UNCHANGED <<vif, requested, overlooked, masked, busy, halted, frames>>

Next ==
    \/ \E i \in Irqs : Request(i) \/ Serve(i)
    \/ SetFlag \/ SoftInt \/ IRet \/ Mask \/ EndOfInterrupt \/ Start \/ Halt \/ Finish

Spec == Init /\ [][Next]_vars
=============================================================================
