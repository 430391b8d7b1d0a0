------------------------------- MODULE IrqFifo -------------------------------
(***************************************************************************)
(* What queued interrupts promise (kernel/misc/interrupt.c and "Queued     *)
(* Interrupt Handlers" of the technical manual): interrupts that find room *)
(* in a bounded FIFO are served one at a time, in the order they came.     *)
(***************************************************************************)
EXTENDS Naturals, Sequences

CONSTANTS Irqs, Capacity, None

VARIABLES fifo, serving

fvars == <<fifo, serving>>

FifoInit == fifo = <<>> /\ serving = None

Arrive(i) ==
    /\ Len(fifo) < Capacity
    /\ fifo' = Append(fifo, i)
    /\ UNCHANGED serving

Take ==
    /\ serving = None /\ fifo # <<>>
    /\ serving' = Head(fifo)
    /\ fifo' = Tail(fifo)

Served ==
    /\ serving # None
    /\ serving' = None
    /\ UNCHANGED fifo

FifoNext == (\E i \in Irqs : Arrive(i)) \/ Take \/ Served

FifoSpec == FifoInit /\ [][FifoNext]_fvars
=============================================================================
