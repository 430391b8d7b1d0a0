-------------------------------- MODULE Dma ---------------------------------
(***************************************************************************)
(* The DMA controllers: the channels of kernel/misc/dma.c, whose            *)
(* setup_dma() writes one port after the other with interrupts enabled, and *)
(* the virtual pair of drivers/virtual/vdma, whose ports a program in a     *)
(* virtual machine reads and writes.                                        *)
(*                                                                         *)
(* A real controller (external) has one flip-flop for the halves of all its *)
(* registers, a virtual one two for each channel.  The virtual ones start   *)
(* the wrong way round, so that the halves of what a program writes are     *)
(* exchanged, and CLEAR_FLIPFLOP stores a number and clears nothing; but    *)
(* what is written in two halves is read back in the same two halves.       *)
(* Two drivers that program channels of the same controller at the same     *)
(* time write each other's halves: the model stops there (clash_q).         *)
(***************************************************************************)
EXTENDS Integers, Sequences

CONSTANTS
    Owners,         \* drivers that want a channel
    Channels,       \* a subset of 0..7
    Byte,           \* 256
    Infos,          \* [Page, Offset, Len] of the buffers
    Stored,         \* the virtual controllers' registers that are only stored
    MaxAccesses     \* bound: reads and writes of the virtual ports

VARIABLES
    dma_chans,      \* the owner of each channel, or "free"
    setup,          \* the port writes that each driver has left, and for what
    chip,           \* the real controllers' channels
    flipflop,       \* the real controllers' flip-flops: the next half is the high one
    vdma,           \* the virtual controllers' channels
    wrote,          \* the halves the program last wrote to each virtual register
    half,           \* the registers with one half accessed, and how
    accesses, clash_q

qvars == <<dma_chans, setup, chip, flipflop, vdma, wrote, half, accesses, clash_q>>

Controller(c) == c \div 4
Nothing == [chan |-> -1, info |-> [Page |-> 0, Offset |-> 0, Len |-> 0], todo |-> <<>>]
Registers == {"address", "len"}

\* outb(val & 0xff, port); val >>= 8; outb(val & 0xff, port).
Halves(reg, v) == << <<reg, v % Byte>>, <<reg, (v \div Byte) % Byte>> >>

\* Mutant: the flip-flop is left as it is.
Begins_anyhow == << <<"mask", 1>>, <<"mode", 1>> >>

Begins == << <<"mask", 1>>, <<"clear", 0>>, <<"mode", 1>> >>

\* What setup_dma() is going to write; words are counted on channels 4 to 7.
Writes(c, info) ==
    LET unit == IF c < 4 THEN 1 ELSE 2
    IN Begins \o Halves("address", info.Offset \div unit) \o Halves("len", info.Len \div unit)
         \o << <<"page", info.Page>>, <<"mask", 0>> >>

alloc_dmachan(o, c) ==
    /\ dma_chans[c] = "free" /\ \A d \in Channels : dma_chans[d] # o
    /\ dma_chans' = [dma_chans EXCEPT ![c] = o]
    /\ UNCHANGED <<setup, chip, flipflop, vdma, wrote, half, accesses, clash_q>>

dealloc_dmachan(o, c) ==
    /\ dma_chans[c] = o /\ setup[o].todo = <<>>
    /\ dma_chans' = [dma_chans EXCEPT ![c] = "free"]
    /\ setup' = [setup EXCEPT ![o] = Nothing]
    /\ UNCHANGED <<chip, flipflop, vdma, wrote, half, accesses, clash_q>>

setup_dma(o, c, info) ==
    /\ dma_chans[c] = o /\ setup[o].todo = <<>>
    /\ setup' = [setup EXCEPT ![o] = [chan |-> c, info |-> info, todo |-> Writes(c, info)]]
    /\ clash_q' = IF \E p \in Owners \ {o} : setup[p].todo # <<>> /\ Controller(setup[p].chan) = Controller(c)
                    THEN "flipflop" ELSE clash_q
    /\ UNCHANGED <<dma_chans, chip, flipflop, vdma, wrote, half, accesses>>

\* The value of a register when v is written to the high or the low half.
Put(old, high, v) == IF high THEN (old % Byte) + v * Byte ELSE (old - (old % Byte)) + v

\* A write to a port of a real controller.
outb(o) ==
    LET c == setup[o].chan
        w == Head(setup[o].todo)
        ff == flipflop[Controller(c)]
    IN /\ setup[o].todo # <<>>
       /\ setup' = [setup EXCEPT ![o].todo = Tail(@)]
       /\ chip' = IF w[1] = "clear" THEN chip
                  ELSE [chip EXCEPT ![c][w[1]] = IF w[1] \in Registers THEN Put(@, ff, w[2]) ELSE w[2]]
       /\ flipflop' = [flipflop EXCEPT ![Controller(c)] =
                         IF w[1] = "clear" THEN FALSE ELSE IF w[1] \in Registers THEN ~@ ELSE @]
       /\ UNCHANGED <<dma_chans, vdma, wrote, half, accesses, clash_q>>

-----------------------------------------------------------------------------
(* The virtual controllers.                                                  *)

\* The half that is next: low[reg] is addr_l or len_l.
vdma_out(c, reg, v) == [vdma EXCEPT ![c].low[reg] = ~@, ![c][reg] = Put(@, ~vdma[c].low[reg], v)]

\* Mutant: reading does not go on to the other half.
vdma_in_stuck(chan, reg) ==
    [val |-> IF chan.low[reg] THEN chan[reg] % Byte ELSE (chan[reg] \div Byte) % Byte,
     chan |-> chan]

vdma_in(chan, reg) ==
    [val |-> IF chan.low[reg] THEN chan[reg] % Byte ELSE (chan[reg] \div Byte) % Byte,
     chan |-> [chan EXCEPT !.low[reg] = ~@]]

\* The page registers and those of a controller as a whole are only stored;
\* CLEAR_FLIPFLOP is one of them, and changes no flip-flop.
page_out(c, v) == [vdma EXCEPT ![c].stored["page"] = v]

control_out(c, reg, v) ==
    [d \in Channels |-> IF Controller(d) = Controller(c) THEN [vdma[d] EXCEPT !.stored[reg] = v] ELSE vdma[d]]

guest_store(c, reg, v) ==
    /\ accesses < MaxAccesses
    /\ vdma' = IF reg = "page" THEN page_out(c, v) ELSE control_out(c, reg, v)
    /\ accesses' = accesses + 1
    /\ UNCHANGED <<dma_chans, setup, chip, flipflop, wrote, half, clash_q>>

\* A program writes a half, having begun no read of the register.
guest_out(c, reg, v) ==
    /\ accesses < MaxAccesses /\ half[c][reg] # "read"
    /\ vdma' = vdma_out(c, reg, v)
    /\ half' = [half EXCEPT ![c][reg] = IF @ = "none" THEN "write" ELSE "none"]
    /\ wrote' = [wrote EXCEPT ![c][reg] = IF half[c][reg] = "none" THEN <<v, @[2]>> ELSE <<@[1], v>>]
    /\ accesses' = accesses + 1
    /\ UNCHANGED <<dma_chans, setup, chip, flipflop, clash_q>>

\* It reads a half, having begun no write.
guest_in(c, reg) ==
    /\ accesses < MaxAccesses /\ half[c][reg] # "write"
    /\ vdma' = [vdma EXCEPT ![c] = vdma_in(@, reg).chan]
    /\ half' = [half EXCEPT ![c][reg] = IF @ = "none" THEN "read" ELSE "none"]
    /\ accesses' = accesses + 1
    /\ UNCHANGED <<dma_chans, setup, chip, flipflop, wrote, clash_q>>

QInit ==
    /\ dma_chans = [c \in Channels |-> "free"]
    /\ setup = [o \in Owners |-> Nothing]
    /\ chip = [c \in Channels |-> [address |-> 0, len |-> 0, page |-> 0, mode |-> 0, mask |-> 1]]
    /\ flipflop \in [{0, 1} -> BOOLEAN]
    /\ vdma = [c \in Channels |-> [address |-> 0, len |-> 0, low |-> [r \in Registers |-> FALSE],
                                stored |-> [r \in Stored |-> 0]]]
    /\ wrote = [c \in Channels |-> [r \in Registers |-> <<0, 0>>]]
    /\ half = [c \in Channels |-> [r \in Registers |-> "none"]]
    /\ accesses = 0 /\ clash_q = "none"

Drivers ==
    \E o \in Owners : \/ outb(o)
                      \/ \E c \in Channels : \/ alloc_dmachan(o, c) \/ dealloc_dmachan(o, c)
                                             \/ \E info \in Infos : setup_dma(o, c, info)

Guest ==
    \E c \in Channels :
       \/ \E reg \in Registers : guest_in(c, reg) \/ \E v \in 0..(Byte - 1) : guest_out(c, reg, v)
       \/ \E reg \in Stored, v \in 0..(Byte - 1) : guest_store(c, reg, v)

QNext == clash_q = "none" /\ (Drivers \/ Guest)

QSpec == QInit /\ [][QNext]_qvars

-----------------------------------------------------------------------------
(* A channel that a driver has programmed holds the buffer it asked for and   *)
(* is not masked, whatever the flip-flop was and whoever programmed other     *)
(* channels meanwhile (setup_dma); and a program finds in every register of   *)
(* the virtual controllers that it has accessed by halves, two at a time, the *)
(* halves it wrote, in their order, whatever it did with other registers in   *)
(* between (vdma_in, vdma_out).                                               *)
ChannelsLoaded == clash_q = "none" =>
    /\ \A o \in Owners :
          LET s == setup[o]
              unit == IF s.chan < 4 THEN 1 ELSE 2
          IN s.chan >= 0 /\ s.todo = <<>> =>
               chip[s.chan] = [address |-> s.info.Offset \div unit, len |-> s.info.Len \div unit,
                               page |-> s.info.Page, mode |-> 1, mask |-> 0]
    /\ \A c \in Channels, reg \in Registers : half[c][reg] = "none" =>
          LET first == vdma_in(vdma[c], reg)
          IN <<first.val, vdma_in(first.chan, reg).val>> = wrote[c][reg]
=============================================================================
