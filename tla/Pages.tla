-------------------------------- MODULE Pages --------------------------------
(***************************************************************************)
(* Physical pages (kernel/mm): the list of free ones, the kernel's heap,   *)
(* buffers for DMA, and the address space of a virtual machine, whose      *)
(* first 64K appear again above 1M while its A20 gate is closed            *)
(* (drivers/virtual/vm/vmach.c, fault.c).                                  *)
(*                                                                         *)
(* The code that handles page faults and interrupts does not expect        *)
(* alloc_page() to fail; the model stops there, with clash = "exhausted".  *)
(***************************************************************************)
EXTENDS Integers, Sequences, SequencesExt, FiniteSets, FiniteSetsExt

CONSTANTS
    Frames,         \* physical pages, from 0
    Boundary,       \* pages from one 64K boundary to the next
    Wrap,           \* pages of a machine that appear again above 1M
    Base,           \* its pages below the video memory
    Top,            \* the number of its page at 1M
    Extended,       \* pages of extended memory, for each kind of machine
    Half,           \* units of the break address in a page
    MaxBreak        \* where the heap must end, in units

VARIABLES
    free,           \* page_free_list, from the page to be allocated next
    used_pages, available_pages,
    brk,            \* kernel_brk, in units
    heap,           \* the kernel's page table: what is mapped for the heap
    dma,            \* blocks from alloc_pages_64(): <<first, number>>
    vm,             \* the machine, or NoVm; framed is where interrupts have mapped pages
    fault,          \* a page that vm_pfl_handler() has allocated, and where for
    leaked,         \* pages that nobody will ever free
    clash

vars == <<free, used_pages, available_pages, brk, heap, dma, vm, fault, leaked, clash>>

None == -1
empty_page == -2
NoVm == [dir |-> None]
Addrs(ext) == 0..(Top + ext - 1) \cup Top..(Top + Wrap - 1)

-----------------------------------------------------------------------------
(* Entries of page tables: the page, or None if it is not present, and      *)
(* whether it is to be freed with the table.                                *)

Entry(page, freeable) == [page |-> page, freeable |-> freeable]
Hole == Entry(None, FALSE)
OnDemand == Entry(None, TRUE)
Rom == Entry(empty_page, FALSE)
Present(e) == e.page # None

\* free_page(): the pages of s, one after the other.
free_page(s) ==
    /\ free' = Reverse(s) \o free
    /\ used_pages' = used_pages - Len(s)
    /\ available_pages' = available_pages + Len(s)

\* alloc_page(): the first n pages.
alloc_page(n) ==
    /\ n <= Len(free) /\ free' = SubSeq(free, n + 1, Len(free))
    /\ used_pages' = used_pages + n
    /\ available_pages' = available_pages - n

\* Pages of a table are freed in the order of their addresses.
ByAddress(pte, S) ==
    [i \in 1..Cardinality(S) |->
        pte[CHOOSE a \in S : Cardinality({b \in S : b < a}) = i - 1].page]

Exhausted ==
    /\ clash' = "exhausted"
    /\ UNCHANGED <<free, used_pages, available_pages, brk, heap, dma, vm, fault, leaked>>

-----------------------------------------------------------------------------
(* The kernel's heap and DMA buffers.                                       *)

RoundUp(b) == (b + Half - 1) \div Half

\* Pages that a growth from b to c wants, which map_page() puts over whatever
\* is there.
NewPages(b, c) == {i \in 0..MaxBreak : RoundUp(b) <= i /\ i * Half < c}

\* kernel_sbrk().  A growth that fails in the middle leaves the pages mapped
\* that it has got, and one over pages that are still mapped forgets them.
kernel_sbrk(delta) ==
    LET want == NewPages(brk, brk + delta)
        nth(i) == Cardinality({j \in want : j <= i})
        got == {i \in want : nth(i) <= Len(free)}
    IN  /\ brk + delta \in 0..MaxBreak
        /\ brk' = IF got = want THEN brk + delta ELSE brk
        /\ alloc_page(Cardinality(got))
        /\ heap' = [i \in DOMAIN heap |-> IF i \in got THEN free[nth(i)] ELSE heap[i]]
        /\ leaked' = leaked \cup ({heap[i] : i \in got} \ {None})
        /\ UNCHANGED <<dma, vm, fault, clash>>

Block(first, n) == first..(first + n - 1)

\* Mutant: the counts are left alone.
alloc_pages_64_uncounted(n) ==
    /\ \E first \in ToSet(free) :
        /\ first % Boundary = 0 /\ n > 1 /\ Block(first, n) \subseteq ToSet(free)
        /\ free' = SelectSeq(free, LAMBDA p : p \notin Block(first, n))
        /\ dma' = dma \cup {<<first, n>>}
    /\ UNCHANGED <<used_pages, available_pages, brk, heap, vm, fault, leaked, clash>>

\* alloc_pages_64(): pages from a boundary on.  They are found by meeting another
\* page of the block, so a block of one page never is.
alloc_pages_64(n) ==
    LET found(p) == p % Boundary = 0 /\ n > 1 /\ Block(p, n) \subseteq ToSet(free)
        i == SelectInSeq(free, found)
    IN  /\ i # 0
        /\ free' = SelectSeq(free, LAMBDA p : p \notin Block(free[i], n))
        /\ dma' = dma \cup {<<free[i], n>>}
        /\ used_pages' = used_pages + n /\ available_pages' = available_pages - n
        /\ UNCHANGED <<brk, heap, vm, fault, leaked, clash>>

free_pages(b) ==
    /\ b \in dma /\ dma' = dma \ {b}
    /\ free_page([i \in 1..b[2] |-> b[1] + i - 1])
    /\ UNCHANGED <<brk, heap, vm, fault, leaked, clash>>

-----------------------------------------------------------------------------
(* The machine.                                                             *)

\* What is mapped, what is owned by the table, and what is saved above 1M.
Mapped(m) == {m.pte[a].page : a \in {b \in DOMAIN m.pte : Present(m.pte[b])}} \ {empty_page}
Freeable(m) == {a \in DOMAIN m.pte : Present(m.pte[a]) /\ m.pte[a].freeable}
Owned(m) == {m.pte[a].page : a \in Freeable(m)}
Saved(m) == IF m.a20 THEN {}
            ELSE {m.himem[i].page : i \in {j \in DOMAIN m.himem : Present(m.himem[j])}}

\* fill_vm_page_dir()
Filled(ext) == [a \in Addrs(ext) |->
    IF a < Base \/ (a >= Top /\ a < Top + ext) THEN OnDemand
    ELSE IF a < Top THEN Rom ELSE Hole]

\* Mutant: the entries above 1M keep the flag of the ones they repeat.
close_gate_a20_owned(m) ==
    [m EXCEPT !.himem = [i \in 0..(Wrap - 1) |-> m.pte[Top + i]],
              !.pte = [a \in DOMAIN m.pte |->
                           IF a \in Top..(Top + Wrap - 1) THEN m.pte[a - Top] ELSE m.pte[a]],
              !.a20 = FALSE, !.framed = {}]

\* set_gate_a20(), when it closes an open gate, and when it opens a closed one.
close_gate_a20(m) ==
    [m EXCEPT !.himem = [i \in 0..(Wrap - 1) |-> m.pte[Top + i]],
              !.pte = [a \in DOMAIN m.pte |->
                           IF a \in Top..(Top + Wrap - 1)
                           THEN Entry(m.pte[a - Top].page, FALSE) ELSE m.pte[a]],
              !.a20 = FALSE, !.framed = {}]

open_gate_a20(m) ==
    [m EXCEPT !.pte = [a \in DOMAIN m.pte |->
                           IF a \in Top..(Top + Wrap - 1)
                           THEN m.himem[a - Top] ELSE m.pte[a]],
              !.a20 = TRUE]

\* create_vm(): a page directory and a page table, and the gate is closed.
create_vm(ext) ==
    /\ vm = NoVm
    /\ alloc_page(2)
    /\ vm' = close_gate_a20([dir |-> free[1], table |-> free[2], pte |-> Filled(ext),
                             himem |-> [i \in 0..(Wrap - 1) |-> Hole], a20 |-> TRUE,
                             framed |-> {}])
    /\ UNCHANGED <<brk, heap, dma, fault, leaked, clash>>

\* A page that put_pd_val() has mapped above 1M is forgotten when the gate opens.
set_gate_a20 ==
    /\ vm # NoVm /\ fault = Hole
    /\ vm' = IF vm.a20 THEN close_gate_a20(vm) ELSE open_gate_a20(vm)
    /\ leaked' = IF vm.a20 THEN leaked
                 ELSE leaked \cup (Mapped(vm) \ {vm.pte[a].page : a \in 0..(Top - 1)})
    /\ UNCHANGED <<free, used_pages, available_pages, brk, heap, dma, fault, clash>>

\* Where a page for address a goes: the machine's first pages are mapped twice
\* while the gate is closed.
Target(a) == IF ~vm.a20 /\ a >= Top THEN a - Top ELSE a
Aliases(a) == IF ~vm.a20 /\ Target(a) < Wrap THEN {Target(a), Target(a) + Top} ELSE {Target(a)}

\* What is mapped at the addresses in S and not owned there is forgotten, the
\* rest is freed by map_page().
Dropped(S) == {a \in S : Present(vm.pte[a]) /\ vm.pte[a].freeable}
Forgotten(S) == {vm.pte[a].page : a \in {b \in S \ Dropped(S) : Present(vm.pte[b])}}

\* The program uses address a, which is not present: vm_pfl_handler() allocates
\* a page ...
page_fault(a) ==
    /\ vm # NoVm /\ fault = Hole /\ a \in DOMAIN vm.pte /\ ~Present(vm.pte[a])
    /\ IF free = <<>> THEN Exhausted
       ELSE /\ alloc_page(1) /\ fault' = [page |-> free[1], at |-> a]
            /\ UNCHANGED <<brk, heap, dma, vm, leaked, clash>>

\* Mutant: the page is mapped where it was missing, and nowhere else.
map_fault_once ==
    /\ fault # Hole
    /\ vm' = [vm EXCEPT !.pte[fault.at] = Entry(fault.page, vm.pte[fault.at].freeable)]
    /\ fault' = Hole
    /\ UNCHANGED <<free, used_pages, available_pages, brk, heap, dma, leaked, clash>>

\* ... and maps it.  The entry above 1M does not own its page.
map_fault ==
    /\ fault # Hole
    /\ LET t == Target(fault.at)
           old == vm.pte[t]
       IN  /\ vm' = [vm EXCEPT !.pte = [a \in DOMAIN vm.pte |->
                        IF a \notin Aliases(fault.at) THEN vm.pte[a]
                        ELSE Entry(fault.page, a = t /\ old.freeable)]]
           /\ free_page(ByAddress(vm.pte, Dropped(Aliases(fault.at))))
           /\ leaked' = leaked \cup Forgotten(Aliases(fault.at))
    /\ fault' = Hole
    /\ UNCHANGED <<brk, heap, dma, clash>>

\* put_pd_val(): an interrupt pushes its frame on a page that is not present.
put_pd_val(a) ==
    /\ vm # NoVm /\ fault = Hole /\ a \in DOMAIN vm.pte /\ ~Present(vm.pte[a])
    /\ IF free = <<>> THEN Exhausted
       ELSE /\ alloc_page(1)
            /\ vm' = [vm EXCEPT !.pte[a] = Entry(free[1], FALSE), !.framed = @ \cup {Target(a)}]
            /\ UNCHANGED <<brk, heap, dma, fault, leaked, clash>>

\* kill_vm(), which stops the machine's task wherever it is.  delete_page_dir()
\* leaves behind the frames of put_pd_val(), the pages above 1M if the gate is
\* closed, and one that was about to be mapped.
delete_page_dir ==
    /\ vm # NoVm
    /\ free_page(ByAddress(vm.pte, Freeable(vm)) \o <<vm.table, vm.dir>>)
    /\ leaked' = leaked \cup (Mapped(vm) \ Owned(vm)) \cup Saved(vm)
                        \cup (IF fault = Hole THEN {} ELSE {fault.page})
    /\ vm' = NoVm /\ fault' = Hole
    /\ UNCHANGED <<brk, heap, dma, clash>>

-----------------------------------------------------------------------------
\* add_pages(): from the bottom to the top.
Init ==
    /\ free = [i \in 1..Cardinality(Frames) |-> Cardinality(Frames) - i] /\ used_pages = 0 /\ available_pages = Cardinality(Frames)
    /\ brk = 0 /\ heap = [i \in 0..MaxBreak |-> None]
    /\ dma = {} /\ vm = NoVm /\ fault = Hole /\ leaked = {} /\ clash = "none"

Addresses == IF vm = NoVm THEN {} ELSE DOMAIN vm.pte

Next ==
    /\ clash = "none"
    /\ \/ \E delta \in {-1, 1, Half + 1} : kernel_sbrk(delta)
       \/ \E n \in {1, 2} : alloc_pages_64(n)
       \/ \E b \in dma : free_pages(b)
       \/ \E ext \in Extended : create_vm(ext)
       \/ set_gate_a20 \/ map_fault \/ delete_page_dir
       \/ \E a \in Addresses : page_fault(a) \/ put_pd_val(a)

Spec == Init /\ [][Next]_vars

-----------------------------------------------------------------------------
Blocks == UNION {Block(b[1], b[2]) : b \in dma}
OfHeap == {heap[i] : i \in DOMAIN heap} \ {None}
OfVm == IF vm = NoVm THEN {} ELSE {vm.dir, vm.table} \cup Mapped(vm) \cup Saved(vm)
InFlight == IF fault = Hole THEN {} ELSE {fault.page}

\* No page is lost but in the four ways named above, none is in two places
\* (free while it is mapped, mapped in two tables, owned by two entries), the
\* counts of alloc_page() and free_page() are true.
PagesOwned ==
    LET places == <<ToSet(free), Blocks, OfHeap, OfVm, InFlight, leaked>>
    IN  /\ Frames = UNION {places[i] : i \in 1..6}
        /\ \A i, j \in 1..6 : i # j => places[i] \cap places[j] = {}
        /\ available_pages = Len(free) /\ IsInjective(free)
        /\ used_pages = Cardinality(Frames) - Len(free)
        /\ vm # NoVm =>
            /\ Cardinality(Owned(vm)) = Cardinality(Freeable(vm))
            /\ vm.dir # vm.table /\ {vm.dir, vm.table} \cap (Mapped(vm) \cup Saved(vm)) = {}

\* The machine's addresses wrap round at 1M while the gate is closed, unless an
\* interrupt has pushed its frame on a page that was not present.
WrapsRound ==
    vm # NoVm /\ ~vm.a20 =>
        \A a \in 0..(Wrap - 1) \ vm.framed : vm.pte[a].page = vm.pte[a + Top].page
=============================================================================
