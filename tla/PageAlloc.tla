------------------------------ MODULE PageAlloc ------------------------------
(***************************************************************************)
(* The physical page allocator: kernel/memory/memory.c on top of the       *)
(* bitmap of kernel/memory/bitmap.c.  Pages are numbered from kernelstart; *)
(* addresses are counted in pages too and wrap at AddrPages (2^32 bytes).  *)
(*                                                                         *)
(* The functions take no lock.  A client is a context that can call them;  *)
(* its search through the bitmap is one action per round of the loop, its  *)
(* marking another, and with Locked = FALSE the clients interleave there.  *)
(***************************************************************************)
EXTENDS Integers, FiniteSets, FiniteSetsExt

CONSTANTS
    Clients,     \* the contexts that allocate
    Count,       \* bitmap.count
    KernelLimit, \* the 1023 of kalloc_pages
    UserStart,   \* (MEM_USERFREE_START - MEM_KERNELFREE_START) / MEM_PAGE_SIZE
    KernelBase,  \* kernelstart, in pages
    AddrPages,   \* pages of the address space
    Sizes,       \* the numbers of pages asked for
    Locked       \* TRUE: one call at a time, as with interrupts disabled

ASSUME SizesAssumption ==
    /\ Count \in Nat /\ KernelLimit \in Nat /\ UserStart \in Nat
    /\ KernelBase \in Nat \ {0} /\ AddrPages \in Nat
    /\ KernelBase + Count <= AddrPages
    /\ Sizes \subseteq Nat \ {0}
    /\ Locked \in BOOLEAN

VARIABLES
    bits,   \* the indices whose bit is 1, those behind the bitmap included
    pc,     \* "idle", "scan": in the loop, "mark": the loop found a place
    i,      \* the loop variable of bitmap_alloc_nbits
    req,    \* the request of a client that is allocating
    held,   \* the allocations a client has and did not free: sets of pages
    lost    \* pages that were marked and not given to anyone

vars == <<bits, pc, i, req, held, lost>>

Requests == [kernel : BOOLEAN, n : Sizes]

\* Client p is not inside a call, and with Locked no other client is.
MayCall(p) == pc[p] = "idle" /\ (Locked => \A q \in Clients : pc[q] = "idle")

\* memory_init, alloc_init and bitmap_init: every bit is 0.
Init ==
    /\ bits = {}
    /\ pc = [p \in Clients |-> "idle"]
    /\ i = [p \in Clients |-> 0]
    /\ req \in [Clients -> Requests]
    /\ held = [p \in Clients |-> {}]
    /\ lost = {}

-----------------------------------------------------------------------------
\* The index where the search of kalloc_pages and of ualloc_pages starts.
StartIndex(kernel) == IF kernel THEN 0 ELSE UserStart

\* kalloc_pages(n) and ualloc_pages(n) are called.
AllocCall(p, kernel, n) ==
    /\ MayCall(p)
    /\ req' = [req EXCEPT ![p] = [kernel |-> kernel, n |-> n]]
    /\ i' = [i EXCEPT ![p] = StartIndex(kernel)]
    /\ pc' = [pc EXCEPT ![p] = "scan"]
    /\ UNCHANGED <<bits, held, lost>>

\* Mutant: the bits behind the first one are not examined.
WindowFirst(first, n) == {first}

\* The indices the inner loop of bitmap_alloc_nbits examines: n of them, or
\* fewer where the bitmap ends.
Window(first, n) == {j \in first..(first + n - 1) : j < Count}

\* Mutant: the search goes on behind the window.
SkipWindow(p) == i[p] + req[p].n

\* Where the loop goes on after a window with a set bit: behind that bit.
SkipTo(p) == Min(Window(i[p], req[p].n) \cap bits) + 1

\* A round of the loop that finds its window free.
ScanFound(p) ==
    /\ pc[p] = "scan" /\ i[p] < Count
    /\ Window(i[p], req[p].n) \cap bits = {}
    /\ pc' = [pc EXCEPT ![p] = "mark"]
    /\ UNCHANGED <<bits, i, req, held, lost>>

\* A round of the loop that meets a set bit.
ScanSkip(p) ==
    /\ pc[p] = "scan" /\ i[p] < Count
    /\ Window(i[p], req[p].n) \cap bits # {}
    /\ i' = [i EXCEPT ![p] = SkipTo(p)]
    /\ UNCHANGED <<bits, pc, req, held, lost>>

\* The loop ends, bitmap_alloc_nbits returns -1 and the allocation 0.
ScanFail(p) ==
    /\ pc[p] = "scan" /\ i[p] >= Count
    /\ pc' = [pc EXCEPT ![p] = "idle"]
    /\ UNCHANGED <<bits, i, req, held, lost>>

\* The bits bitmap_set_bit(index, n, bit) writes: it tests the first index
\* only.
SetBits(index, n) == IF index >= Count THEN {} ELSE index..(index + n - 1)

\* bitmap_set_bit(i, n, 1) and the return of the address; kalloc_pages returns
\* 0 at and above its limit although the bits are set by then.
Mark(p) ==
    LET pages == SetBits(i[p], req[p].n)
    IN  /\ pc[p] = "mark"
        /\ bits' = bits \cup pages
        /\ pc' = [pc EXCEPT ![p] = "idle"]
        /\ IF req[p].kernel /\ i[p] >= KernelLimit
           THEN lost' = lost \cup pages /\ UNCHANGED held
           ELSE held' = [held EXCEPT ![p] = @ \cup {pages}] /\ UNCHANGED lost
        /\ UNCHANGED <<i, req>>

\* Mutant: the index is taken from the address without its base.
PageIndexNoBase(addr) == addr % AddrPages

\* (addr - kernelstart) / page_size, in unsigned arithmetic.
PageIndex(addr) == (addr - KernelBase) % AddrPages

\* kfree_pages(addr, n) of an allocation of p.
kfree_pages(p, pages) ==
    /\ MayCall(p) /\ pages \in held[p]
    /\ bits' = bits \ SetBits(PageIndex(KernelBase + Min(pages)), Cardinality(pages))
    /\ held' = [held EXCEPT ![p] = @ \ {pages}]
    /\ UNCHANGED <<pc, i, req, lost>>

\* kfree_pages(0, n): the result of a failed allocation is freed.
FreeNull(p, n) ==
    /\ MayCall(p)
    /\ bits' = bits \ SetBits(PageIndex(0), n)
    /\ UNCHANGED <<pc, i, req, held, lost>>

Next ==
    \E p \in Clients :
        \/ \E kernel \in BOOLEAN, n \in Sizes : AllocCall(p, kernel, n)
        \/ ScanFound(p) \/ ScanSkip(p) \/ ScanFail(p) \/ Mark(p)
        \/ \E pages \in held[p] : kfree_pages(p, pages)
        \/ \E n \in Sizes : FreeNull(p, n)

Spec == Init /\ [][Next]_vars

-----------------------------------------------------------------------------
\* The bitmap and what callers hold are sets of page indices, and a caller of
\* kalloc_pages and ualloc_pages is outside them, searching or marking.
TypeOK ==
    /\ bits \subseteq Nat
    /\ pc \in [Clients -> {"idle", "scan", "mark"}]
    /\ i \in [Clients -> Nat]
    /\ req \in [Clients -> Requests]
    /\ held \in [Clients -> SUBSET SUBSET Nat]
    /\ lost \subseteq Nat

HeldPages(p) == UNION held[p]

\* No page belongs to two allocations, of one client or of two.
NoDoubleAllocation ==
    \A p, q \in Clients : \A a \in held[p], b \in held[q] :
        (p # q \/ a # b) => a \cap b = {}

\* The bitmap is exact: a bit is 1 exactly for the pages of an allocation and
\* for those kalloc_pages marked before it refused them; freeing the address 0
\* of a failed allocation changes nothing.
BitmapExact == bits = lost \cup UNION {HeldPages(p) : p \in Clients}

\* The places for n pages from an index on: n consecutive free pages, all of
\* them inside the bitmap.
Places(from, n) == {f \in from..(Count - n) : (f..(f + n - 1)) \cap bits = {}}

\* bitmap_alloc_nbits allocates count consecutive pages at the first place there
\* is: a call that is serialised passes no place, so that it is refused only
\* when there is none, and what it takes is the lowest one.  When there is none
\* a request for several pages can still be granted, at the end of the bitmap
\* with pages behind it; one for a single page cannot.
SearchIsFirstFit ==
    \A p \in Clients :
        LET places == Places(StartIndex(req[p].kernel), req[p].n)
        IN  Locked =>
              /\ pc[p] = "scan" => \A f \in places : i[p] <= f
              /\ pc[p] = "mark" => IF places # {} THEN i[p] = Min(places)
                                  ELSE i[p] > Count - req[p].n
=============================================================================
