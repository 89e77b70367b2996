----------------------------- MODULE PageTable -----------------------------
(***************************************************************************)
(* The address spaces of kernel/mmu/pagetable.c.  Addresses, virtual and   *)
(* physical, are counted in pages.  A directory and a page table are both  *)
(* a page of Entries entries, so that a page that is freed and given out   *)
(* again is seen through every entry that still names it.                  *)
(*                                                                         *)
(* The functions that walk tables run without interruption (none is called *)
(* with another one in progress).  Their loops are taken one round at a    *)
(* time: op is the function in progress, and only its next round can       *)
(* follow; so what must hold at every moment of a walk can be said.        *)
(*                                                                         *)
(* A page that is refused: ualloc_pages answers 0, its callers do not look *)
(* (ASSERT is empty) and go on with page 0 as a directory or as a page of  *)
(* a process.  What follows depends on what lies in page 0 and is not      *)
(* modelled: mode "oom" ends the behaviour, and no property speaks of it.  *)
(***************************************************************************)
EXTENDS Integers, FiniteSets, FiniteSetsExt, Sequences

CONSTANTS
    Entries,       \* PDE_CNT and PTE_CNT
    FrameCount,    \* physical pages
    KernelStart,   \* MEM_KERNELFREE_START: the first page that is allocated
    KernelFreeEnd, \* MEM_KERNELFREE_END
    UserStart,     \* MEM_USERFREE_START: where ualloc_pages searches
    KernelLimit,   \* the 1023 of kalloc_pages
    KernelMap,     \* kernel_map: the ranges <<vstart, vend>>, each to itself
    Calls,         \* which of "copy" and "destroy" are called: none, with the
                   \* calls in sys_execve and sys_fork commented out
    MaxProcs,      \* bound: processes at a time
    Addrs,         \* bound: the addresses processes map
    KernelDir,     \* kernel_table, a static array
    None           \* an entry that is not present

Frames == 0..(FrameCount - 1)
Index == 0..(Entries - 1)
Pages == 0..(Entries * Entries - 1)

ASSUME SizesAssumption ==
    /\ Entries \in Nat \ {0}
    /\ FrameCount \in 1..(Entries * Entries) /\ KernelStart \in 1..FrameCount
    /\ UserStart \in KernelStart..FrameCount
    /\ KernelFreeEnd \in Pages
    /\ KernelLimit \in Nat /\ MaxProcs \in Nat /\ Addrs \subseteq Nat
    /\ Calls \subseteq {"copy", "destroy"}

ASSUME MapAssumption ==
    /\ KernelMap \in Seq(Nat \X Nat)
    /\ \A k \in DOMAIN KernelMap :
          KernelMap[k][1] < KernelMap[k][2] /\ KernelMap[k][2] <= Entries * Entries

ASSUME NamesAssumption == KernelDir \notin Nat /\ None \notin Nat /\ KernelDir # None

VARIABLES
    mem,   \* .entry: the entries of every page, .used: the bitmap, and .mode:
           \* "ok", or what a call ran into that is not followed further:
           \* "oom": a page was refused; "fault": a page that is not mapped was
           \* touched, which is a page fault of the kernel
    live,  \* the directories of the processes
    op,    \* the walk in progress: "boot", "copy", "destroy", or "none"
    range, \* boot: the entry of kernel_map that is being mapped
    src,   \* copy: the directory that is copied, which is in force
    dir,   \* copy, destroy: the directory that is filled, or emptied
    at     \* boot: pages of the range that are mapped; copy, destroy: the
           \* virtual page the loops have come to

vars == <<mem, live, op, range, src, dir, at>>

\* VADDR_DIR and VADDR_TABLE.
VADDR_DIR(v) == v \div Entries
VADDR_TABLE(v) == v % Entries

\* Mutant: the user's part starts in the kernel's last table.
UserPdeBefore == VADDR_DIR(KernelFreeEnd) - 1

\* user_pde_start of copy_pagetable, pagetable_destroy, create_page_table.
UserPde == VADDR_DIR(KernelFreeEnd)

\* The first virtual page of the user's part, where the loops begin.
UserFirst == UserPde * Entries

Empty == [i \in Index |-> None]

\* The page that v is mapped to in directory d.
Lookup(m, d, v) ==
    IF m.entry[d][VADDR_DIR(v)] = None THEN None
    ELSE m.entry[m.entry[d][VADDR_DIR(v)]][VADDR_TABLE(v)]

\* The kernel can touch page f at its address: directory cr3 maps it, or
\* there is none in force yet.
Touch(m, cr3, f) == cr3 = None \/ Lookup(m, cr3, f) = f

-----------------------------------------------------------------------------
(* The allocator of memory.c, for one page.  Its failure is address 0.     *)

FirstFree(m, start) ==
    LET free == {f \in start..(FrameCount - 1) : f \notin m.used}
    IN  IF free = {} THEN 0 ELSE Min(free)

Mark(m, f) == [m EXCEPT !.used = @ \cup ({f} \ {0}),
                        !.mode = IF f = 0 /\ @ = "ok" THEN "oom" ELSE @]

ualloc_pages(m) == FirstFree(m, UserStart)

kalloc_pages(m) ==
    LET f == FirstFree(m, KernelStart)
    IN  IF f - KernelStart >= KernelLimit THEN 0 ELSE f

\* kfree_pages.  A page below kernelstart gives an index of 2^20 and more, and
\* an index that is not of the bitmap is ignored: used has managed pages only.
kfree_pages(m, f) == [m EXCEPT !.used = @ \ {f}]

\* kmemset of a whole page to 0, with directory cr3 in force.
Clear(m, cr3, f) ==
    IF Touch(m, cr3, f) THEN [m EXCEPT !.entry[f] = Empty]
    ELSE [m EXCEPT !.mode = IF @ = "ok" THEN "fault" ELSE @]

-----------------------------------------------------------------------------
\* find_pte: makes the page table for v if it is missing.
find_pte(m, cr3, d, v) ==
    IF m.entry[d][VADDR_DIR(v)] # None \/ m.mode # "ok" THEN m
    ELSE LET t == FirstFree(m, KernelStart)
             n == Mark(m, t)
             k == IF kalloc_pages(m) = 0 THEN [n EXCEPT !.mode = "oom"] ELSE Clear(n, cr3, t)
         IN  IF k.mode # "ok" THEN k ELSE [k EXCEPT !.entry[d][VADDR_DIR(v)] = t]

\* One round of the loop of vaddr2paddr.  It returns when there is no table.
vaddr2paddr(m, cr3, d, v, p) ==
    LET n == find_pte(m, cr3, d, v)
    IN  IF n.mode # "ok" THEN n
        ELSE [n EXCEPT !.entry[n.entry[d][VADDR_DIR(v)]][VADDR_TABLE(v)] = p]

\* create_page_table: a cleared page with the kernel's entries.
create_page_table(m, cr3) ==
    LET d == ualloc_pages(m)
        n == Clear(Mark(m, d), cr3, d)
    IN  IF n.mode # "ok" THEN n
        ELSE [n EXCEPT !.entry[d] = [i \in Index |-> IF i <= UserPde THEN n.entry[KernelDir][i]
                                                    ELSE None]]

\* Mutant: the copy shares the page instead of getting its own.
CopyPageShared(m, from, to, v) ==
    IF Lookup(m, from, v) = None THEN m
    ELSE vaddr2paddr(m, from, to, v, Lookup(m, from, v))

\* The body of the loops of copy_pagetable, with directory from in force; the
\* contents are copied to the new page at its address.
CopyPage(m, from, to, v) ==
    IF Lookup(m, from, v) = None THEN m
    ELSE LET p == ualloc_pages(m)
             n == vaddr2paddr(Mark(m, p), from, to, v, p)
         IN  IF n.mode = "ok" /\ ~Touch(n, from, p) THEN [n EXCEPT !.mode = "fault"] ELSE n

\* Mutant: the page tables of a process are not freed.
DestroyPageOnly(m, d, v) ==
    IF Lookup(m, d, v) = None THEN m ELSE kfree_pages(m, Lookup(m, d, v))

\* The body of the loops of pagetable_destroy: the page, and behind the last
\* entry of a page table the table.
DestroyPage(m, d, v) ==
    LET t == m.entry[d][VADDR_DIR(v)]
        n == IF Lookup(m, d, v) = None THEN m ELSE kfree_pages(m, Lookup(m, d, v))
    IN  IF t # None /\ VADDR_TABLE(v) = Entries - 1 THEN kfree_pages(n, t) ELSE n

-----------------------------------------------------------------------------
(* The start: create_kernel_table, from an empty directory and bitmap.     *)

Init ==
    /\ mem = [entry |-> [p \in Frames \cup {KernelDir} |-> Empty], used |-> {}, mode |-> "ok"]
    /\ live = {}
    /\ op = "boot" /\ range = 1 /\ at = 0
    /\ src = None /\ dir = None

\* No call is in progress, or this one is, and nothing went wrong.
Goes(o) == op = o /\ mem.mode = "ok"

\* The walk is over.
Return == op' = "none" /\ at' = 0 /\ src' = None /\ dir' = None

\* A page of kernel_map is mapped to itself, while paging is off.
BootStep ==
    /\ Goes("boot") /\ range <= Len(KernelMap)
    /\ LET v == KernelMap[range][1] + at
       IN  /\ mem' = vaddr2paddr(mem, None, KernelDir, v, v)
           /\ IF v + 1 < KernelMap[range][2] THEN range' = range /\ at' = at + 1
              ELSE range' = range + 1 /\ at' = 0
    /\ UNCHANGED <<live, op, src, dir>>

\* Paging is switched on.
BootEnd ==
    /\ Goes("boot") /\ range > Len(KernelMap)
    /\ Return /\ UNCHANGED <<mem, live, range>>

KernelPages == UNION {KernelMap[k][1]..(KernelMap[k][2] - 1) : k \in DOMAIN KernelMap}

\* The addresses of a process: in the user's part, and not under a page table
\* of the kernel.
UserAddrs ==
    {v \in Pages : VADDR_DIR(v) >= UserPde /\ \A w \in KernelPages : VADDR_DIR(w) # VADDR_DIR(v)}

-----------------------------------------------------------------------------
\* A process gets a directory: init_tss and proc_init call create_page_table.
Create ==
    /\ Goes("none") /\ Cardinality(live) < MaxProcs
    /\ mem' = create_page_table(mem, KernelDir)
    /\ live' = IF mem'.mode = "ok" THEN live \cup {ualloc_pages(mem)} ELSE live
    /\ UNCHANGED <<op, range, src, dir, at>>

\* A page is mapped into a process at an address that is not the kernel's.
MapUser(d, v) ==
    /\ Goes("none") /\ v \in UserAddrs /\ Lookup(mem, d, v) = None
    /\ LET p == ualloc_pages(mem) IN mem' = vaddr2paddr(Mark(mem, p), d, d, v, p)
    /\ UNCHANGED <<live, op, range, src, dir, at>>

\* get_v2p: the lookup makes the page table it does not find.
get_v2p(d, v) ==
    /\ Goes("none") /\ v \in UserAddrs
    /\ mem.entry[d][VADDR_DIR(v)] = None
    /\ mem' = find_pte(mem, d, d, v)
    /\ UNCHANGED <<live, op, range, src, dir, at>>

\* copy_pagetable of a process, which is running: first a directory is made.
Copy(d) ==
    /\ "copy" \in Calls /\ Goes("none") /\ Cardinality(live) < MaxProcs
    /\ mem' = create_page_table(mem, d)
    /\ op' = "copy" /\ src' = d /\ dir' = ualloc_pages(mem) /\ at' = UserFirst
    /\ UNCHANGED <<live, range>>

CopyStep ==
    /\ Goes("copy") /\ at \in Pages
    /\ mem' = CopyPage(mem, src, dir, at)
    /\ at' = at + 1
    /\ UNCHANGED <<live, op, range, src, dir>>

CopyEnd ==
    /\ Goes("copy") /\ at \notin Pages
    /\ live' = live \cup {dir}
    /\ Return /\ UNCHANGED <<mem, range>>

\* pagetable_destroy: a process ends.
Destroy(d) ==
    /\ "destroy" \in Calls /\ Goes("none")
    /\ live' = live \ {d}
    /\ op' = "destroy" /\ dir' = d /\ at' = UserFirst
    /\ UNCHANGED <<mem, range, src>>

DestroyStep ==
    /\ Goes("destroy") /\ at \in Pages
    /\ mem' = DestroyPage(mem, dir, at)
    /\ at' = at + 1
    /\ UNCHANGED <<live, op, range, src, dir>>

\* Behind the loops the directory itself is freed.
DestroyEnd ==
    /\ Goes("destroy") /\ at \notin Pages
    /\ mem' = kfree_pages(mem, dir)
    /\ Return /\ UNCHANGED <<live, range>>

Next ==
    \/ BootStep \/ BootEnd
    \/ Create
    \/ \E d \in live, v \in Addrs : MapUser(d, v) \/ get_v2p(d, v)
    \/ \E d \in live : Copy(d) \/ Destroy(d)
    \/ CopyStep \/ CopyEnd
    \/ DestroyStep \/ DestroyEnd

Spec == Init /\ [][Next]_vars

-----------------------------------------------------------------------------
Managed == KernelStart..(FrameCount - 1)

\* Directories and page tables hold page numbers, only managed pages are
\* marked, and processes' directories are managed pages.
TypeOK ==
    /\ mem \in [entry : [Frames \cup {KernelDir} -> [Index -> Nat \cup {None}]],
                used : SUBSET Managed, mode : {"ok", "oom", "fault"}]
    /\ live \subseteq Managed
    /\ op \in {"boot", "none", "copy", "destroy"}
    /\ range \in Nat /\ at \in Nat
    /\ src \in Managed \cup {None} /\ dir \in Frames \cup {None}

\* As long as no page was refused, making, copying and ending processes never
\* changes the mapping of the kernel's own pages, at no moment of a walk.
KernelKept ==
    mem.mode = "ok" /\ op # "boot" => \A v \in KernelPages : Lookup(mem, KernelDir, v) = v

\* The first entry of a directory that is the process's own: the last one that
\* create_page_table fills may be the kernel's.
OwnPde == IF \E w \in KernelPages : VADDR_DIR(w) = UserPde THEN UserPde + 1 ELSE UserPde
OwnFirst == OwnPde * Entries

\* The directories that exist, with the first page of its own that each has
\* not given back: pagetable_destroy has freed the ones before at.
Held == [d \in live \cup ({dir} \ {None}) |-> IF op = "destroy" /\ d = dir THEN at ELSE OwnFirst]

\* What a page can serve as: the directory d; the page table of entry x of d,
\* until its last page is given back; the page at address x of d.
IsUse(m, held, kind, d, x) ==
    CASE kind = "dir" -> d # KernelDir /\ x = 0
      [] kind = "table" -> /\ x \in Index /\ m.entry[d][x] # None
                           /\ d # KernelDir => held[d] < (x + 1) * Entries
      [] kind = "page" -> d # KernelDir /\ held[d] <= x /\ Lookup(m, d, x) # None

Kinds == {"dir", "table", "page"}

Uses(m, held) ==
    {u \in Kinds \X (DOMAIN held \cup {KernelDir}) \X Pages : IsUse(m, held, u[1], u[2], u[3])}

\* The page that serves as it.
Serving(m, kind, d, x) ==
    CASE kind = "dir" -> d
      [] kind = "table" -> m.entry[d][x]
      [] kind = "page" -> Lookup(m, d, x)

\* No page serves two purposes: the directories, page tables and pages of all
\* processes and the kernel's page tables are different pages, while they are
\* made and given back too.
NoPageShared ==
    mem.mode = "ok" =>
        \A u, w \in Uses(mem, Held) :
            Serving(mem, u[1], u[2], u[3]) = Serving(mem, w[1], w[2], w[3]) => u = w

\* The bitmap is exact at every moment: what a directory still names is
\* allocated, and what is allocated some directory names, so a process that
\* ends leaves nothing.
NothingLeaked ==
    mem.mode = "ok" =>
        mem.used = {Serving(mem, u[1], u[2], u[3]) : u \in Uses(mem, Held)}
=============================================================================
