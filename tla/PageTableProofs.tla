-------------------------- MODULE PageTableProofs --------------------------
(***************************************************************************)
(* The address spaces are sound at every moment of every walk, for tables  *)
(* of any size, any amount of memory and any number of processes: for the  *)
(* code's boundary, with the calls that are live; and with the functions   *)
(* that copy and end processes called, when the user's part of a directory *)
(* starts behind the kernel's last page table.                             *)
(***************************************************************************)
EXTENDS PageTable, WellFoundedInduction, TLAPS

\* The boundary that the names user_pde_start and "user space" mean.  The code
\* computes it from MEM_KERNELFREE_END, which is not behind what kernel_map
\* maps.
KernelBelow == \A v \in KernelPages : VADDR_DIR(v) < UserPde

\* What is called fits the boundary: with the code's, copy_pagetable and
\* pagetable_destroy are not called, as it is; KernelKept is false otherwise.
CallsFit == Calls = {} \/ KernelBelow

PageCount == Entries * Entries

-----------------------------------------------------------------------------
(* Addresses.                                                               *)

LEMMA Larger ==
    ASSUME NEW d \in Nat, NEW x \in Nat, NEW y \in Nat, x <= y
    PROVE  d * x <= d * y
<1>1. PICK z \in Nat : y = x + z
  <2>1. y - x \in Nat /\ y = x + (y - x)
    OBVIOUS
  <2> QED
    BY <2>1
<1>2. d * y = d * x + d * z /\ d * z \in Nat /\ d * x \in Nat
  BY <1>1
<1> QED
  BY <1>2

\* An address is its place in the directory and its place in the table.
LEMMA AddressParts ==
    ASSUME NEW v \in Pages
    PROVE  /\ VADDR_DIR(v) \in Index /\ VADDR_TABLE(v) \in Index
           /\ v = Entries * VADDR_DIR(v) + VADDR_TABLE(v)
<1> USE SizesAssumption
<1>1. v \in Nat /\ PageCount \in Nat /\ v < PageCount
  BY DEF Pages, PageCount
<1> DEFINE q == v \div Entries
           r == v % Entries
<1>2. q \in Nat /\ r \in 0..(Entries - 1) /\ v = Entries * q + r
  BY <1>1
<1> HIDE DEF q, r
<1>3. q < Entries
  <2>1. Entries <= q => Entries * Entries <= Entries * q
    BY <1>2, Larger
  <2>2. Entries * q \in Nat
    BY <1>2
  <2> QED
    BY <1>1, <1>2, <2>1, <2>2 DEF PageCount
<1> QED
  BY <1>2, <1>3 DEF VADDR_DIR, VADDR_TABLE, Index, q, r

\* Different addresses have different parts.
LEMMA AddressUnique ==
    ASSUME NEW v \in Pages, NEW w \in Pages,
           VADDR_DIR(v) = VADDR_DIR(w), VADDR_TABLE(v) = VADDR_TABLE(w)
    PROVE  v = w
  BY AddressParts

\* The own part of a directory begins at a table, and an address is in it when
\* its entry of the directory is.
LEMMA UserPart ==
    /\ OwnPde \in Nat /\ OwnFirst \in Nat /\ PageCount \in Nat /\ OwnFirst <= PageCount
    /\ \A v \in Pages : OwnFirst <= v <=> OwnPde <= VADDR_DIR(v)
    /\ \A i \in Index : OwnFirst < (i + 1) * Entries <=> OwnPde <= i
    /\ \A i \in Index : (i + 1) * Entries <= PageCount
<1> USE SizesAssumption
<1>1. OwnPde \in 0..Entries
  <2>1. UserPde \in Index
    BY AddressParts DEF UserPde
  <2> QED
    BY <2>1 DEF OwnPde, Index
<1>2. OwnFirst = Entries * OwnPde /\ OwnFirst \in Nat /\ PageCount \in Nat
  BY <1>1 DEF OwnFirst, PageCount
<1>3. ASSUME NEW i \in Index
      PROVE  /\ (i + 1) * Entries = Entries * (i + 1) /\ Entries * (i + 1) = Entries * i + Entries
             /\ Entries * i \in Nat /\ (i + 1) * Entries <= PageCount
             /\ OwnPde <= i => OwnFirst <= Entries * i
             /\ i < OwnPde => (i + 1) * Entries <= OwnFirst
  <2>1. i \in Nat /\ i + 1 \in Nat /\ OwnPde \in Nat /\ i + 1 <= Entries
    BY <1>1 DEF Index
  <2>2. Entries * (i + 1) <= Entries * Entries
    BY <2>1, Larger
  <2>3. OwnPde <= i => Entries * OwnPde <= Entries * i
    BY <2>1, Larger
  <2>4. i < OwnPde => Entries * (i + 1) <= Entries * OwnPde
    BY <2>1, Larger
  <2>5. (i + 1) * Entries = Entries * (i + 1) /\ Entries * (i + 1) = Entries * i + Entries
        /\ Entries * i \in Nat
    BY <2>1
  <2> QED
    BY <1>2, <2>2, <2>3, <2>4, <2>5 DEF PageCount
<1>4. ASSUME NEW v \in Pages PROVE OwnFirst <= v <=> OwnPde <= VADDR_DIR(v)
  <2> DEFINE i == VADDR_DIR(v)
  <2>1. i \in Index /\ VADDR_TABLE(v) \in 0..(Entries - 1) /\ v = Entries * i + VADDR_TABLE(v)
    BY AddressParts DEF Index
  <2> HIDE DEF i
  <2>2. /\ (i + 1) * Entries = Entries * i + Entries /\ Entries * i \in Nat
        /\ OwnPde <= i => OwnFirst <= Entries * i
        /\ i < OwnPde => (i + 1) * Entries <= OwnFirst
    BY <1>3, <2>1
  <2>3. i \in Int /\ OwnPde \in Int
    BY <1>1, <2>1 DEF Index
  <2>4. OwnFirst <= v <=> OwnPde <= i
    BY <1>2, <2>1, <2>2, <2>3
  <2> QED
    BY <2>4 DEF i
<1>5. ASSUME NEW i \in Index PROVE OwnFirst < (i + 1) * Entries <=> OwnPde <= i
  <2>1. i \in Int /\ OwnPde \in Int
    BY <1>1 DEF Index
  <2> QED
    BY <1>2, <1>3, <2>1
<1>6. OwnFirst <= PageCount
  BY <1>1, <1>2, Larger DEF PageCount
<1> QED
  BY <1>1, <1>2, <1>3, <1>4, <1>5, <1>6

\* The boundary itself, and the own part: entries that create_page_table does
\* not fill, and the last one it fills when the kernel has no table there.
LEMMA OwnFacts ==
    /\ UserPde \in Index /\ UserPde \in Nat /\ OwnPde \in Nat
    /\ OwnPde = UserPde \/ OwnPde = UserPde + 1
    /\ KernelBelow => OwnPde = UserPde /\ OwnFirst = UserFirst
<1>1. UserPde \in Index /\ UserPde \in Nat
  BY AddressParts, SizesAssumption DEF UserPde, Index
<1>2. ASSUME KernelBelow, NEW w \in KernelPages PROVE VADDR_DIR(w) # UserPde
  BY <1>1, <1>2 DEF KernelBelow
<1> QED
  BY <1>1, <1>2, UserPart DEF OwnPde, OwnFirst, UserFirst

\* One step of a walk passes one page, and at the end of a table the table.
LEMMA PassOne ==
    ASSUME NEW v \in Pages
    PROVE  /\ v + 1 \in 0..PageCount
           /\ \A x \in Pages : v + 1 <= x <=> v <= x /\ x # v
           /\ \A i \in Index : v + 1 < (i + 1) * Entries <=>
                  v < (i + 1) * Entries
                  /\ ~(i = VADDR_DIR(v) /\ VADDR_TABLE(v) = Entries - 1)
           /\ v < (VADDR_DIR(v) + 1) * Entries
<1> USE SizesAssumption
<1>1. v \in Nat /\ PageCount \in Nat /\ v < PageCount
  BY DEF Pages, PageCount
<1>2. \A x \in Pages : v + 1 <= x <=> v <= x /\ x # v
  BY DEF Pages
<1> DEFINE q == VADDR_DIR(v)
           r == VADDR_TABLE(v)
<1>3. q \in Nat /\ r \in 0..(Entries - 1) /\ v = Entries * q + r
  BY AddressParts DEF Index
<1> HIDE DEF q, r
<1>4. Entries * q \in Nat /\ (q + 1) * Entries = Entries * q + Entries
  BY <1>3
<1>5. ASSUME NEW i \in Index
      PROVE  v + 1 < (i + 1) * Entries <=> v < (i + 1) * Entries /\ ~(i = q /\ r = Entries - 1)
  <2>1. i \in Nat /\ (i + 1) * Entries = Entries * (i + 1) /\ Entries * (i + 1) \in Nat
    BY DEF Index
  <2>2. CASE i = q
    BY <1>3, <1>4, <2>2
  <2>3. CASE i < q
    <3>1. Entries * (i + 1) <= Entries * q
      BY <1>3, <2>1, <2>3, Larger
    <3> QED
      BY <1>1, <1>3, <1>4, <2>1, <2>3, <3>1
  <2>4. CASE i > q
    <3>1. Entries * (q + 2) <= Entries * (i + 1)
      BY <1>3, <2>1, <2>4, Larger
    <3>2. Entries * (q + 2) = Entries * q + Entries + Entries
      BY <1>3
    <3> QED
      BY <1>1, <1>3, <1>4, <2>1, <2>4, <3>1, <3>2
  <2> QED
    BY <1>3, <2>1, <2>2, <2>3, <2>4
<1> QED
  BY <1>1, <1>2, <1>3, <1>4, <1>5 DEF q, r

-----------------------------------------------------------------------------
(* The allocator and the functions that write memory.                       *)

Memory == [entry : [Frames \cup {KernelDir} -> [Index -> Nat \cup {None}]],
           used : SUBSET Managed, mode : {"ok", "oom", "fault"}]

LEMMA ManagedFacts ==
    /\ Managed \subseteq Frames /\ Managed \subseteq Nat /\ Frames \subseteq Pages
    /\ Pages \subseteq Nat /\ Index \subseteq Nat
    /\ 0 \notin Managed /\ 0 \in Frames /\ KernelDir \notin Frames /\ None \notin Frames
    /\ None # KernelDir /\ None \notin Nat /\ KernelDir \notin Nat
<1>1. PageCount \in Nat /\ FrameCount \in 1..PageCount /\ KernelStart \in 1..FrameCount
  BY SizesAssumption DEF PageCount
<1>2. Pages = 0..(PageCount - 1)
  BY DEF Pages, PageCount
<1> QED
  BY <1>1, <1>2, NamesAssumption DEF Managed, Frames, Index

\* The search for a free page finds one that is free, or answers 0.
LEMMA FreeFound ==
    ASSUME NEW m \in Memory, NEW start \in KernelStart..FrameCount
    PROVE  \/ FirstFree(m, start) = 0
           \/ FirstFree(m, start) \in Managed \ m.used
<1> DEFINE free == {f \in start..(FrameCount - 1) : f \notin m.used}
<1>1. free \subseteq Managed \ m.used
  BY SizesAssumption DEF Managed
<1>2. CASE free # {}
  <2>1. free \in SUBSET Nat
    BY <1>1, ManagedFacts
  <2>2. PICK x \in free : \A y \in free : ~ (<<y, x>> \in OpToRel(<, Nat))
    BY <1>2, <2>1, NatLessThanWellFounded, WFMin, Zenon
  <2>3. \A y \in free : x <= y
    <3> SUFFICES ASSUME NEW y \in free PROVE x <= y
      OBVIOUS
    <3>1. x \in Nat /\ y \in Nat /\ ~(y < x)
      BY <2>1, <2>2 DEF OpToRel
    <3> QED
      BY <3>1
  <2>4. Min(free) \in free
    BY <2>3 DEF Min
  <2> QED
    BY <1>1, <1>2, <2>4 DEF FirstFree
<1> QED
  BY <1>2 DEF FirstFree

LEMMA MarkFacts ==
    ASSUME NEW m \in Memory, NEW f \in Managed \cup {0}
    PROVE  /\ Mark(m, f) \in Memory /\ Mark(m, f).entry = m.entry
           /\ f # 0 => Mark(m, f).used = m.used \cup {f} /\ Mark(m, f).mode = m.mode
           /\ f = 0 /\ m.mode = "ok" => Mark(m, f).mode = "oom"
  BY ManagedFacts DEF Mark, Memory

LEMMA ClearFacts ==
    ASSUME NEW m \in Memory, NEW cr3, NEW f \in Frames
    PROVE  /\ Clear(m, cr3, f) \in Memory /\ Clear(m, cr3, f).used = m.used
           /\ Touch(m, cr3, f) => /\ Clear(m, cr3, f).entry = [m.entry EXCEPT ![f] = Empty]
                                  /\ Clear(m, cr3, f).mode = m.mode
           /\ ~Touch(m, cr3, f) => /\ Clear(m, cr3, f).entry = m.entry
                                   /\ m.mode = "ok" => Clear(m, cr3, f).mode = "fault"
<1>1. Empty \in [Index -> Nat \cup {None}]
  BY DEF Empty
<1> QED
  BY <1>1 DEF Clear, Memory

LEMMA FreeFacts ==
    ASSUME NEW m \in Memory, NEW f \in Managed
    PROVE  /\ kfree_pages(m, f) \in Memory /\ kfree_pages(m, f).entry = m.entry
           /\ kfree_pages(m, f).used = m.used \ {f} /\ kfree_pages(m, f).mode = m.mode
  BY DEF kfree_pages, Memory

\* A lookup depends on the entries alone.
LEMMA SameEntries ==
    ASSUME NEW m, NEW n, n.entry = m.entry, NEW d, NEW v
    PROVE  Lookup(n, d, v) = Lookup(m, d, v)
  BY DEF Lookup

\* find_pte leaves the memory as it is, or links a cleared page that was free
\* into the directory, or fails and has written no entry.
TableMade(m, n, cr3, d, i) ==
    /\ n \in Memory
    /\ \/ /\ n.mode = "ok"
          /\ \E t \in Managed \ m.used : /\ n.entry = [m.entry EXCEPT ![t] = Empty, ![d][i] = t]
                                         /\ n.used = m.used \cup {t}
       \/ n.mode = "oom" /\ n.entry = m.entry
       \/ n.mode = "fault" /\ n.entry = m.entry /\ \E t \in Managed : ~Touch(m, cr3, t)

LEMMA FindFacts ==
    ASSUME NEW m \in Memory, m.mode = "ok", NEW cr3, NEW d \in Frames \cup {KernelDir},
           NEW v \in Pages
    PROVE  LET n == find_pte(m, cr3, d, v)
           IN  /\ m.entry[d][VADDR_DIR(v)] # None => n = m
               /\ m.entry[d][VADDR_DIR(v)] = None => TableMade(m, n, cr3, d, VADDR_DIR(v))
<1> DEFINE i == VADDR_DIR(v)
           t == FirstFree(m, KernelStart)
           n == Mark(m, t)
           c == Clear(n, cr3, t)
           k == IF kalloc_pages(m) = 0 THEN [n EXCEPT !.mode = "oom"] ELSE c
           r == IF k.mode # "ok" THEN k ELSE [k EXCEPT !.entry[d][i] = t]
<1>0. i \in Index
  BY AddressParts
<1>1. CASE m.entry[d][i] # None
  BY <1>1 DEF find_pte
<1>2. CASE m.entry[d][i] = None
  <2>1. find_pte(m, cr3, d, v) = r
    BY <1>2 DEF find_pte
  <2>2. t = 0 \/ t \in Managed \ m.used
    <3>1. KernelStart \in KernelStart..FrameCount
      BY SizesAssumption
    <3> QED
      BY <3>1, FreeFound
  <2>3. n \in Memory /\ n.entry = m.entry
        /\ (t # 0 => n.used = m.used \cup {t} /\ n.mode = "ok")
        /\ (t = 0 => n.mode = "oom")
    BY <2>2, MarkFacts
  <2>4. CASE kalloc_pages(m) = 0
    <3>1. k = [n EXCEPT !.mode = "oom"]
      BY <2>4
    <3> HIDE DEF n, k
    <3>2. k \in Memory /\ k.entry = m.entry /\ k.mode = "oom"
      BY <2>3, <3>1 DEF Memory
    <3> QED
      BY <1>2, <2>1, <3>2 DEF TableMade
  <2>5. CASE kalloc_pages(m) # 0
    <3>1. t # 0 /\ t \in Managed \ m.used /\ t \in Frames /\ k = c
      <4>1. kalloc_pages(m) = 0 \/ kalloc_pages(m) = t
        BY DEF kalloc_pages
      <4> QED
        BY <2>2, <2>5, <4>1, ManagedFacts
    <3>2. Touch(n, cr3, t) <=> Touch(m, cr3, t)
      BY <2>3, SameEntries DEF Touch
    <3> HIDE DEF n, t, k
    <3>3. c \in Memory /\ c.used = m.used \cup {t}
          /\ (Touch(m, cr3, t) => c.entry = [m.entry EXCEPT ![t] = Empty] /\ c.mode = "ok")
          /\ (~Touch(m, cr3, t) => c.entry = m.entry /\ c.mode = "fault")
      BY <2>3, <3>1, <3>2, ClearFacts
    <3> HIDE DEF c
    <3>4. CASE Touch(m, cr3, t)
      <4>1. r = [c EXCEPT !.entry[d][i] = t]
        BY <3>1, <3>3, <3>4
      <4>2. r.entry = [c.entry EXCEPT ![d][i] = t] /\ r.used = c.used /\ r.mode = c.mode
        BY <3>3, <4>1 DEF Memory
      <4>3. r \in Memory
        BY <1>0, <3>1, <3>3, <4>1, ManagedFacts DEF Memory
      <4>4. r.entry = [m.entry EXCEPT ![t] = Empty, ![d][i] = t]
        BY <3>3, <3>4, <4>2
      <4> HIDE DEF r
      <4> QED
        BY <1>2, <2>1, <3>1, <3>3, <3>4, <4>2, <4>3, <4>4 DEF TableMade
    <3>5. CASE ~Touch(m, cr3, t)
      <4>1. r = c
        BY <3>1, <3>3, <3>5
      <4> HIDE DEF r
      <4> QED
        BY <1>2, <2>1, <3>1, <3>3, <3>5, <4>1 DEF TableMade
    <3> QED
      BY <3>4, <3>5
  <2> QED
    BY <2>4, <2>5
<1> QED
  BY <1>1, <1>2

-----------------------------------------------------------------------------
(* What the pages serve as.                                                 *)

InUse(m, held, kind, d, x) ==
    kind \in Kinds /\ d \in DOMAIN held \cup {KernelDir} /\ x \in Pages
    /\ IsUse(m, held, kind, d, x)

\* No page serves as two things.
Apart(m, held) ==
    \A k, d, x, l, e, y :
        InUse(m, held, k, d, x) /\ InUse(m, held, l, e, y)
            /\ Serving(m, k, d, x) = Serving(m, l, e, y) => k = l /\ d = e /\ x = y

\* The marked pages are the ones that serve as something, and the pages extra,
\* which were given out a moment ago and are not linked yet.
Exact(m, held, extra) ==
    /\ extra \subseteq m.used
    /\ \A k, d, x : InUse(m, held, k, d, x) => Serving(m, k, d, x) \in m.used \ extra
    /\ \A f \in m.used \ extra : \E k, d, x : InUse(m, held, k, d, x) /\ Serving(m, k, d, x) = f

\* Directories share the kernel's part, and the kernel has no table at the
\* boundary unless it is shared.
SharedPart(m, held) ==
    \A i \in Index : /\ i < OwnPde => \A d \in DOMAIN held : m.entry[d][i] = m.entry[KernelDir][i]
                     /\ OwnPde = i /\ i = UserPde => m.entry[KernelDir][i] = None

Sound(m, held, extra) ==
    /\ m \in Memory
    /\ DOMAIN held \subseteq Managed /\ held \in [DOMAIN held -> OwnFirst..PageCount]
    /\ Apart(m, held) /\ Exact(m, held, extra) /\ SharedPart(m, held)

\* A page that was free is put to a use.
LEMMA AddUse ==
    ASSUME NEW m, NEW n, NEW held, NEW after, NEW extra, NEW rest,
           Apart(m, held), Exact(m, held, extra), NEW K, NEW D, NEW X, NEW f,
           \A k, d, x : InUse(n, after, k, d, x) <=>
                            InUse(m, held, k, d, x) \/ (k = K /\ d = D /\ x = X),
           \A k, d, x : InUse(m, held, k, d, x) => Serving(n, k, d, x) = Serving(m, k, d, x),
           Serving(n, K, D, X) = f,
           \/ f \notin m.used /\ n.used = m.used \cup {f} /\ rest = extra
           \/ f \in extra /\ n.used = m.used /\ rest = extra \ {f}
    PROVE  Apart(n, after) /\ Exact(n, after, rest)
<1>1. \A k, d, x : InUse(m, held, k, d, x) => Serving(m, k, d, x) # f
  BY DEF Exact
<1>2. Apart(n, after)
  BY <1>1 DEF Apart
<1>3. rest \subseteq n.used
  BY DEF Exact
<1>4. \A k, d, x : InUse(n, after, k, d, x) => Serving(n, k, d, x) \in n.used \ rest
  BY DEF Exact
<1>5. ASSUME NEW g \in n.used \ rest
      PROVE  \E k, d, x : InUse(n, after, k, d, x) /\ Serving(n, k, d, x) = g
  <2>1. CASE g = f
    BY <2>1
  <2>2. CASE g # f
    <3>1. g \in m.used \ extra
      BY <2>2
    <3>2. PICK k, d, x : InUse(m, held, k, d, x) /\ Serving(m, k, d, x) = g
      BY <3>1 DEF Exact
    <3> QED
      BY <3>2
  <2> QED
    BY <2>1, <2>2
<1> QED
  BY <1>2, <1>3, <1>4, <1>5 DEF Exact

\* Pages are freed with the ends of their uses.
LEMMA DropUses ==
    ASSUME NEW m, NEW n, NEW held, NEW after, NEW freed,
           Apart(m, held), Exact(m, held, {}),
           \A k, d, x : InUse(n, after, k, d, x) => InUse(m, held, k, d, x),
           \A k, d, x : InUse(m, held, k, d, x) =>
               /\ Serving(n, k, d, x) = Serving(m, k, d, x)
               /\ InUse(n, after, k, d, x) <=> Serving(m, k, d, x) \notin freed,
           n.used = m.used \ freed
    PROVE  Apart(n, after) /\ Exact(n, after, {})
<1>1. Apart(n, after)
  BY DEF Apart
<1>2. \A k, d, x : InUse(n, after, k, d, x) => Serving(n, k, d, x) \in n.used \ {}
  BY DEF Exact
<1>3. ASSUME NEW g \in n.used \ {}
      PROVE  \E k, d, x : InUse(n, after, k, d, x) /\ Serving(n, k, d, x) = g
  <2>1. PICK k, d, x : InUse(m, held, k, d, x) /\ Serving(m, k, d, x) = g
    BY DEF Exact
  <2> QED
    BY <2>1
<1> QED
  BY <1>1, <1>2, <1>3 DEF Exact

\* The uses stay the same.
LEMMA SameUses ==
    ASSUME NEW m, NEW n, NEW held, NEW after, NEW extra,
           Apart(m, held), Exact(m, held, extra),
           \A k, d, x : InUse(n, after, k, d, x) <=> InUse(m, held, k, d, x),
           \A k, d, x : InUse(m, held, k, d, x) => Serving(n, k, d, x) = Serving(m, k, d, x),
           n.used = m.used
    PROVE  Apart(n, after) /\ Exact(n, after, extra)
<1>1. Apart(n, after)
  BY DEF Apart
<1>2. \A k, d, x : InUse(n, after, k, d, x) => Serving(n, k, d, x) \in n.used \ extra
  BY DEF Exact
<1>3. ASSUME NEW g \in n.used \ extra
      PROVE  \E k, d, x : InUse(n, after, k, d, x) /\ Serving(n, k, d, x) = g
  <2>1. PICK k, d, x : InUse(m, held, k, d, x) /\ Serving(m, k, d, x) = g
    BY DEF Exact
  <2> QED
    BY <2>1
<1> QED
  BY <1>1, <1>2, <1>3 DEF Exact

\* The uses, kind by kind.
LEMMA UseFacts ==
    ASSUME NEW m, NEW held, NEW d \in DOMAIN held \cup {KernelDir}, NEW x \in Pages
    PROVE  /\ InUse(m, held, "dir", d, x) <=> d # KernelDir /\ x = 0
           /\ InUse(m, held, "table", d, x) <=>
                  /\ x \in Index /\ m.entry[d][x] # None
                  /\ d # KernelDir => held[d] < (x + 1) * Entries
           /\ InUse(m, held, "page", d, x) <=>
                  d # KernelDir /\ held[d] <= x /\ Lookup(m, d, x) # None
  BY DEF InUse, IsUse, Kinds

LEMMA ServingFacts ==
    ASSUME NEW m, NEW d, NEW x
    PROVE  /\ Serving(m, "dir", d, x) = d
           /\ Serving(m, "table", d, x) = m.entry[d][x]
           /\ Serving(m, "page", d, x) = Lookup(m, d, x)
  BY DEF Serving

LEMMA IndexIsPage == Index \subseteq Pages /\ 0 \in Index /\ 0 \in Pages
<1>1. Entries \in Nat /\ 1 <= Entries /\ Entries * 1 <= Entries * Entries /\ Entries * Entries \in Nat
  BY SizesAssumption, Larger
<1> QED
  BY <1>1 DEF Index, Pages

LEMMA DirectoryUse ==
    ASSUME NEW m, NEW held, NEW d \in DOMAIN held, d # KernelDir
    PROVE  InUse(m, held, "dir", d, 0) /\ Serving(m, "dir", d, 0) = d
  BY IndexIsPage DEF InUse, IsUse, Kinds, Serving

\* The entry i of directory d is a page table that has not been freed.
Standing(m, held, d, i) ==
    /\ d \in DOMAIN held \cup {KernelDir} /\ i \in Index /\ m.entry[d][i] # None
    /\ d = KernelDir \/ i < OwnPde \/ held[d] < (i + 1) * Entries

\* A page table is marked, is no directory, and stands in one place of one
\* directory, or in the kernel's part of all of them.
LEMMA TableFacts ==
    ASSUME NEW m, NEW held, NEW extra, Sound(m, held, extra), NEW d, NEW i, Standing(m, held, d, i)
    PROVE  /\ m.entry[d][i] \in m.used \ extra
           /\ m.entry[d][i] \in Managed
           /\ m.entry[d][i] \notin DOMAIN held \cup {KernelDir}
           /\ \A e, j : Standing(m, held, e, j) /\ m.entry[e][j] = m.entry[d][i] =>
                  j = i /\ (e = d \/ i < OwnPde)
<1> DEFINE Root(c, j) == IF j < OwnPde THEN KernelDir ELSE c
<1>1. ASSUME NEW c, NEW j, Standing(m, held, c, j)
      PROVE  /\ InUse(m, held, "table", Root(c, j), j) /\ j \in Pages
             /\ Serving(m, "table", Root(c, j), j) = m.entry[c][j]
  <2>0. OwnPde \in Int /\ j \in Int /\ j \in Index /\ j \in Pages
    BY <1>1, UserPart, IndexIsPage, ManagedFacts DEF Standing
  <2>1. CASE j < OwnPde
    <3>1. m.entry[KernelDir][j] = m.entry[c][j]
      BY <1>1, <2>1 DEF Standing, Sound, SharedPart
    <3>2. InUse(m, held, "table", KernelDir, j)
      BY <1>1, <2>0, <3>1, UseFacts DEF Standing
    <3> QED
      BY <2>0, <2>1, <3>1, <3>2, ServingFacts
  <2>2. CASE ~(j < OwnPde)
    <3>1. InUse(m, held, "table", c, j)
      BY <1>1, <2>0, <2>2, UseFacts DEF Standing
    <3> QED
      BY <2>0, <2>2, <3>1, ServingFacts
  <2> QED
    BY <2>1, <2>2
<1> HIDE DEF Root
<1>2. m.entry[d][i] \in m.used \ extra
  BY <1>1 DEF Sound, Exact
<1>3. m.entry[d][i] \in Managed
  BY <1>2 DEF Sound, Memory
<1>4. m.entry[d][i] \notin DOMAIN held
  <2> SUFFICES ASSUME m.entry[d][i] \in DOMAIN held PROVE FALSE
    OBVIOUS
  <2> DEFINE t == m.entry[d][i]
  <2>1. t # KernelDir
    BY <1>3, ManagedFacts
  <2>3. Apart(m, held) /\ InUse(m, held, "table", Root(d, i), i)
        /\ Serving(m, "table", Root(d, i), i) = t /\ t \in DOMAIN held
    BY <1>1 DEF Sound
  <2> HIDE DEF t
  <2>2. InUse(m, held, "dir", t, 0) /\ Serving(m, "dir", t, 0) = t
    BY <2>1, <2>3, DirectoryUse
  <2>4. "table" = "dir"
    BY <2>2, <2>3 DEF Apart
  <2> QED
    BY <2>4
<1>5. ASSUME NEW e, NEW j, Standing(m, held, e, j), m.entry[e][j] = m.entry[d][i]
      PROVE  j = i /\ (e = d \/ i < OwnPde)
  <2>1. Root(e, j) = Root(d, i) /\ j = i
    BY <1>1, <1>5 DEF Sound, Apart
  <2> QED
    BY <2>1 DEF Root
<1> QED
  BY <1>1, <1>2, <1>3, <1>4, <1>5, ManagedFacts

-----------------------------------------------------------------------------
(* The ways in which memory changes.                                        *)

\* A cleared page that was free becomes the page table of entry I of directory
\* D; the kernel does this only while there is no other directory.
Linkable(m, held, D, I) ==
    /\ I \in Index /\ D \in DOMAIN held \cup {KernelDir} /\ m.entry[D][I] = None
    /\ IF D = KernelDir THEN DOMAIN held = {} /\ ~(I = OwnPde /\ I = UserPde)
       ELSE OwnPde <= I /\ held[D] = OwnFirst

Links(m, n, D, I, t) ==
    /\ n \in Memory /\ t \in Managed \ m.used
    /\ n.entry = [m.entry EXCEPT ![t] = Empty, ![D][I] = t] /\ n.used = m.used \cup {t}

\* What that leaves of the entries of directories and of page tables.
LEMMA LinkEntries ==
    ASSUME NEW m, NEW n, NEW held, NEW extra, NEW D, NEW I, NEW t,
           Sound(m, held, extra), Linkable(m, held, D, I), Links(m, n, D, I, t)
    PROVE  /\ n.entry[D][I] = t /\ n.entry[t] = Empty
           /\ \A d \in DOMAIN held \cup {KernelDir} : \A i \in Index :
                  d # D \/ i # I => n.entry[d][i] = m.entry[d][i]
           /\ \A d, i : Standing(m, held, d, i) =>
                  n.entry[m.entry[d][i]] = m.entry[m.entry[d][i]]
<1>1. /\ m.entry \in [Frames \cup {KernelDir} -> [Index -> Nat \cup {None}]]
      /\ t \in Frames /\ t # KernelDir /\ t \notin m.used /\ I \in Index
  BY ManagedFacts DEF Sound, Memory, Links, Linkable
<1>2. DOMAIN held \cup {KernelDir} \subseteq Frames \cup {KernelDir}
  BY ManagedFacts DEF Sound
<1>3. ASSUME NEW d \in DOMAIN held \cup {KernelDir} PROVE d # t
  <2>1. CASE d = KernelDir
    BY <1>1, <2>1
  <2>2. CASE d # KernelDir
    <3>1. InUse(m, held, "dir", d, 0) /\ Serving(m, "dir", d, 0) = d
      BY <2>2, DirectoryUse
    <3>2. d \in m.used
      BY <3>1 DEF Sound, Exact
    <3> QED
      BY <1>1, <3>2
  <2> QED
    BY <2>1, <2>2
<1>4. D \in DOMAIN held \cup {KernelDir}
  BY DEF Linkable
<1> DEFINE e == [m.entry EXCEPT ![t] = Empty]
<1>5. e \in [Frames \cup {KernelDir} -> [Index -> Nat \cup {None}]] /\ e[t] = Empty
      /\ \A d \in Frames \cup {KernelDir} : d # t => e[d] = m.entry[d]
  <2>1. Empty \in [Index -> Nat \cup {None}]
    BY DEF Empty
  <2> QED
    BY <1>1, <2>1
<1>6. n.entry = [e EXCEPT ![D][I] = t]
  BY DEF Links
<1> HIDE DEF e
<1>7. /\ n.entry[D][I] = t
      /\ \A i \in Index : i # I => n.entry[D][i] = e[D][i]
      /\ \A d \in Frames \cup {KernelDir} : d # D => n.entry[d] = e[d]
  BY <1>1, <1>2, <1>4, <1>5, <1>6
<1>8. n.entry[t] = Empty
  BY <1>1, <1>3, <1>4, <1>5, <1>7
<1>9. ASSUME NEW d \in DOMAIN held \cup {KernelDir}, NEW i \in Index, d # D \/ i # I
      PROVE  n.entry[d][i] = m.entry[d][i]
  BY <1>2, <1>3, <1>5, <1>7, <1>9
<1>10. ASSUME NEW d, NEW i, Standing(m, held, d, i)
       PROVE  n.entry[m.entry[d][i]] = m.entry[m.entry[d][i]]
  <2> DEFINE s == m.entry[d][i]
  <2>1. s \in m.used /\ s \in Frames /\ s \notin DOMAIN held \cup {KernelDir}
    BY <1>10, TableFacts, ManagedFacts
  <2> HIDE DEF s
  <2>2. n.entry[s] = m.entry[s]
    BY <1>1, <1>4, <1>5, <1>7, <2>1
  <2> QED
    BY <2>2 DEF s
<1> QED
  BY <1>7, <1>8, <1>9, <1>10

\* Every lookup through a standing table, or through no table, is as before.
LEMMA LinkLookup ==
    ASSUME NEW m, NEW n, NEW held, NEW extra, NEW D, NEW I, NEW t,
           Sound(m, held, extra), Linkable(m, held, D, I), Links(m, n, D, I, t),
           NEW d \in DOMAIN held \cup {KernelDir}, NEW v \in Pages,
           d = KernelDir \/ VADDR_DIR(v) < OwnPde \/ held[d] < (VADDR_DIR(v) + 1) * Entries
    PROVE  Lookup(n, d, v) = Lookup(m, d, v)
<1> DEFINE i == VADDR_DIR(v)
           j == VADDR_TABLE(v)
<1>1. i \in Index /\ j \in Index
  BY AddressParts
<1>2. /\ Lookup(m, d, v) = IF m.entry[d][i] = None THEN None ELSE m.entry[m.entry[d][i]][j]
      /\ Lookup(n, d, v) = IF n.entry[d][i] = None THEN None ELSE n.entry[n.entry[d][i]][j]
  BY DEF Lookup
<1>3. CASE d = D /\ i = I
  <2>1. Lookup(m, d, v) = None
    BY <1>2, <1>3 DEF Linkable
  <2>2. n.entry[d][i] = t /\ n.entry[t][j] = None
    BY <1>1, <1>3, LinkEntries DEF Empty
  <2> HIDE DEF i, j
  <2> QED
    BY <1>2, <2>1, <2>2
<1>4. CASE d # D \/ i # I
  <2>1. n.entry[d][i] = m.entry[d][i]
    BY <1>1, <1>4, LinkEntries
  <2>2. m.entry[d][i] # None => n.entry[m.entry[d][i]] = m.entry[m.entry[d][i]]
    <3>1. m.entry[d][i] # None => Standing(m, held, d, i)
      BY <1>1 DEF Standing
    <3> QED
      BY <3>1, LinkEntries
  <2> HIDE DEF i, j
  <2> QED
    BY <1>2, <2>1, <2>2
<1> QED
  BY <1>3, <1>4

\* A page in use lies under a standing table.
LEMMA PageReached ==
    ASSUME NEW m, NEW held, NEW extra, Sound(m, held, extra), NEW d \in DOMAIN held,
           NEW x \in Pages, held[d] <= x
    PROVE  held[d] < (VADDR_DIR(x) + 1) * Entries /\ OwnPde <= VADDR_DIR(x) /\ d # KernelDir
<1>1. held[d] \in OwnFirst..PageCount /\ d \in Managed
  BY DEF Sound
<1>2. VADDR_DIR(x) \in Index /\ x \in Int /\ x < (VADDR_DIR(x) + 1) * Entries
  BY AddressParts, PassOne, ManagedFacts
<1>3. OwnFirst \in Int /\ PageCount \in Int /\ (OwnFirst <= x => OwnPde <= VADDR_DIR(x))
  BY UserPart
<1>4. (VADDR_DIR(x) + 1) * Entries \in Int
  BY <1>2, SizesAssumption DEF Index
<1> QED
  BY <1>1, <1>2, <1>3, <1>4, ManagedFacts

LEMMA LinkSound ==
    ASSUME NEW m, NEW n, NEW held, NEW extra, NEW D, NEW I, NEW t,
           Sound(m, held, extra), Linkable(m, held, D, I), Links(m, n, D, I, t)
    PROVE  Sound(n, held, extra)
<1>1. /\ n.entry[D][I] = t /\ t # None /\ I \in Index /\ I \in Pages
      /\ D \in DOMAIN held \cup {KernelDir} /\ m.entry[D][I] = None
      /\ \A d \in DOMAIN held \cup {KernelDir} : \A i \in Index :
             d # D \/ i # I => n.entry[d][i] = m.entry[d][i]
  <2>1. I \in Index /\ D \in DOMAIN held \cup {KernelDir} /\ m.entry[D][I] = None
        /\ t \in Managed
    BY DEF Linkable, Links
  <2>2. I \in Pages /\ t # None
    BY <2>1, IndexIsPage, ManagedFacts
  <2> QED
    BY <2>1, <2>2, LinkEntries
<1>2. D # KernelDir => OwnPde <= I /\ held[D] = OwnFirst /\ held[D] < (I + 1) * Entries
  BY UserPart DEF Linkable
<1>3. ASSUME NEW d \in DOMAIN held \cup {KernelDir}, NEW x \in Pages
      PROVE  /\ InUse(n, held, "dir", d, x) <=> InUse(m, held, "dir", d, x)
             /\ InUse(n, held, "table", d, x) <=>
                    InUse(m, held, "table", d, x) \/ (d = D /\ x = I)
             /\ InUse(m, held, "table", d, x) => n.entry[d][x] = m.entry[d][x]
             /\ InUse(n, held, "page", d, x) <=> InUse(m, held, "page", d, x)
             /\ InUse(m, held, "page", d, x) => Lookup(n, d, x) = Lookup(m, d, x)
  <2>0. /\ InUse(m, held, "table", d, x) <=>
               /\ x \in Index /\ m.entry[d][x] # None
               /\ d # KernelDir => held[d] < (x + 1) * Entries
        /\ InUse(n, held, "table", d, x) <=>
               /\ x \in Index /\ n.entry[d][x] # None
               /\ d # KernelDir => held[d] < (x + 1) * Entries
    BY UseFacts
  <2>1. InUse(n, held, "dir", d, x) <=> InUse(m, held, "dir", d, x)
    BY UseFacts
  <2>2. InUse(n, held, "table", d, x) <=> InUse(m, held, "table", d, x) \/ (d = D /\ x = I)
    <3>1. CASE d = D /\ x = I
      BY <1>1, <1>2, <2>0, <3>1
    <3>2. CASE ~(d = D /\ x = I)
      BY <1>1, <2>0, <3>2
    <3> QED
      BY <3>1, <3>2
  <2>3. InUse(m, held, "table", d, x) => n.entry[d][x] = m.entry[d][x]
    BY <1>1, <2>0
  <2>4. d # KernelDir /\ held[d] <= x => Lookup(n, d, x) = Lookup(m, d, x)
    BY PageReached, LinkLookup
  <2>5. InUse(n, held, "page", d, x) <=> InUse(m, held, "page", d, x)
    BY <2>4, UseFacts
  <2>6. InUse(m, held, "page", d, x) => Lookup(n, d, x) = Lookup(m, d, x)
    BY <2>4, UseFacts
  <2> QED
    BY <2>1, <2>2, <2>3, <2>5, <2>6
<1>4. ASSUME NEW k, NEW d, NEW x
      PROVE  /\ InUse(n, held, k, d, x) <=>
                    InUse(m, held, k, d, x) \/ (k = "table" /\ d = D /\ x = I)
             /\ InUse(m, held, k, d, x) => Serving(n, k, d, x) = Serving(m, k, d, x)
  <2>1. CASE ~(k \in Kinds /\ d \in DOMAIN held \cup {KernelDir} /\ x \in Pages)
    BY <1>1, <2>1 DEF InUse, Kinds
  <2>2. CASE d \in DOMAIN held \cup {KernelDir} /\ x \in Pages /\ k \in Kinds
    BY <1>3, <2>2, ServingFacts DEF Kinds
  <2> QED
    BY <2>1, <2>2
<1>5. Serving(n, "table", D, I) = t
  BY <1>1, ServingFacts
<1>6. Apart(n, held) /\ Exact(n, held, extra)
  <2>1. Apart(m, held) /\ Exact(m, held, extra) /\ t \notin m.used /\ n.used = m.used \cup {t}
    BY DEF Sound, Links
  <2> QED
    BY <1>4, <1>5, <2>1, AddUse
<1>7. SharedPart(n, held)
  <2> SUFFICES ASSUME NEW i \in Index
               PROVE  /\ i < OwnPde => \A d \in DOMAIN held : n.entry[d][i] = n.entry[KernelDir][i]
                      /\ OwnPde = i /\ i = UserPde => n.entry[KernelDir][i] = None
    BY DEF SharedPart
  <2>0. i \in Int /\ I \in Int /\ OwnPde \in Int /\ KernelDir \notin DOMAIN held
    BY <1>1, UserPart, ManagedFacts DEF Sound
  <2>1. /\ i < OwnPde => \A d \in DOMAIN held : m.entry[d][i] = m.entry[KernelDir][i]
        /\ OwnPde = i /\ i = UserPde => m.entry[KernelDir][i] = None
    BY DEF Sound, SharedPart
  <2>2. CASE D = KernelDir
    <3>1. DOMAIN held = {} /\ ~(I = OwnPde /\ I = UserPde)
      BY <2>2 DEF Linkable
    <3> QED
      BY <1>1, <2>0, <2>1, <3>1
  <2>3. CASE D # KernelDir
    BY <1>1, <1>2, <2>0, <2>1, <2>3
  <2> QED
    BY <2>2, <2>3
<1> QED
  BY <1>6, <1>7 DEF Sound, Links

\* Address v of directory d does not lie under a table that was freed.
Reaches(held, d, v) ==
    /\ d \in DOMAIN held \cup {KernelDir} /\ v \in Pages
    /\ d = KernelDir \/ VADDR_DIR(v) < OwnPde \/ held[d] < (VADDR_DIR(v) + 1) * Entries

\* A page is entered at address V into the table that stands there.
Fills(m, n, D, V, p) ==
    /\ n \in Memory /\ n.used = m.used
    /\ n.entry = [m.entry EXCEPT ![m.entry[D][VADDR_DIR(V)]][VADDR_TABLE(V)] = p]

\* Directories are as before, and so are lookups of all other addresses.
Filled(m, n, held, D, V, p) ==
    /\ \A d \in DOMAIN held \cup {KernelDir} : n.entry[d] = m.entry[d]
    /\ \A d, v : Reaches(held, d, v) =>
          /\ v = V /\ (d = D \/ VADDR_DIR(V) < OwnPde) => Lookup(n, d, v) = p
          /\ ~(v = V /\ (d = D \/ VADDR_DIR(V) < OwnPde)) => Lookup(n, d, v) = Lookup(m, d, v)

LEMMA FillEntries ==
    ASSUME NEW m, NEW n, NEW held, NEW extra, NEW D, NEW V \in Pages, NEW p,
           Sound(m, held, extra), Standing(m, held, D, VADDR_DIR(V)), Fills(m, n, D, V, p)
    PROVE  Filled(m, n, held, D, V, p)
<1> DEFINE I == VADDR_DIR(V)
           J == VADDR_TABLE(V)
           t == m.entry[D][I]
<1>1. I \in Index /\ J \in Index
  BY AddressParts
<1>2. /\ t \in Frames /\ t \notin DOMAIN held \cup {KernelDir} /\ t # None
      /\ \A e, j : Standing(m, held, e, j) /\ m.entry[e][j] = t => j = I /\ (e = D \/ I < OwnPde)
  <2>1. /\ t \in Managed /\ t \notin DOMAIN held \cup {KernelDir}
        /\ \A e, j : Standing(m, held, e, j) /\ m.entry[e][j] = t => j = I /\ (e = D \/ I < OwnPde)
    BY TableFacts
  <2> HIDE DEF t, I
  <2> QED
    BY <2>1, ManagedFacts
<1>3. m.entry \in [Frames \cup {KernelDir} -> [Index -> Nat \cup {None}]]
      /\ DOMAIN held \cup {KernelDir} \subseteq Frames \cup {KernelDir}
  BY ManagedFacts DEF Sound, Memory
<1>4. n.entry = [m.entry EXCEPT ![t][J] = p]
  BY DEF Fills
<1>5. t = m.entry[D][I]
  OBVIOUS
<1>6. Standing(m, held, D, I)
  OBVIOUS
<1> HIDE DEF I, J, t
<1>7. /\ n.entry[t][J] = p
      /\ \A j \in Index : j # J => n.entry[t][j] = m.entry[t][j]
      /\ \A s \in Frames \cup {KernelDir} : s # t => n.entry[s] = m.entry[s]
  BY <1>1, <1>2, <1>3, <1>4
<1>8. \A d \in DOMAIN held \cup {KernelDir} : n.entry[d] = m.entry[d]
  BY <1>2, <1>3, <1>7
<1>9. ASSUME NEW d \in DOMAIN held \cup {KernelDir}, NEW v \in Pages,
             d = KernelDir \/ VADDR_DIR(v) < OwnPde \/ held[d] < (VADDR_DIR(v) + 1) * Entries
      PROVE  Lookup(n, d, v) = IF v = V /\ (d = D \/ I < OwnPde) THEN p ELSE Lookup(m, d, v)
  <2> DEFINE i == VADDR_DIR(v)
             j == VADDR_TABLE(v)
             s == m.entry[d][i]
  <2>1. i \in Index /\ j \in Index
    BY AddressParts
  <2>2. /\ Lookup(m, d, v) = IF s = None THEN None ELSE m.entry[s][j]
        /\ Lookup(n, d, v) = IF s = None THEN None ELSE n.entry[s][j]
    BY <1>8 DEF Lookup
  <2>3. s # None => Standing(m, held, d, i)
    BY <1>9, <2>1 DEF Standing
  <2>4. s # None => s \in Frames
    <3>1. s # None => s \in Managed
      BY <2>3, TableFacts
    <3> QED
      BY <3>1, ManagedFacts
  <2>5. v = V => i = I /\ j = J
    BY DEF I, J
  <2>6. i = I /\ j = J => v = V
    BY AddressUnique DEF I, J
  <2>7. CASE s = t
    <3>1. i = I /\ (d = D \/ I < OwnPde)
      BY <1>2, <2>3, <2>7
    <3> HIDE DEF i, j, s
    <3>2. CASE v = V
      BY <1>2, <1>7, <2>2, <2>5, <2>7, <3>1, <3>2
    <3>3. CASE v # V
      BY <1>2, <1>7, <2>1, <2>2, <2>6, <2>7, <3>1, <3>3
    <3> QED
      BY <3>2, <3>3
  <2>8. CASE s # t
    <3>1. ~(v = V /\ (d = D \/ I < OwnPde))
      <4> SUFFICES ASSUME v = V, d = D \/ I < OwnPde PROVE FALSE
        OBVIOUS
      <4>1. CASE d = D
        BY <1>5, <2>5, <2>8, <4>1
      <4>2. CASE I < OwnPde
        <5>1. \A c \in DOMAIN held \cup {KernelDir} : m.entry[c][I] = m.entry[KernelDir][I]
          BY <1>1, <4>2 DEF Sound, SharedPart
        <5> QED
          BY <1>5, <1>6, <2>5, <2>8, <5>1 DEF Standing
      <4> QED
        BY <4>1, <4>2
    <3> HIDE DEF i, j, s
    <3>2. s # None => n.entry[s] = m.entry[s]
      BY <1>7, <2>4, <2>8
    <3> QED
      BY <2>2, <3>1, <3>2
  <2> QED
    BY <2>7, <2>8
<1> QED
  BY <1>8, <1>9 DEF I, Reaches, Filled

\* A page that was given out is entered into a process.
LEMMA FillSound ==
    ASSUME NEW m, NEW n, NEW held, NEW extra, NEW D \in DOMAIN held, NEW V \in Pages, NEW p \in extra,
           Sound(m, held, extra), Standing(m, held, D, VADDR_DIR(V)), Fills(m, n, D, V, p),
           held[D] <= V, Lookup(m, D, V) = None
    PROVE  Sound(n, held, extra \ {p})
<1>2. D # KernelDir /\ ~(VADDR_DIR(V) < OwnPde) /\ p # None
  <2>1. D # KernelDir /\ OwnPde <= VADDR_DIR(V) /\ VADDR_DIR(V) \in Int /\ OwnPde \in Int
    <3>1. D # KernelDir /\ OwnPde <= VADDR_DIR(V)
      BY PageReached
    <3>2. VADDR_DIR(V) \in Index /\ OwnPde \in Nat
      BY AddressParts, UserPart
    <3> QED
      BY <3>1, <3>2, SizesAssumption DEF Index
  <2>2. p \in Managed
    BY DEF Sound, Exact, Memory
  <2> QED
    BY <2>1, <2>2, ManagedFacts
<1>1. /\ \A d \in DOMAIN held \cup {KernelDir} : n.entry[d] = m.entry[d]
      /\ \A v : Reaches(held, D, v) /\ v = V => Lookup(n, D, v) = p
      /\ \A d, v : Reaches(held, d, v) /\ ~(d = D /\ v = V) => Lookup(n, d, v) = Lookup(m, d, v)
  <2>1. Filled(m, n, held, D, V, p)
    BY FillEntries
  <2> QED
    BY <1>2, <2>1 DEF Filled
<1>3. ASSUME NEW d \in DOMAIN held \cup {KernelDir}, NEW x \in Pages
      PROVE  /\ InUse(n, held, "dir", d, x) <=> InUse(m, held, "dir", d, x)
             /\ InUse(n, held, "table", d, x) <=> InUse(m, held, "table", d, x)
             /\ InUse(n, held, "page", d, x) <=> InUse(m, held, "page", d, x) \/ (d = D /\ x = V)
             /\ InUse(m, held, "page", d, x) => Lookup(n, d, x) = Lookup(m, d, x)
  <2>1. InUse(n, held, "dir", d, x) <=> InUse(m, held, "dir", d, x)
    BY UseFacts
  <2>2. InUse(n, held, "table", d, x) <=> InUse(m, held, "table", d, x)
    <3>1. /\ InUse(m, held, "table", d, x) <=>
                 /\ x \in Index /\ m.entry[d][x] # None
                 /\ d # KernelDir => held[d] < (x + 1) * Entries
          /\ InUse(n, held, "table", d, x) <=>
                 /\ x \in Index /\ n.entry[d][x] # None
                 /\ d # KernelDir => held[d] < (x + 1) * Entries
      BY UseFacts
    <3>2. n.entry[d] = m.entry[d]
      BY <1>1
    <3> QED
      BY <3>1, <3>2
  <2>3. /\ InUse(m, held, "page", d, x) <=> d # KernelDir /\ held[d] <= x /\ Lookup(m, d, x) # None
        /\ InUse(n, held, "page", d, x) <=> d # KernelDir /\ held[d] <= x /\ Lookup(n, d, x) # None
    BY UseFacts
  <2>4. d # KernelDir /\ held[d] <= x =>
            Lookup(n, d, x) = IF x = V /\ d = D THEN p ELSE Lookup(m, d, x)
    <3>1. d # KernelDir /\ held[d] <= x => Reaches(held, d, x)
      BY PageReached DEF Reaches
    <3> QED
      BY <1>1, <1>2, <3>1
  <2> QED
    BY <1>2, <2>1, <2>2, <2>3, <2>4
<1>4. ASSUME NEW k, NEW d, NEW x
      PROVE  /\ InUse(n, held, k, d, x) <=>
                    InUse(m, held, k, d, x) \/ (k = "page" /\ d = D /\ x = V)
             /\ InUse(m, held, k, d, x) => Serving(n, k, d, x) = Serving(m, k, d, x)
  <2>1. CASE ~(k \in Kinds /\ d \in DOMAIN held \cup {KernelDir} /\ x \in Pages)
    BY <2>1 DEF InUse, Kinds
  <2>2. CASE d \in DOMAIN held \cup {KernelDir} /\ x \in Pages /\ k \in Kinds
    BY <1>1, <1>3, <2>2, ServingFacts DEF Kinds
  <2> QED
    BY <2>1, <2>2
<1>5. Serving(n, "page", D, V) = p
  <2>1. Lookup(n, D, V) = p
    <3>1. Reaches(held, D, V)
      BY PageReached DEF Reaches
    <3> QED
      BY <1>1, <3>1
  <2> QED
    BY <2>1, ServingFacts
<1>6. Apart(n, held) /\ Exact(n, held, extra \ {p})
  <2>1. Apart(m, held) /\ Exact(m, held, extra) /\ n.used = m.used
    BY DEF Sound, Fills
  <2> QED
    BY <1>4, <1>5, <2>1, AddUse
<1>7. SharedPart(n, held)
  BY <1>1 DEF Sound, SharedPart
<1> QED
  BY <1>6, <1>7 DEF Sound, Fills

\* The kernel enters one of its pages, while there is no process.
LEMMA FillKernel ==
    ASSUME NEW m, NEW n, NEW held, NEW V \in Pages, NEW p,
           Sound(m, held, {}), DOMAIN held = {}, Standing(m, held, KernelDir, VADDR_DIR(V)),
           Fills(m, n, KernelDir, V, p)
    PROVE  /\ Sound(n, held, {})
           /\ \A v \in Pages : Lookup(n, KernelDir, v) = IF v = V THEN p ELSE Lookup(m, KernelDir, v)
<1>1. n.entry[KernelDir] = m.entry[KernelDir]
      /\ \A v \in Pages : Lookup(n, KernelDir, v) = IF v = V THEN p ELSE Lookup(m, KernelDir, v)
  <2>1. \A v \in Pages : Reaches(held, KernelDir, v)
    BY DEF Reaches
  <2>2. /\ \A v \in Pages : v = V => Lookup(n, KernelDir, v) = p
        /\ \A v \in Pages : v # V => Lookup(n, KernelDir, v) = Lookup(m, KernelDir, v)
        /\ n.entry[KernelDir] = m.entry[KernelDir]
    <3>1. Filled(m, n, held, KernelDir, V, p)
      BY FillEntries
    <3> QED
      BY <2>1, <3>1 DEF Filled
  <2> QED
    BY <2>2
<1>2. ASSUME NEW k, NEW d, NEW x
      PROVE  /\ InUse(n, held, k, d, x) <=> InUse(m, held, k, d, x)
             /\ InUse(m, held, k, d, x) => Serving(n, k, d, x) = Serving(m, k, d, x)
  <2>1. CASE ~(k \in Kinds /\ d = KernelDir /\ x \in Pages)
    BY <2>1 DEF InUse
  <2>2. CASE k \in Kinds /\ d = KernelDir /\ x \in Pages
    <3>1. d \in DOMAIN held \cup {KernelDir} /\ n.entry[d] = m.entry[d]
      BY <1>1, <2>2
    <3>2. /\ InUse(n, held, "table", d, x) <=> InUse(m, held, "table", d, x)
          /\ ~InUse(m, held, "dir", d, x) /\ ~InUse(n, held, "dir", d, x)
          /\ ~InUse(m, held, "page", d, x) /\ ~InUse(n, held, "page", d, x)
      BY <2>2, <3>1 DEF InUse, IsUse, Kinds
    <3>3. Serving(n, "table", d, x) = Serving(m, "table", d, x)
      BY <3>1, ServingFacts
    <3> QED
      BY <2>2, <3>2, <3>3 DEF Kinds
  <2> QED
    BY <2>1, <2>2
<1>3. Apart(n, held) /\ Exact(n, held, {})
  <2>1. Apart(m, held) /\ Exact(m, held, {}) /\ n.used = m.used
    BY DEF Sound, Fills
  <2> QED
    BY <1>2, <2>1, SameUses
<1>4. SharedPart(n, held)
  BY <1>1 DEF Sound, SharedPart
<1> QED
  BY <1>1, <1>3, <1>4 DEF Sound, Fills

\* A page that was free becomes a directory with the kernel's part.
Made(held, D) == [d \in DOMAIN held \cup {D} |-> IF d = D THEN OwnFirst ELSE held[d]]

Makes(m, n, D) ==
    /\ n \in Memory /\ D \in Managed \ m.used /\ n.used = m.used \cup {D}
    /\ n.entry = [m.entry EXCEPT ![D] = [i \in Index |-> IF i <= UserPde THEN m.entry[KernelDir][i]
                                                        ELSE None]]

\* What that leaves: the tables of all directories, and every lookup.
MadeEntries(m, n, held, D) ==
    /\ D \notin DOMAIN held \cup {KernelDir}
    /\ \A i \in Index : i < OwnPde => n.entry[D][i] = m.entry[KernelDir][i]
    /\ \A i \in Index : OwnPde <= i => n.entry[D][i] = None
    /\ \A d \in DOMAIN held \cup {KernelDir} : n.entry[d] = m.entry[d]
    /\ \A d, v : Reaches(held, d, v) => Lookup(n, d, v) = Lookup(m, d, v)

LEMMA MakeEntries ==
    ASSUME NEW m, NEW n, NEW held, NEW D, Sound(m, held, {}), Makes(m, n, D)
    PROVE  MadeEntries(m, n, held, D)
<1>1. /\ m.entry \in [Frames \cup {KernelDir} -> [Index -> Nat \cup {None}]]
      /\ D \in Frames /\ D # KernelDir /\ D \notin m.used
  BY ManagedFacts DEF Sound, Memory, Makes
<1>2. DOMAIN held \cup {KernelDir} \subseteq Frames \cup {KernelDir}
  BY ManagedFacts DEF Sound
<1>3. ASSUME NEW d \in DOMAIN held PROVE d # D
  <2>1. d # KernelDir
    BY ManagedFacts DEF Sound
  <2>2. InUse(m, held, "dir", d, 0) /\ Serving(m, "dir", d, 0) = d
    BY <2>1, DirectoryUse
  <2>3. d \in m.used
    BY <2>2 DEF Sound, Exact
  <2> QED
    BY <1>1, <2>3
<1>4. /\ \A i \in Index : n.entry[D][i] = IF i <= UserPde THEN m.entry[KernelDir][i] ELSE None
      /\ \A d \in Frames \cup {KernelDir} : d # D => n.entry[d] = m.entry[d]
  BY <1>1 DEF Makes
<1>5. \A d \in DOMAIN held \cup {KernelDir} : n.entry[d] = m.entry[d]
  BY <1>1, <1>2, <1>3, <1>4
<1>6. ASSUME NEW i \in Index
      PROVE  /\ i < OwnPde => n.entry[D][i] = m.entry[KernelDir][i]
             /\ OwnPde <= i => n.entry[D][i] = None
  <2>1. i \in Int /\ OwnPde \in Int /\ UserPde \in Int
        /\ (OwnPde = UserPde \/ OwnPde = UserPde + 1)
    BY OwnFacts, SizesAssumption DEF Index
  <2>2. OwnPde = i /\ i = UserPde => m.entry[KernelDir][i] = None
    BY DEF Sound, SharedPart
  <2> QED
    BY <1>4, <2>1, <2>2
<1>7. ASSUME NEW d, NEW v, Reaches(held, d, v)
      PROVE  Lookup(n, d, v) = Lookup(m, d, v)
  <2> DEFINE i == VADDR_DIR(v)
             s == m.entry[d][i]
  <2>1. d \in DOMAIN held \cup {KernelDir} /\ v \in Pages /\ i \in Index
    BY <1>7, AddressParts DEF Reaches
  <2>2. s # None => Standing(m, held, d, i)
    BY <1>7, <2>1 DEF Standing, Reaches
  <2>3. s # None => s \in Managed /\ s \in m.used
    BY <2>2, TableFacts
  <2>4. s # None => n.entry[s] = m.entry[s]
    BY <1>1, <1>4, <2>3, ManagedFacts
  <2>5. n.entry[d][i] = s
    BY <1>5, <2>1
  <2> HIDE DEF s, i
  <2>6. Lookup(m, d, v) = IF s = None THEN None ELSE m.entry[s][VADDR_TABLE(v)]
    BY DEF Lookup, s, i
  <2>7. Lookup(n, d, v) = IF s = None THEN None ELSE n.entry[s][VADDR_TABLE(v)]
    BY <2>5 DEF Lookup, i
  <2> QED
    BY <2>4, <2>6, <2>7
<1> QED
  BY <1>1, <1>3, <1>5, <1>6, <1>7 DEF MadeEntries

LEMMA MakeSound ==
    ASSUME NEW m, NEW n, NEW held, NEW D, Sound(m, held, {}), Makes(m, n, D)
    PROVE  Sound(n, Made(held, D), {}) /\ \A v \in Pages : OwnFirst <= v => Lookup(n, D, v) = None
<1> DEFINE after == Made(held, D)
<1>1. /\ DOMAIN after = DOMAIN held \cup {D} /\ after[D] = OwnFirst
      /\ \A d \in DOMAIN held : d # D => after[d] = held[d]
  BY DEF Made
<1>2. MadeEntries(m, n, held, D)
  BY MakeEntries
<1>3. /\ D \notin DOMAIN held /\ D # KernelDir
      /\ \A i \in Index : i < OwnPde => n.entry[D][i] = m.entry[KernelDir][i]
      /\ \A i \in Index : OwnPde <= i => n.entry[D][i] = None
      /\ \A d \in DOMAIN held \cup {KernelDir} : n.entry[d] = m.entry[d]
  BY <1>2 DEF MadeEntries
<1>4. \A v \in Pages : OwnFirst <= v => Lookup(n, D, v) = None
  BY <1>3, UserPart, AddressParts DEF Lookup
<1>5. D \in Managed /\ D \notin m.used /\ n.used = m.used \cup {D} /\ n \in Memory
  BY DEF Makes
<1> HIDE DEF after
<1>6. ASSUME NEW d \in DOMAIN held \cup {KernelDir}, NEW x \in Pages
      PROVE  /\ InUse(n, after, "dir", d, x) <=> InUse(m, held, "dir", d, x)
             /\ InUse(n, after, "table", d, x) <=> InUse(m, held, "table", d, x)
             /\ InUse(n, after, "page", d, x) <=> InUse(m, held, "page", d, x)
             /\ InUse(m, held, "page", d, x) => Lookup(n, d, x) = Lookup(m, d, x)
  <2>1. d # D /\ d \in DOMAIN after \cup {KernelDir} /\ n.entry[d] = m.entry[d]
        /\ (d # KernelDir => after[d] = held[d])
    BY <1>1, <1>3
  <2>2. InUse(n, after, "dir", d, x) <=> InUse(m, held, "dir", d, x)
    BY <2>1, UseFacts
  <2>3. InUse(n, after, "table", d, x) <=> InUse(m, held, "table", d, x)
    <3>1. /\ InUse(m, held, "table", d, x) <=>
                 /\ x \in Index /\ m.entry[d][x] # None
                 /\ d # KernelDir => held[d] < (x + 1) * Entries
          /\ InUse(n, after, "table", d, x) <=>
                 /\ x \in Index /\ n.entry[d][x] # None
                 /\ d # KernelDir => after[d] < (x + 1) * Entries
      BY <2>1, UseFacts
    <3> QED
      BY <2>1, <3>1
  <2>4. d # KernelDir /\ held[d] <= x => Lookup(n, d, x) = Lookup(m, d, x)
    <3>1. d # KernelDir /\ held[d] <= x => Reaches(held, d, x)
      BY PageReached DEF Reaches
    <3> QED
      BY <1>2, <3>1 DEF MadeEntries
  <2>5. /\ InUse(m, held, "page", d, x) <=> d # KernelDir /\ held[d] <= x /\ Lookup(m, d, x) # None
        /\ InUse(n, after, "page", d, x) <=> d # KernelDir /\ after[d] <= x /\ Lookup(n, d, x) # None
    BY <2>1, UseFacts
  <2> QED
    BY <2>1, <2>2, <2>3, <2>4, <2>5
<1>7. ASSUME NEW x \in Pages
      PROVE  /\ InUse(n, after, "dir", D, x) <=> x = 0
             /\ ~InUse(n, after, "table", D, x) /\ ~InUse(n, after, "page", D, x)
  <2>1. D \in DOMAIN after \cup {KernelDir}
    BY <1>1
  <2>0. /\ InUse(n, after, "dir", D, x) <=> D # KernelDir /\ x = 0
        /\ InUse(n, after, "page", D, x) <=> D # KernelDir /\ after[D] <= x /\ Lookup(n, D, x) # None
    BY <2>1, UseFacts
  <2>2. InUse(n, after, "dir", D, x) <=> x = 0
    BY <1>3, <2>0
  <2>3. ~InUse(n, after, "table", D, x)
    <3>1. InUse(n, after, "table", D, x) =>
              x \in Index /\ n.entry[D][x] # None /\ OwnFirst < (x + 1) * Entries
      BY <1>1, <1>3, <2>1, UseFacts
    <3> QED
      BY <1>3, <3>1, UserPart
  <2>4. ~InUse(n, after, "page", D, x)
    <3>1. InUse(n, after, "page", D, x) => OwnFirst <= x /\ Lookup(n, D, x) # None
      BY <1>1, <2>0
    <3> QED
      BY <1>4, <3>1
  <2> QED
    BY <2>2, <2>3, <2>4
<1>8. ASSUME NEW k, NEW d, NEW x
      PROVE  /\ InUse(n, after, k, d, x) <=>
                    InUse(m, held, k, d, x) \/ (k = "dir" /\ d = D /\ x = 0)
             /\ InUse(m, held, k, d, x) => Serving(n, k, d, x) = Serving(m, k, d, x)
  <2>1. CASE ~(k \in Kinds /\ d \in DOMAIN after \cup {KernelDir} /\ x \in Pages)
    BY <1>1, <2>1, IndexIsPage DEF InUse, Kinds
  <2>2. CASE d \in DOMAIN held \cup {KernelDir} /\ x \in Pages /\ k \in Kinds
    <3>1. n.entry[d] = m.entry[d] /\ d # D
      BY <1>3, <2>2
    <3> QED
      BY <1>6, <2>2, <3>1, ServingFacts DEF Kinds
  <2>3. CASE d = D /\ x \in Pages /\ k \in Kinds
    <3>1. ~InUse(m, held, k, d, x)
      BY <1>3, <2>3 DEF InUse
    <3> QED
      BY <1>7, <2>3, <3>1 DEF Kinds
  <2> QED
    BY <1>1, <2>1, <2>2, <2>3
<1>9. Apart(n, after) /\ Exact(n, after, {})
  <2>1. Apart(m, held) /\ Exact(m, held, {}) /\ Serving(n, "dir", D, 0) = D
    BY ServingFacts DEF Sound
  <2> QED
    BY <1>5, <1>8, <2>1, AddUse
<1>10. SharedPart(n, after)
  BY <1>1, <1>3 DEF Sound, SharedPart
<1>11. DOMAIN after \subseteq Managed /\ after \in [DOMAIN after -> OwnFirst..PageCount]
  <2>1. OwnFirst \in OwnFirst..PageCount
    BY UserPart
  <2>2. DOMAIN held \subseteq Managed /\ held \in [DOMAIN held -> OwnFirst..PageCount]
    BY DEF Sound
  <2>3. after = [d \in DOMAIN held \cup {D} |-> IF d = D THEN OwnFirst ELSE held[d]]
    BY DEF after, Made
  <2> QED
    BY <1>1, <1>5, <2>1, <2>2, <2>3
<1> QED
  BY <1>4, <1>5, <1>9, <1>10, <1>11 DEF Sound, after

\* pagetable_destroy frees the page at the address it has come to, and the
\* page table when that was its last address.
LEMMA DestroySound ==
    ASSUME NEW m, NEW n, NEW held, NEW D \in DOMAIN held, Sound(m, held, {}), held[D] \in Pages,
           n = DestroyPage(m, D, held[D])
    PROVE  /\ Sound(n, [held EXCEPT ![D] = held[D] + 1], {})
           /\ n.entry = m.entry /\ n.mode = m.mode
<1> DEFINE V == held[D]
           I == VADDR_DIR(V)
           t == m.entry[D][I]
           p == Lookup(m, D, V)
           Last == t # None /\ VADDR_TABLE(V) = Entries - 1
           freed == {f \in {p, t} : (f = p /\ p # None) \/ (f = t /\ Last)}
           after == [held EXCEPT ![D] = V + 1]
<1>1. V \in Pages /\ I \in Index /\ I \in Pages /\ V \in Int
  <2>1. I \in Index /\ V \in Pages
    BY AddressParts
  <2> HIDE DEF V, I
  <2> QED
    BY <2>1, IndexIsPage, ManagedFacts
<1>2. D # KernelDir /\ V < (I + 1) * Entries /\ KernelDir \notin DOMAIN held
  <2>1. D # KernelDir /\ KernelDir \notin DOMAIN held
    BY ManagedFacts DEF Sound
  <2> QED
    BY <1>1, <2>1, PassOne
<1>3. t # None => InUse(m, held, "table", D, I) /\ Serving(m, "table", D, I) = t
  <2>1. InUse(m, held, "table", D, I) <=>
            /\ I \in Index /\ m.entry[D][I] # None
            /\ D # KernelDir => held[D] < (I + 1) * Entries
    BY <1>1, UseFacts
  <2> QED
    BY <1>1, <1>2, <2>1, ServingFacts
<1>4. p # None => InUse(m, held, "page", D, V) /\ Serving(m, "page", D, V) = p
  <2>1. InUse(m, held, "page", D, V) <=> D # KernelDir /\ held[D] <= V /\ Lookup(m, D, V) # None
    BY <1>1, UseFacts
  <2> QED
    BY <1>1, <1>2, <2>1, ServingFacts
<1>5. m \in Memory /\ (t # None => t \in Managed) /\ (p # None => p \in Managed)
  <2>1. m \in Memory /\ m.used \subseteq Managed
    BY DEF Sound, Memory
  <2> HIDE DEF t, p, V, I
  <2> QED
    BY <1>3, <1>4, <2>1 DEF Sound, Exact
<1>6. n \in Memory /\ n.entry = m.entry /\ n.mode = m.mode /\ n.used = m.used \ freed
  <2> DEFINE k == IF p = None THEN m ELSE kfree_pages(m, p)
  <2>1. n = IF Last THEN kfree_pages(k, t) ELSE k
    BY DEF DestroyPage
  <2> HIDE DEF t, p, V, I
  <2>2. /\ k \in Memory /\ k.entry = m.entry /\ k.mode = m.mode
        /\ k.used = m.used \ {f \in {p} : p # None}
    BY <1>5, FreeFacts
  <2> HIDE DEF k
  <2>3. /\ n \in Memory /\ n.entry = m.entry /\ n.mode = m.mode
        /\ n.used = k.used \ {f \in {t} : Last}
    <3>1. CASE Last
      BY <1>5, <2>1, <2>2, <3>1, FreeFacts
    <3>2. CASE ~Last
      BY <2>1, <2>2, <3>2
    <3> QED
      BY <3>1, <3>2
  <2> QED
    BY <2>2, <2>3
<1>7. /\ after \in [DOMAIN held -> OwnFirst..PageCount]
      /\ DOMAIN after = DOMAIN held /\ after[D] = V + 1
      /\ \A d \in DOMAIN held : d # D => after[d] = held[d]
  <2>1. held \in [DOMAIN held -> OwnFirst..PageCount]
    BY DEF Sound
  <2>2. V + 1 \in OwnFirst..PageCount
    <3>1. V + 1 \in 0..PageCount /\ OwnFirst \in Int
      BY <1>1, PassOne, UserPart
    <3>2. V \in OwnFirst..PageCount
      BY <2>1
    <3> QED
      BY <3>1, <3>2
  <2> QED
    BY <2>1, <2>2
<1>8. \A d, v : Lookup(n, d, v) = Lookup(m, d, v)
  BY <1>6, SameEntries
<1>9. ASSUME NEW d \in DOMAIN held \cup {KernelDir}, NEW x \in Pages
      PROVE  /\ InUse(n, after, "dir", d, x) <=> InUse(m, held, "dir", d, x)
             /\ InUse(n, after, "table", d, x) <=>
                    InUse(m, held, "table", d, x) /\ ~(Last /\ d = D /\ x = I)
             /\ InUse(n, after, "page", d, x) <=>
                    InUse(m, held, "page", d, x) /\ ~(d = D /\ x = V)
  <2>1. d \in DOMAIN after \cup {KernelDir}
    BY <1>7
  <2>2. InUse(n, after, "dir", d, x) <=> InUse(m, held, "dir", d, x)
    BY <2>1, UseFacts
  <2>3. InUse(n, after, "table", d, x) <=>
            InUse(m, held, "table", d, x) /\ ~(Last /\ d = D /\ x = I)
    <3>1. /\ InUse(m, held, "table", d, x) <=>
                 /\ x \in Index /\ m.entry[d][x] # None
                 /\ d # KernelDir => held[d] < (x + 1) * Entries
          /\ InUse(n, after, "table", d, x) <=>
                 /\ x \in Index /\ n.entry[d][x] # None
                 /\ d # KernelDir => after[d] < (x + 1) * Entries
      BY <2>1, UseFacts
    <3>2. CASE d # D
      <4>1. d # KernelDir => after[d] = held[d]
        BY <1>7, <3>2
      <4> QED
        BY <1>6, <3>1, <3>2, <4>1
    <3>3. CASE d = D
      <4>1. \A i \in Index : V + 1 < (i + 1) * Entries <=>
                V < (i + 1) * Entries /\ ~(i = I /\ VADDR_TABLE(V) = Entries - 1)
        BY <1>1, PassOne
      <4>2. x = I => m.entry[d][x] = t
        BY <3>3
      <4>3. n.entry[d] = m.entry[d] /\ after[d] = V + 1 /\ held[d] = V /\ d # KernelDir
        BY <1>2, <1>6, <1>7, <3>3
      <4> HIDE DEF V, I, t
      <4> QED
        BY <3>1, <3>3, <4>1, <4>2, <4>3
    <3> QED
      BY <3>2, <3>3
  <2>4. InUse(n, after, "page", d, x) <=> InUse(m, held, "page", d, x) /\ ~(d = D /\ x = V)
    <3>1. /\ InUse(m, held, "page", d, x) <=> d # KernelDir /\ held[d] <= x /\ Lookup(m, d, x) # None
          /\ InUse(n, after, "page", d, x) <=> d # KernelDir /\ after[d] <= x /\ Lookup(n, d, x) # None
      BY <2>1, UseFacts
    <3>2. CASE d # D
      <4>1. d # KernelDir => after[d] = held[d]
        BY <1>7, <3>2
      <4> QED
        BY <1>8, <3>1, <3>2, <4>1
    <3>3. CASE d = D
      <4>1. V + 1 <= x <=> V <= x /\ x # V
        BY <1>1, PassOne
      <4>2. after[d] = V + 1 /\ held[d] = V
        BY <1>7, <3>3
      <4> HIDE DEF V
      <4> QED
        BY <1>8, <3>1, <3>3, <4>1, <4>2
    <3> QED
      BY <3>2, <3>3
  <2> QED
    BY <2>2, <2>3, <2>4
<1> HIDE DEF V, I, p, t, Last, freed, after
<1>10. ASSUME NEW k, NEW d, NEW x
       PROVE  /\ InUse(n, after, k, d, x) <=>
                     /\ InUse(m, held, k, d, x)
                     /\ ~(k = "page" /\ d = D /\ x = V) /\ ~(k = "table" /\ Last /\ d = D /\ x = I)
              /\ Serving(n, k, d, x) = Serving(m, k, d, x)
  <2>1. Serving(n, k, d, x) = Serving(m, k, d, x)
    BY <1>6, <1>8 DEF Serving
  <2>2. CASE ~(k \in Kinds /\ d \in DOMAIN held \cup {KernelDir} /\ x \in Pages)
    BY <1>7, <2>1, <2>2 DEF InUse
  <2>3. CASE k \in Kinds /\ d \in DOMAIN held \cup {KernelDir} /\ x \in Pages
    BY <1>9, <2>1, <2>3 DEF Kinds
  <2> QED
    BY <2>2, <2>3
<1>11. ASSUME NEW k, NEW d, NEW x, InUse(m, held, k, d, x)
       PROVE  Serving(m, k, d, x) \in freed <=>
                  (k = "page" /\ d = D /\ x = V) \/ (k = "table" /\ Last /\ d = D /\ x = I)
  <2>1. Serving(m, k, d, x) # None
    <3>1. Serving(m, k, d, x) \in Managed
      BY <1>11 DEF Sound, Exact, Memory
    <3> QED
      BY <3>1, ManagedFacts
  <2>2. p # None /\ Serving(m, k, d, x) = p => k = "page" /\ d = D /\ x = V
    BY <1>4, <1>11 DEF Sound, Apart
  <2>3. t # None /\ Serving(m, k, d, x) = t => k = "table" /\ d = D /\ x = I
    BY <1>3, <1>11 DEF Sound, Apart
  <2>4. k = "page" /\ d = D /\ x = V => Serving(m, k, d, x) = p
    BY ServingFacts DEF p
  <2>5. k = "table" /\ d = D /\ x = I => Serving(m, k, d, x) = t
    BY ServingFacts DEF t
  <2>6. Last => t # None
    BY DEF Last
  <2> QED
    BY <2>1, <2>2, <2>3, <2>4, <2>5, <2>6 DEF freed
<1>12. Apart(n, after) /\ Exact(n, after, {})
  <2>1. Apart(m, held) /\ Exact(m, held, {})
    BY DEF Sound
  <2>2. /\ \A k, d, x : InUse(n, after, k, d, x) => InUse(m, held, k, d, x)
        /\ \A k, d, x : InUse(m, held, k, d, x) =>
               /\ Serving(n, k, d, x) = Serving(m, k, d, x)
               /\ InUse(n, after, k, d, x) <=> Serving(m, k, d, x) \notin freed
    BY <1>10, <1>11
  <2> QED
    BY <1>6, <2>1, <2>2, DropUses
<1>13. SharedPart(n, after)
  BY <1>6, <1>7 DEF Sound, SharedPart
<1>14. DOMAIN after \subseteq Managed
  BY <1>7 DEF Sound
<1>15. Sound(n, after, {})
  BY <1>6, <1>7, <1>12, <1>13, <1>14 DEF Sound
<1> QED
  BY <1>6, <1>15 DEF after, V

\* Behind the last address nothing of the directory is left but itself.
LEMMA EndSound ==
    ASSUME NEW m, NEW n, NEW held, NEW after, NEW D \in DOMAIN held, Sound(m, held, {}),
           held[D] = PageCount, n = kfree_pages(m, D),
           after = [d \in DOMAIN held \ {D} |-> held[d]]
    PROVE  Sound(n, after, {}) /\ n.entry = m.entry /\ n.mode = m.mode
<1>1. D \in Managed /\ D # KernelDir /\ m \in Memory
  BY ManagedFacts DEF Sound
<1>2. n \in Memory /\ n.entry = m.entry /\ n.mode = m.mode /\ n.used = m.used \ {D}
  BY <1>1, FreeFacts
<1>3. \A d, v : Lookup(n, d, v) = Lookup(m, d, v)
  BY <1>2, SameEntries
<1>4. InUse(m, held, "dir", D, 0) /\ Serving(m, "dir", D, 0) = D
  BY <1>1, DirectoryUse
<1>5. ASSUME NEW x \in Pages
      PROVE  /\ InUse(m, held, "dir", D, x) <=> x = 0
             /\ ~InUse(m, held, "table", D, x) /\ ~InUse(m, held, "page", D, x)
  <2>1. /\ InUse(m, held, "dir", D, x) <=> D # KernelDir /\ x = 0
        /\ InUse(m, held, "table", D, x) => x \in Index /\ held[D] < (x + 1) * Entries
        /\ InUse(m, held, "page", D, x) => held[D] <= x
    BY <1>1, UseFacts
  <2>2. \A i \in Index : (i + 1) * Entries <= PageCount /\ (i + 1) * Entries \in Int
    BY UserPart, SizesAssumption DEF Index
  <2>3. PageCount \in Int /\ x \in Int /\ x < PageCount
    BY SizesAssumption DEF PageCount, Pages
  <2> QED
    BY <1>1, <2>1, <2>2, <2>3
<1>6. ASSUME NEW k, NEW d, NEW x
      PROVE  /\ InUse(n, after, k, d, x) <=> InUse(m, held, k, d, x) /\ d # D
             /\ Serving(n, k, d, x) = Serving(m, k, d, x)
  <2>1. Serving(n, k, d, x) = Serving(m, k, d, x)
    BY <1>2, <1>3 DEF Serving
  <2>2. DOMAIN after = DOMAIN held \ {D}
    OBVIOUS
  <2>3. CASE ~(k \in Kinds /\ d \in DOMAIN after \cup {KernelDir} /\ x \in Pages)
    BY <1>1, <2>1, <2>2, <2>3 DEF InUse
  <2>4. CASE k \in Kinds /\ d \in DOMAIN after \cup {KernelDir} /\ x \in Pages
    <3>1. d # D /\ d \in DOMAIN held \cup {KernelDir} /\ (d # KernelDir => after[d] = held[d])
      BY <1>1, <2>2, <2>4
    <3>2. IsUse(n, after, k, d, x) <=> IsUse(m, held, k, d, x)
      BY <1>2, <1>3, <2>4, <3>1 DEF IsUse, Kinds
    <3> QED
      BY <2>1, <2>4, <3>1, <3>2 DEF InUse
  <2> QED
    BY <2>3, <2>4
<1>7. ASSUME NEW k, NEW d, NEW x, InUse(m, held, k, d, x)
      PROVE  Serving(m, k, d, x) = D <=> d = D
  <2>1. Serving(m, k, d, x) = D => d = D
    BY <1>4, <1>7 DEF Sound, Apart
  <2>2. d = D => k = "dir"
    BY <1>5, <1>7 DEF InUse, Kinds
  <2> QED
    BY <2>1, <2>2, ServingFacts
<1>8. Apart(n, after) /\ Exact(n, after, {})
  <2> DEFINE freed == {D}
  <2>1. Apart(m, held) /\ Exact(m, held, {})
    BY DEF Sound
  <2>2. /\ \A k, d, x : InUse(n, after, k, d, x) => InUse(m, held, k, d, x)
        /\ \A k, d, x : InUse(m, held, k, d, x) =>
               /\ Serving(n, k, d, x) = Serving(m, k, d, x)
               /\ InUse(n, after, k, d, x) <=> Serving(m, k, d, x) \notin freed
    BY <1>6, <1>7
  <2>3. n.used = m.used \ freed
    BY <1>2
  <2> HIDE DEF freed
  <2> QED
    BY ONLY <2>1, <2>2, <2>3, DropUses
<1>9. SharedPart(n, after)
  BY <1>2 DEF Sound, SharedPart
<1>10. DOMAIN after \subseteq Managed /\ after \in [DOMAIN after -> OwnFirst..PageCount]
  BY DEF Sound
<1> QED
  BY <1>2, <1>8, <1>9, <1>10 DEF Sound

-----------------------------------------------------------------------------
(* The functions that the actions call.                                     *)

\* A call that gave up: no page was free, or it touched a page that is not
\* mapped.  Clearing "page" 0 is all that it can have changed.
Aborted(m, n, cr3) ==
    /\ n \in Memory /\ n.mode \in {"oom", "fault"}
    /\ \A f \in Frames \cup {KernelDir} : f # 0 => n.entry[f] = m.entry[f]
    /\ n.mode = "fault" => \E t \in Managed : ~Touch(m, cr3, t)

\* Every lookup is as it was.
SameLookups(m, n, held) == \A d, v : Reaches(held, d, v) => Lookup(n, d, v) = Lookup(m, d, v)

\* Where find_pte may make a page table.
Room(held, D, I) ==
    IF D = KernelDir THEN DOMAIN held = {} /\ ~(I = OwnPde /\ I = UserPde)
    ELSE D \in DOMAIN held /\ OwnPde <= I /\ held[D] = OwnFirst

LEMMA FindSound ==
    ASSUME NEW m, NEW n, NEW held, NEW extra, NEW cr3, NEW D, NEW V \in Pages,
           Sound(m, held, extra), m.mode = "ok", Room(held, D, VADDR_DIR(V)),
           n = find_pte(m, cr3, D, V)
    PROVE  \/ /\ n.mode = "ok" /\ Sound(n, held, extra) /\ Standing(n, held, D, VADDR_DIR(V))
              /\ SameLookups(m, n, held)
           \/ Aborted(m, n, cr3)
<1> DEFINE I == VADDR_DIR(V)
<1>1. m \in Memory /\ D \in DOMAIN held \cup {KernelDir} /\ D \in Frames \cup {KernelDir} /\ I \in Index
  BY AddressParts, ManagedFacts DEF Sound, Room
<1>2. D # KernelDir => held[D] < (I + 1) * Entries
  BY <1>1, UserPart DEF Room
<1>3. CASE m.entry[D][I] # None
  <2>1. n = m
    BY <1>1, <1>3, FindFacts
  <2>2. Standing(m, held, D, I)
    BY <1>1, <1>2, <1>3 DEF Standing
  <2> QED
    BY <2>1, <2>2 DEF SameLookups
<1>4. CASE m.entry[D][I] = None
  <2>1. TableMade(m, n, cr3, D, I)
    BY <1>1, <1>4, FindFacts
  <2>2. CASE n.mode = "ok"
    <3>1. PICK t : Links(m, n, D, I, t)
      BY <2>1, <2>2 DEF Links, TableMade
    <3>2. Linkable(m, held, D, I)
      BY <1>1, <1>4 DEF Linkable, Room
    <3>3. Sound(n, held, extra)
      BY <3>1, <3>2, LinkSound
    <3>4. SameLookups(m, n, held)
      BY <3>1, <3>2, LinkLookup DEF SameLookups, Reaches
    <3>5. Standing(n, held, D, I)
      <4>1. t \in Managed
        BY <3>1 DEF Links
      <4>2. n.entry[D][I] = t
        BY <3>1, <3>2, LinkEntries
      <4> QED
        BY <1>1, <1>2, <4>1, <4>2, ManagedFacts DEF Standing
    <3> QED
      BY <2>2, <3>3, <3>4, <3>5
  <2>3. CASE n.mode # "ok"
    BY <2>1, <2>3 DEF Aborted, TableMade
  <2> QED
    BY <2>2, <2>3
<1> QED
  BY <1>3, <1>4

\* The page is entered at address V of D, and nowhere else.
Entered(m, n, held, D, V, p) ==
    /\ n.mode = "ok" /\ Sound(n, held, {}) /\ Lookup(n, D, V) = p
    /\ \A d, v : Reaches(held, d, v) /\ ~(d = D /\ v = V) => Lookup(n, d, v) = Lookup(m, d, v)

LEMMA EnterFacts ==
    ASSUME NEW m, NEW k, NEW cr3, NEW D \in Frames \cup {KernelDir}, NEW V \in Pages,
           NEW p \in Nat, NEW n,
           k = find_pte(m, cr3, D, V), k.mode = "ok", k \in Memory, k.entry[D][VADDR_DIR(V)] # None,
           k.entry[D][VADDR_DIR(V)] \in Frames,
           n = vaddr2paddr(m, cr3, D, V, p)
    PROVE  Fills(k, n, D, V, p) /\ n.mode = "ok"
<1> DEFINE t == k.entry[D][VADDR_DIR(V)]
           J == VADDR_TABLE(V)
<1>1. n = [k EXCEPT !.entry[t][J] = p]
  BY DEF vaddr2paddr
<1>2. t \in Frames /\ J \in Index
  BY AddressParts
<1> HIDE DEF t, J
<1>3. k.entry \in [Frames \cup {KernelDir} -> [Index -> Nat \cup {None}]]
      /\ k.used \in SUBSET Managed /\ k.mode \in {"ok", "oom", "fault"}
  BY DEF Memory
<1>4. [k.entry EXCEPT ![t][J] = p] \in [Frames \cup {KernelDir} -> [Index -> Nat \cup {None}]]
  BY <1>2, <1>3
<1>5. n = [entry |-> [k.entry EXCEPT ![t][J] = p], used |-> k.used, mode |-> k.mode]
  BY <1>1 DEF Memory
<1>6. n \in Memory
  BY <1>3, <1>4, <1>5 DEF Memory
<1> QED
  BY <1>5, <1>6 DEF Fills, t, J

\* A page is given out and mapped into a process.
LEMMA EnterSound ==
    ASSUME NEW m, NEW n, NEW held, NEW cr3, NEW D \in DOMAIN held, NEW V \in Pages, NEW p,
           Sound(m, held, {}), m.mode = "ok", held[D] = OwnFirst, OwnFirst <= V,
           Lookup(m, D, V) = None, p = ualloc_pages(m),
           n = vaddr2paddr(Mark(m, p), cr3, D, V, p)
    PROVE  (Entered(m, n, held, D, V, p) /\ p \in Managed) \/ Aborted(m, n, cr3)
<1> DEFINE g == Mark(m, p)
           k == find_pte(g, cr3, D, V)
           I == VADDR_DIR(V)
<1>1. m \in Memory /\ D \in Managed /\ D # KernelDir /\ D \in Frames
  BY ManagedFacts DEF Sound
<1>2. p = 0 \/ p \in Managed \ m.used
  BY <1>1, FreeFound, SizesAssumption DEF ualloc_pages
<1>3. /\ g \in Memory /\ g.entry = m.entry
      /\ p # 0 => g.used = m.used \cup {p} /\ g.mode = "ok"
      /\ p = 0 => g.mode = "oom"
  BY <1>1, <1>2, MarkFacts
<1>4. CASE p = 0
  <2>1. k = g
    BY <1>3, <1>4 DEF find_pte
  <2>2. n = g
    BY <1>3, <1>4, <2>1 DEF vaddr2paddr
  <2> HIDE DEF g
  <2> QED
    BY <1>3, <1>4, <2>2 DEF Aborted
<1>5. CASE p # 0
  <2>0. p \in Managed /\ p \notin m.used /\ g.mode = "ok" /\ g.used = m.used \cup {p} /\ p \in Nat
    BY <1>2, <1>3, <1>5, ManagedFacts
  <2> HIDE DEF g
  <2>1. \A d, v : Lookup(g, d, v) = Lookup(m, d, v)
    BY <1>3, SameEntries
  <2>2. Sound(g, held, {p})
    <3>1. \A kind, d, x : /\ InUse(g, held, kind, d, x) <=> InUse(m, held, kind, d, x)
                          /\ Serving(g, kind, d, x) = Serving(m, kind, d, x)
      BY <1>3, <2>1 DEF InUse, IsUse, Serving
    <3>2. Apart(g, held)
      BY <3>1 DEF Sound, Apart
    <3>3. Exact(g, held, {p})
      BY <2>0, <3>1 DEF Sound, Exact
    <3>4. SharedPart(g, held)
      BY <1>3 DEF Sound, SharedPart
    <3> QED
      BY <1>3, <3>2, <3>3, <3>4 DEF Sound
  <2>3. Room(held, D, I)
    BY <1>1, UserPart DEF Room
  <2>4. \/ k.mode = "ok" /\ Sound(k, held, {p}) /\ Standing(k, held, D, I) /\ SameLookups(g, k, held)
        \/ Aborted(g, k, cr3)
    BY <2>0, <2>2, <2>3, FindSound
  <2>5. CASE k.mode = "ok"
    <3>1. Sound(k, held, {p}) /\ Standing(k, held, D, I) /\ SameLookups(g, k, held)
      BY <2>4, <2>5 DEF Aborted
    <3>2. k.entry[D][I] \in Frames /\ k.entry[D][I] # None /\ k \in Memory
      <4>1. k.entry[D][I] \in Managed
        BY <3>1, TableFacts
      <4> HIDE DEF k, I
      <4> QED
        BY <3>1, <4>1, ManagedFacts DEF Sound
    <3>3. Fills(k, n, D, V, p) /\ n.mode = "ok"
      BY <1>1, <2>0, <2>5, <3>2, EnterFacts DEF g
    <3> HIDE DEF k
    <3>4. Reaches(held, D, V)
      <4>1. held[D] < (I + 1) * Entries
        BY UserPart, AddressParts
      <4> QED
        BY <4>1 DEF Reaches
    <3>5. Lookup(k, D, V) = None
      BY <2>1, <3>1, <3>4 DEF SameLookups
    <3>6. Sound(n, held, {p} \ {p})
      <4>1. held[D] <= V
        OBVIOUS
      <4> QED
        BY <3>1, <3>3, <3>5, <4>1, FillSound
    <3>7. {p} \ {p} = {}
      OBVIOUS
    <3>8. /\ Lookup(n, D, V) = p
          /\ \A d, v : Reaches(held, d, v) /\ ~(d = D /\ v = V) => Lookup(n, d, v) = Lookup(m, d, v)
      <4>1. Filled(k, n, held, D, V, p)
        BY <3>1, <3>3, FillEntries
      <4>2. ~(I < OwnPde)
        <5>1. OwnPde <= I /\ OwnPde \in Int /\ I \in Int
          BY UserPart, AddressParts, SizesAssumption DEF Index
        <5> HIDE DEF I
        <5> QED
          BY <5>1
      <4> QED
        BY <2>1, <3>1, <3>4, <4>1, <4>2 DEF Filled, SameLookups
    <3> QED
      BY <2>0, <3>3, <3>6, <3>7, <3>8 DEF Entered
  <2>6. CASE k.mode # "ok"
    <3>1. n = k
      BY <2>6 DEF vaddr2paddr, g
    <3>2. Aborted(g, k, cr3)
      BY <2>4, <2>6
    <3>3. \A t : Touch(g, cr3, t) <=> Touch(m, cr3, t)
      BY <2>1 DEF Touch
    <3> HIDE DEF k
    <3> QED
      BY <1>3, <3>1, <3>2, <3>3 DEF Aborted
  <2> QED
    BY <2>5, <2>6
<1> QED
  BY <1>4, <1>5

\* create_page_table makes a directory, or gives up.
LEMMA CreateFacts ==
    ASSUME NEW m \in Memory, m.mode = "ok", NEW cr3, NEW n, NEW D,
           D = ualloc_pages(m), n = create_page_table(m, cr3)
    PROVE  /\ (n.mode = "ok" /\ Makes(m, n, D)) \/ Aborted(m, n, cr3)
           /\ D \in Frames
<1> DEFINE g == Mark(m, D)
           c == Clear(g, cr3, D)
           part == [i \in Index |-> IF i <= UserPde THEN c.entry[KernelDir][i] ELSE None]
<1>1. D = 0 \/ D \in Managed \ m.used
  BY FreeFound, SizesAssumption DEF ualloc_pages
<1>2. D \in Frames /\ D # KernelDir /\ (D \in Managed => D # 0)
  BY <1>1, ManagedFacts
<1>3. n = IF c.mode # "ok" THEN c ELSE [c EXCEPT !.entry[D] = part]
  BY DEF create_page_table
<1>4. /\ g \in Memory /\ g.entry = m.entry
      /\ D # 0 => g.used = m.used \cup {D} /\ g.mode = "ok"
      /\ D = 0 => g.mode = "oom"
  BY <1>1, MarkFacts
<1>5. Touch(g, cr3, D) <=> Touch(m, cr3, D)
  BY <1>4, SameEntries DEF Touch
<1> HIDE DEF g
<1>6. /\ c \in Memory /\ c.used = g.used
      /\ Touch(m, cr3, D) => c.entry = [m.entry EXCEPT ![D] = Empty] /\ c.mode = g.mode
      /\ ~Touch(m, cr3, D) => c.entry = m.entry /\ (D # 0 => c.mode = "fault")
  BY <1>2, <1>4, <1>5, ClearFacts
<1>7. /\ m.entry \in [Frames \cup {KernelDir} -> [Index -> Nat \cup {None}]]
      /\ c.entry \in [Frames \cup {KernelDir} -> [Index -> Nat \cup {None}]]
  BY <1>6 DEF Memory
<1>8. D = 0 => c.mode = "oom"
  BY <1>4 DEF Clear
<1> HIDE DEF c
<1>9. \A f \in Frames \cup {KernelDir} : f # D => c.entry[f] = m.entry[f]
  BY <1>6, <1>7
<1>10. CASE D = 0
  BY <1>2, <1>3, <1>6, <1>8, <1>9, <1>10 DEF Aborted
<1>11. CASE D # 0 /\ ~Touch(m, cr3, D)
  BY <1>1, <1>2, <1>3, <1>6, <1>11 DEF Aborted
<1>12. CASE D # 0 /\ Touch(m, cr3, D)
  <2>1. c.mode = "ok" /\ c.entry = [m.entry EXCEPT ![D] = Empty] /\ c.used = m.used \cup {D}
    BY <1>4, <1>6, <1>12
  <2>2. n = [c EXCEPT !.entry[D] = part]
    BY <1>3, <2>1
  <2>3. c.entry[KernelDir] = m.entry[KernelDir]
    BY <1>2, <1>9
  <2>4. part \in [Index -> Nat \cup {None}]
        /\ part = [i \in Index |-> IF i <= UserPde THEN m.entry[KernelDir][i] ELSE None]
    BY <1>7, <2>3
  <2> HIDE DEF part
  <2>5. n \in Memory /\ n.used = c.used /\ n.mode = "ok" /\ n.entry = [c.entry EXCEPT ![D] = part]
    BY <1>2, <1>6, <2>1, <2>2, <2>4, SMTT(30) DEF Memory
  <2>6. n.entry = [m.entry EXCEPT ![D] = part]
    BY <1>2, <1>7, <2>1, <2>5
  <2> QED
    BY <1>1, <1>2, <1>12, <2>1, <2>4, <2>5, <2>6 DEF Makes
<1> QED
  BY <1>10, <1>11, <1>12

\* A page is mapped at the start.
LEMMA BootSound ==
    ASSUME NEW m, NEW n, NEW held, NEW V \in Pages, NEW p \in Nat,
           Sound(m, held, {}), m.mode = "ok", DOMAIN held = {}, V \in KernelPages,
           n = vaddr2paddr(m, None, KernelDir, V, p)
    PROVE  \/ /\ n.mode = "ok" /\ Sound(n, held, {})
              /\ \A v \in Pages : Lookup(n, KernelDir, v) = IF v = V THEN p ELSE Lookup(m, KernelDir, v)
           \/ n.mode = "oom" /\ n \in Memory
<1> DEFINE k == find_pte(m, None, KernelDir, V)
           I == VADDR_DIR(V)
<1>1. \/ k.mode = "ok" /\ Sound(k, held, {}) /\ Standing(k, held, KernelDir, I) /\ SameLookups(m, k, held)
      \/ Aborted(m, k, None)
  <2>1. Room(held, KernelDir, I)
    BY OwnFacts DEF Room, OwnPde
  <2> QED
    BY <2>1, FindSound
<1>2. CASE k.mode = "ok"
  <2>1. Sound(k, held, {}) /\ Standing(k, held, KernelDir, I) /\ SameLookups(m, k, held)
    BY <1>1, <1>2 DEF Aborted
  <2>2. k.entry[KernelDir][I] \in Frames /\ k.entry[KernelDir][I] # None /\ k \in Memory
    <3>1. k.entry[KernelDir][I] \in Managed
      BY <2>1, TableFacts
    <3> HIDE DEF k, I
    <3> QED
      BY <2>1, <3>1, ManagedFacts DEF Sound
  <2>3. Fills(k, n, KernelDir, V, p) /\ n.mode = "ok"
    <3>1. KernelDir \in Frames \cup {KernelDir} /\ k = find_pte(m, None, KernelDir, V)
          /\ n = vaddr2paddr(m, None, KernelDir, V, p) /\ V \in Pages /\ p \in Nat
      OBVIOUS
    <3> HIDE DEF k
    <3> QED
      BY ONLY <1>2, <2>2, <3>1, EnterFacts DEF I
  <2> HIDE DEF k
  <2>4. /\ Sound(n, held, {})
        /\ \A v \in Pages : Lookup(n, KernelDir, v) = IF v = V THEN p ELSE Lookup(k, KernelDir, v)
    BY <2>1, <2>3, FillKernel
  <2>5. \A v \in Pages : Lookup(k, KernelDir, v) = Lookup(m, KernelDir, v)
    BY <2>1 DEF SameLookups, Reaches
  <2> QED
    BY <2>3, <2>4, <2>5
<1>3. CASE k.mode # "ok"
  <2>1. n = k
    BY <1>3 DEF vaddr2paddr
  <2>2. Aborted(m, k, None)
    BY <1>1, <1>3
  <2> HIDE DEF k
  <2> QED
    BY <2>1, <2>2 DEF Aborted, Touch
<1> QED
  BY <1>2, <1>3

-----------------------------------------------------------------------------
(* The kernel's pages.                                                      *)

LEMMA KernelArePages == KernelPages \subseteq Pages
<1> SUFFICES ASSUME NEW v \in KernelPages PROVE v \in Pages
  OBVIOUS
<1>1. PICK k \in DOMAIN KernelMap : v \in KernelMap[k][1]..(KernelMap[k][2] - 1)
  BY DEF KernelPages
<1>2. KernelMap[k][1] \in Nat /\ KernelMap[k][2] \in Nat /\ KernelMap[k][2] <= Entries * Entries
  BY MapAssumption
<1>3. Entries * Entries \in Int
  BY SizesAssumption
<1> QED
  BY <1>1, <1>2, <1>3 DEF Pages

-----------------------------------------------------------------------------
(* The invariant.                                                           *)

\* The kernel's pages that are mapped: all, and during the start those before
\* the page the loops have come to.
Reached ==
    IF op # "boot" THEN KernelPages
    ELSE {v \in KernelPages : \E k \in DOMAIN KernelMap :
             /\ v \in KernelMap[k][1]..(KernelMap[k][2] - 1)
             /\ k < range \/ (k = range /\ v < KernelMap[k][1] + at)}

ReachedMapped == mem.mode = "ok" => \A v \in Reached : Lookup(mem, KernelDir, v) = v

\* Where the walk in progress is.  A copy has mapped nothing from its place on.
Walk ==
    /\ op = "boot" => /\ live = {} /\ dir = None /\ range \in 1..(Len(KernelMap) + 1)
                      /\ range <= Len(KernelMap) => at < KernelMap[range][2] - KernelMap[range][1]
    /\ op = "none" => dir = None
    /\ op = "copy" /\ mem.mode = "ok" =>
          /\ src \in live /\ dir \in Managed \ live /\ at \in OwnFirst..PageCount
          /\ \A v \in Pages : at <= v => Lookup(mem, dir, v) = None
    /\ op = "destroy" => dir \in Managed \ live /\ at \in OwnFirst..PageCount

PTInv ==
    /\ TypeOK /\ Walk /\ ReachedMapped
    /\ mem.mode = "ok" => Sound(mem, Held, {})

LEMMA HeldFacts ==
    /\ DOMAIN Held = live \cup ({dir} \ {None})
    /\ \A d \in DOMAIN Held : Held[d] = IF op = "destroy" /\ d = dir THEN at ELSE OwnFirst
  BY DEF Held

\* The types are the same with a name for the type of memory.
LEMMA TypeSplit ==
    TypeOK <=> /\ mem \in Memory /\ live \subseteq Managed
               /\ op \in {"boot", "none", "copy", "destroy"}
               /\ range \in Nat /\ at \in Nat
               /\ src \in Managed \cup {None} /\ dir \in Frames \cup {None}
  BY DEF TypeOK, Memory

\* What holds whenever a walk is at rest or can go on.
LEMMA GoesFacts ==
    ASSUME PTInv, mem.mode = "ok"
    PROVE  /\ Sound(mem, Held, {}) /\ mem \in Memory
           /\ op # "boot" => \A v \in KernelPages : Lookup(mem, KernelDir, v) = v
  BY TypeSplit DEF PTInv, ReachedMapped, Reached

\* A call of a process, or for one, gives up.
LEMMA AbortStep ==
    ASSUME PTInv, op # "boot", NEW cr3, Aborted(mem, mem', cr3),
           TypeOK', op' \in {"none", "copy"}, op' = "none" => dir' = None
    PROVE  PTInv'
<1>1. mem'.mode \in {"oom", "fault"}
  BY DEF Aborted
<1>2. Walk' /\ ReachedMapped'
  BY <1>1 DEF Walk, ReachedMapped
<1> QED
  BY <1>1, <1>2 DEF PTInv

\* A call succeeds that leaves the kernel's mapping as it was.
LEMMA SoundStep ==
    ASSUME PTInv, op # "boot", op' # "boot", mem.mode = "ok", mem'.mode = "ok",
           Sound(mem', Held', {}), TypeOK', Walk',
           \A v \in KernelPages : Lookup(mem', KernelDir, v) = Lookup(mem, KernelDir, v)
    PROVE  PTInv'
<1>1. ReachedMapped'
  BY GoesFacts DEF ReachedMapped, Reached
<1> QED
  BY <1>1 DEF PTInv

LEMMA PTInit ==
    ASSUME Init
    PROVE  PTInv
<1>1. /\ mem = [entry |-> [p \in Frames \cup {KernelDir} |-> Empty], used |-> {}, mode |-> "ok"]
      /\ live = {} /\ op = "boot" /\ range = 1 /\ at = 0 /\ src = None /\ dir = None
  BY DEF Init
<1>2. mem \in Memory /\ mem.used = {} /\ mem.mode = "ok"
      /\ \A i \in Index : mem.entry[KernelDir][i] = None
  BY <1>1 DEF Memory, Empty
<1>3. TypeOK
  BY <1>1, <1>2, TypeSplit
<1>4. Walk
  <2>1. Len(KernelMap) \in Nat /\ DOMAIN KernelMap = 1..Len(KernelMap)
    BY MapAssumption
  <2>2. 1 <= Len(KernelMap) => 0 < KernelMap[1][2] - KernelMap[1][1]
    <3>1. ASSUME 1 \in DOMAIN KernelMap
          PROVE  KernelMap[1][1] \in Nat /\ KernelMap[1][2] \in Nat /\ KernelMap[1][1] < KernelMap[1][2]
      BY <3>1, MapAssumption
    <3> QED
      BY <2>1, <3>1
  <2> QED
    BY <1>1, <2>1, <2>2 DEF Walk
<1>5. Reached = {}
  <2>1. \A k \in DOMAIN KernelMap : ~(k < 1) /\ KernelMap[k][1] \in Nat
    BY MapAssumption
  <2> QED
    BY <1>1, <2>1 DEF Reached
<1>6. DOMAIN Held = {}
  BY <1>1 DEF Held
<1>7. \A k, d, x : ~InUse(mem, Held, k, d, x)
  BY <1>2, <1>6 DEF InUse, IsUse, Kinds
<1>8. Sound(mem, Held, {})
  <2>1. Apart(mem, Held) /\ Exact(mem, Held, {})
    BY <1>2, <1>7 DEF Apart, Exact
  <2>2. SharedPart(mem, Held)
    BY <1>2, <1>6 DEF SharedPart
  <2>3. Held \in [DOMAIN Held -> OwnFirst..PageCount]
    BY <1>6 DEF Held
  <2> QED
    BY <1>2, <1>6, <2>1, <2>2, <2>3 DEF Sound
<1> QED
  BY <1>2, <1>3, <1>4, <1>5, <1>8 DEF PTInv, ReachedMapped

\* The next page of kernel_map.
LEMMA BootPage ==
    ASSUME PTInv, op = "boot", range <= Len(KernelMap)
    PROVE  LET v == KernelMap[range][1] + at
           IN  /\ v \in KernelPages /\ v \in Pages /\ v \in Nat
               /\ range \in DOMAIN KernelMap
               /\ KernelMap[range][1] \in Nat /\ KernelMap[range][2] \in Nat /\ at \in Nat
               /\ v < KernelMap[range][2]
<1>1. range \in DOMAIN KernelMap /\ at \in Nat /\ at < KernelMap[range][2] - KernelMap[range][1]
  BY MapAssumption, TypeSplit DEF PTInv, Walk
<1>2. KernelMap[range][1] \in Nat /\ KernelMap[range][2] \in Nat
  BY <1>1, MapAssumption
<1>3. KernelMap[range][1] + at \in KernelMap[range][1]..(KernelMap[range][2] - 1)
  BY <1>1, <1>2
<1>4. KernelMap[range][1] + at \in KernelPages
  BY <1>1, <1>3 DEF KernelPages
<1> QED
  BY <1>1, <1>2, <1>3, <1>4, KernelArePages, ManagedFacts

LEMMA PTBootStep ==
    ASSUME PTInv, BootStep
    PROVE  PTInv'
<1> DEFINE v == KernelMap[range][1] + at
<1>1. /\ op = "boot" /\ mem.mode = "ok" /\ range <= Len(KernelMap)
      /\ mem' = vaddr2paddr(mem, None, KernelDir, v, v)
      /\ IF v + 1 < KernelMap[range][2] THEN range' = range /\ at' = at + 1
         ELSE range' = range + 1 /\ at' = 0
      /\ UNCHANGED <<live, op, src, dir>>
  BY DEF BootStep, Goes
<1>2. /\ v \in KernelPages /\ v \in Pages /\ v \in Nat
      /\ range \in DOMAIN KernelMap
      /\ KernelMap[range][1] \in Nat /\ KernelMap[range][2] \in Nat /\ at \in Nat
      /\ v < KernelMap[range][2]
  BY <1>1, BootPage
<1>3. live = {} /\ dir = None /\ range \in 1..(Len(KernelMap) + 1)
  BY <1>1 DEF PTInv, Walk
<1>4. Len(KernelMap) \in Nat /\ DOMAIN KernelMap = 1..Len(KernelMap) /\ range \in Nat
  BY <1>3, MapAssumption
<1>5. Sound(mem, Held, {}) /\ DOMAIN Held = {} /\ Held' = Held
  <2>1. live' = live /\ dir' = dir /\ op' = op /\ op # "destroy"
    BY <1>1
  <2> QED
    BY <1>1, <1>3, <2>1, GoesFacts DEF Held
<1>6. \/ /\ mem'.mode = "ok" /\ Sound(mem', Held, {})
         /\ \A w \in Pages : Lookup(mem', KernelDir, w) = IF w = v THEN v ELSE Lookup(mem, KernelDir, w)
      \/ mem'.mode = "oom" /\ mem' \in Memory
  <2> HIDE DEF v
  <2> QED
    BY <1>1, <1>2, <1>5, BootSound
<1>7. TypeOK'
  <2>1. mem' \in Memory
    BY <1>6 DEF Sound
  <2>2. TypeOK
    BY DEF PTInv
  <2>3. range' \in Nat /\ at' \in Nat
    BY <1>1, <1>2, <1>4
  <2>4. UNCHANGED <<live, op, src, dir>>
    BY <1>1
  <2> QED
    BY <2>1, <2>2, <2>3, <2>4, TypeSplit DEF TypeOK, Memory
<1>9. Walk'
  <2>1. range' \in 1..(Len(KernelMap) + 1)
    BY <1>1, <1>3, <1>4
  <2>2. range' <= Len(KernelMap) => at' < KernelMap[range'][2] - KernelMap[range'][1]
    <3>1. CASE v + 1 < KernelMap[range][2]
      BY <1>1, <1>2, <3>1
    <3>2. CASE ~(v + 1 < KernelMap[range][2])
      <4>1. range' = range + 1 /\ at' = 0
        BY <1>1, <3>2
      <4>2. range + 1 <= Len(KernelMap) =>
                /\ range + 1 \in DOMAIN KernelMap
                /\ KernelMap[range + 1][1] < KernelMap[range + 1][2]
                /\ KernelMap[range + 1][1] \in Nat /\ KernelMap[range + 1][2] \in Nat
        BY <1>4, MapAssumption
      <4> QED
        BY <4>1, <4>2
    <3> QED
      BY <3>1, <3>2
  <2> QED
    BY <1>1, <1>3, <2>1, <2>2 DEF Walk
<1>10. ReachedMapped'
  <2> SUFFICES ASSUME mem'.mode = "ok", NEW w \in Reached' PROVE Lookup(mem', KernelDir, w) = w
    BY <1>1 DEF ReachedMapped
  <2>1. w \in KernelPages /\ w \in Pages /\ w \in Nat
    BY KernelArePages, ManagedFacts DEF Reached
  <2>2. w = v \/ w \in Reached
    <3>1. PICK k \in DOMAIN KernelMap :
              /\ w \in KernelMap[k][1]..(KernelMap[k][2] - 1)
              /\ k < range' \/ (k = range' /\ w < KernelMap[k][1] + at')
      BY <1>1 DEF Reached
    <3>2. KernelMap[k][1] \in Nat /\ KernelMap[k][2] \in Nat /\ k \in Nat
      BY MapAssumption
    <3>3. k < range \/ (k = range /\ w < KernelMap[k][1] + at) \/ w = v
      <4>1. CASE v + 1 < KernelMap[range][2]
        <5>1. range' = range /\ at' = at + 1
          BY <1>1, <4>1
        <5>2. k = range => (w < KernelMap[k][1] + (at + 1) => w < KernelMap[k][1] + at \/ w = v)
          BY <1>2, <2>1, <3>2
        <5> QED
          BY <3>1, <5>1, <5>2
      <4>2. CASE ~(v + 1 < KernelMap[range][2])
        <5>1. range' = range + 1 /\ at' = 0
          BY <1>1, <4>2
        <5>2. k < range + 1
          BY <3>1, <3>2, <5>1
        <5>3. k = range => w = v \/ w < v
          BY <1>2, <2>1, <3>1, <3>2, <4>2
        <5> QED
          BY <1>4, <3>2, <5>2, <5>3
      <4> QED
        BY <4>1, <4>2
    <3> QED
      BY <1>1, <2>1, <3>1, <3>3 DEF Reached
  <2>3. w \in Reached => Lookup(mem, KernelDir, w) = w
    BY <1>1 DEF PTInv, ReachedMapped
  <2> HIDE DEF v
  <2> QED
    BY <1>6, <2>1, <2>2, <2>3
<1> QED
  BY <1>5, <1>6, <1>7, <1>9, <1>10 DEF PTInv

LEMMA PTBootEnd ==
    ASSUME PTInv, BootEnd
    PROVE  PTInv'
<1>1. /\ op = "boot" /\ mem.mode = "ok" /\ range > Len(KernelMap)
      /\ op' = "none" /\ at' = 0 /\ src' = None /\ dir' = None
      /\ UNCHANGED <<mem, live, range>>
  BY DEF BootEnd, Goes, Return
<1>2. live = {} /\ dir = None /\ Sound(mem, Held, {})
  BY <1>1, GoesFacts DEF PTInv, Walk
<1>3. Held' = Held
  BY <1>1, <1>2 DEF Held
<1>4. TypeOK'
  BY <1>1 DEF PTInv, TypeOK
<1>5. ReachedMapped'
  <2> SUFFICES ASSUME NEW w \in KernelPages PROVE Lookup(mem, KernelDir, w) = w
    BY <1>1 DEF ReachedMapped, Reached
  <2>1. PICK k \in DOMAIN KernelMap : w \in KernelMap[k][1]..(KernelMap[k][2] - 1)
    BY DEF KernelPages
  <2>2. k < range
    BY <1>1, MapAssumption DEF PTInv, TypeOK
  <2>3. w \in Reached
    BY <1>1, <2>1, <2>2 DEF Reached
  <2> QED
    BY <1>1, <2>3 DEF PTInv, ReachedMapped
<1> QED
  BY <1>1, <1>2, <1>3, <1>4, <1>5 DEF PTInv, Walk

\* While no walk is in progress.
LEMMA RestFacts ==
    ASSUME PTInv, op = "none"
    PROVE  /\ dir = None /\ DOMAIN Held = live
           /\ \A d \in live : Held[d] = OwnFirst
           /\ Held = [d \in live |-> OwnFirst]
<1>1. dir = None
  BY DEF PTInv, Walk
<1> QED
  BY <1>1 DEF Held

\* The directory that create_page_table made is one more.
LEMMA MadeDirectory ==
    ASSUME PTInv, op = "none", mem.mode = "ok", NEW D, D = ualloc_pages(mem),
           mem'.mode = "ok", Makes(mem, mem', D), DOMAIN Held' = DOMAIN Held \cup {D},
           Held' = [d \in DOMAIN Held' |-> OwnFirst]
    PROVE  /\ Sound(mem', Held', {}) /\ D \in Managed /\ D \notin live
           /\ \A v \in KernelPages : Lookup(mem', KernelDir, v) = Lookup(mem, KernelDir, v)
           /\ \A v \in Pages : OwnFirst <= v => Lookup(mem', D, v) = None
<1>1. Sound(mem, Held, {}) /\ DOMAIN Held = live /\ \A d \in live : Held[d] = OwnFirst
  BY GoesFacts, RestFacts
<1>2. MadeEntries(mem, mem', Held, D)
  BY <1>1, MakeEntries
<1>3. Held' = Made(Held, D)
  BY <1>1 DEF Made
<1>4. Sound(mem', Made(Held, D), {}) /\ \A v \in Pages : OwnFirst <= v => Lookup(mem', D, v) = None
  BY <1>1, MakeSound
<1>5. \A v \in KernelPages : Lookup(mem', KernelDir, v) = Lookup(mem, KernelDir, v)
  BY <1>2, KernelArePages DEF MadeEntries, Reaches
<1> QED
  BY <1>1, <1>2, <1>3, <1>4, <1>5 DEF MadeEntries, Makes

LEMMA PTCreate ==
    ASSUME PTInv, Create
    PROVE  PTInv'
<1> DEFINE D == ualloc_pages(mem)
<1>1. /\ op = "none" /\ mem.mode = "ok" /\ mem' = create_page_table(mem, KernelDir)
      /\ live' = IF mem'.mode = "ok" THEN live \cup {D} ELSE live
      /\ UNCHANGED <<op, range, src, dir, at>>
  BY DEF Create, Goes
<1>2. dir = None /\ mem \in Memory /\ DOMAIN Held = live
  BY <1>1, GoesFacts, RestFacts
<1>3. (mem'.mode = "ok" /\ Makes(mem, mem', D)) \/ Aborted(mem, mem', KernelDir)
  BY <1>1, <1>2, CreateFacts
<1>4. TypeOK'
  <2>1. mem' \in Memory /\ (mem'.mode = "ok" => D \in Managed)
    BY <1>3 DEF Makes, Aborted
  <2> HIDE DEF D
  <2> QED
    BY <1>1, <2>1 DEF PTInv, TypeOK, Memory
<1>5. CASE mem'.mode = "ok"
  <2>1. Makes(mem, mem', D)
    BY <1>3, <1>5 DEF Aborted
  <2>2. live' = live \cup {D}
    BY <1>1, <1>5
  <2> DEFINE E == D
  <2>3. E = ualloc_pages(mem) /\ Makes(mem, mem', E) /\ live' = live \cup {E}
    BY <2>1, <2>2
  <2> HIDE DEF D, E
  <2>4. DOMAIN Held' = DOMAIN Held \cup {E} /\ Held' = [d \in DOMAIN Held' |-> OwnFirst]
    BY <1>1, <1>2, <2>3 DEF Held
  <2>5. /\ Sound(mem', Held', {})
        /\ \A v \in KernelPages : Lookup(mem', KernelDir, v) = Lookup(mem, KernelDir, v)
    BY <1>1, <1>5, <2>3, <2>4, MadeDirectory
  <2>6. Walk'
    BY <1>1, <1>2 DEF Walk
  <2> QED
    BY <1>1, <1>4, <1>5, <2>5, <2>6, SoundStep
<1>6. CASE Aborted(mem, mem', KernelDir)
  BY <1>1, <1>2, <1>4, <1>6, AbortStep
<1> QED
  BY <1>3, <1>5, <1>6

LEMMA PTCopy ==
    ASSUME PTInv, CallsFit, NEW s \in live, Copy(s)
    PROVE  PTInv'
<1> DEFINE D == ualloc_pages(mem)
<1>1. /\ op = "none" /\ mem.mode = "ok" /\ mem' = create_page_table(mem, s)
      /\ op' = "copy" /\ src' = s /\ dir' = D /\ at' = OwnFirst
      /\ UNCHANGED <<live, range>>
  BY OwnFacts DEF Copy, Goes, CallsFit
<1>2. dir = None /\ mem \in Memory /\ DOMAIN Held = live
  BY <1>1, GoesFacts, RestFacts
<1>3. ((mem'.mode = "ok" /\ Makes(mem, mem', D)) \/ Aborted(mem, mem', s)) /\ D \in Frames
  BY <1>1, <1>2, CreateFacts
<1>4. TypeOK'
  <2>1. mem' \in Memory
    BY <1>3 DEF Makes, Aborted
  <2>2. OwnFirst \in Nat
    BY UserPart
  <2> HIDE DEF D
  <2> QED
    BY <1>1, <1>3, <2>1, <2>2 DEF PTInv, TypeOK, Memory
<1>5. CASE mem'.mode = "ok"
  <2> DEFINE E == D
  <2>3. E = ualloc_pages(mem) /\ Makes(mem, mem', E) /\ dir' = E /\ E \in Frames
    BY <1>1, <1>3, <1>5 DEF Aborted
  <2> HIDE DEF D, E
  <2>4. DOMAIN Held' = DOMAIN Held \cup {E} /\ Held' = [d \in DOMAIN Held' |-> OwnFirst]
    <3>1. E # None
      BY <2>3, ManagedFacts
    <3> QED
      BY <1>1, <1>2, <2>3, <3>1 DEF Held
  <2>5. /\ Sound(mem', Held', {}) /\ E \in Managed /\ E \notin live
        /\ \A v \in KernelPages : Lookup(mem', KernelDir, v) = Lookup(mem, KernelDir, v)
        /\ \A v \in Pages : OwnFirst <= v => Lookup(mem', E, v) = None
    BY <1>1, <1>5, <2>3, <2>4, MadeDirectory
  <2>6. Walk'
    <3>1. OwnFirst \in OwnFirst..PageCount /\ OwnFirst \in Int
      BY UserPart
    <3> QED
      BY <1>1, <2>3, <2>5, <3>1 DEF Walk
  <2> QED
    BY <1>1, <1>4, <1>5, <2>5, <2>6, SoundStep
<1>6. CASE Aborted(mem, mem', s)
  BY <1>1, <1>2, <1>4, <1>6, AbortStep
<1> QED
  BY <1>3, <1>5, <1>6

\* The addresses of processes lie in the part that is their own.
LEMMA UserAddress ==
    ASSUME NEW v \in UserAddrs
    PROVE  v \in Pages /\ OwnPde <= VADDR_DIR(v) /\ OwnFirst <= v
<1>1. v \in Pages /\ VADDR_DIR(v) >= UserPde /\ \A w \in KernelPages : VADDR_DIR(w) # VADDR_DIR(v)
  BY DEF UserAddrs
<1>2. VADDR_DIR(v) \in Index
  BY <1>1, AddressParts
<1>3. OwnPde <= VADDR_DIR(v)
  BY <1>1, <1>2, OwnFacts, SizesAssumption DEF Index, OwnPde
<1> QED
  BY <1>1, <1>3, UserPart

\* A step that changes memory alone, while no walk is in progress.
LEMMA RestStep ==
    ASSUME PTInv, op = "none", mem.mode = "ok", UNCHANGED <<live, op, range, src, dir, at>>,
           NEW d \in live,
           \/ /\ mem'.mode = "ok" /\ Sound(mem', Held, {})
              /\ \A v \in KernelPages : Lookup(mem', KernelDir, v) = Lookup(mem, KernelDir, v)
           \/ Aborted(mem, mem', d)
    PROVE  PTInv'
<1>1. dir = None /\ DOMAIN Held = live /\ Held' = Held
  BY RestFacts DEF Held
<1>2. mem' \in Memory
  BY DEF Sound, Aborted
<1>3. TypeOK'
  BY <1>2 DEF PTInv, TypeOK, Memory
<1>4. Walk'
  BY <1>1 DEF Walk
<1>5. CASE Aborted(mem, mem', d)
  BY <1>1, <1>3, <1>5, AbortStep
<1>6. CASE mem'.mode = "ok" /\ Sound(mem', Held, {})
           /\ \A v \in KernelPages : Lookup(mem', KernelDir, v) = Lookup(mem, KernelDir, v)
  BY <1>1, <1>3, <1>4, <1>6, SoundStep
<1> QED
  BY <1>5, <1>6

LEMMA PTMapUser ==
    ASSUME PTInv, NEW d \in live, NEW v, MapUser(d, v)
    PROVE  PTInv'
<1> DEFINE p == ualloc_pages(mem)
<1>1. /\ op = "none" /\ mem.mode = "ok" /\ v \in UserAddrs /\ Lookup(mem, d, v) = None
      /\ mem' = vaddr2paddr(Mark(mem, p), d, d, v, p)
      /\ UNCHANGED <<live, op, range, src, dir, at>>
  BY DEF MapUser, Goes
<1>2. Sound(mem, Held, {}) /\ DOMAIN Held = live /\ Held[d] = OwnFirst
  BY <1>1, GoesFacts, RestFacts
<1>3. v \in Pages /\ OwnFirst <= v /\ OwnPde <= VADDR_DIR(v)
  BY <1>1, UserAddress
<1>4. (Entered(mem, mem', Held, d, v, p) /\ p \in Managed) \/ Aborted(mem, mem', d)
  BY <1>1, <1>2, <1>3, EnterSound
<1>5. Entered(mem, mem', Held, d, v, p) =>
          /\ mem'.mode = "ok" /\ Sound(mem', Held, {})
          /\ \A w \in KernelPages : Lookup(mem', KernelDir, w) = Lookup(mem, KernelDir, w)
  <2>1. \A w \in KernelPages : Reaches(Held, KernelDir, w) /\ KernelDir # d
    <3>1. d # KernelDir
      BY <1>2, ManagedFacts DEF Sound
    <3> QED
      BY <3>1, KernelArePages DEF Reaches
  <2> HIDE DEF p
  <2> QED
    BY <2>1 DEF Entered
<1> QED
  BY <1>1, <1>4, <1>5, RestStep

LEMMA PTget_v2p ==
    ASSUME PTInv, NEW d \in live, NEW v, get_v2p(d, v)
    PROVE  PTInv'
<1>1. /\ op = "none" /\ mem.mode = "ok" /\ v \in UserAddrs
      /\ mem' = find_pte(mem, d, d, v)
      /\ UNCHANGED <<live, op, range, src, dir, at>>
  BY DEF get_v2p, Goes
<1>2. Sound(mem, Held, {}) /\ DOMAIN Held = live /\ Held[d] = OwnFirst
  BY <1>1, GoesFacts, RestFacts
<1>3. v \in Pages /\ OwnFirst <= v /\ OwnPde <= VADDR_DIR(v)
  BY <1>1, UserAddress
<1>4. Room(Held, d, VADDR_DIR(v))
  <2>1. d # KernelDir
    BY <1>2, ManagedFacts DEF Sound
  <2> QED
    BY <1>2, <1>3, <2>1 DEF Room
<1>5. \/ mem'.mode = "ok" /\ Sound(mem', Held, {}) /\ SameLookups(mem, mem', Held)
      \/ Aborted(mem, mem', d)
  BY <1>1, <1>2, <1>3, <1>4, FindSound
<1>6. SameLookups(mem, mem', Held) =>
          \A w \in KernelPages : Lookup(mem', KernelDir, w) = Lookup(mem, KernelDir, w)
  BY KernelArePages DEF SameLookups, Reaches
<1> QED
  BY <1>1, <1>5, <1>6, RestStep

\* The directories while one is copied.
LEMMA CopyFacts ==
    ASSUME PTInv, op = "copy", mem.mode = "ok"
    PROVE  /\ src \in live /\ dir \in Managed /\ dir \notin live /\ at \in OwnFirst..PageCount
           /\ DOMAIN Held = live \cup {dir} /\ Held = [d \in live \cup {dir} |-> OwnFirst]
           /\ \A v \in Pages : at <= v => Lookup(mem, dir, v) = None
           /\ dir # KernelDir
<1>1. /\ src \in live /\ dir \in Managed /\ dir \notin live /\ at \in OwnFirst..PageCount
      /\ \A v \in Pages : at <= v => Lookup(mem, dir, v) = None
  BY DEF PTInv, Walk
<1>2. dir # None /\ dir # KernelDir
  BY <1>1, ManagedFacts
<1> QED
  BY <1>1, <1>2 DEF Held

LEMMA PTCopyStep ==
    ASSUME PTInv, CopyStep
    PROVE  PTInv'
<1>1. /\ op = "copy" /\ mem.mode = "ok" /\ at \in Pages /\ mem' = CopyPage(mem, src, dir, at)
      /\ at' = at + 1 /\ UNCHANGED <<live, op, range, src, dir>>
  BY DEF CopyStep, Goes
<1>2. /\ src \in live /\ dir \in Managed /\ dir \notin live /\ at \in OwnFirst..PageCount
      /\ DOMAIN Held = live \cup {dir} /\ Held = [d \in live \cup {dir} |-> OwnFirst]
      /\ \A v \in Pages : at <= v => Lookup(mem, dir, v) = None
      /\ dir # KernelDir
  BY <1>1, CopyFacts
<1>3. /\ Sound(mem, Held, {}) /\ mem \in Memory
      /\ \A v \in KernelPages : Lookup(mem, KernelDir, v) = v
  BY <1>1, GoesFacts
<1>4. Held' = Held
  BY <1>1 DEF Held
<1>5. /\ at \in Nat /\ OwnFirst <= at /\ OwnFirst \in Nat
      /\ at + 1 \in OwnFirst..PageCount
      /\ \A x \in Pages : at + 1 <= x => at <= x /\ x # at
  <2>1. at + 1 \in 0..PageCount /\ \A x \in Pages : at + 1 <= x <=> at <= x /\ x # at
    BY <1>1, PassOne
  <2>2. OwnFirst \in Nat /\ PageCount \in Nat
    BY UserPart
  <2>3. \A x \in Pages : x \in Int
    BY ManagedFacts
  <2> QED
    BY <1>2, <2>1, <2>2, <2>3
<1>6. ASSUME mem' \in Memory PROVE TypeOK'
  BY <1>1, <1>5, <1>6 DEF PTInv, TypeOK, Memory
<1>7. ASSUME \A v \in Pages : at + 1 <= v => Lookup(mem', dir, v) = None
      PROVE  Walk'
  BY <1>1, <1>2, <1>5, <1>7 DEF Walk
<1>8. CASE Lookup(mem, src, at) = None
  <2>1. mem' = mem
    BY <1>1, <1>8 DEF CopyPage
  <2>2. Walk' /\ TypeOK'
    <3>1. \A v \in Pages : at + 1 <= v => Lookup(mem', dir, v) = None
      BY <1>2, <1>5, <2>1
    <3> QED
      BY <1>3, <1>6, <1>7, <2>1, <3>1
  <2> QED
    BY <1>1, <1>3, <1>4, <2>1, <2>2, SoundStep
<1>9. CASE Lookup(mem, src, at) # None
  <2> DEFINE p == ualloc_pages(mem)
             n == vaddr2paddr(Mark(mem, p), src, dir, at, p)
  <2>1. mem' = IF n.mode = "ok" /\ ~Touch(n, src, p) THEN [n EXCEPT !.mode = "fault"] ELSE n
    BY <1>1, <1>9 DEF CopyPage
  <2>2. (Entered(mem, n, Held, dir, at, p) /\ p \in Managed) \/ Aborted(mem, n, src)
    <3>1. dir \in DOMAIN Held /\ Held[dir] = OwnFirst /\ Lookup(mem, dir, at) = None
      BY <1>1, <1>2, <1>5
    <3> QED
      BY <1>1, <1>3, <1>5, <3>1, EnterSound
  <2> HIDE DEF n, p
  <2>3. CASE Aborted(mem, n, src)
    <3>1. mem' = n /\ n \in Memory
      BY <2>1, <2>3 DEF Aborted
    <3> QED
      BY <1>1, <1>2, <1>6, <2>3, <3>1, AbortStep
  <2>4. CASE Entered(mem, n, Held, dir, at, p) /\ p \in Managed
    <3>1. /\ n.mode = "ok" /\ Sound(n, Held, {}) /\ n \in Memory /\ Lookup(n, dir, at) = p
          /\ \A d, v : Reaches(Held, d, v) /\ ~(d = dir /\ v = at) =>
                 Lookup(n, d, v) = Lookup(mem, d, v)
      BY <2>4 DEF Entered, Sound
    <3>2. \A v \in KernelPages : Lookup(n, KernelDir, v) = Lookup(mem, KernelDir, v)
      BY <1>2, <3>1, KernelArePages DEF Reaches
    <3>5. \A v \in Pages : OwnFirst <= v => Reaches(Held, dir, v)
      <4>1. dir \in DOMAIN Held /\ Held[dir] = OwnFirst
        BY <1>2
      <4> QED
        BY <1>3, <4>1, PageReached DEF Reaches
    <3>3. CASE Touch(n, src, p)
      <4>1. mem' = n
        BY <2>1, <3>3
      <4>2. \A v \in Pages : at + 1 <= v => Lookup(mem', dir, v) = None
        <5> SUFFICES ASSUME NEW v \in Pages, at + 1 <= v PROVE Lookup(n, dir, v) = None
          BY <4>1
        <5>1. at <= v /\ v # at /\ OwnFirst <= v
          <6>1. at <= v /\ v # at /\ v \in Nat
            BY <1>5, ManagedFacts
          <6> QED
            BY <1>5, <6>1
        <5> QED
          BY <1>2, <3>1, <3>5, <5>1
      <4>3. TypeOK' /\ Walk'
        BY <1>6, <1>7, <3>1, <4>1, <4>2
      <4> QED
        BY <1>1, <1>4, <3>1, <3>2, <4>1, <4>3, SoundStep
    <3>4. CASE ~Touch(n, src, p)
      <4>1. mem' = [n EXCEPT !.mode = "fault"]
        BY <2>1, <3>1, <3>4
      <4>2. mem' \in Memory /\ mem'.mode = "fault"
        BY <3>1, <4>1 DEF Memory
      <4>3. TypeOK'
        BY <1>6, <4>2
      <4>4. Walk' /\ ReachedMapped'
        BY <1>1, <4>2 DEF Walk, ReachedMapped
      <4> QED
        BY <4>2, <4>3, <4>4 DEF PTInv
    <3> QED
      BY <3>3, <3>4
  <2> QED
    BY <2>2, <2>3, <2>4
<1> QED
  BY <1>8, <1>9

LEMMA PTCopyEnd ==
    ASSUME PTInv, CopyEnd
    PROVE  PTInv'
<1>1. /\ op = "copy" /\ mem.mode = "ok" /\ live' = live \cup {dir}
      /\ op' = "none" /\ at' = 0 /\ src' = None /\ dir' = None /\ UNCHANGED <<mem, range>>
  BY DEF CopyEnd, Goes, Return
<1>2. dir \in Managed /\ Held = [d \in live \cup {dir} |-> OwnFirst]
  BY <1>1, CopyFacts
<1>3. Held' = Held
  BY <1>1, <1>2 DEF Held
<1>4. TypeOK'
  BY <1>1, <1>2 DEF PTInv, TypeOK
<1>5. Walk'
  BY <1>1 DEF Walk
<1>6. Sound(mem', Held', {})
  BY <1>1, <1>3, GoesFacts
<1> QED
  BY <1>1, <1>4, <1>5, <1>6, SoundStep

LEMMA PTDestroy ==
    ASSUME PTInv, CallsFit, NEW d \in live, Destroy(d)
    PROVE  PTInv'
<1>1. /\ op = "none" /\ mem.mode = "ok" /\ live' = live \ {d}
      /\ op' = "destroy" /\ dir' = d /\ at' = OwnFirst /\ UNCHANGED <<mem, range, src>>
  BY OwnFacts DEF Destroy, Goes, CallsFit
<1>2. d \in Managed /\ d # None /\ d \in Frames
  BY ManagedFacts DEF PTInv, TypeOK
<1>3. Held = [e \in live |-> OwnFirst]
  BY <1>1, RestFacts
<1>4. Held' = Held
  <2>1. live' \cup ({dir'} \ {None}) = live
    BY <1>1, <1>2
  <2> QED
    BY <1>1, <1>3, <2>1 DEF Held
<1>5. OwnFirst \in Nat /\ OwnFirst \in OwnFirst..PageCount
  BY UserPart
<1>6. TypeOK'
  BY <1>1, <1>2, <1>5 DEF PTInv, TypeOK
<1>7. Walk'
  BY <1>1, <1>2, <1>5 DEF Walk
<1>8. Sound(mem', Held', {})
  BY <1>1, <1>4, GoesFacts
<1> QED
  BY <1>1, <1>6, <1>7, <1>8, SoundStep

\* The directories while one is emptied.
LEMMA DestroyFacts ==
    ASSUME PTInv, op = "destroy"
    PROVE  /\ dir \in Managed /\ dir \notin live /\ at \in OwnFirst..PageCount
           /\ dir \in DOMAIN Held /\ DOMAIN Held = live \cup {dir} /\ Held[dir] = at
           /\ Held = [d \in live \cup {dir} |-> IF d = dir THEN at ELSE OwnFirst]
           /\ OwnFirst \in Nat /\ PageCount \in Nat
<1>1. dir \in Managed /\ dir \notin live /\ at \in OwnFirst..PageCount
  BY DEF PTInv, Walk
<1>2. dir # None
  BY <1>1, ManagedFacts
<1> QED
  BY <1>1, <1>2, UserPart DEF Held

LEMMA PTDestroyStep ==
    ASSUME PTInv, DestroyStep
    PROVE  PTInv'
<1>1. /\ op = "destroy" /\ mem.mode = "ok" /\ at \in Pages /\ mem' = DestroyPage(mem, dir, at)
      /\ at' = at + 1 /\ UNCHANGED <<live, op, range, src, dir>>
  BY DEF DestroyStep, Goes
<1>2. /\ dir \in Managed /\ dir \notin live /\ at \in OwnFirst..PageCount
      /\ dir \in DOMAIN Held /\ DOMAIN Held = live \cup {dir} /\ Held[dir] = at
      /\ Held = [d \in live \cup {dir} |-> IF d = dir THEN at ELSE OwnFirst]
      /\ OwnFirst \in Nat /\ PageCount \in Nat
  BY <1>1, DestroyFacts
<1>3. /\ Sound(mem', [Held EXCEPT ![dir] = Held[dir] + 1], {})
      /\ mem'.entry = mem.entry /\ mem'.mode = mem.mode
  BY <1>1, <1>2, GoesFacts, DestroySound
<1>4. Held' = [Held EXCEPT ![dir] = Held[dir] + 1]
  <2>1. Held' = [d \in live \cup {dir} |-> IF d = dir THEN at + 1 ELSE OwnFirst]
    <3>1. dir # None
      BY <1>2, ManagedFacts
    <3> QED
      BY <1>1, <3>1 DEF Held
  <2> QED
    BY <1>2, <2>1
<1>5. at + 1 \in OwnFirst..PageCount /\ at + 1 \in Nat
  <2>1. at + 1 \in 0..PageCount
    BY <1>1, PassOne
  <2> QED
    BY <1>2, <2>1
<1>6. mem' \in Memory
  BY <1>3 DEF Sound
<1>7. TypeOK'
  BY <1>1, <1>5, <1>6 DEF PTInv, TypeOK, Memory
<1>8. Walk'
  BY <1>1, <1>2, <1>5 DEF Walk
<1>9. \A v \in KernelPages : Lookup(mem', KernelDir, v) = Lookup(mem, KernelDir, v)
  BY <1>3, SameEntries
<1>10. Sound(mem', Held', {})
  BY <1>3, <1>4
<1> QED
  BY <1>1, <1>3, <1>7, <1>8, <1>9, <1>10, SoundStep

LEMMA PTDestroyEnd ==
    ASSUME PTInv, DestroyEnd
    PROVE  PTInv'
<1>1. /\ op = "destroy" /\ mem.mode = "ok" /\ at \notin Pages /\ mem' = kfree_pages(mem, dir)
      /\ op' = "none" /\ at' = 0 /\ src' = None /\ dir' = None /\ UNCHANGED <<live, range>>
  BY DEF DestroyEnd, Goes, Return
<1>2. /\ dir \in Managed /\ dir \notin live /\ at \in OwnFirst..PageCount
      /\ dir \in DOMAIN Held /\ DOMAIN Held = live \cup {dir} /\ Held[dir] = at
      /\ Held = [d \in live \cup {dir} |-> IF d = dir THEN at ELSE OwnFirst]
      /\ OwnFirst \in Nat /\ PageCount \in Nat
  BY <1>1, DestroyFacts
<1>3. Held[dir] = PageCount
  BY <1>1, <1>2 DEF Pages, PageCount
<1>4. Held' = [d \in DOMAIN Held \ {dir} |-> Held[d]]
  BY <1>1, <1>2 DEF Held
<1>5. Sound(mem', Held', {}) /\ mem'.entry = mem.entry /\ mem'.mode = mem.mode
  BY <1>1, <1>2, <1>3, <1>4, GoesFacts, EndSound
<1>6. mem' \in Memory
  BY <1>5 DEF Sound
<1>7. TypeOK'
  BY <1>1, <1>6 DEF PTInv, TypeOK, Memory
<1>8. Walk'
  BY <1>1 DEF Walk
<1>9. \A v \in KernelPages : Lookup(mem', KernelDir, v) = Lookup(mem, KernelDir, v)
  BY <1>5, SameEntries
<1> QED
  BY <1>1, <1>5, <1>7, <1>8, <1>9, SoundStep

LEMMA PTNext ==
    ASSUME PTInv, CallsFit, [Next]_vars
    PROVE  PTInv'
<1>1. CASE UNCHANGED vars
  <2>1. Held' = Held /\ Reached' = Reached
    BY <1>1 DEF vars, Held, Reached
  <2>2. TypeOK' /\ ReachedMapped'
    BY <1>1, <2>1 DEF vars, PTInv, TypeOK, ReachedMapped
  <2>3. Walk'
    BY <1>1 DEF vars, PTInv, Walk
  <2> QED
    BY <1>1, <2>1, <2>2, <2>3 DEF vars, PTInv
<1>2. CASE BootStep
  BY <1>2, PTBootStep
<1>3. CASE BootEnd
  BY <1>3, PTBootEnd
<1>4. CASE Create
  BY <1>4, PTCreate
<1>5. ASSUME NEW d \in live, NEW v \in Addrs, MapUser(d, v)
      PROVE  PTInv'
  BY <1>5, PTMapUser
<1>6. ASSUME NEW d \in live, NEW v \in Addrs, get_v2p(d, v)
      PROVE  PTInv'
  BY <1>6, PTget_v2p
<1>7. ASSUME NEW d \in live, Copy(d)
      PROVE  PTInv'
  BY <1>7, PTCopy
<1>8. ASSUME NEW d \in live, Destroy(d)
      PROVE  PTInv'
  BY <1>8, PTDestroy
<1>9. CASE CopyStep
  BY <1>9, PTCopyStep
<1>10. CASE CopyEnd
  BY <1>10, PTCopyEnd
<1>11. CASE DestroyStep
  BY <1>11, PTDestroyStep
<1>12. CASE DestroyEnd
  BY <1>12, PTDestroyEnd
<1> QED
  BY <1>1, <1>2, <1>3, <1>4, <1>5, <1>6, <1>7, <1>8, <1>9, <1>10, <1>11, <1>12 DEF Next

\* The inductive invariant holds in every state: with the boundary and the
\* calls of the code, and with copies and ends behind a boundary that is right.
THEOREM AddressSpaceInvariant == Spec /\ CallsFit => [](PTInv /\ CallsFit)
<1>1. Init /\ CallsFit => PTInv /\ CallsFit
  BY PTInit
<1>2. CallsFit => CallsFit'
  BY DEF CallsFit, KernelBelow, KernelPages, VADDR_DIR, UserPde
<1>3. PTInv /\ CallsFit /\ [Next]_vars => (PTInv /\ CallsFit)'
  BY <1>2, PTNext
<1> QED
  BY <1>1, <1>3, PTL DEF Spec

\* Until a page is refused, making, copying and ending processes leaves the
\* kernel's own mapping alone, in the middle of a walk too.
THEOREM KernelMappingStays == Spec /\ CallsFit => []KernelKept
<1>1. PTInv => KernelKept
  BY DEF PTInv, ReachedMapped, Reached, KernelKept
<1> QED
  BY <1>1, AddressSpaceInvariant, PTL

\* A page of a process, a page table or a directory serves nothing else, from
\* the moment it is given out to the moment it is freed.
THEOREM PagesServeOnce == Spec /\ CallsFit => []NoPageShared
<1>1. ASSUME PTInv PROVE NoPageShared
  <2> SUFFICES ASSUME mem.mode = "ok", NEW u \in Uses(mem, Held), NEW w \in Uses(mem, Held),
                      Serving(mem, u[1], u[2], u[3]) = Serving(mem, w[1], w[2], w[3])
               PROVE  u = w
    BY DEF NoPageShared
  <2>1. Apart(mem, Held)
    BY <1>1, GoesFacts DEF Sound
  <2>2. /\ InUse(mem, Held, u[1], u[2], u[3]) /\ u = <<u[1], u[2], u[3]>>
        /\ InUse(mem, Held, w[1], w[2], w[3]) /\ w = <<w[1], w[2], w[3]>>
    BY DEF Uses, InUse
  <2>3. u[1] = w[1] /\ u[2] = w[2] /\ u[3] = w[3]
    BY <2>1, <2>2 DEF Apart
  <2> QED
    BY <2>2, <2>3
<1> QED
  BY <1>1, AddressSpaceInvariant, PTL

\* The bitmap marks what the directories that exist still name, and nothing
\* else, at every moment: pagetable_destroy leaves nothing behind.
THEOREM NothingLeaks == Spec /\ CallsFit => []NothingLeaked
<1>1. ASSUME PTInv PROVE NothingLeaked
  <2> SUFFICES ASSUME mem.mode = "ok"
               PROVE  mem.used = {Serving(mem, u[1], u[2], u[3]) : u \in Uses(mem, Held)}
    BY DEF NothingLeaked
  <2>1. Exact(mem, Held, {})
    BY <1>1, GoesFacts DEF Sound
  <2>2. ASSUME NEW f \in mem.used PROVE \E u \in Uses(mem, Held) : f = Serving(mem, u[1], u[2], u[3])
    <3>1. PICK k, d, x : InUse(mem, Held, k, d, x) /\ Serving(mem, k, d, x) = f
      BY <2>1 DEF Exact
    <3>2. <<k, d, x>> \in Uses(mem, Held)
      BY <3>1 DEF Uses, InUse
    <3> QED
      BY <3>1, <3>2
  <2>3. ASSUME NEW u \in Uses(mem, Held) PROVE Serving(mem, u[1], u[2], u[3]) \in mem.used
    <3>1. InUse(mem, Held, u[1], u[2], u[3])
      BY DEF Uses, InUse
    <3> QED
      BY <2>1, <3>1 DEF Exact
  <2> QED
    BY <2>2, <2>3
<1> QED
  BY <1>1, AddressSpaceInvariant, PTL
=============================================================================
