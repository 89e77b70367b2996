-------------------------- MODULE PageAllocProofs --------------------------
(***************************************************************************)
(* The page allocator with one call at a time: for any bitmap, any sizes   *)
(* of requests and any number of clients, its search is first fit, the     *)
(* bitmap is exact and no page is given twice.  Without that exclusion the *)
(* last two fail (configuration MCPageAlloc_race).                         *)
(***************************************************************************)
EXTENDS PageAlloc, FiniteSetTheorems, WellFoundedInduction, TLAPS

-----------------------------------------------------------------------------
(* The inductive invariant.                                                *)

\* One call at a time: at most one client is inside the allocator.
OneInside ==
    \A p, q \in Clients : pc[p] # "idle" /\ pc[q] # "idle" => p = q

\* The pages of one call of bitmap_set_bit: n of them from f on, of which the
\* first is inside the bitmap.
Extent(s) == \E f \in 0..(Count - 1), n \in Sizes : s = f..(f + n - 1)

HeldExtents == \A p \in Clients : \A a \in held[p] : Extent(a)

\* Bits behind the bitmap are only set together with its last bit, so that two
\* allocations cannot meet there without having met inside it.
LastBitGuards(s) == \A j \in s : j >= Count => Count - 1 \in s

LostApart ==
    /\ LastBitGuards(lost)
    /\ \A p \in Clients : \A a \in held[p] : a \cap lost = {}

\* The indices at which the inner loop meets no set bit, cut off at the end.
FirstFit(from, n) == {f \in from..(Count - 1) : Window(f, n) \cap bits = {}}

\* Where the search stands: at or above its start, with nothing that fits below
\* it; and what it found is inside the bitmap and free.
Searching(p) ==
    /\ pc[p] # "idle" =>
          /\ StartIndex(req[p].kernel) <= i[p]
          /\ \A f \in FirstFit(StartIndex(req[p].kernel), req[p].n) : i[p] <= f
    /\ pc[p] = "mark" => i[p] < Count /\ Window(i[p], req[p].n) \cap bits = {}

SearchInv == \A p \in Clients : Searching(p)

PageInv ==
    /\ Locked
    /\ TypeOK /\ OneInside /\ HeldExtents /\ LostApart
    /\ NoDoubleAllocation /\ BitmapExact /\ SearchInv

-----------------------------------------------------------------------------
(* Facts about the functions of bitmap.c and memory.c.                     *)

\* The first of a nonempty set of indices exists, and is in the set.
LEMMA FirstIndex ==
    ASSUME NEW S \in SUBSET Nat, S # {}
    PROVE  Min(S) \in S /\ \A s \in S : Min(S) <= s
<1>1. PICK x \in S : \A y \in S : ~ (<<y, x>> \in OpToRel(<, Nat))
  BY NatLessThanWellFounded, WFMin, Zenon
<1>2. ASSUME NEW y \in S
      PROVE  x <= y
  <2>1. x \in Nat /\ y \in Nat
    OBVIOUS
  <2>2. ~ (y < x)
    BY <1>1, <2>1 DEF OpToRel
  <2> QED
    BY <2>1, <2>2
<1> QED
  BY <1>2 DEF Min

\* An extent is described by its lowest page and the number of its pages: the
\* address and the size with which it is freed.
LEMMA ExtentFacts ==
    ASSUME NEW f \in Nat, NEW n \in Nat \ {0}
    PROVE  Min(f..(f + n - 1)) = f /\ Cardinality(f..(f + n - 1)) = n
<1> DEFINE S == f..(f + n - 1)
<1>1. f \in S /\ S \in SUBSET Nat
  OBVIOUS
<1>2. Min(S) \in S /\ \A s \in S : Min(S) <= s
  BY <1>1, FirstIndex
<1>3. Min(S) = f
  BY <1>1, <1>2
<1>4. Cardinality(S) = (f + n - 1) - f + 1
  BY FS_Interval
<1> QED
  BY <1>3, <1>4

\* The address of a page that was allocated gives its index back.
LEMMA IndexOfAddress ==
    ASSUME NEW f \in 0..(Count - 1)
    PROVE  PageIndex(KernelBase + f) = f
<1>1. KernelBase + f - KernelBase = f /\ f \in Nat /\ AddrPages \in Nat /\ f < AddrPages
  BY SizesAssumption
<1>2. f % AddrPages = f
  BY <1>1
<1> QED
  BY <1>1, <1>2, SizesAssumption DEF PageIndex

\* The address 0 wraps to an index behind the bitmap, whose bits are not
\* touched.
LEMMA NullIsOutside ==
    ASSUME NEW n
    PROVE  SetBits(PageIndex(0), n) = {}
<1>1. (0 - KernelBase) % AddrPages >= Count
  BY SizesAssumption
<1> QED
  BY <1>1 DEF SetBits, PageIndex
\* Where a round of the loop that meets a set bit goes on: behind the first set
\* bit of its window.
LEMMA SkipFacts ==
    ASSUME TypeOK, NEW p \in Clients, Window(i[p], req[p].n) \cap bits # {}
    PROVE  \E j \in Window(i[p], req[p].n) \cap bits :
               j \in Nat /\ j < Count /\ i[p] <= j /\ j <= i[p] + req[p].n - 1
               /\ SkipTo(p) = j + 1
<1> DEFINE S == Window(i[p], req[p].n) \cap bits
<1>1. i[p] \in Nat /\ req[p].n \in Nat
  BY SizesAssumption DEF TypeOK, Requests
<1>2. S \in SUBSET Nat /\ S # {}
  BY DEF TypeOK
<1>3. Min(S) \in S
  BY <1>2, FirstIndex
<1>4. SkipTo(p) = Min(S) + 1
  BY DEF SkipTo
<1>5. \A j \in S : j \in Nat /\ j < Count /\ i[p] <= j /\ j <= i[p] + req[p].n - 1
  BY <1>1, <1>2 DEF Window
<1> QED
  BY <1>3, <1>4, <1>5

\* The bits of the lost pages and of the allocations, page by page.
LEMMA ExactMembers ==
    ASSUME NEW B, NEW L, NEW H
    PROVE  B = L \cup UNION {UNION H[p] : p \in Clients}
           <=> \A j : j \in B <=> j \in L \/ \E p \in Clients : \E a \in H[p] : j \in a
OBVIOUS

\* The page indices an extent covers, and that it too sets the last bit of the
\* bitmap when it goes beyond it.
LEMMA ExtentGuards ==
    ASSUME NEW a, Extent(a)
    PROVE  a \in SUBSET Nat /\ LastBitGuards(a)
<1>1. PICK f \in 0..(Count - 1), n \in Sizes : a = f..(f + n - 1)
  BY DEF Extent
<1>2. n \in Nat /\ Count \in Nat /\ f \in Nat
  BY SizesAssumption
<1> QED
  BY <1>1, <1>2 DEF LastBitGuards

\* A bit behind the bitmap is set only when the last bit of the bitmap is.
LEMMA BitsGuarded ==
    ASSUME HeldExtents, LostApart, BitmapExact
    PROVE  LastBitGuards(bits)
<1>1. \A j : j \in bits <=> j \in lost \/ \E p \in Clients : \E a \in held[p] : j \in a
  BY ExactMembers DEF BitmapExact, HeldPages
<1>2. \A p \in Clients : \A a \in held[p] : LastBitGuards(a)
  BY ExtentGuards DEF HeldExtents
<1> QED
  BY <1>1, <1>2 DEF LastBitGuards, LostApart

\* What bitmap_set_bit is about to set is free, the bits behind the bitmap
\* that the search did not examine included.
LEMMA MarkedWasFree ==
    ASSUME PageInv, NEW p \in Clients, pc[p] = "mark"
    PROVE  /\ i[p] \in 0..(Count - 1) /\ req[p].n \in Sizes
           /\ SetBits(i[p], req[p].n) = i[p]..(i[p] + req[p].n - 1)
           /\ SetBits(i[p], req[p].n) \cap bits = {}
<1> DEFINE f == i[p]
           n == req[p].n
<1>1. f \in Nat /\ n \in Sizes /\ n \in Nat /\ Count \in Nat /\ bits \subseteq Nat
  BY SizesAssumption DEF PageInv, TypeOK, Requests
<1>2. f < Count /\ Window(f, n) \cap bits = {}
  BY DEF PageInv, SearchInv, Searching
<1>3. LastBitGuards(bits)
  BY BitsGuarded DEF PageInv
<1> HIDE DEF f, n
<1>4. SetBits(f, n) = f..(f + n - 1)
  BY <1>1, <1>2 DEF SetBits
<1>5. ASSUME NEW j \in f..(f + n - 1), j \in bits
      PROVE  FALSE
  <2>1. CASE j < Count
    BY <1>1, <1>2, <1>5, <2>1 DEF Window
  <2>2. CASE j >= Count
    <3>1. Count - 1 \in bits
      BY <1>3, <1>5, <2>2 DEF LastBitGuards
    <3>2. Count - 1 \in f..(f + n - 1) /\ Count - 1 < Count
      BY <1>1, <1>2, <2>2
    <3> QED
      BY <1>2, <3>1, <3>2 DEF Window
  <2> QED
    BY <1>1, <2>1, <2>2
<1>6. SetBits(f, n) \cap bits = {}
  BY <1>4, <1>5
<1> QED
  BY <1>1, <1>2, <1>4, <1>6 DEF f, n

-----------------------------------------------------------------------------
(* Every operation keeps the invariant.                                    *)

\* A call of kalloc_pages or ualloc_pages starts its search where nothing was
\* passed yet.
LEMMA AllocCallInv ==
    ASSUME PageInv, NEW p \in Clients, NEW kernel \in BOOLEAN, NEW n \in Sizes,
           AllocCall(p, kernel, n)
    PROVE  PageInv'
<1> USE SizesAssumption DEF AllocCall, MayCall
<1>1. TypeOK /\ Locked /\ \A q \in Clients : pc[q] = "idle"
  BY DEF PageInv
<1>2. StartIndex(kernel) \in Nat /\ [kernel |-> kernel, n |-> n] \in Requests
  BY DEF StartIndex, Requests
<1>3. TypeOK'
  BY <1>1, <1>2 DEF TypeOK
<1>4. OneInside'
  BY <1>1 DEF OneInside, TypeOK
<1>5. SearchInv'
  <2> SUFFICES ASSUME NEW q \in Clients, pc'[q] # "idle" \/ pc'[q] = "mark"
               PROVE  Searching(q)'
    BY DEF SearchInv, Searching
  <2>1. q = p /\ pc'[q] = "scan" /\ i'[q] = StartIndex(kernel)
        /\ req'[q].kernel = kernel /\ req'[q].n = n
    BY <1>1 DEF TypeOK
  <2>2. \A f \in StartIndex(kernel)..(Count - 1) : StartIndex(kernel) <= f
    BY <1>2
  <2> QED
    BY <1>2, <2>1, <2>2 DEF Searching, FirstFit
<1> QED
  BY <1>1, <1>3, <1>4, <1>5 DEF PageInv, HeldExtents, LostApart, NoDoubleAllocation,
     BitmapExact, HeldPages

\* A round of the search passes no place that fits.
LEMMA ScanInv ==
    ASSUME PageInv, NEW p \in Clients, ScanFound(p) \/ ScanSkip(p) \/ ScanFail(p)
    PROVE  PageInv'
<1> USE SizesAssumption
<1>1. /\ TypeOK /\ OneInside /\ SearchInv /\ pc[p] = "scan"
      /\ \A q \in Clients \ {p} : pc[q] = "idle"
      /\ UNCHANGED <<bits, req, held, lost>>
  BY DEF PageInv, OneInside, ScanFound, ScanSkip, ScanFail
<1>2. /\ i[p] \in Nat /\ req[p].n \in Nat /\ bits \subseteq Nat
      /\ StartIndex(req[p].kernel) \in Nat
  BY <1>1 DEF TypeOK, Requests, StartIndex
<1>3. CASE ScanFound(p)
  <2>1. /\ pc' = [pc EXCEPT ![p] = "mark"] /\ i' = i /\ i[p] < Count
        /\ Window(i[p], req[p].n) \cap bits = {}
    BY <1>3 DEF ScanFound
  <2>2. TypeOK' /\ OneInside'
    BY <1>1, <2>1 DEF TypeOK, OneInside
  <2>3. SearchInv'
    BY <1>1, <2>1 DEF SearchInv, Searching, TypeOK, FirstFit
  <2> QED
    BY <1>1, <2>2, <2>3 DEF PageInv, HeldExtents, LostApart, NoDoubleAllocation,
       BitmapExact, HeldPages
<1>4. CASE ScanSkip(p)
  <2>1. PICK j \in Window(i[p], req[p].n) \cap bits :
               j \in Nat /\ j < Count /\ i[p] <= j /\ j <= i[p] + req[p].n - 1
               /\ SkipTo(p) = j + 1
    BY <1>1, <1>4, SkipFacts DEF ScanSkip
  <2>2. i' = [i EXCEPT ![p] = j + 1] /\ pc' = pc
    BY <1>4, <2>1 DEF ScanSkip
  <2>3. TypeOK' /\ OneInside'
    BY <1>1, <2>1, <2>2 DEF TypeOK, OneInside
  <2>4. ASSUME NEW f \in FirstFit(StartIndex(req[p].kernel), req[p].n)
        PROVE  j + 1 <= f
    <3>1. f \in Nat /\ i[p] <= f /\ Window(f, req[p].n) \cap bits = {}
      BY <1>1, <1>2 DEF FirstFit, SearchInv, Searching
    <3>2. ~ (f <= j)
      BY <1>2, <2>1, <3>1 DEF Window
    <3> QED
      BY <2>1, <3>1, <3>2
  <2>5. SearchInv'
    <3> SUFFICES ASSUME NEW q \in Clients, pc[q] # "idle"
                 PROVE  Searching(q)'
      BY <2>2 DEF SearchInv, Searching
    <3>1. q = p /\ i'[q] = j + 1 /\ pc'[q] = "scan"
      BY <1>1, <2>2 DEF TypeOK
    <3>2. StartIndex(req[p].kernel) <= j + 1
      BY <1>1, <1>2, <2>1 DEF SearchInv, Searching
    <3> QED
      BY <1>1, <2>4, <3>1, <3>2 DEF Searching, FirstFit
  <2> QED
    BY <1>1, <2>3, <2>5 DEF PageInv, HeldExtents, LostApart, NoDoubleAllocation,
       BitmapExact, HeldPages
<1>5. CASE ScanFail(p)
  <2>1. pc' = [pc EXCEPT ![p] = "idle"] /\ i' = i
    BY <1>5 DEF ScanFail
  <2>2. TypeOK' /\ OneInside' /\ SearchInv'
    BY <1>1, <2>1 DEF TypeOK, OneInside, SearchInv, Searching
  <2> QED
    BY <1>1, <2>2 DEF PageInv, HeldExtents, LostApart, NoDoubleAllocation,
       BitmapExact, HeldPages
<1> QED
  BY <1>3, <1>4, <1>5
\* Setting the bits of a place that was free gives no page away twice.
LEMMA MarkInv ==
    ASSUME PageInv, NEW p \in Clients, Mark(p)
    PROVE  PageInv'
<1> USE SizesAssumption
<1> DEFINE pages == SetBits(i[p], req[p].n)
<1>1. /\ TypeOK /\ OneInside /\ SearchInv /\ HeldExtents /\ LostApart
      /\ NoDoubleAllocation /\ BitmapExact /\ Locked
  BY DEF PageInv
<1>2. /\ i[p] \in 0..(Count - 1) /\ req[p].n \in Sizes
      /\ pages = i[p]..(i[p] + req[p].n - 1) /\ pages \cap bits = {}
  BY MarkedWasFree DEF Mark
<1>3. /\ bits' = bits \cup pages /\ pc' = [pc EXCEPT ![p] = "idle"] /\ i' = i /\ req' = req
      /\ \/ lost' = lost \cup pages /\ held' = held
         \/ held' = [held EXCEPT ![p] = @ \cup {pages}] /\ lost' = lost
  BY DEF Mark
<1>4. Extent(pages) /\ pages \in SUBSET Nat /\ LastBitGuards(pages)
  <2>1. Extent(pages)
    BY <1>2 DEF Extent
  <2> QED
    BY <2>1, ExtentGuards
<1>5. pages \cap lost = {} /\ \A q \in Clients : \A a \in held[q] : a \cap pages = {}
  <2>1. \A j : j \in bits <=> j \in lost \/ \E q \in Clients : \E a \in held[q] : j \in a
    BY <1>1, ExactMembers DEF BitmapExact, HeldPages
  <2> QED
    BY <1>2, <2>1
<1> HIDE DEF pages
<1>6. TypeOK'
  <2>1. bits' \subseteq Nat /\ lost' \subseteq Nat
    BY <1>1, <1>3, <1>4 DEF TypeOK
  <2>2. pc' \in [Clients -> {"idle", "scan", "mark"}]
    BY <1>1, <1>3 DEF TypeOK
  <2>3. held' \in [Clients -> SUBSET SUBSET Nat]
    <3>1. \A q \in Clients : held[q] \cup {pages} \in SUBSET SUBSET Nat
      BY <1>1, <1>4 DEF TypeOK
    <3> QED
      BY <1>1, <1>3, <3>1 DEF TypeOK
  <2> QED
    BY <1>1, <1>3, <2>1, <2>2, <2>3 DEF TypeOK
<1>7. OneInside'
  BY <1>1, <1>3 DEF OneInside, TypeOK
<1>8. SearchInv'
  <2>1. \A q \in Clients : pc'[q] = "idle"
    BY <1>1, <1>3 DEF OneInside, TypeOK, Mark
  <2> QED
    BY <2>1 DEF SearchInv, Searching
<1>9. CASE lost' = lost \cup pages /\ held' = held
  <2>1. HeldExtents' /\ NoDoubleAllocation'
    BY <1>1, <1>9 DEF HeldExtents, NoDoubleAllocation
  <2>2. LostApart'
    BY <1>1, <1>4, <1>5, <1>9 DEF LostApart, LastBitGuards
  <2>3. BitmapExact'
    BY <1>1, <1>3, <1>9 DEF BitmapExact, HeldPages
  <2> QED
    BY <1>1, <1>6, <1>7, <1>8, <2>1, <2>2, <2>3 DEF PageInv
<1>10. CASE held' = [held EXCEPT ![p] = @ \cup {pages}] /\ lost' = lost
  <2>1. \A q \in Clients : held'[q] = IF q = p THEN held[q] \cup {pages} ELSE held[q]
    BY <1>1, <1>10 DEF TypeOK
  <2>2. HeldExtents'
    BY <1>1, <1>4, <2>1 DEF HeldExtents
  <2>3. LostApart'
    BY <1>1, <1>5, <1>10, <2>1 DEF LostApart
  <2>4. NoDoubleAllocation'
    <3> SUFFICES ASSUME NEW q \in Clients, NEW r \in Clients, NEW a \in held'[q],
                        NEW b \in held'[r], q # r \/ a # b
                 PROVE  a \cap b = {}
      BY DEF NoDoubleAllocation
    <3>1. CASE a \in held[q] /\ b \in held[r]
      BY <1>1, <3>1 DEF NoDoubleAllocation
    <3>2. CASE a \in held[q] /\ b \notin held[r]
      <4>1. b = pages
        BY <2>1, <3>2
      <4> QED
        BY <1>5, <3>2, <4>1
    <3>3. CASE a \notin held[q] /\ b \in held[r]
      <4>1. a = pages
        BY <2>1, <3>3
      <4> QED
        BY <1>5, <3>3, <4>1
    <3>4. CASE a \notin held[q] /\ b \notin held[r]
      <4>1. a = pages /\ q = p /\ b = pages /\ r = p
        BY <2>1, <3>4
      <4> QED
        BY <4>1
    <3> QED
      BY <3>1, <3>2, <3>3, <3>4
  <2>5. BitmapExact'
    <3>1. \A j : j \in bits <=> j \in lost \/ \E q \in Clients : \E a \in held[q] : j \in a
      BY <1>1, ExactMembers DEF BitmapExact, HeldPages
    <3>2. \A j : j \in bits' <=> j \in lost' \/ \E q \in Clients : \E a \in held'[q] : j \in a
      BY <1>3, <1>10, <2>1, <3>1
    <3> QED
      BY <3>2, ExactMembers DEF BitmapExact, HeldPages
  <2> QED
    BY <1>1, <1>6, <1>7, <1>8, <2>2, <2>3, <2>4, <2>5 DEF PageInv
<1> QED
  BY <1>3, <1>9, <1>10

\* Freeing clears the bits of that allocation and of no other.
LEMMA FreeInv ==
    ASSUME PageInv, NEW p \in Clients, NEW pages \in held[p], kfree_pages(p, pages)
    PROVE  PageInv'
<1> USE SizesAssumption
<1>1. /\ TypeOK /\ HeldExtents /\ LostApart /\ NoDoubleAllocation /\ BitmapExact /\ Locked
      /\ \A q \in Clients : pc[q] = "idle"
  BY DEF PageInv, kfree_pages, MayCall
<1>2. PICK f \in 0..(Count - 1), n \in Sizes : pages = f..(f + n - 1)
  BY <1>1 DEF HeldExtents, Extent
<1>3. SetBits(PageIndex(KernelBase + Min(pages)), Cardinality(pages)) = pages
  <2>1. f \in Nat /\ n \in Nat \ {0} /\ f < Count
    OBVIOUS
  <2>2. Min(pages) = f /\ Cardinality(pages) = n
    BY <1>2, <2>1, ExtentFacts
  <2>3. PageIndex(KernelBase + f) = f
    BY IndexOfAddress
  <2>4. SetBits(f, n) = pages
    BY <1>2, <2>1 DEF SetBits
  <2> QED
    BY <2>2, <2>3, <2>4
<1>4. /\ bits' = bits \ pages /\ held' = [held EXCEPT ![p] = @ \ {pages}]
      /\ UNCHANGED <<pc, i, req, lost>>
  BY <1>3 DEF kfree_pages
<1>5. \A q \in Clients : held'[q] = IF q = p THEN held[q] \ {pages} ELSE held[q]
  BY <1>1, <1>4 DEF TypeOK
<1>6. TypeOK'
  BY <1>1, <1>4 DEF TypeOK
<1>7. OneInside' /\ SearchInv'
  BY <1>1, <1>4 DEF OneInside, SearchInv, Searching
<1>8. HeldExtents' /\ LostApart' /\ NoDoubleAllocation'
  BY <1>1, <1>4, <1>5 DEF HeldExtents, LostApart, NoDoubleAllocation
<1>9. BitmapExact'
  <2>1. \A j : j \in bits <=> j \in lost \/ \E q \in Clients : \E a \in held[q] : j \in a
    BY <1>1, ExactMembers DEF BitmapExact, HeldPages
  <2>2. ASSUME NEW j
        PROVE  j \in bits' <=> j \in lost' \/ \E q \in Clients : \E a \in held'[q] : j \in a
    <3>1. CASE j \in pages
      <4>1. j \notin lost
        BY <1>1, <3>1 DEF LostApart
      <4>2. \A q \in Clients : \A a \in held[q] : (q # p \/ a # pages) => j \notin a
        BY <1>1, <3>1 DEF NoDoubleAllocation
      <4> QED
        BY <1>4, <1>5, <3>1, <4>1, <4>2
    <3>2. CASE j \notin pages
      BY <1>4, <1>5, <2>1, <3>2
    <3> QED
      BY <3>1, <3>2
  <2> QED
    BY <2>2, ExactMembers DEF BitmapExact, HeldPages
<1> QED
  BY <1>1, <1>6, <1>7, <1>8, <1>9 DEF PageInv

-----------------------------------------------------------------------------
(* The theorems.                                                           *)

\* With an empty bitmap and every client outside the invariant holds.
LEMMA PageInit == Init /\ Locked => PageInv
<1> SUFFICES ASSUME Init, Locked
             PROVE  PageInv
  OBVIOUS
<1>1. TypeOK
  BY DEF Init, TypeOK
<1>2. OneInside /\ SearchInv
  BY DEF Init, OneInside, SearchInv, Searching
<1>3. HeldExtents /\ LostApart /\ NoDoubleAllocation
  BY DEF Init, HeldExtents, LostApart, LastBitGuards, NoDoubleAllocation
<1>4. BitmapExact
  BY DEF Init, BitmapExact, HeldPages
<1> QED
  BY <1>1, <1>2, <1>3, <1>4 DEF PageInv

\* Every step of the allocator keeps the invariant.
LEMMA PageStep == PageInv /\ [Next]_vars => PageInv'
<1> SUFFICES ASSUME PageInv, [Next]_vars
             PROVE  PageInv'
  OBVIOUS
<1>1. ASSUME NEW p \in Clients, NEW n \in Sizes, FreeNull(p, n)
      PROVE  PageInv'
  <2>1. UNCHANGED vars
    BY <1>1, NullIsOutside DEF FreeNull, vars
  <2> QED
    BY <2>1 DEF vars, PageInv, TypeOK, OneInside, SearchInv, Searching, FirstFit, HeldExtents,
       LostApart, NoDoubleAllocation, BitmapExact, HeldPages
<1>2. CASE UNCHANGED vars
  BY <1>2 DEF vars, PageInv, TypeOK, OneInside, SearchInv, Searching, FirstFit, HeldExtents,
     LostApart, NoDoubleAllocation, BitmapExact, HeldPages
<1> QED
  BY <1>1, <1>2, AllocCallInv, ScanInv, MarkInv, FreeInv DEF Next

\* With one call at a time PageInv holds in every state.
THEOREM PageInvariant == Spec /\ Locked => []PageInv
BY PageInit, PageStep, PTL DEF Spec

\* The allocator never has a page in two allocations, not even a page behind
\* the bitmap, where bitmap_alloc_nbits does not look.
THEOREM PagesGivenOnce == Spec /\ Locked => []NoDoubleAllocation
<1>1. PageInv => NoDoubleAllocation
  BY DEF PageInv
<1> QED
  BY <1>1, PageInvariant, PTL

\* The bitmap says exactly what is allocated or was refused by kalloc_pages,
\* and kfree_pages of the address 0 leaves it alone.
THEOREM BitmapStaysExact == Spec /\ Locked => []BitmapExact
<1>1. PageInv => BitmapExact
  BY DEF PageInv
<1> QED
  BY <1>1, PageInvariant, PTL

\* The search of bitmap_alloc_nbits takes the first place there is, and gives up
\* only when there is none.
THEOREM SearchFindsFirst == Spec /\ Locked => []SearchIsFirstFit
<1>1. PageInv => SearchIsFirstFit
  <2> SUFFICES ASSUME PageInv, NEW p \in Clients,
                      NEW places, places = Places(StartIndex(req[p].kernel), req[p].n)
               PROVE  /\ pc[p] = "scan" => \A f \in places : i[p] <= f
                      /\ pc[p] = "mark" => IF places # {} THEN i[p] = Min(places)
                                          ELSE i[p] > Count - req[p].n
    BY DEF SearchIsFirstFit
  <2>1. /\ Searching(p) /\ i[p] \in Nat /\ StartIndex(req[p].kernel) \in Nat
        /\ req[p].n \in Nat \ {0} /\ Count \in Nat
    BY SizesAssumption DEF PageInv, SearchInv, TypeOK, StartIndex, Requests
  <2>2. places \in SUBSET Nat
    BY <2>1 DEF Places
  <2>3. ASSUME NEW f \in places, pc[p] # "idle" PROVE i[p] <= f /\ f <= Count - req[p].n
    <3>1. f \in Nat /\ StartIndex(req[p].kernel) <= f /\ f <= Count - req[p].n
          /\ (f..(f + req[p].n - 1)) \cap bits = {}
      BY <2>1 DEF Places
    <3>2. f \in FirstFit(StartIndex(req[p].kernel), req[p].n)
      BY <2>1, <3>1 DEF FirstFit, Window
    <3> QED
      BY <2>1, <2>3, <3>1, <3>2 DEF Searching
  <2>4. ASSUME pc[p] = "mark", i[p] <= Count - req[p].n PROVE i[p] \in places
    <3>1. StartIndex(req[p].kernel) <= i[p] /\ Window(i[p], req[p].n) \cap bits = {}
      BY <2>1, <2>4 DEF Searching
    <3>2. Window(i[p], req[p].n) = i[p]..(i[p] + req[p].n - 1)
      BY <2>1, <2>4 DEF Window
    <3> QED
      BY <2>1, <2>4, <3>1, <3>2 DEF Places
  <2>5. ASSUME pc[p] = "mark", places # {} PROVE i[p] = Min(places)
    <3>1. Min(places) \in places /\ \A f \in places : Min(places) <= f
      BY <2>2, <2>5, FirstIndex
    <3>2. i[p] <= Min(places) /\ Min(places) <= Count - req[p].n
      BY <2>3, <2>5, <3>1
    <3>3. i[p] \in places
      BY <2>1, <2>2, <2>4, <2>5, <3>1, <3>2
    <3> QED
      BY <2>1, <2>2, <3>1, <3>2, <3>3
  <2>6. ASSUME pc[p] = "mark", places = {} PROVE i[p] > Count - req[p].n
    BY <2>1, <2>4, <2>6
  <2> QED
    BY <2>3, <2>5, <2>6
<1> QED
  BY <1>1, PageInvariant, PTL
=============================================================================
