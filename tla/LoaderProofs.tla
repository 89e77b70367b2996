---------------------------- MODULE LoaderProofs ----------------------------
(***************************************************************************)
(* The loader, for every size of the disk's sectors and of a byte and      *)
(* every kernel that the linker can produce: load2mem reads the sectors it *)
(* means, and read_elf places the segments and nothing else.               *)
(***************************************************************************)
EXTENDS Loader, WellFoundedInduction, TLAPS

\* The words of the buffer.
Words == Sectors * SectorWords

\* The state of the machine that read_loader starts from.
Initial(a) == IF a = Info THEN Recorded ELSE Old

\* What cell a of a loaded segment holds when it is placed.
SegmentCell(p, a) ==
    IF a - p.paddr < p.filesz THEN OnDisk(Start * SectorWords + p.offset + (a - p.paddr)) ELSE Zero

\* The cells of program header n that the loops have written.
Progress(n) == IF n <= i_ph THEN elf.ph[n].memsz
               ELSE IF n = i_ph + 1 /\ phase \in {"copy", "fill"} THEN j ELSE 0
Covered(n, a) == elf.ph[n].paddr <= a /\ a < elf.ph[n].paddr + Progress(n)

\* The variables are in their ranges.
Typed ==
    /\ phase \in Phases
    /\ mem = [a \in Addr |-> mem[a]]
    /\ elf \in Files
    /\ left \in 0..Sectors /\ delivered \in Nat
    /\ i_ph \in 0..Len(elf.ph) /\ j \in Nat

Early == {"boot", "detect", "protected", "command"}
Reading == {"elf", "phdr", "copy", "fill", "kernel"}

\* No sector and no header is read early,
BeforeLoad ==
    /\ phase \in Early => delivered = 0
    /\ phase \in Early \cup {"load", "elf"} => i_ph = 0

\* and nothing below the buffer before the first segment.
BelowBuffer ==
    phase \in Early \cup {"load"} => \A a \in 0..KernelCells : mem[a] = Initial(a)

\* While the sectors arrive, the drive's position is the buffer's.
InLoad ==
    phase = "load" =>
        /\ regs = Written(Start, Sectors)
        /\ delivered = Sectors - left
        /\ \A k \in 0..((Sectors - left) * SectorWords - 1) : Intact(k)
        /\ left > 0 => disk # "idle"

\* The loops stand inside a loaded segment.
InSegment ==
    /\ phase \in {"copy", "fill"} => i_ph < Len(elf.ph) /\ elf.ph[i_ph + 1].load
    /\ phase = "copy" => j <= elf.ph[i_ph + 1].filesz
    /\ phase = "fill" => elf.ph[i_ph + 1].filesz <= j /\ j <= elf.ph[i_ph + 1].memsz
    /\ phase = "kernel" => i_ph = Len(elf.ph)

\* With a file whose segments lie apart, the buffer stays the file, the cells
\* that the loops have covered hold their segment, and the others are untouched.
Placing ==
    Apart =>
        /\ phase # "corrupt"
        /\ phase \in Reading =>
            /\ \A k \in 0..(Words - 1) : Intact(k)
            /\ \A n \in Loaded : \A a \in 0..KernelCells :
                  Covered(n, a) => mem[a] = SegmentCell(elf.ph[n], a)
            /\ \A a \in 0..KernelCells :
                  (\A n \in Loaded : ~Covered(n, a)) => mem[a] = Initial(a)

LInv == Typed /\ BeforeLoad /\ BelowBuffer /\ InLoad /\ InSegment /\ Placing

-----------------------------------------------------------------------------
(* The bytes of the registers.                                              *)

\* A product grows with its factor.
LEMMA Monotone ==
    ASSUME NEW d \in Nat, NEW x \in Int, NEW y \in Int, x <= y
    PROVE  d * x <= d * y
<1>1. d * y = d * x + d * (y - x)
  OBVIOUS
<1>2. d * (y - x) >= 0
  OBVIOUS
<1>3. d * x \in Int /\ d * y \in Int /\ d * (y - x) \in Int
  OBVIOUS
<1> QED
  BY <1>1, <1>2, <1>3

\* Quotient and remainder are what the division leaves, and no others.
LEMMA Division ==
    ASSUME NEW d \in Nat \ {0}, NEW n \in Nat
    PROVE  /\ n \div d \in Nat /\ n % d \in 0..(d - 1)
           /\ n = d * (n \div d) + (n % d)
  OBVIOUS

LEMMA DivisionUnique ==
    ASSUME NEW d \in Nat \ {0}, NEW q \in Nat, NEW r \in 0..(d - 1), NEW n \in Nat, n = d * q + r
    PROVE  n \div d = q /\ n % d = r
<1> DEFINE p == n \div d
           m == n % d
<1>1. p \in Nat /\ m \in 0..(d - 1) /\ n = d * p + m
  BY Division
<1> HIDE DEF p, m
<1>2. d * p \in Int /\ d * q \in Int /\ d * (p + 1) = d * p + d /\ d * (q + 1) = d * q + d
  BY <1>1
<1>3. ~(p < q)
  <2>1. p < q => d * (p + 1) <= d * q
    BY <1>1, Monotone
  <2> QED
    BY <1>1, <1>2, <2>1
<1>4. ~(q < p)
  <2>1. q < p => d * (q + 1) <= d * p
    BY <1>1, Monotone
  <2> QED
    BY <1>1, <1>2, <2>1
<1>5. p = q
  BY <1>1, <1>3, <1>4
<1>6. m = r
  BY <1>1, <1>2, <1>5
<1> QED
  BY <1>5, <1>6 DEF p, m

\* A number below the divisor is its own remainder.
LEMMA SmallRemainder ==
    ASSUME NEW d \in Nat \ {0}, NEW n \in 0..(d - 1)
    PROVE  n % d = n
<1>1. n = d * 0 + n
  OBVIOUS
<1> QED
  BY <1>1, DivisionUnique

\* Dividing by a and then by b is dividing by their product.
LEMMA DivisionTwice ==
    ASSUME NEW a \in Nat \ {0}, NEW b \in Nat \ {0}, NEW n \in Nat
    PROVE  n \div (a * b) = (n \div a) \div b
<1> DEFINE x == n \div a
           y == x \div b
           r == n % a
           s == x % b
<1>1. x \in Nat /\ r \in 0..(a - 1) /\ n = a * x + r
  BY Division
<1>2. y \in Nat /\ s \in 0..(b - 1) /\ x = b * y + s
  BY <1>1, Division
<1> HIDE DEF x, y, r, s
<1>3. n = (a * b) * y + (a * s + r)
  BY <1>1, <1>2
<1>4. a * s + r \in 0..(a * b - 1)
  <2>1. a * (s + 1) <= a * b /\ a * (s + 1) = a * s + a
    BY <1>2, Monotone
  <2>2. a * s \in Nat /\ a * b \in Nat
    BY <1>2
  <2> QED
    BY <1>1, <2>1, <2>2
<1>5. a * b \in Nat \ {0}
  <2>1. a * 1 <= a * b
    BY Monotone
  <2> QED
    BY <2>1
<1>6. n \div (a * b) = y
  <2>1. PICK d \in Nat \ {0}, t \in Nat : d = a * b /\ t = a * s + r
    BY <1>4, <1>5
  <2>2. t \in 0..(d - 1) /\ n = d * y + t
    BY <1>3, <1>4, <2>1
  <2>3. n \div d = y
    BY <1>2, <2>2, DivisionUnique
  <2> QED
    BY <2>1, <2>3
<1> QED
  BY <1>6 DEF x, y

\* A quotient is bounded as the number is.
LEMMA DivisionBound ==
    ASSUME NEW a \in Nat \ {0}, NEW b \in Nat \ {0}, NEW n \in Nat, n < a * b
    PROVE  n \div a < b
<1> DEFINE x == n \div a
<1>1. x \in Nat /\ a * x <= n
  BY Division
<1> HIDE DEF x
<1>2. b <= x => a * b <= a * x
  BY <1>1, Monotone
<1>3. a * b \in Nat /\ a * x \in Nat
  BY <1>1
<1>4. x < b
  BY <1>1, <1>2, <1>3
<1> QED
  BY <1>4 DEF x

\* The drive reads the sector number and the count that load2mem wrote, two
\* bytes to a register and the high ones first.
LEMMA RegistersMean ==
    /\ Lba(Written(Start, Sectors)) = Start
    /\ Count(Written(Start, Sectors)) = Sectors
<1> USE LoaderAssumption
<1> DEFINE q1 == Start \div Byte
           q2 == q1 \div Byte
           q3 == q2 \div Byte
           d0 == Start % Byte
           d1 == q1 % Byte
           d2 == q2 % Byte
           c1 == Sectors \div Byte
           c0 == Sectors % Byte
<1>0. \A n \in Nat : /\ n \div Byte \in Nat /\ n % Byte \in Nat
                     /\ n = Byte * (n \div Byte) + (n % Byte)
  BY Division
<1>1. q1 \in Nat /\ d0 \in Nat /\ Start = Byte * q1 + d0
  BY <1>0
<1>2. q2 \in Nat /\ d1 \in Nat /\ q1 = Byte * q2 + d1
  BY <1>0, <1>1, Zenon
<1>3. q3 \in Nat /\ d2 \in Nat /\ q2 = Byte * q3 + d2
  BY <1>0, <1>2, Zenon
<1>4. Byte2 \in Nat \ {0} /\ Byte3 \in Nat \ {0}
  <2>1. Byte * 1 <= Byte2
    BY Monotone DEF Byte2
  <2>2. Byte2 \in Nat \ {0}
    BY <2>1 DEF Byte2
  <2>3. Byte * 1 <= Byte3
    BY <2>2, Monotone DEF Byte3
  <2> QED
    BY <2>2, <2>3 DEF Byte3
<1>5. Start \div Byte2 = q2
  BY DivisionTwice DEF Byte2
<1>6. Start \div Byte3 = q3
  <2>1. Byte3 = Byte2 * Byte
    BY <1>4 DEF Byte3
  <2>2. Start \div (Byte2 * Byte) = (Start \div Byte2) \div Byte
    BY <1>4, DivisionTwice
  <2> QED
    BY <1>5, <2>1, <2>2
<1>7. q3 < Byte
  <2>1. Start < Byte3 * Byte
    BY WidthsAssumption DEF Byte3, Byte2
  <2>2. Start \div Byte3 < Byte
    BY <1>4, <2>1, DivisionBound
  <2> QED
    BY <1>6, <2>2
<1>8. q3 % Byte = q3 /\ Start \div 1 = Start /\ Sectors \div 1 = Sectors
  <2>1. q3 \in 0..(Byte - 1)
    BY <1>3, <1>7
  <2>2. q3 % Byte = q3
    BY <2>1, SmallRemainder
  <2> QED
    BY <2>2
<1>9. c1 \in Nat /\ c0 \in Nat /\ Sectors = Byte * c1 + c0 /\ c1 < Byte
  <2>1. c1 < Byte
    BY WidthsAssumption, DivisionBound
  <2> QED
    BY <2>1, Division
<1>10. c1 % Byte = c1
  <2>1. c1 \in 0..(Byte - 1)
    BY <1>9
  <2> QED
    BY <2>1, SmallRemainder
<1> DEFINE w == Written(Start, Sectors)
<1>11. /\ w.low = <<q3, d0>> /\ w.mid = <<0, d1>> /\ w.high = <<0, d2>>
       /\ w.count = <<c1, c0>>
  BY <1>5, <1>6, <1>8, <1>10 DEF Written, Digit
<1> HIDE DEF q1, q2, q3, d0, d1, d2, c1, c0, w
<1>12. Lba(w) = d0 + Byte * d1 + Byte2 * d2 + Byte3 * (q3 + Byte * 0 + Byte2 * 0)
  BY <1>11 DEF Lba
<1>13. Start = d0 + Byte * d1 + Byte2 * d2 + Byte3 * q3
  BY <1>1, <1>2, <1>3 DEF Byte2, Byte3
<1>14. Lba(w) = Start
  BY <1>3, <1>4, <1>12, <1>13
<1>15. Count(w) = Sectors
  BY <1>9, <1>11 DEF Count
<1> QED
  BY <1>14, <1>15 DEF w

-----------------------------------------------------------------------------
(* The layout of memory and of the file.                                    *)

\* The buffer lies behind the cells of the kernel.
LEMMA Layout ==
    /\ Words \in Nat /\ Words > 0 /\ Buf = KernelCells + 1 /\ KernelCells \in Nat
    /\ Addr = 0..(KernelCells + Words)
    /\ \A k \in 0..(Words - 1) : Buf + k \in Addr /\ Buf + k \notin 0..KernelCells
    /\ \A a \in 0..KernelCells : a \in Addr
<1>1. SectorWords * 1 <= SectorWords * Sectors
  BY LoaderAssumption, Monotone
<1>2. Words \in Nat /\ Words > 0
  BY <1>1, LoaderAssumption DEF Words
<1>3. Addr = 0..(KernelCells + Words) /\ Buf = KernelCells + 1 /\ KernelCells \in Nat
  BY LoaderAssumption DEF Addr, Words, Buf
<1> QED
  BY <1>2, <1>3

\* What is known of the program headers.
LEMMA FileFacts ==
    ASSUME elf \in Files
    PROVE  /\ Len(elf.ph) \in Nat /\ DOMAIN elf.ph = 1..Len(elf.ph) /\ Len(elf.ph) < Words
           /\ \A n \in 1..Len(elf.ph) :
                /\ elf.ph[n].paddr \in Nat /\ elf.ph[n].offset \in Nat
                /\ elf.ph[n].filesz \in Nat /\ elf.ph[n].memsz \in Nat
                /\ elf.ph[n].filesz <= elf.ph[n].memsz
                /\ elf.ph[n].offset + elf.ph[n].filesz <= Words
           /\ Loaded \subseteq 1..Len(elf.ph)
<1>1. elf \in [magic : BOOLEAN, ph : Seq(ProgramHeaders)]
  BY FilesAssumption
<1>2. elf.ph \in Seq(ProgramHeaders)
  BY <1>1
<1>3. Len(elf.ph) \in Nat /\ DOMAIN elf.ph = 1..Len(elf.ph)
  BY <1>2
<1>4. \A n \in 1..Len(elf.ph) : elf.ph[n] \in ProgramHeaders
  BY <1>2
<1>5. Len(elf.ph) < Words /\ \A n \in DOMAIN elf.ph : /\ elf.ph[n].filesz <= elf.ph[n].memsz
                                                      /\ elf.ph[n].offset + elf.ph[n].filesz <= Words
  BY FilesAssumption DEF Words
<1>6. \A p \in ProgramHeaders : /\ p.paddr \in Nat /\ p.offset \in Nat
                                /\ p.filesz \in Nat /\ p.memsz \in Nat
  BY DEF ProgramHeaders
<1> QED
  BY <1>3, <1>4, <1>5, <1>6 DEF Loaded

\* The loops never write more of a segment than it has.
LEMMA ProgressBounds ==
    ASSUME Typed, InSegment, NEW n \in Loaded
    PROVE  Progress(n) \in 0..elf.ph[n].memsz
<1>1. /\ n \in 1..Len(elf.ph) /\ elf.ph[n].memsz \in Nat /\ elf.ph[n].filesz \in Nat
      /\ elf.ph[n].filesz <= elf.ph[n].memsz
  BY FileFacts DEF Typed
<1>2. n = i_ph + 1 /\ phase \in {"copy", "fill"} => j \in 0..elf.ph[n].memsz
  BY <1>1 DEF InSegment, Typed
<1> QED
  BY <1>1, <1>2 DEF Progress

\* What is covered lies in the segment.
LEMMA CoveredInside ==
    ASSUME Typed, InSegment, NEW n \in Loaded, NEW a \in Nat, Covered(n, a)
    PROVE  a \in Cells(elf.ph[n])
<1>1. elf.ph[n].paddr <= a /\ a < elf.ph[n].paddr + Progress(n)
  BY DEF Covered
<1>2. elf.ph[n].paddr \in Nat /\ elf.ph[n].memsz \in Nat
  BY FileFacts DEF Typed
<1>3. Progress(n) \in 0..elf.ph[n].memsz
  BY ProgressBounds
<1> QED
  BY <1>1, <1>2, <1>3 DEF Cells

-----------------------------------------------------------------------------
(* The steps that write nothing.                                            *)

\* Until load2mem, no state that the invariant speaks of changes.
LEMMA EarlySteps ==
    ASSUME LInv, phase \in Early, phase' \in Early \cup {"lost"},
           UNCHANGED <<mem, elf, regs, disk, delivered, left, i_ph, j>>
    PROVE  LInv'
<1> USE DEF Early
<1>1. Typed'
  BY DEF LInv, Typed, Phases
<1>2. BeforeLoad' /\ BelowBuffer' /\ InLoad' /\ InSegment'
  BY DEF LInv, BeforeLoad, BelowBuffer, InLoad, InSegment, Initial
<1>3. Placing'
  BY DEF Placing, Reading
<1> QED
  BY <1>1, <1>2, <1>3 DEF LInv

\* The command starts the load with an empty part of the buffer.
LEMMA CommandStep ==
    ASSUME LInv, Command
    PROVE  LInv'
<1>1. /\ phase = "command" /\ phase' = "load" /\ regs' = Written(Start, Sectors)
      /\ disk' = "busy" /\ left' = Sectors /\ UNCHANGED <<mem, elf, delivered, i_ph, j>>
  BY DEF Command
<1>2. Sectors \in Nat /\ (Sectors - Sectors) * SectorWords = 0 /\ delivered = 0
  BY <1>1, LoaderAssumption DEF LInv, BeforeLoad, Early
<1>3. Typed'
  BY <1>1, <1>2 DEF LInv, Typed, Phases
<1>4. InLoad'
  <2>1. 0..((Sectors - left') * SectorWords - 1) = {}
    BY <1>1, <1>2
  <2> QED
    BY <1>1, <1>2, <2>1 DEF InLoad
<1>5. BeforeLoad' /\ BelowBuffer' /\ InSegment'
  BY <1>1 DEF LInv, BeforeLoad, BelowBuffer, InSegment, Initial, Early
<1>6. Placing'
  BY <1>1 DEF Placing, Reading
<1> QED
  BY <1>3, <1>4, <1>5, <1>6 DEF LInv

\* The drive has a sector ready or gives up.
LEMMA DriveSteps ==
    ASSUME LInv, disk' \in {"ready", "error"},
           UNCHANGED <<phase, mem, elf, regs, delivered, left, i_ph, j>>
    PROVE  LInv'
<1>1. Typed' /\ BeforeLoad' /\ BelowBuffer' /\ InSegment'
  BY DEF LInv, Typed, BeforeLoad, BelowBuffer, InSegment, Initial
<1>2. InLoad'
  BY DEF LInv, InLoad, Intact
<1>3. Placing'
  BY DEF LInv, Placing, Apart, Loaded, Intact, Covered, Progress, Initial
<1> QED
  BY <1>1, <1>2, <1>3 DEF LInv

\* When no cell is written and no loop goes on, the image stays.
LEMMA PlacingKept ==
    ASSUME Typed, Placing, phase \in Reading, phase' \in Reading, UNCHANGED <<mem, elf>>,
           Apart => \A n \in Loaded : Progress(n)' = Progress(n)
    PROVE  Placing'
<1>1. Apart' = Apart /\ Loaded' = Loaded
  BY DEF Apart, Loaded
<1> SUFFICES ASSUME Apart'
             PROVE  /\ phase' # "corrupt"
                    /\ \A k \in 0..(Words - 1) : Intact(k)'
                    /\ \A n \in Loaded' : \A a \in 0..KernelCells :
                          Covered(n, a)' => mem'[a] = SegmentCell(elf'.ph[n], a)
                    /\ \A a \in 0..KernelCells :
                          (\A n \in Loaded' : ~Covered(n, a)') => mem'[a] = Initial(a)
  BY DEF Placing
<1>2. Apart
  BY <1>1
<1>3. \A n \in Loaded : \A a \in 0..KernelCells : Covered(n, a)' <=> Covered(n, a)
  BY <1>2 DEF Covered
<1>4. /\ \A k \in 0..(Words - 1) : Intact(k)
      /\ \A n \in Loaded : \A a \in 0..KernelCells :
            Covered(n, a) => mem[a] = SegmentCell(elf.ph[n], a)
      /\ \A a \in 0..KernelCells :
            (\A n \in Loaded : ~Covered(n, a)) => mem[a] = Initial(a)
  BY <1>2 DEF Placing
<1>5. \A k \in 0..(Words - 1) : Intact(k)'
  BY <1>4 DEF Intact
<1> QED
  BY <1>1, <1>3, <1>4, <1>5 DEF Reading

\* The last sector has arrived.
LEMMA LoadDoneStep ==
    ASSUME LInv, LoadDone
    PROVE  LInv'
<1>1. /\ phase = "load" /\ left = 0 /\ phase' = "elf"
      /\ UNCHANGED <<mem, elf, regs, disk, delivered, left, i_ph, j>>
  BY DEF LoadDone
<1>2. Typed' /\ BeforeLoad' /\ BelowBuffer' /\ InLoad' /\ InSegment'
  BY <1>1 DEF LInv, Typed, BeforeLoad, BelowBuffer, InLoad, InSegment, Phases, Early
<1>3. Placing'
  <2>1. i_ph = 0
    BY <1>1 DEF LInv, BeforeLoad
  <2>2. \A k \in 0..(Words - 1) : Intact(k)'
    <3>1. (Sectors - left) * SectorWords = Words
      BY <1>1, LoaderAssumption DEF Words
    <3>2. \A k \in 0..(Words - 1) : Intact(k)
      BY <1>1, <3>1 DEF LInv, InLoad
    <3> QED
      BY <1>1, <3>2 DEF Intact
  <2>3. \A n \in Loaded' : Progress(n)' = 0 /\ elf'.ph[n].paddr \in Nat
    <3>1. Loaded \subseteq 1..Len(elf.ph) /\ Len(elf.ph) \in Nat
          /\ \A n \in 1..Len(elf.ph) : elf.ph[n].paddr \in Nat
      BY FileFacts DEF LInv, Typed
    <3>2. Loaded' = Loaded
      BY <1>1 DEF Loaded
    <3> QED
      BY <1>1, <2>1, <3>1, <3>2 DEF Progress
  <2>4. \A n \in Loaded' : \A a \in 0..KernelCells : ~Covered(n, a)'
    BY <2>3, LoaderAssumption DEF Covered
  <2>5. \A a \in 0..KernelCells : mem'[a] = Initial(a)
    BY <1>1 DEF LInv, BelowBuffer
  <2> QED
    BY <1>1, <2>2, <2>4, <2>5 DEF Placing
<1> QED
  BY <1>2, <1>3 DEF LInv

\* A header can be read as long as the segments lie apart.
LEMMA HeadersIntact ==
    ASSUME LInv, Apart, phase \in Reading
    PROVE  \A n \in 0..Len(elf.ph) : Intact(n)
<1>1. Len(elf.ph) \in Nat /\ Len(elf.ph) < Words /\ Words \in Nat
  BY FileFacts, Layout DEF LInv, Typed
<1>2. \A k \in 0..(Words - 1) : Intact(k)
  BY DEF LInv, Placing
<1> QED
  BY <1>1, <1>2

\* Steps of read_elf that end the loader, or go on in it without a write.
LEMMA ReadingSteps ==
    ASSUME LInv, phase \in Reading \ {"elf"} \/ (phase = "elf" /\ i_ph' = i_ph),
           phase' \in Phases \ (Early \cup {"load", "elf"}),
           UNCHANGED <<mem, elf, left, delivered>>,
           i_ph' \in 0..Len(elf.ph), j' \in Nat, InSegment',
           Apart => phase' # "corrupt",
           phase' \in Reading /\ Apart => \A n \in Loaded : Progress(n)' = Progress(n)
    PROVE  LInv'
<1>1. Typed'
  BY DEF LInv, Typed
<1>2. BeforeLoad' /\ BelowBuffer' /\ InLoad'
  BY DEF BeforeLoad, BelowBuffer, InLoad, Early
<1>3. Placing'
  <2>1. CASE phase' \in Reading
    <3>1. phase \in Reading
      BY DEF Reading
    <3> QED
      BY <2>1, <3>1, PlacingKept DEF LInv
  <2>2. CASE phase' \notin Reading
    <3>1. Apart' = Apart
      BY DEF Apart, Loaded
    <3> QED
      BY <2>2, <3>1 DEF Placing
  <2> QED
    BY <2>1, <2>2
<1> QED
  BY <1>1, <1>2, <1>3 DEF LInv

\* The magic number.
LEMMA MagicStep ==
    ASSUME LInv, ReadMagic
    PROVE  LInv'
<1>1. /\ phase = "elf" /\ i_ph' = 0 /\ phase' \in {"corrupt", "nowhere", "phdr"}
      /\ phase' = "corrupt" => ~Intact(0)
      /\ UNCHANGED <<mem, elf, delivered, left, j>>
  BY DEF ReadMagic
<1>2. i_ph = 0 /\ j \in Nat /\ Len(elf.ph) \in Nat
  BY <1>1, FileFacts DEF LInv, BeforeLoad, Typed
<1>3. Apart => Intact(0)
  BY <1>1, <1>2, HeadersIntact DEF Reading
<1>4. InSegment'
  BY <1>1 DEF InSegment
<1>5. \A n \in Loaded : Progress(n)' = Progress(n)
  BY <1>1, <1>2 DEF Progress
<1> QED
  BY <1>1, <1>2, <1>3, <1>4, <1>5, ReadingSteps DEF Phases, Early

\* The test of the loop over the program headers.
LEMMA HeaderStep ==
    ASSUME LInv, NextHeader
    PROVE  LInv'
<1>1. phase = "phdr" /\ j' = 0 /\ UNCHANGED <<mem, elf, delivered, left>>
  BY DEF NextHeader
<1>2. /\ i_ph \in 0..Len(elf.ph) /\ Len(elf.ph) \in Nat /\ Loaded \subseteq 1..Len(elf.ph)
      /\ DOMAIN elf.ph = 1..Len(elf.ph)
      /\ \A n \in 1..Len(elf.ph) : elf.ph[n].filesz \in Nat
  BY FileFacts DEF LInv, Typed
<1>3. CASE i_ph = Len(elf.ph)
  <2>1. phase' \in {"kernel", "corrupt"} /\ i_ph' = i_ph /\ (phase' = "corrupt" => ~Intact(0))
    BY <1>3 DEF NextHeader
  <2>2. Apart => Intact(0)
    BY <1>1, <1>2, HeadersIntact DEF Reading
  <2>3. InSegment'
    BY <1>1, <1>3, <2>1 DEF InSegment
  <2>4. \A n \in Loaded : Progress(n)' = Progress(n)
    BY <1>1, <2>1 DEF Progress
  <2> QED
    BY <1>1, <1>2, <2>1, <2>2, <2>3, <2>4, ReadingSteps DEF Phases, Early, Reading
<1>4. CASE i_ph # Len(elf.ph) /\ (~Intact(0) \/ ~Intact(i_ph + 1))
  <2>1. phase' = "corrupt" /\ i_ph' = i_ph
    BY <1>4 DEF NextHeader
  <2>2. ~Apart
    BY <1>1, <1>2, <1>4, HeadersIntact DEF Reading
  <2>3. InSegment'
    BY <2>1 DEF InSegment
  <2> QED
    BY <1>1, <1>2, <2>1, <2>2, <2>3, ReadingSteps DEF Phases, Early, Reading
<1>5. CASE i_ph # Len(elf.ph) /\ Intact(0) /\ Intact(i_ph + 1) /\ ph.load
  <2>1. phase' = "copy" /\ i_ph' = i_ph
    BY <1>5 DEF NextHeader
  <2>2. InSegment'
    BY <1>1, <1>2, <1>5, <2>1 DEF InSegment, ph
  <2>3. \A n \in Loaded : Progress(n)' = Progress(n)
    BY <1>1, <1>2, <2>1 DEF Progress
  <2> QED
    BY <1>1, <1>2, <2>1, <2>2, <2>3, ReadingSteps DEF Phases, Early, Reading
<1>6. CASE i_ph # Len(elf.ph) /\ Intact(0) /\ Intact(i_ph + 1) /\ ~ph.load
  <2>1. phase' = "phdr" /\ i_ph' = i_ph + 1
    BY <1>1, <1>6 DEF NextHeader
  <2>2. InSegment'
    BY <2>1 DEF InSegment
  <2>3. i_ph + 1 \notin Loaded
    BY <1>6 DEF Loaded, ph
  <2>4. \A n \in Loaded : n <= i_ph + 1 <=> n <= i_ph
    BY <1>2, <2>3
  <2>5. \A n \in Loaded : Progress(n)' = Progress(n)
    BY <1>1, <2>1, <2>4 DEF Progress
  <2> QED
    BY <1>1, <1>2, <1>6, <2>1, <2>2, <2>5, ReadingSteps DEF Phases, Early, Reading
<1> QED
  BY <1>3, <1>4, <1>5, <1>6

\* The ends of the two loops, and a header lost in them.
LEMMA LoopEnds ==
    ASSUME LInv, Copied \/ Filled \/ HeaderLost
    PROVE  LInv'
<1>1. /\ i_ph \in 0..Len(elf.ph) /\ Len(elf.ph) \in Nat /\ Loaded \subseteq 1..Len(elf.ph)
      /\ \A n \in 1..Len(elf.ph) : /\ elf.ph[n].filesz \in Nat /\ elf.ph[n].memsz \in Nat
                                   /\ elf.ph[n].filesz <= elf.ph[n].memsz
      /\ j \in Nat
  BY FileFacts DEF LInv, Typed
<1>2. phase \in {"copy", "fill"} /\ UNCHANGED <<mem, elf, delivered, left, j>>
  BY DEF Copied, Filled, HeaderLost
<1>3. i_ph < Len(elf.ph) /\ i_ph + 1 \in 1..Len(elf.ph)
  BY <1>1, <1>2 DEF LInv, InSegment
<1>4. CASE Copied
  <2>1. phase = "copy" /\ phase' = "fill" /\ i_ph' = i_ph /\ j = elf.ph[i_ph + 1].filesz
    BY <1>4 DEF Copied, ph
  <2>2. InSegment'
    BY <1>1, <1>2, <1>3, <2>1 DEF LInv, InSegment
  <2>3. \A n \in Loaded : Progress(n)' = Progress(n)
    BY <1>2, <2>1 DEF Progress
  <2> QED
    BY <1>1, <1>2, <2>1, <2>2, <2>3, ReadingSteps DEF Phases, Early, Reading
<1>5. CASE Filled
  <2>1. phase = "fill" /\ phase' = "phdr" /\ i_ph' = i_ph + 1 /\ j = elf.ph[i_ph + 1].memsz
    BY <1>5 DEF Filled, ph
  <2>2. InSegment'
    BY <2>1 DEF InSegment
  <2>3. \A n \in Loaded : Progress(n)' = Progress(n)
    BY <1>1, <1>2, <2>1 DEF Progress
  <2>4. i_ph' \in 0..Len(elf.ph)
    BY <1>1, <1>3, <2>1
  <2> QED
    BY <1>1, <1>2, <2>1, <2>2, <2>3, <2>4, ReadingSteps DEF Phases, Early, Reading
<1>6. CASE HeaderLost
  <2>1. phase' = "corrupt" /\ i_ph' = i_ph /\ ~Intact(i_ph + 1)
    BY <1>6 DEF HeaderLost
  <2>2. ~Apart
    BY <1>1, <1>2, <1>3, <2>1, HeadersIntact DEF Reading
  <2>3. InSegment'
    BY <2>1 DEF InSegment
  <2> QED
    BY <1>1, <1>2, <2>1, <2>2, <2>3, ReadingSteps DEF Phases, Early, Reading
<1> QED
  BY <1>4, <1>5, <1>6

-----------------------------------------------------------------------------
(* The steps that write memory.                                             *)

\* One sector: the part of the buffer that is the file grows by its words.
LEMMA SectorStep ==
    ASSUME LInv, ReadSector
    PROVE  LInv'
<1>1. /\ phase = "load" /\ left > 0 /\ left' = left - 1 /\ delivered' = delivered + 1
      /\ mem' = [a \in Addr |->
                   LET w == a - Buf - (Sectors - left) * SectorWords
                   IN  IF w \in 0..(SectorWords - 1)
                       THEN OnDisk((Lba(regs) + delivered) * SectorWords + w)
                       ELSE mem[a]]
      /\ disk' = IF delivered + 1 < Count(regs) THEN "busy" ELSE "idle"
      /\ UNCHANGED <<phase, elf, regs, i_ph, j>>
  BY DEF ReadSector
<1>2. /\ regs = Written(Start, Sectors) /\ delivered = Sectors - left
      /\ \A k \in 0..((Sectors - left) * SectorWords - 1) : Intact(k)
      /\ left \in 0..Sectors /\ delivered \in Nat
  BY <1>1 DEF LInv, InLoad, Typed
<1>3. Lba(regs) = Start /\ Count(regs) = Sectors
  BY <1>2, RegistersMean
<1> DEFINE D == Sectors - left
           E == D * SectorWords
<1>4. /\ D \in Nat /\ E \in Nat /\ D + 1 = Sectors - left' /\ D + 1 <= Sectors
      /\ (D + 1) * SectorWords = E + SectorWords /\ SectorWords \in Nat /\ SectorWords > 0
      /\ (Start + D) * SectorWords = Start * SectorWords + E
      /\ Start * SectorWords \in Nat
  BY <1>1, <1>2, LoaderAssumption
<1>5. E + SectorWords <= Words
  <2>1. SectorWords * (D + 1) <= SectorWords * Sectors
    BY <1>4, LoaderAssumption, Monotone
  <2> QED
    BY <1>4, <2>1, LoaderAssumption DEF Words
<1> HIDE DEF E
<1>6. \A a \in Addr :
         mem'[a] = IF a - Buf - E \in 0..(SectorWords - 1)
                   THEN OnDisk((Start + D) * SectorWords + (a - Buf - E)) ELSE mem[a]
  BY <1>1, <1>2, <1>3 DEF E
<1> HIDE DEF D
<1>7. /\ Words \in Nat /\ KernelCells \in Nat /\ Buf = KernelCells + 1
      /\ \A k \in 0..(Words - 1) : Buf + k \in Addr
      /\ \A a \in 0..KernelCells : a \in Addr
  BY Layout
<1>8. \A a \in 0..KernelCells : mem'[a] = mem[a]
  <2>1. \A a \in 0..KernelCells : a - Buf - E \notin 0..(SectorWords - 1)
    BY <1>4, <1>7
  <2> QED
    BY <1>6, <1>7, <2>1
<1>9. \A k \in 0..(E + SectorWords - 1) : Intact(k)'
  <2> SUFFICES ASSUME NEW k \in 0..(E + SectorWords - 1)
               PROVE  mem'[Buf + k] = OnDisk(Start * SectorWords + k)
    BY DEF Intact
  <2>1. Buf + k \in Addr /\ (Buf + k) - Buf - E = k - E /\ k \in Int
    BY <1>4, <1>5, <1>7
  <2>2. CASE k < E
    <3>1. k - E \notin 0..(SectorWords - 1) /\ k \in 0..(E - 1)
      BY <1>4, <2>1, <2>2
    <3>2. mem[Buf + k] = OnDisk(Start * SectorWords + k)
      BY <1>2, <3>1 DEF D, E, Intact
    <3> QED
      BY <1>6, <2>1, <3>1, <3>2
  <2>3. CASE k >= E
    <3>1. k - E \in 0..(SectorWords - 1)
      BY <1>4, <2>1, <2>3
    <3>2. (Start + D) * SectorWords + (k - E) = Start * SectorWords + k
      BY <1>4, <2>1
    <3> QED
      BY <1>6, <2>1, <3>1, <3>2
  <2> QED
    BY <1>4, <2>1, <2>2, <2>3
<1>10. InLoad'
  <2>1. delivered' = Sectors - left'
    BY <1>1, <1>2, <1>4 DEF D
  <2>2. \A k \in 0..((Sectors - left') * SectorWords - 1) : Intact(k)'
    BY <1>4, <1>9 DEF D
  <2>3. left' > 0 => disk' # "idle"
    BY <1>1, <1>2, <1>3, LoaderAssumption
  <2> QED
    BY <1>1, <1>2, <2>1, <2>2, <2>3 DEF InLoad
<1>11. Typed'
  <2>1. mem' = [a \in Addr |-> mem'[a]]
    BY <1>1
  <2>2. left' \in 0..Sectors /\ delivered' \in Nat
    BY <1>1, <1>2, LoaderAssumption
  <2> QED
    BY <1>1, <2>1, <2>2 DEF LInv, Typed
<1>12. BeforeLoad' /\ BelowBuffer' /\ InSegment' /\ Placing'
  BY <1>1, <1>8 DEF LInv, BeforeLoad, BelowBuffer, InSegment, Placing, Reading, Early
<1> QED
  BY <1>10, <1>11, <1>12 DEF LInv

\* The cell at offset k of a segment.
LEMMA CellOf ==
    ASSUME NEW p, p.paddr \in Nat, p.memsz \in Nat, NEW k \in Nat, k < p.memsz
    PROVE  p.paddr + k \in Cells(p)
  BY DEF Cells

\* A cell up to the last one and not the last one is before it.
LEMMA BeforeLast ==
    ASSUME NEW x \in Nat, NEW k \in Nat, NEW a \in Nat, a < x + (k + 1), a # x + k
    PROVE  a < x + k
  OBVIOUS

\* A word of a segment's part of the file lies in the buffer.
LEMMA WordOf ==
    ASSUME NEW o \in Nat, NEW k \in Nat, NEW f \in Nat, NEW w \in Nat, k < f, o + f <= w
    PROVE  o + k \in 0..(w - 1)
  OBVIOUS

\* One cell of a segment: it holds what the segment puts there, and no other
\* cell has changed.
LEMMA CellPlaced ==
    ASSUME LInv, Apart, phase \in {"copy", "fill"},
           j < elf.ph[i_ph + 1].memsz,
           mem' = [mem EXCEPT ![elf.ph[i_ph + 1].paddr + j] =
                                  SegmentCell(elf.ph[i_ph + 1], elf.ph[i_ph + 1].paddr + j)],
           j' = j + 1, UNCHANGED <<phase, elf, i_ph>>
    PROVE  Placing'
<1>1. PICK c \in 1..Len(elf.ph), b \in Nat :
         c = i_ph + 1 /\ b = elf.ph[c].paddr + j /\ c \in Loaded
  <2>1. i_ph + 1 \in 1..Len(elf.ph)
    BY FileFacts DEF LInv, InSegment, Typed
  <2>2. elf.ph[i_ph + 1].paddr + j \in Nat
    <3>1. elf.ph[i_ph + 1].paddr \in Nat
      BY <2>1, FileFacts DEF LInv, Typed
    <3>2. j \in Nat
      BY DEF LInv, Typed
    <3> QED
      BY <3>1, <3>2
  <2>3. i_ph + 1 \in Loaded
    BY <2>1, FileFacts DEF LInv, InSegment, Typed, Loaded
  <2> QED
    BY <2>1, <2>2, <2>3
<1>2. /\ Loaded' = Loaded /\ Apart' = Apart
  BY DEF Loaded, Apart
<1>3. /\ j \in Nat /\ i_ph \in Nat /\ c = i_ph + 1 /\ Loaded \subseteq 1..Len(elf.ph)
      /\ \A n \in Loaded : /\ elf.ph[n].paddr \in Nat /\ elf.ph[n].memsz \in Nat
                           /\ n \in Nat
      /\ mem = [a \in Addr |-> mem[a]]
  BY <1>1, FileFacts DEF LInv, Typed
<1>4. \A n \in Loaded : Progress(n) \in 0..elf.ph[n].memsz
  BY ProgressBounds DEF LInv
<1>5. b \in Cells(elf.ph[c]) /\ b \in 1..KernelCells
  <2>1. b \in Cells(elf.ph[c])
    BY <1>1, <1>3, CellOf
  <2> QED
    BY <1>1, <2>1 DEF Apart
<1>6. /\ \A k \in 0..(Words - 1) : Buf + k \in Addr /\ Buf + k \notin 0..KernelCells
      /\ \A a \in 0..KernelCells : a \in Addr
      /\ KernelCells \in Nat
  BY Layout
<1>7. /\ mem'[b] = SegmentCell(elf.ph[c], b)
      /\ \A a \in Addr : a # b => mem'[a] = mem[a]
  <2>1. b \in Addr
    BY <1>5, <1>6
  <2> QED
    BY <1>1, <1>3, <2>1
<1>8. /\ \A k \in 0..(Words - 1) : Intact(k)
      /\ \A n \in Loaded : \A a \in 0..KernelCells :
            Covered(n, a) => mem[a] = SegmentCell(elf.ph[n], a)
      /\ \A a \in 0..KernelCells :
            (\A n \in Loaded : ~Covered(n, a)) => mem[a] = Initial(a)
  BY DEF LInv, Placing, Reading
<1>9. \A k \in 0..(Words - 1) : Intact(k)'
  <2>1. \A k \in 0..(Words - 1) : Buf + k # b
    BY <1>5, <1>6
  <2> QED
    BY <1>6, <1>7, <1>8, <2>1 DEF Intact
<1>10. /\ \A n \in Loaded : n # c => Progress(n)' = Progress(n)
       /\ Progress(c) = j /\ Progress(c)' = j + 1
  BY <1>1, <1>3 DEF Progress
<1>11. \A n \in Loaded : \A a \in 0..KernelCells : Covered(n, a)' => (Covered(n, a) \/ (n = c /\ a = b))
  <2>1. ASSUME NEW n \in Loaded, NEW a \in 0..KernelCells, n # c, Covered(n, a)'
        PROVE  Covered(n, a)
    BY <1>10, <2>1 DEF Covered
  <2>2. ASSUME NEW a \in 0..KernelCells, Covered(c, a)', a # b
        PROVE  Covered(c, a)
    <3>1. elf.ph[c].paddr <= a /\ a < elf.ph[c].paddr + (j + 1)
      BY <1>10, <2>2 DEF Covered
    <3>2. a < elf.ph[c].paddr + j
      <4>1. a \in Nat /\ elf.ph[c].paddr \in Nat /\ a # elf.ph[c].paddr + j
        BY <1>1, <1>3, <1>6, <2>2
      <4> QED
        BY <1>3, <3>1, <4>1, BeforeLast
    <3> QED
      BY <1>10, <3>1, <3>2 DEF Covered
  <2> QED
    BY <2>1, <2>2
<1>12. \A n \in Loaded : n # c => ~Covered(n, b)
  <2>1. ASSUME NEW n \in Loaded, Covered(n, b)
        PROVE  b \in Cells(elf.ph[n])
    BY <1>1, <2>1, CoveredInside DEF LInv
  <2>2. \A n \in Loaded : n # c => b \notin Cells(elf.ph[n])
    BY <1>1, <1>5 DEF Apart
  <2> QED
    BY <2>1, <2>2
<1>13. ~Covered(c, b)
  BY <1>1, <1>3, <1>10 DEF Covered
<1>14. \A n \in Loaded : \A a \in 0..KernelCells :
          Covered(n, a)' => mem'[a] = SegmentCell(elf.ph[n], a)
  <2> SUFFICES ASSUME NEW n \in Loaded, NEW a \in 0..KernelCells, Covered(n, a)'
               PROVE  mem'[a] = SegmentCell(elf.ph[n], a)
    OBVIOUS
  <2>1. CASE n = c /\ a = b
    BY <1>7, <2>1
  <2>2. CASE Covered(n, a)
    <3>1. a # b
      BY <1>12, <1>13, <2>2
    <3> QED
      BY <1>6, <1>7, <1>8, <2>2, <3>1
  <2> QED
    BY <1>11, <2>1, <2>2
<1>15. \A a \in 0..KernelCells : (\A n \in Loaded : ~Covered(n, a)') => mem'[a] = Initial(a)
  <2> SUFFICES ASSUME NEW a \in 0..KernelCells, \A n \in Loaded : ~Covered(n, a)'
               PROVE  mem'[a] = Initial(a)
    OBVIOUS
  <2>1. a # b
    <3>1. Covered(c, b)'
      BY <1>1, <1>3, <1>10 DEF Covered
    <3> QED
      BY <1>1, <3>1
  <2>2. \A n \in Loaded : ~Covered(n, a)
    <3>1. \A n \in Loaded : n # c => ~Covered(n, a)
      BY <1>10 DEF Covered
    <3>2. ~Covered(c, a)
      <4>1. Covered(c, a) => Covered(c, a)'
        BY <1>1, <1>3, <1>6, <1>10 DEF Covered
      <4> QED
        BY <1>1, <4>1
    <3> QED
      BY <3>1, <3>2
  <2> QED
    BY <1>6, <1>7, <1>8, <2>1, <2>2
<1>16. phase' # "corrupt" /\ elf' = elf
  OBVIOUS
<1> QED
  BY <1>2, <1>9, <1>14, <1>15, <1>16 DEF Placing

\* One round of the loop that copies, or of the one that clears.
LEMMA CellSteps ==
    ASSUME LInv, CopyCell \/ FillCell
    PROVE  LInv'
<1>1. /\ phase \in {"copy", "fill"} /\ j' = j + 1
      /\ UNCHANGED <<phase, elf, delivered, left, i_ph, regs, disk>>
  BY DEF CopyCell, FillCell
<1>2. /\ i_ph + 1 \in 1..Len(elf.ph) /\ i_ph < Len(elf.ph) /\ elf.ph[i_ph + 1].load
      /\ j \in Nat /\ Len(elf.ph) \in Nat
  BY <1>1, FileFacts DEF LInv, InSegment, Typed
<1> DEFINE p == elf.ph[i_ph + 1]
<1>3. /\ p.paddr \in Nat /\ p.offset \in Nat /\ p.filesz \in Nat /\ p.memsz \in Nat
      /\ p.filesz <= p.memsz /\ p.offset + p.filesz <= Words
  BY <1>2, FileFacts DEF LInv, Typed
<1>4. /\ phase = "copy" => j < p.filesz /\ mem' = [mem EXCEPT ![p.paddr + j] = mem[Buf + p.offset + j]]
      /\ phase = "fill" => j < p.memsz /\ mem' = [mem EXCEPT ![p.paddr + j] = Zero]
  BY DEF CopyCell, FillCell, ph
<1>5. InSegment'
  BY <1>1, <1>2, <1>3, <1>4 DEF LInv, InSegment
<1>6. Typed'
  <2>1. mem' = [a \in Addr |-> mem'[a]]
    BY <1>1, <1>4 DEF LInv, Typed
  <2> QED
    BY <1>1, <1>2, <2>1 DEF LInv, Typed
<1>7. BeforeLoad' /\ BelowBuffer' /\ InLoad'
  BY <1>1 DEF BeforeLoad, BelowBuffer, InLoad, Early
<1>8. Placing'
  <2>1. CASE ~Apart
    <3>1. ~Apart'
      BY <1>1, <2>1 DEF Apart, Loaded
    <3> QED
      BY <3>1 DEF Placing
  <2>2. CASE Apart
    <3>1. j < p.memsz
      BY <1>1, <1>2, <1>3, <1>4
    <3>2. mem' = [mem EXCEPT ![p.paddr + j] = SegmentCell(p, p.paddr + j)]
      <4>1. (p.paddr + j) - p.paddr = j
        BY <1>2, <1>3
      <4>2. CASE phase = "copy"
        <5>1. p.offset + j \in 0..(Words - 1)
          <6>1. Words \in Nat /\ j < p.filesz
            BY <1>4, <4>2, Layout
          <6> QED
            BY <1>2, <1>3, <6>1, WordOf
        <5>2. mem[Buf + (p.offset + j)] = OnDisk(Start * SectorWords + (p.offset + j))
          BY <2>2, <4>2, <5>1 DEF LInv, Placing, Reading, Intact
        <5>3. /\ Buf + (p.offset + j) = Buf + p.offset + j
              /\ Start * SectorWords + (p.offset + j) = Start * SectorWords + p.offset + j
          <6>1. Buf \in Nat /\ Start * SectorWords \in Nat
            BY Layout, LoaderAssumption
          <6> QED
            BY <1>2, <1>3, <6>1
        <5>4. SegmentCell(p, p.paddr + j) = OnDisk(Start * SectorWords + p.offset + j)
          BY <1>4, <4>1, <4>2 DEF SegmentCell
        <5> QED
          BY <1>4, <4>2, <5>2, <5>3, <5>4
      <4>3. CASE phase = "fill"
        <5>1. ~(j < p.filesz)
          BY <1>2, <1>3, <4>3 DEF LInv, InSegment
        <5>2. SegmentCell(p, p.paddr + j) = Zero
          BY <4>1, <5>1 DEF SegmentCell
        <5> QED
          BY <1>4, <4>3, <5>2
      <4> QED
        BY <1>1, <4>2, <4>3
    <3> QED
      BY <1>1, <2>2, <3>1, <3>2, CellPlaced
  <2> QED
    BY <2>1, <2>2
<1> QED
  BY <1>5, <1>6, <1>7, <1>8 DEF LInv

-----------------------------------------------------------------------------
(* The theorems.                                                            *)

\* The loader's initial state: nothing is written.
LEMMA LInvInit == LoaderInit => LInv
<1> SUFFICES ASSUME LoaderInit PROVE LInv
  OBVIOUS
<1>1. /\ phase = "boot" /\ mem = [a \in Addr |-> IF a = Info THEN Recorded ELSE Old]
      /\ elf \in Files /\ delivered = 0 /\ left = 0 /\ i_ph = 0 /\ j = 0
  BY DEF LoaderInit
<1>2. Len(elf.ph) \in Nat
  BY <1>1, FileFacts
<1>3. Typed
  BY <1>1, <1>2, LoaderAssumption DEF Typed, Phases
<1>4. BelowBuffer
  BY <1>1, Layout DEF BelowBuffer, Initial
<1>5. BeforeLoad /\ InLoad /\ InSegment /\ Placing
  BY <1>1 DEF BeforeLoad, InLoad, InSegment, Placing, Reading
<1> QED
  BY <1>3, <1>4, <1>5 DEF LInv

\* Every step keeps the invariant.
LEMMA LInvNext == LInv /\ [LoaderNext]_allVars => LInv'
<1> SUFFICES ASSUME LInv, [LoaderNext]_allVars PROVE LInv'
  OBVIOUS
<1>1. CASE ReadFails \/ read_loader \/ detect_method1 \/ detect_memory \/ enter_portected
  <2>1. /\ phase \in Early /\ phase' \in Early \cup {"lost"}
        /\ UNCHANGED <<mem, elf, regs, disk, delivered, left, i_ph, j>>
    BY <1>1 DEF ReadFails, read_loader, detect_method1, detect_memory, enter_portected, loadVars, Early
  <2> QED
    BY <2>1, EarlySteps
<1>2. CASE DriveReady \/ DriveFails
  BY <1>2, DriveSteps DEF DriveReady, DriveFails
<1>3. CASE Command \/ LoadDone \/ ReadSector
  BY <1>3, CommandStep, LoadDoneStep, SectorStep
<1>4. CASE ReadMagic \/ NextHeader
  BY <1>4, MagicStep, HeaderStep
<1>5. CASE Copied \/ Filled \/ HeaderLost
  BY <1>5, LoopEnds
<1>6. CASE CopyCell \/ FillCell
  BY <1>6, CellSteps
<1>7. CASE UNCHANGED allVars
  <2>1. UNCHANGED <<phase, mem, elf, regs, disk, delivered, left, i_ph, j>>
    BY <1>7 DEF allVars, loadVars
  <2>2. Typed' /\ BeforeLoad' /\ BelowBuffer' /\ InSegment'
    BY <2>1 DEF LInv, Typed, BeforeLoad, BelowBuffer, InSegment, Initial
  <2>3. InLoad'
    BY <2>1 DEF LInv, InLoad, Intact
  <2>4. Placing'
    BY <2>1 DEF LInv, Placing, Apart, Loaded, Intact, Covered, Progress, Initial
  <2> QED
    BY <2>2, <2>3, <2>4 DEF LInv
<1> QED
  BY <1>1, <1>2, <1>3, <1>4, <1>5, <1>6, <1>7 DEF LoaderNext, LoaderStep

\* The inductive invariant of the loader.
THEOREM LoaderInvariant == LoaderSpec => []LInv
  BY LInvInit, LInvNext, PTL DEF LoaderSpec

\* For every sector number, count and sector size: while load2mem reads, the
\* buffer holds the file from its start without a gap, and the drive does not
\* stop before the last sector that load2mem waits for.
THEOREM SectorsArriveInPlace == LoaderSpec => []BufferIsFile
<1>1. LInv => BufferIsFile
  BY DEF LInv, InLoad, BufferIsFile
<1> QED
  BY <1>1, LoaderInvariant, PTL

\* For every kernel whose segments lie apart: read_elf never reads a header
\* that was overwritten, and the kernel is entered with every segment in its
\* place, cleared behind its part of the file, and nothing else changed.
THEOREM SegmentsArePlaced == LoaderSpec => []ImagePlaced
<1>1. ASSUME LInv PROVE ImagePlaced
  <2> SUFFICES ASSUME Apart, phase = "kernel", NEW a \in 0..KernelCells
               PROVE  IF \E n \in Loaded : a \in Cells(elf.ph[n])
                      THEN \E n \in Loaded :
                              LET p == elf.ph[n]
                                  k == a - p.paddr
                              IN  /\ a \in Cells(p)
                                  /\ mem[a] = IF k < p.filesz
                                              THEN OnDisk(Start * SectorWords + p.offset + k)
                                              ELSE Zero
                      ELSE mem[a] = IF a = Info THEN Recorded ELSE Old
    BY <1>1 DEF ImagePlaced, LInv, Placing
  <2>1. i_ph = Len(elf.ph)
    BY <1>1 DEF LInv, InSegment
  <2>2. /\ Loaded \subseteq 1..Len(elf.ph) /\ Len(elf.ph) \in Nat
        /\ \A n \in 1..Len(elf.ph) : elf.ph[n].paddr \in Nat /\ elf.ph[n].memsz \in Nat
    BY <1>1, FileFacts DEF LInv, Typed
  <2>3. \A n \in Loaded : Covered(n, a) <=> a \in Cells(elf.ph[n])
    <3>1. \A n \in Loaded : Progress(n) = elf.ph[n].memsz
      BY <2>1, <2>2 DEF Progress
    <3>2. ASSUME NEW n \in Loaded PROVE Covered(n, a) <=> a \in Cells(elf.ph[n])
      <4>1. /\ elf.ph[n].paddr \in Nat /\ elf.ph[n].memsz \in Nat /\ a \in Nat
            /\ Progress(n) = elf.ph[n].memsz
        BY <2>2, <3>1, LoaderAssumption
      <4> QED
        BY <4>1 DEF Covered, Cells
    <3> QED
      BY <3>2
  <2>4. /\ \A n \in Loaded : Covered(n, a) => mem[a] = SegmentCell(elf.ph[n], a)
        /\ (\A n \in Loaded : ~Covered(n, a)) => mem[a] = Initial(a)
    BY <1>1 DEF LInv, Placing, Reading
  <2>5. CASE \E n \in Loaded : a \in Cells(elf.ph[n])
    <3>1. PICK n \in Loaded : a \in Cells(elf.ph[n])
      BY <2>5
    <3>2. mem[a] = SegmentCell(elf.ph[n], a)
      BY <2>3, <2>4, <3>1
    <3> QED
      BY <3>1, <3>2 DEF SegmentCell
  <2>6. CASE ~ \E n \in Loaded : a \in Cells(elf.ph[n])
    BY <2>3, <2>4, <2>6 DEF Initial
  <2> QED
    BY <2>5, <2>6
<1> QED
  BY <1>1, LoaderInvariant, PTL
=============================================================================
