------------------------------- MODULE Loader -------------------------------
(***************************************************************************)
(* From the boot sector to the kernel: boot/start.S reads the loader, the  *)
(* loader detects the memory (MemDetect), enters protected mode, reads the *)
(* kernel's ELF file from the disk with load2mem and places its segments   *)
(* with read_elf (loader32.c), and jumps to the entry point.               *)
(*                                                                         *)
(* Memory is a function on a few cells: one holds mem, what the detection  *)
(* recorded, some lie where the kernel goes, and the rest is the buffer.   *)
(* A cell holds a token that says where its contents came from.  A header  *)
(* of the file is one cell; it can be read as long as its cell holds it.   *)
(* The drive is external: it keeps the last two bytes written to each of   *)
(* its registers and delivers sectors in order, or stops with an error.    *)
(***************************************************************************)
EXTENDS MemDetect

CONSTANTS
    Files,        \* kernels: [magic, ph], ph a sequence of program headers
    KernelCells,  \* number of cells where the kernel goes, from 1
    Start,        \* first sector of the file on the disk, 100
    Sectors,      \* sectors that are read, 500
    SectorWords,  \* cells in a sector
    Byte,         \* values of a byte, 256
    MaxRetries    \* bound: failed reads of the boot sector

ASSUME LoaderAssumption ==
    /\ Start \in Nat /\ Sectors \in Nat \ {0} /\ SectorWords \in Nat \ {0}
    /\ Byte \in Nat \ {0, 1} /\ KernelCells \in Nat \ {0} /\ MaxRetries \in Nat

\* sector is a uint32_t and sector_count a uint16_t.
ASSUME WidthsAssumption ==
    /\ Start < Byte * Byte * Byte * Byte
    /\ Sectors < Byte * Byte

ProgramHeaders == [load : BOOLEAN, offset : Nat, paddr : Nat, filesz : Nat, memsz : Nat]

\* ELF files as a linker writes them: no segment is longer in the file than in
\* memory, and the headers and the segments lie in the sectors that are read.
ASSUME FilesAssumption ==
    /\ Files \subseteq [magic : BOOLEAN, ph : Seq(ProgramHeaders)]
    /\ \A f \in Files :
        /\ Len(f.ph) < Sectors * SectorWords
        /\ \A n \in DOMAIN f.ph : /\ f.ph[n].filesz <= f.ph[n].memsz
                                  /\ f.ph[n].offset + f.ph[n].filesz <= Sectors * SectorWords

VARIABLES
    phase,     \* where the loader stands
    saved,     \* sets of registers that failed reads left on the stack
    mem,       \* the contents of memory
    elf,       \* the file that is on the disk at Start
    regs,      \* the last two bytes written to each register of the drive
    disk,      \* the drive's status: "idle", "busy", "ready" or "error"
    delivered, \* sectors of the command that were delivered
    left,      \* sector_count of load2mem
    i_ph,      \* the variable i of read_elf
    j          \* its variable j

loadVars == <<phase, saved, mem, elf, regs, disk, delivered, left, i_ph, j>>
allVars == <<vars, loadVars>>

Info == 0
Buf == KernelCells + 1
Addr == 0..(KernelCells + Sectors * SectorWords)

\* Tokens: what is on the disk at word n, a zero that was written, what the
\* detection recorded, and what was there before.
OnDisk(n) == <<"disk", n>>
Zero == <<"zero", 0>>
Recorded == <<"info", 0>>
Old == <<"old", 0>>

\* "lost": a return to a saved register; "nowhere": a jump to 0; "corrupt": a
\* header was read that had been overwritten.
Phases == {"boot", "detect", "protected", "command", "load", "elf", "phdr", "copy",
           "fill", "kernel", "lost", "nowhere", "corrupt"}

LoaderInit ==
    /\ Init
    /\ phase = "boot"
    /\ saved = 0
    /\ mem = [a \in Addr |-> IF a = Info THEN Recorded ELSE Old]
    /\ elf \in Files
    /\ regs = [r \in {"count", "low", "mid", "high"} |-> <<0, 0>>]
    /\ disk = "idle"
    /\ delivered = 0
    /\ left = 0
    /\ i_ph = 0 /\ j = 0

-----------------------------------------------------------------------------
(* The boot sector and the real mode part.                                  *)

\* int 0x13 fails: jc goes back to the label in front of the pushes.
ReadFails ==
    /\ phase = "boot" /\ saved < MaxRetries
    /\ saved' = saved + 1
    /\ UNCHANGED <<vars, phase, mem, elf, regs, disk, delivered, left, i_ph, j>>

\* It succeeds: one set of registers is popped, and ret takes the next word.
read_loader ==
    /\ phase = "boot"
    /\ phase' = IF saved = 0 THEN "detect" ELSE "lost"
    /\ UNCHANGED <<vars, saved, mem, elf, regs, disk, delivered, left, i_ph, j>>

detect_method1 == phase = "detect" /\ DetectStep /\ UNCHANGED loadVars

\* Methods two and three return false, and no result is looked at.
detect_memory ==
    /\ phase = "detect" /\ result # "loop"
    /\ phase' = "protected"
    /\ UNCHANGED <<vars, saved, mem, elf, regs, disk, delivered, left, i_ph, j>>

\* cli, A20, the descriptor table and the bit PE: no state that is read later.
enter_portected ==
    /\ phase = "protected"
    /\ phase' = "command"
    /\ UNCHANGED <<vars, saved, mem, elf, regs, disk, delivered, left, i_ph, j>>

-----------------------------------------------------------------------------
(* load2mem.                                                                *)

\* The low byte of n, shifted to the right by bits that count to unit.
Digit(n, unit) == (n \div unit) % Byte
Byte2 == Byte * Byte
Byte3 == Byte * Byte2

\* Mutant: the low bytes are written before the high ones.
WrittenLowFirst(sector, count) ==
    [count |-> <<Digit(count, 1), Digit(count, Byte)>>,
     low |-> <<Digit(sector, 1), Digit(sector, Byte3)>>,
     mid |-> <<Digit(sector, Byte), 0>>,
     high |-> <<Digit(sector, Byte2), 0>>]

\* The two bytes written to each of the ports 0x1F2 to 0x1F5.
Written(sector, count) ==
    [count |-> <<Digit(count, Byte), Digit(count, 1)>>,
     low |-> <<Digit(sector, Byte3), Digit(sector, 1)>>,
     mid |-> <<0, Digit(sector, Byte)>>,
     high |-> <<0, Digit(sector, Byte2)>>]

\* The drive's reading of its registers: bytes 0 to 2 of the sector number are
\* the last ones written, bytes 3 to 5 the ones before.
Lba(r) == r.low[2] + Byte * r.mid[2] + Byte2 * r.high[2]
          + Byte3 * (r.low[1] + Byte * r.mid[1] + Byte2 * r.high[1])
Count(r) == LET n == Byte * r.count[1] + r.count[2] IN IF n = 0 THEN Byte2 ELSE n

\* The registers and the command 0x24.
Command ==
    /\ phase = "command"
    /\ phase' = "load"
    /\ regs' = Written(Start, Sectors)
    /\ disk' = "busy"
    /\ left' = Sectors
    /\ UNCHANGED <<vars, saved, mem, elf, delivered, i_ph, j>>

\* The drive has a sector ready, or gives up.
DriveReady ==
    /\ disk = "busy" /\ disk' = "ready"
    /\ UNCHANGED <<vars, phase, saved, mem, elf, regs, delivered, left, i_ph, j>>
DriveFails ==
    /\ disk = "busy" /\ disk' = "error"
    /\ UNCHANGED <<vars, phase, saved, mem, elf, regs, delivered, left, i_ph, j>>


\* The loop on the status register ends: not busy, and data to transfer.
Polled == disk = "ready"

\* The words of one sector.
ReadSector ==
    /\ phase = "load" /\ left > 0 /\ Polled
    /\ mem' = [a \in Addr |->
                 LET w == a - Buf - (Sectors - left) * SectorWords
                 IN  IF w \in 0..(SectorWords - 1)
                     THEN OnDisk((Lba(regs) + delivered) * SectorWords + w)
                     ELSE mem[a]]
    /\ left' = left - 1
    /\ delivered' = delivered + 1
    /\ disk' = IF delivered + 1 < Count(regs) THEN "busy" ELSE "idle"
    /\ UNCHANGED <<vars, phase, saved, elf, regs, i_ph, j>>

LoadDone ==
    /\ phase = "load" /\ left = 0
    /\ phase' = "elf"
    /\ UNCHANGED <<vars, saved, mem, elf, regs, disk, delivered, left, i_ph, j>>

-----------------------------------------------------------------------------
(* read_elf.  The file header is cell 0 of the file, program header n cell n. *)

Intact(n) == mem[Buf + n] = OnDisk(Start * SectorWords + n)
ph == elf.ph[i_ph + 1]

\* The magic number; without it 0 is returned, and jumped to.
ReadMagic ==
    /\ phase = "elf"
    /\ phase' = CASE ~Intact(0) -> "corrupt"
                  [] Intact(0) /\ ~elf.magic -> "nowhere"
                  [] OTHER -> "phdr"
    /\ i_ph' = 0
    /\ UNCHANGED <<vars, saved, mem, elf, regs, disk, delivered, left, j>>

\* The test of the loop over the program headers and the test for PT_LOAD; at
\* the end of the loop the entry point is read from the header.
NextHeader ==
    /\ phase = "phdr"
    /\ IF i_ph = Len(elf.ph)
       THEN phase' = (IF Intact(0) THEN "kernel" ELSE "corrupt") /\ UNCHANGED i_ph
       ELSE IF ~Intact(0) \/ ~Intact(i_ph + 1)
       THEN phase' = "corrupt" /\ UNCHANGED i_ph
       ELSE IF ph.load
       THEN phase' = "copy" /\ UNCHANGED i_ph
       ELSE phase' = phase /\ i_ph' = i_ph + 1
    /\ j' = 0
    /\ UNCHANGED <<vars, saved, mem, elf, regs, disk, delivered, left>>

\* One round of the copy loop.
CopyCell ==
    /\ phase = "copy" /\ Intact(i_ph + 1) /\ j < ph.filesz
    /\ mem' = [mem EXCEPT ![ph.paddr + j] = mem[Buf + ph.offset + j]]
    /\ j' = j + 1
    /\ UNCHANGED <<vars, phase, saved, elf, regs, disk, delivered, left, i_ph>>

\* Mutant: the rest is cleared from the start of the segment.
CopiedFromStart ==
    /\ phase = "copy" /\ Intact(i_ph + 1) /\ j = ph.filesz
    /\ phase' = "fill"
    /\ j' = 0
    /\ UNCHANGED <<vars, saved, mem, elf, regs, disk, delivered, left, i_ph>>

\* Its end; dest is computed again.
Copied ==
    /\ phase = "copy" /\ Intact(i_ph + 1) /\ j = ph.filesz
    /\ phase' = "fill"
    /\ UNCHANGED <<vars, saved, mem, elf, regs, disk, delivered, left, i_ph, j>>

\* One round of the loop that clears the rest.
FillCell ==
    /\ phase = "fill" /\ Intact(i_ph + 1) /\ j < ph.memsz
    /\ mem' = [mem EXCEPT ![ph.paddr + j] = Zero]
    /\ j' = j + 1
    /\ UNCHANGED <<vars, phase, saved, elf, regs, disk, delivered, left, i_ph>>

\* Its end, and the next program header.
Filled ==
    /\ phase = "fill" /\ Intact(i_ph + 1) /\ j = ph.memsz
    /\ phase' = "phdr"
    /\ i_ph' = i_ph + 1
    /\ UNCHANGED <<vars, saved, mem, elf, regs, disk, delivered, left, j>>

\* The loops read their bounds from the buffer.
HeaderLost ==
    /\ phase \in {"copy", "fill"} /\ ~Intact(i_ph + 1)
    /\ phase' = "corrupt"
    /\ UNCHANGED <<vars, saved, mem, elf, regs, disk, delivered, left, i_ph, j>>

-----------------------------------------------------------------------------
LoaderStep ==
    \/ ReadFails \/ read_loader \/ detect_method1 \/ detect_memory \/ enter_portected
    \/ Command \/ ReadSector \/ LoadDone
    \/ ReadMagic \/ NextHeader \/ CopyCell \/ Copied \/ FillCell \/ Filled \/ HeaderLost

LoaderNext == LoaderStep \/ DriveReady \/ DriveFails

LoaderSpec == LoaderInit /\ [][LoaderNext]_allVars

\* The processor executes the loader, and the drive answers a command.
FairLoader == LoaderSpec /\ WF_allVars(LoaderStep) /\ WF_allVars(DriveReady \/ DriveFails)

-----------------------------------------------------------------------------
Cells(p) == p.paddr .. (p.paddr + p.memsz - 1)
Loaded == {n \in DOMAIN elf.ph : elf.ph[n].load}

\* The layout that kernel.lds gives the kernel: its segments lie apart from
\* each other, from the loader's data and from the buffer.
Apart ==
    /\ \A n \in Loaded : Cells(elf.ph[n]) \subseteq 1..KernelCells
    /\ \A m, n \in Loaded : m # n => Cells(elf.ph[m]) \cap Cells(elf.ph[n]) = {}

\* While the sectors arrive, the buffer holds the file from its start, without
\* a gap: the two bytes of every register mean what load2mem means by them,
\* and the drive delivers as many sectors as load2mem waits for.
BufferIsFile ==
    phase = "load" =>
        /\ \A k \in 0..((Sectors - left) * SectorWords - 1) : Intact(k)
        /\ left > 0 => disk # "idle"

\* The kernel is entered with every loaded segment in its place, cleared behind
\* the part that is in the file, and nothing else in memory has changed, mem
\* included, which the kernel is given; and the headers are never read after
\* they have been overwritten.
ImagePlaced ==
    Apart =>
        /\ phase # "corrupt"
        /\ phase = "kernel" =>
            \A a \in 0..KernelCells :
                IF \E n \in Loaded : a \in Cells(elf.ph[n])
                THEN \E n \in Loaded :
                        LET p == elf.ph[n]
                            k == a - p.paddr
                        IN  /\ a \in Cells(p)
                            /\ mem[a] = IF k < p.filesz
                                        THEN OnDisk(Start * SectorWords + p.offset + k)
                                        ELSE Zero
                ELSE mem[a] = IF a = Info THEN Recorded ELSE Old

=============================================================================
