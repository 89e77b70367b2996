----------------------------- MODULE MemDetect -----------------------------
(***************************************************************************)
(* Memory detection: the loop of detect_method1 in loader/loader16.c that  *)
(* asks the BIOS (int 0x15, function E820) for one memory range at a time. *)
(* What matters to the rest of the loader is that the loop ends.           *)
(*                                                                         *)
(* The BIOS is external.  It holds a map of ranges; a call with            *)
(* continuation id k answers with range k (0 is the first one), the id to  *)
(* go on with, which is 0 behind the last range, and the number of bytes   *)
(* it stored.                                                              *)
(***************************************************************************)
EXTENDS Integers, Sequences

CONSTANTS
    MaxRanges,     \* bound: ranges in the BIOS's map
    MaxMemLength,  \* MAX_MEM_LENGTH: rounds of the loop, entries of mem.info
    BytesStored,   \* what BIOSes return in ecx: 20, which is asked for, or more
    FirstIds,      \* what the variable countID, which is not set, may hold
    FirstCounts    \* what mem.count may hold: mem is in .bss, which loader.bin
                   \* leaves out and nobody clears, so it has what lies behind
                   \* the loader on the disk

ASSUME SizesAssumption ==
    /\ MaxRanges \in Nat \ {0} /\ MaxMemLength \in Nat \ {0}
    /\ FirstIds \subseteq Nat /\ FirstCounts \subseteq Nat
    /\ BytesStored \subseteq Nat

VARIABLES
    map,     \* the BIOS's ranges: TRUE is usable memory, type 1
    stored,  \* what this BIOS returns in ecx
    i,       \* the loop variable
    countID, \* the continuation id
    mem_count, \* mem.count; where the entry it indexes is stored is left out
    result   \* "loop", or what detect_method1 returned: "true", "false", or
             \* "undefined" behind the end of the loop, where no return is

vars == <<map, stored, i, countID, mem_count, result>>

\* countID is on the stack, mem in memory that is not cleared.
Init ==
    /\ map \in UNION {[1..n -> BOOLEAN] : n \in 1..MaxRanges}
    /\ stored \in BytesStored
    /\ i = 0
    /\ countID \in FirstIds
    /\ mem_count \in FirstCounts
    /\ result = "loop"

-----------------------------------------------------------------------------
\* The range that the BIOS answers with.
Answered == map[countID + 1]

\* The id that the BIOS returns.
Continuation == (countID + 1) % Len(map)

\* The BIOS refuses an id it did not give out: the signature is missing.
Refused ==
    /\ result = "loop" /\ i < MaxMemLength /\ countID >= Len(map)
    /\ result' = "false"
    /\ UNCHANGED <<map, stored, i, countID, mem_count>>

\* A usable range is recorded.
Record == mem_count' = IF Answered THEN mem_count + 1 ELSE mem_count

\* The tests behind the recording: the first one continues the loop before
\* the second one can end it.
Leave == stored # 20 /\ Continuation = 0

\* One round of the loop.
Round ==
    /\ result = "loop" /\ i < MaxMemLength /\ countID < Len(map)
    /\ Record
    /\ countID' = Continuation
    /\ i' = i + 1
    /\ result' = IF Leave THEN "true" ELSE "loop"
    /\ UNCHANGED <<map, stored>>

\* The loop ends after MAX_MEM_LENGTH rounds.
RunOut ==
    /\ result = "loop" /\ i >= MaxMemLength
    /\ result' = "undefined"
    /\ UNCHANGED <<map, stored, i, countID, mem_count>>

\* The loader does nothing else until the loop ends.
DetectStep == Refused \/ Round \/ RunOut
=============================================================================
