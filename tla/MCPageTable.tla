---------------------------- MODULE MCPageTable ----------------------------
(***************************************************************************)
(* Instances of the address spaces for TLC.  Tables have four or six       *)
(* entries.                                                                *)
(***************************************************************************)
EXTENDS PageTable

\* The kernel maps its own pages and every page the allocator manages.
MapAll == << <<0, 1>>, <<1, FrameCount>> >>

\* The pages that are read as tables: the others' contents play no part, for a
\* page is cleared when it becomes a directory or a page table.
Tables == {Serving(mem, u[1], u[2], u[3]) : u \in {w \in Uses(mem, Held) : w[1] # "page"}}

UsedPart ==
    <<[p \in Tables \cup {KernelDir} |-> mem.entry[p]], mem.used, mem.mode, live,
      op, range, src, dir, at>>
=============================================================================
