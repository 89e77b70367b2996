------------------------------ MODULE MCLoader ------------------------------
(***************************************************************************)
(* An instance of the loader for TLC.  A file has six words: the header,   *)
(* two program headers and three words of contents; the kernel goes to     *)
(* five cells in front of the buffer.                                      *)
(***************************************************************************)
EXTENDS Loader

Header(load, offset, paddr, filesz, memsz) ==
    [load |-> load, offset |-> offset, paddr |-> paddr, filesz |-> filesz, memsz |-> memsz]

\* Code, data with and without a cleared part, a part that is not loaded, one
\* that overlaps others, and ones over the loader's data and over the headers.
Headers ==
    {Header(TRUE, 3, 1, 2, 2), Header(TRUE, 4, 3, 2, 3), Header(TRUE, 5, 4, 0, 2),
     Header(TRUE, 3, 2, 3, 3), Header(FALSE, 3, 1, 2, 2), Header(TRUE, 3, 0, 1, 1),
     Header(TRUE, 3, 7, 2, 2)}

AllFiles ==
    {[magic |-> TRUE, ph |-> <<p, q>>] : p, q \in Headers}
        \cup {[magic |-> FALSE, ph |-> << >>], [magic |-> TRUE, ph |-> << >>]}
=============================================================================
