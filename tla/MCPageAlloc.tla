---------------------------- MODULE MCPageAlloc ----------------------------
(***************************************************************************)
(* Instances of the page allocator for TLC: a bitmap of a few pages, with  *)
(* the limit of kalloc_pages inside the user area as in the code.          *)
(***************************************************************************)
EXTENDS PageAlloc, TLC

\* The clients are interchangeable.
ClientSymmetry == Permutations(Clients)
=============================================================================
