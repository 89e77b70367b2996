------------------------------- MODULE MCBoot -------------------------------
(***************************************************************************)
(* An instance of the start of the kernel for TLC, as the code is written. *)
(***************************************************************************)
EXTENDS Boot
=============================================================================
