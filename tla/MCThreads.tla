----------------------------- MODULE MCThreads -----------------------------
(***************************************************************************)
(* An instance of the kernel threads and their semaphore for TLC.          *)
(***************************************************************************)
EXTENDS Threads
=============================================================================
