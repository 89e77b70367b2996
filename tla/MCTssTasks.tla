---------------------------- MODULE MCTssTasks ----------------------------
(***************************************************************************)
(* An instance of the TSS tasks for TLC.                                   *)
(***************************************************************************)
EXTENDS TssTasks
=============================================================================
