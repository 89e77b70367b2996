---------------------------- MODULE MCScheduler ----------------------------
(***************************************************************************)
(* An instance of the scheduler for TLC.  Besides the idle task and        *)
(* first_task there are two tasks that are created while the system runs.  *)
(***************************************************************************)
EXTENDS Scheduler
=============================================================================
