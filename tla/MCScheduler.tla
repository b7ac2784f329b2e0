---------------------------- MODULE MCScheduler -----------------------------
(* Small instances of Scheduler. *)
EXTENDS Scheduler

CONSTANTS SIGSEGV, f1, f2, f3, f4
=============================================================================
