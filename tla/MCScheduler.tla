---------------------------- MODULE MCScheduler ----------------------------
(* The scheduler of the kernel build, with two threads besides the boot    *)
(* thread.                                                                 *)
EXTENDS Scheduler
=============================================================================
