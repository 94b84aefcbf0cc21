------------------------------ MODULE MC_Mutex ------------------------------
(* Mutex on a small instance; a fair run, so no symmetry.                   *)
EXTENDS Mutex, TLC
Interruptible == {TASK_INTERRUPTIBLE}
=============================================================================
