------------------------------ MODULE MC_Rwsem ------------------------------
(* Rwsem on a small instance; a fair run, so no symmetry.                   *)
EXTENDS Rwsem, TLC
Interruptible == {TASK_INTERRUPTIBLE}
Killable == {TASK_KILLABLE}
=============================================================================
