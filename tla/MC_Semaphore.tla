---------------------------- MODULE MC_Semaphore ----------------------------
(* Semaphore on a small instance; a fair run, so no symmetry.               *)
EXTENDS Semaphore, TLC
=============================================================================
