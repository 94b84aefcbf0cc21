---------------------------- MODULE MC_QSpinLock ----------------------------
(* QSpinLock on small instances.                                            *)
EXTENDS QSpinLock, TLC
CONSTANTS a, b
OneLevel == {1}
TwoLevels == {1, 2}
\* Lock a is used by tasks only, b from interrupts as well.
TaskLock == (a :> 1)
TaskAndIrqLock == (a :> 1) @@ (b :> 2)
Symmetry == Permutations(CPUs)
=============================================================================
