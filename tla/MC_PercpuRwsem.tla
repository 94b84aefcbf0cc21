--------------------------- MODULE MC_PercpuRwsem ---------------------------
(* PercpuRwsem on a small instance: tasks of a kind are interchangeable.    *)
EXTENDS PercpuRwsem, TLC
Symmetry == Permutations(Readers) \cup Permutations(Updaters)
=============================================================================
