----------------------------- MODULE MC_RcuSync -----------------------------
(* RcuSync on a small instance; a fair run, so no symmetry.                 *)
EXTENDS RcuSync, TLC
=============================================================================
