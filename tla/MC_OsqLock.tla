----------------------------- MODULE MC_OsqLock -----------------------------
(* OsqLock on a small instance; a fair run, so no symmetry.                 *)
EXTENDS OsqLock, TLC
=============================================================================
