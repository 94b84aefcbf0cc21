--------------------------- MODULE MC_StopMachine ---------------------------
(* StopMachine on a small instance: two tasks that the scheduler moves      *)
(* between two CPUs, the second of which is brought up.  A fair run, so no  *)
(* symmetry.                                                                *)
EXTENDS StopMachine
CONSTANTS t1, t2
Calls  == t1 :> {"all", "one"} @@ t2 :> {"two", "all", "nowait"}
=============================================================================
