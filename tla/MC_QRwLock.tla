----------------------------- MODULE MC_QRwLock -----------------------------
(* QRwLock on a small instance: interrupts on the CPUs of two tasks.        *)
EXTENDS QRwLock, TLC
CONSTANTS t1, t2, t3, i1, i2
HostOfTwo == (i1 :> t1) @@ (i2 :> t2)
=============================================================================
