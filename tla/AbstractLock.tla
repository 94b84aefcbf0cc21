---------------------------- MODULE AbstractLock ----------------------------
(***************************************************************************)
(* What every exclusive lock promises: only a lock that nobody holds is    *)
(* acquired, by one task, and only its holder releases it.                 *)
(***************************************************************************)
CONSTANT Tasks  \* who may hold the lock

VARIABLE holders

Init == holders = {}

Acquire(t) == holders = {} /\ holders' = {t}

Release(t) == holders = {t} /\ holders' = {}

Next == \E t \in Tasks : Acquire(t) \/ Release(t)

Spec == Init /\ [][Next]_holders
=============================================================================
