--------------------------- MODULE AbstractRwLock ---------------------------
(***************************************************************************)
(* What every reader-writer lock promises: readers share the lock with     *)
(* readers only, and a writer shares it with nobody.                       *)
(***************************************************************************)
CONSTANT Tasks  \* who may hold the lock

VARIABLES readers, writers  \* who does

Init == readers = {} /\ writers = {}

AcquireRead(t) ==
  /\ writers = {}
  /\ t \notin readers
  /\ readers' = readers \cup {t}
  /\ UNCHANGED writers

ReleaseRead(t) ==
  /\ t \in readers
  /\ readers' = readers \ {t}
  /\ UNCHANGED writers

AcquireWrite(t) ==
  /\ readers = {}
  /\ writers = {}
  /\ writers' = {t}
  /\ UNCHANGED readers

ReleaseWrite(t) ==
  /\ writers = {t}
  /\ writers' = {}
  /\ UNCHANGED readers

Downgrade(t) ==
  /\ writers = {t}
  /\ writers' = {}
  /\ readers' = {t}

Next ==
  \E t \in Tasks :
    \/ AcquireRead(t) \/ ReleaseRead(t)
    \/ AcquireWrite(t) \/ ReleaseWrite(t) \/ Downgrade(t)

Spec == Init /\ [][Next]_<<readers, writers>>
=============================================================================
