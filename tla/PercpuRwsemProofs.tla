------------------------- MODULE PercpuRwsemProofs -------------------------
(***************************************************************************)
(* The per-CPU reader-writer semaphore for any finite number of readers,   *)
(* writers and CPUs: its types, who owns block, that no wakeup is lost and *)
(* that it is a reader-writer lock, although the readers count on one CPU  *)
(* and uncount on another, in counters that wrap around.                   *)
(*                                                                         *)
(* The semaphore rests on rcu_sync, so what MC_RcuSync checks for two      *)
(* readers and three updaters is proved here first.                        *)
(***************************************************************************)
EXTENDS PercpuRwsem, FiniteSetTheorems, TLAPS

-----------------------------------------------------------------------------
(* The list the waiters are queued on                                       *)

\* Queueing an element that is not linked links it too.
LEMMA ListAddTail ==
  ASSUME NEW S, NEW s \in Seq(S), NoDup(s), NEW e \in S, e \notin Linked(s)
  PROVE  /\ list_add_tail(s, e) \in Seq(S)
         /\ NoDup(list_add_tail(s, e))
         /\ Linked(list_add_tail(s, e)) = Linked(s) \cup {e}
<1>1. /\ list_add_tail(s, e) \in Seq(S)
      /\ Len(list_add_tail(s, e)) = Len(s) + 1
      /\ \A i \in 1..Len(s) : list_add_tail(s, e)[i] = s[i]
      /\ list_add_tail(s, e)[Len(s) + 1] = e
  BY DEF list_add_tail
<1>2. NoDup(list_add_tail(s, e))
  BY <1>1 DEF NoDup, Linked
<1>3. Linked(list_add_tail(s, e)) = Linked(s) \cup {e}
  BY <1>1 DEF Linked
<1>4. QED
  BY <1>1, <1>2, <1>3

\* The first entry of a list that is not empty is linked, and queueing another
\* element at the tail leaves it the first.
LEMMA ListFirst ==
  ASSUME NEW S, NEW s \in Seq(S), s # <<>>
  PROVE  /\ list_first_entry(s) \in Linked(s)
         /\ list_first_entry(s) \in S
         /\ \A e \in S : list_first_entry(list_add_tail(s, e)) = list_first_entry(s)
<1>1. 1 \in DOMAIN s /\ Head(s) = s[1] /\ s[1] \in S
  OBVIOUS
<1>2. list_first_entry(s) \in Linked(s) /\ list_first_entry(s) \in S
  BY <1>1 DEF list_first_entry, Linked
<1>3. ASSUME NEW e \in S
      PROVE  list_first_entry(list_add_tail(s, e)) = list_first_entry(s)
  BY <1>1 DEF list_first_entry, list_add_tail
<1>4. QED
  BY <1>2, <1>3

\* Unlinking the first element.
LEMMA ListTail ==
  ASSUME NEW S, NEW s \in Seq(S), NoDup(s), s # <<>>
  PROVE  /\ Tail(s) \in Seq(S)
         /\ NoDup(Tail(s))
         /\ Linked(Tail(s)) = Linked(s) \ {Head(s)}
<1>1. /\ Tail(s) \in Seq(S) /\ Len(Tail(s)) = Len(s) - 1 /\ Len(s) \in Nat /\ Len(s) > 0
      /\ \A i \in 1..(Len(s) - 1) : Tail(s)[i] = s[i + 1]
      /\ Head(s) = s[1]
  OBVIOUS
<1>2. NoDup(Tail(s))
  BY <1>1 DEF NoDup
<1>3. ASSUME NEW x \in Linked(Tail(s)) PROVE x \in Linked(s) \ {Head(s)}
  <2>1. PICK i \in 1..(Len(s) - 1) : Tail(s)[i] = x
    BY <1>1, <1>3 DEF Linked
  <2>2. i + 1 \in DOMAIN s /\ 1 \in DOMAIN s /\ i + 1 # 1 /\ s[i + 1] = x
    BY <1>1, <2>1
  <2>3. x \in Linked(s)
    BY <2>2 DEF Linked
  <2>4. s[i + 1] # s[1]
    BY <2>2 DEF NoDup
  <2>5. QED
    BY <1>1, <2>2, <2>3, <2>4
<1>4. ASSUME NEW x \in Linked(s) \ {Head(s)} PROVE x \in Linked(Tail(s))
  <2>1. PICK j \in 1..Len(s) : s[j] = x
    BY <1>4 DEF Linked
  <2>2. j - 1 \in 1..(Len(s) - 1) /\ Tail(s)[j - 1] = x
    BY <1>1, <1>4, <2>1
  <2>3. DOMAIN Tail(s) = 1..(Len(s) - 1)
    BY <1>1
  <2>4. QED
    BY <2>2, <2>3 DEF Linked
<1>5. QED
  BY <1>1, <1>2, <1>3, <1>4

\* Queueing keeps a list a list.
LEMMA ListTypes ==
  ASSUME NEW S, NEW s \in Seq(S), NEW e \in S
  PROVE  list_add_tail(s, e) \in Seq(S)
BY DEF list_add_tail

-----------------------------------------------------------------------------
\* The updaters between rcu_sync_enter() and rcu_sync_exit(), and those that switch
\* the readers to the slow path.
Busy == {u \in Updaters : upc[u] # "out"}
Switching == {u \in Updaters : upc[u] \in {"synchronize", "func"}}

\* Every updater inside enter ... exit is counted.  (gp_count may also hold the
\* enter of rcu_sync_enter_start(), which nobody undoes.)
AllCounted == gp_count >= Cardinality(Busy)

\* One updater takes the object from GP_ENTER to GP_PASSED, and its grace
\* period waits for every reader that is still on the fast path.
OneSwitches ==
  /\ gp_state = "ENTER" <=> Switching # {}
  /\ \A u, v \in Switching : u = v
  /\ \A u \in Switching, r \in Readers : rpc[r] = "fast" => r \in gp_waits[u]
  /\ \A u \in Updaters : upc[u] = "func" => gp_waits[u] = {}

\* Past GP_ENTER the fast path is empty, and only then is anybody entered.
FastPathEmpty ==
  /\ gp_state \notin {"IDLE", "ENTER"} => \A r \in Readers : rpc[r] # "fast"
  /\ \A u \in Updaters : upc[u] = "entered" => gp_state \notin {"IDLE", "ENTER"}
  /\ gp_state = "IDLE" => gp_count = 0
  /\ gp_state = "PASSED" => gp_count > 0

\* In GP_EXIT with no updater left, the pending callback waits for every section
\* that the last exit found.
ExitCovered ==
  /\ unsynced \subseteq Section
  /\ gp_state = "EXIT" /\ gp_count = 0 => unsynced \subseteq cb_waits

\* From rcu_sync_dtor() on nobody uses the object and no exit is replayed.
Quiet ==
  /\ phase # "live" =>
       /\ Busy = {}
       /\ gp_count = 0
       /\ Section = {}
       /\ gp_state \in {"IDLE", "EXIT"}
  /\ phase = "dtor" /\ ~barrier => gp_state = "IDLE"

\* The inductive invariant of rcu_sync.
SyncInv ==
  /\ SyncTypeOK
  /\ AllCounted
  /\ OneSwitches
  /\ FastPathEmpty
  /\ CallbackMatchesState
  /\ ExitCovered
  /\ Quiet

-----------------------------------------------------------------------------

\* The updaters between enter and exit can be counted.
LEMMA BusyFinite == IsFiniteSet(Busy) /\ Cardinality(Busy) \in Nat
<1>1. Busy \subseteq Updaters
  BY DEF Busy
<1>2. QED
  BY <1>1, RcuSyncAssumption, FS_Subset, FS_CardinalityType

\* How a move of one updater changes their number.
LEMMA BusyMove ==
  ASSUME NEW u \in Updaters, NEW l, SyncTypeOK, upc' = [upc EXCEPT ![u] = l]
  PROVE  /\ upc[u] = "out" /\ l # "out" => Cardinality(Busy') = Cardinality(Busy) + 1
         /\ upc[u] # "out" /\ l = "out" => Cardinality(Busy') = Cardinality(Busy) - 1
         /\ upc[u] # "out" /\ l # "out" => Cardinality(Busy') = Cardinality(Busy)
<1>1. /\ upc[u] # "out" <=> u \in Busy
      /\ l # "out" => Busy' = Busy \cup {u}
      /\ l = "out" => Busy' = Busy \ {u}
  BY DEF Busy, SyncTypeOK
<1>2. /\ Cardinality(Busy \cup {u}) =
           IF u \in Busy THEN Cardinality(Busy) ELSE Cardinality(Busy) + 1
      /\ Cardinality(Busy \ {u}) =
           IF u \in Busy THEN Cardinality(Busy) - 1 ELSE Cardinality(Busy)
  BY BusyFinite, FS_AddElement, FS_RemoveElement
<1>3. QED
  BY <1>1, <1>2

\* While an updater is between enter and exit the count is positive, and it is
\* the only one when the count is one.
LEMMA BusyCount ==
  ASSUME SyncInv, NEW u \in Busy
  PROVE  gp_count > 0 /\ (gp_count = 1 => Busy = {u})
<1>1. /\ Cardinality(Busy \ {u}) = Cardinality(Busy) - 1
      /\ IsFiniteSet(Busy \ {u})
  BY BusyFinite, FS_RemoveElement
<1>2. Cardinality(Busy \ {u}) \in Nat /\ (Cardinality(Busy \ {u}) = 0 <=> Busy \ {u} = {})
  BY <1>1, FS_CardinalityType, FS_EmptySet
<1>3. QED
  BY <1>1, <1>2, BusyFinite DEF SyncInv, AllCounted, SyncTypeOK

\* The initial states.
LEMMA SyncInvInit == SyncInit => SyncInv
<1>1. SUFFICES ASSUME SyncInit PROVE SyncInv
  OBVIOUS
<1>2. Busy = {} /\ Switching = {} /\ Section = {}
  BY <1>1 DEF SyncInit, Busy, Switching, Section, InSection
<1>3. SyncTypeOK
  <2>1. gp_state \in GpStates /\ gp_count \in Nat
    BY <1>1 DEF SyncInit, GpStates
  <2>2. QED
    BY <1>1, <2>1 DEF SyncInit, SyncTypeOK, InSection, InCall
<1>4. AllCounted
  BY <1>1, <1>2, FS_EmptySet DEF SyncInit, AllCounted
<1>5. QED
  BY <1>1, <1>2, <1>3, <1>4 DEF SyncInit, SyncInv, OneSwitches, FastPathEmpty,
     CallbackMatchesState, ExitCovered, Quiet

\* The step of every action.
LEMMA SyncInvNext == SyncInv /\ [SyncNext]_syncVars => SyncInv'
<1> SUFFICES ASSUME SyncInv, [SyncNext]_syncVars PROVE SyncInv'
  OBVIOUS
<1> USE DEF SyncInv
<1>1. ASSUME NEW r \in Readers, SectionBegin(r) PROVE SyncInv'
  <2> USE <1>1 DEF SectionBegin, rssVars, rcuVars
  <2>1. SyncTypeOK'
    BY DEF SyncTypeOK, InSection
  <2>2. AllCounted'
    BY DEF AllCounted, Busy
  <2>3. OneSwitches'
    BY DEF OneSwitches, FastPathEmpty, Switching, SyncTypeOK, Section, InSection, Quiet, Busy
  <2>4. FastPathEmpty'
    BY DEF FastPathEmpty
  <2>5. CallbackMatchesState'
    BY DEF CallbackMatchesState
  <2>6. ExitCovered'
    BY DEF ExitCovered, Section, InSection
  <2>7. Quiet'
    BY DEF Quiet
  <2>8. QED
    BY <2>1, <2>2, <2>3, <2>4, <2>5, <2>6, <2>7
<1>2. ASSUME NEW r \in Readers, ReadIdle(r) PROVE SyncInv'
  <2> USE <1>2 DEF ReadIdle, rssVars, rcuVars, rcu_sync_is_idle
  <2>1. SyncTypeOK'
    BY DEF SyncTypeOK, InSection
  <2>2. AllCounted'
    BY DEF AllCounted, Busy
  <2>3. OneSwitches'
    BY DEF OneSwitches, Switching
  <2>4. FastPathEmpty'
    BY DEF FastPathEmpty
  <2>5. CallbackMatchesState'
    BY DEF CallbackMatchesState, GpStates
  <2>6. ExitCovered'
    BY DEF ExitCovered, Section, InSection
  <2>7. Quiet'
    BY DEF Quiet, Section, InSection
  <2>8. QED
    BY <2>1, <2>2, <2>3, <2>4, <2>5, <2>6, <2>7
<1>3. ASSUME NEW r \in Readers, SectionEnd(r) PROVE SyncInv'
  <2> USE <1>3 DEF SectionEnd, rssVars, rcuVars
  <2>1. SyncTypeOK'
    BY DEF SyncTypeOK
  <2>2. AllCounted'
    BY DEF AllCounted, Busy
  <2>3. OneSwitches'
    BY DEF OneSwitches, Switching, SyncTypeOK
  <2>4. FastPathEmpty'
    BY DEF FastPathEmpty
  <2>5. CallbackMatchesState'
    BY DEF CallbackMatchesState
  <2>6. ExitCovered'
    BY DEF ExitCovered, Section
  <2>7. Quiet'
    BY DEF Quiet, Section, InSection
  <2>8. QED
    BY <2>1, <2>2, <2>3, <2>4, <2>5, <2>6, <2>7
<1>4. ASSUME NEW u \in Updaters, Enter(u) PROVE SyncInv'
  <2> USE <1>4 DEF Enter, rssVars, rcuVars, UpdaterGoto, count_enter
  <2>1. SyncTypeOK'
    BY DEF SyncTypeOK, GpStates, InSection, InCall, Section
  <2>2. AllCounted'
    BY BusyMove, BusyFinite DEF AllCounted, SyncTypeOK, Busy
  <2>3. OneSwitches'
    BY DEF OneSwitches, Switching, SyncTypeOK, Section
  <2>4. FastPathEmpty'
    BY DEF FastPathEmpty, SyncTypeOK
  <2>5. CallbackMatchesState'
    BY DEF CallbackMatchesState
  <2>6. ExitCovered'
    BY DEF ExitCovered, Section, SyncTypeOK
  <2>7. Quiet'
    BY DEF Quiet
  <2>8. QED
    BY <2>1, <2>2, <2>3, <2>4, <2>5, <2>6, <2>7
<1>5. ASSUME NEW u \in Updaters, Synchronized(u) PROVE SyncInv'
  <2> USE <1>5 DEF Synchronized, rssVars, rcuVars, UpdaterGoto
  <2>1. u \in Busy /\ gp_count > 0 /\ (gp_count = 1 => Busy = {u})
    BY BusyCount DEF Busy
  <2>2. SyncTypeOK'
    BY <2>1 DEF SyncTypeOK, InCall
  <2>3. AllCounted'
    BY <2>1 DEF AllCounted, Busy
  <2>4. OneSwitches'
    BY <2>1 DEF OneSwitches, Switching
  <2>5. FastPathEmpty'
    BY <2>1 DEF FastPathEmpty
  <2>6. CallbackMatchesState'
    BY <2>1 DEF CallbackMatchesState
  <2>7. ExitCovered'
    BY <2>1 DEF ExitCovered, Section
  <2>8. Quiet'
    BY <2>1 DEF Quiet
  <2>9. QED
    BY <2>2, <2>3, <2>4, <2>5, <2>6, <2>7, <2>8
<1>6. ASSUME NEW u \in Updaters, EnterFunc(u) PROVE SyncInv'
  <2> USE <1>6 DEF EnterFunc, rssVars, rcuVars, UpdaterGoto, rcu_sync_func, somebody_entered,
     wake_up_locked, requeued, rcu_sync_call
  <2>1. u \in Busy /\ gp_count > 0 /\ (gp_count = 1 => Busy = {u})
    BY BusyCount DEF Busy
  <2>2. SyncTypeOK'
    BY <2>1 DEF SyncTypeOK, GpStates, InCall
  <2>3. AllCounted'
    BY <2>1, BusyFinite DEF AllCounted, Busy
  <2>4. OneSwitches'
    BY <2>1 DEF OneSwitches, Switching, SyncTypeOK
  <2>5. FastPathEmpty'
    BY <2>1 DEF FastPathEmpty, OneSwitches, Switching
  <2>6. CallbackMatchesState'
    BY <2>1 DEF CallbackMatchesState, OneSwitches, Switching
  <2>7. ExitCovered'
    BY <2>1 DEF ExitCovered, Section
  <2>8. Quiet'
    BY <2>1 DEF Quiet
  <2>9. QED
    BY <2>2, <2>3, <2>4, <2>5, <2>6, <2>7, <2>8
<1>7. ASSUME NEW u \in Updaters, WaitEvent(u) PROVE SyncInv'
  <2> USE <1>7 DEF WaitEvent, rssVars, rcuVars, UpdaterGoto, passed
  <2>1. u \in Busy /\ gp_count > 0 /\ (gp_count = 1 => Busy = {u})
    BY BusyCount DEF Busy
  <2>2. SyncTypeOK'
    BY <2>1 DEF SyncTypeOK, InCall
  <2>3. AllCounted'
    BY <2>1 DEF AllCounted, SyncTypeOK, Busy
  <2>4. OneSwitches'
    BY <2>1 DEF OneSwitches, Switching, SyncTypeOK
  <2>5. FastPathEmpty'
    BY <2>1 DEF FastPathEmpty, SyncTypeOK
  <2>6. CallbackMatchesState'
    BY <2>1 DEF CallbackMatchesState
  <2>7. ExitCovered'
    BY <2>1 DEF ExitCovered, Section
  <2>8. Quiet'
    BY <2>1 DEF Quiet
  <2>9. QED
    BY <2>2, <2>3, <2>4, <2>5, <2>6, <2>7, <2>8
<1>8. ASSUME NEW u \in Updaters, PrepareToWait(u) PROVE SyncInv'
  <2> USE <1>8 DEF PrepareToWait, rssVars, rcuVars, UpdaterGoto
  <2>1. u \in Busy /\ gp_count > 0 /\ (gp_count = 1 => Busy = {u})
    BY BusyCount DEF Busy
  <2>2. SyncTypeOK'
    BY <2>1 DEF SyncTypeOK, InCall
  <2>3. AllCounted'
    BY <2>1 DEF AllCounted, Busy
  <2>4. OneSwitches'
    BY <2>1 DEF OneSwitches, Switching
  <2>5. FastPathEmpty'
    BY <2>1 DEF FastPathEmpty, OneSwitches, Switching, SyncTypeOK
  <2>6. CallbackMatchesState'
    BY <2>1 DEF CallbackMatchesState
  <2>7. ExitCovered'
    BY <2>1 DEF ExitCovered, Section
  <2>8. Quiet'
    BY <2>1 DEF Quiet
  <2>9. QED
    BY <2>2, <2>3, <2>4, <2>5, <2>6, <2>7, <2>8
<1>9. ASSUME NEW u \in Updaters, WokenUp(u) PROVE SyncInv'
  <2> USE <1>9 DEF WokenUp, rssVars, rcuVars, UpdaterGoto
  <2>1. u \in Busy /\ gp_count > 0 /\ (gp_count = 1 => Busy = {u})
    BY BusyCount DEF Busy
  <2>2. SyncTypeOK'
    BY <2>1 DEF SyncTypeOK, InCall
  <2>3. AllCounted'
    BY <2>1 DEF AllCounted, Busy
  <2>4. OneSwitches'
    BY <2>1 DEF OneSwitches, Switching
  <2>5. FastPathEmpty'
    BY <2>1 DEF FastPathEmpty
  <2>6. CallbackMatchesState'
    BY <2>1 DEF CallbackMatchesState
  <2>7. ExitCovered'
    BY <2>1 DEF ExitCovered, Section
  <2>8. Quiet'
    BY <2>1 DEF Quiet
  <2>9. QED
    BY <2>2, <2>3, <2>4, <2>5, <2>6, <2>7, <2>8
<1>10. ASSUME NEW u \in Updaters, Exit(u) PROVE SyncInv'
  <2> USE <1>10 DEF Exit, rssVars, rcuVars, UpdaterGoto, exit_again, rcu_sync_call
  <2>1. u \in Busy /\ gp_count > 0 /\ (gp_count = 1 => Busy = {u})
    BY BusyCount DEF Busy
  <2>2. SyncTypeOK'
    <3>1. gp_count \in Nat /\ gp_count > 0 /\ gp_count' = gp_count - 1
      BY <2>1 DEF SyncTypeOK
    <3>2. gp_count' \in Nat
      BY <3>1
    <3>3. /\ upc' \in [Updaters -> InCall \cup {"out"}]
          /\ gp_state' \in GpStates /\ cb_waits' \subseteq Readers /\ unsynced' \subseteq
             Readers
      BY DEF SyncTypeOK, GpStates, Section
    <3>4. cb_queued' \in BOOLEAN
      BY DEF SyncTypeOK
    <3>5. QED
      BY <3>2, <3>3, <3>4 DEF SyncTypeOK
  <2>3. AllCounted'
    <3>1. Cardinality(Busy') = Cardinality(Busy) - 1
      BY <2>1, BusyMove DEF Busy
    <3>2. QED
      BY <3>1, BusyFinite DEF AllCounted, SyncTypeOK
  <2>4. OneSwitches'
    BY <2>1 DEF OneSwitches, Switching
  <2>5. FastPathEmpty'
    BY <2>1 DEF FastPathEmpty, SyncTypeOK
  <2>6. CallbackMatchesState'
    BY <2>1 DEF CallbackMatchesState
  <2>7. ExitCovered'
    BY <2>1 DEF ExitCovered, Section
  <2>8. Quiet'
    BY <2>1 DEF Quiet
  <2>9. QED
    BY <2>2, <2>3, <2>4, <2>5, <2>6, <2>7, <2>8
<1>11. CASE Callback
  <2> USE <1>11 DEF Callback, rssVars, rcuVars, rcu_sync_func, somebody_entered, wake_up_locked,
     requeued, rcu_sync_call
  <2>1. SyncTypeOK'
    BY DEF SyncTypeOK, GpStates, Section
  <2>2. AllCounted'
    BY DEF AllCounted, Busy
  <2>3. OneSwitches'
    BY DEF OneSwitches, CallbackMatchesState, Switching
  <2>4. FastPathEmpty'
    <3>1. ASSUME NEW u \in Updaters, upc[u] = "entered" PROVE gp_count > 0
      BY <3>1, BusyCount DEF Busy
    <3>2. QED
      BY <3>1 DEF FastPathEmpty, CallbackMatchesState, SyncTypeOK
  <2>5. CallbackMatchesState'
    BY DEF CallbackMatchesState, OneSwitches, FastPathEmpty, Switching, Quiet, SyncTypeOK
  <2>6. ExitCovered'
    BY DEF ExitCovered, Section, InSection, FastPathEmpty, SyncTypeOK
  <2>7. Quiet'
    BY DEF Quiet, Busy, Section
  <2>8. QED
    BY <2>1, <2>2, <2>3, <2>4, <2>5, <2>6, <2>7
<1>12. CASE Dtor
  <2> USE <1>12 DEF Dtor, rssVars, rcuVars, cancel_replay
  <2>1. SyncTypeOK'
    BY DEF SyncTypeOK, GpStates
  <2>2. AllCounted'
    BY DEF AllCounted, Busy
  <2>3. OneSwitches'
    BY DEF OneSwitches, FastPathEmpty, Switching, SyncTypeOK, Section, InSection, Quiet, Busy
  <2>4. FastPathEmpty'
    BY DEF FastPathEmpty
  <2>5. CallbackMatchesState'
    BY DEF CallbackMatchesState
  <2>6. ExitCovered'
    BY DEF ExitCovered, Section, InSection
  <2>7. Quiet'
    BY DEF Quiet, Busy, Section, InSection, SyncTypeOK, CallbackMatchesState, FastPathEmpty,
       OneSwitches, Switching, GpStates
  <2>8. QED
    BY <2>1, <2>2, <2>3, <2>4, <2>5, <2>6, <2>7
<1>13. CASE Barrier
  <2> USE <1>13 DEF Barrier, rssVars, rcuVars
  <2>1. SyncTypeOK'
    BY DEF SyncTypeOK
  <2>2. AllCounted'
    BY DEF AllCounted, Busy
  <2>3. OneSwitches'
    BY DEF OneSwitches, Switching
  <2>4. FastPathEmpty'
    BY DEF FastPathEmpty
  <2>5. CallbackMatchesState'
    BY DEF CallbackMatchesState, Quiet
  <2>6. ExitCovered'
    BY DEF ExitCovered, Section
  <2>7. Quiet'
    BY DEF Quiet, Busy, Section
  <2>8. QED
    BY <2>1, <2>2, <2>3, <2>4, <2>5, <2>6, <2>7
<1>14. CASE Reinit
  <2> USE <1>14 DEF Reinit, rssVars, rcuVars
  <2>1. SyncTypeOK'
    BY DEF SyncTypeOK, GpStates
  <2>2. AllCounted'
    BY FS_EmptySet DEF AllCounted, Quiet, Busy
  <2>3. OneSwitches'
    BY DEF OneSwitches, Switching, Quiet
  <2>4. FastPathEmpty'
    BY DEF FastPathEmpty, Quiet, Busy
  <2>5. CallbackMatchesState'
    BY DEF CallbackMatchesState
  <2>6. ExitCovered'
    BY DEF ExitCovered, Section
  <2>7. Quiet'
    BY DEF Quiet, GpStates
  <2>8. QED
    BY <2>1, <2>2, <2>3, <2>4, <2>5, <2>6, <2>7
<1>15. CASE UNCHANGED syncVars
  BY <1>15 DEF syncVars, rssVars, rcuVars, SyncTypeOK, AllCounted, OneSwitches, FastPathEmpty,
     CallbackMatchesState, ExitCovered, Quiet, Busy, Switching, Section
<1>16. QED
  BY <1>1, <1>2, <1>3, <1>4, <1>5, <1>6, <1>7, <1>8, <1>9, <1>10, <1>11, <1>12, <1>13,
     <1>14, <1>15 DEF SyncNext, EnterStep, SectionStep

\* The inductive invariant holds in every reachable state.
THEOREM SyncInvariance == SyncSpec => []SyncInv
<1>1. QED
  BY SyncInvInit, SyncInvNext, PTL DEF SyncSpec

\* "After this function returns, all subsequent calls to rcu_sync_is_idle() will
\* return false" (rcu_sync_enter()), for any number of readers and updaters.
THEOREM EnteredIsSlow == SyncSpec => []SlowWhileEntered
<1>1. SyncInv => SlowWhileEntered
  BY DEF SyncInv, FastPathEmpty, SlowWhileEntered, rcu_sync_is_idle
<1>2. QED
  BY <1>1, SyncInvariance, PTL

\* No WARN_ON_ONCE() of the file fires.
THEOREM WarningFree == SyncSpec => []NoWarning
<1>1. SyncInv => NoWarning
  <2> SUFFICES ASSUME SyncInv PROVE NoWarning
    OBVIOUS
  <2>1. ASSUME NEW u \in Updaters, upc[u] = "entered" PROVE gp_count > 0
    BY <2>1, BusyCount DEF Busy
  <2>2. QED
    BY <2>1 DEF SyncInv, NoWarning, FastPathEmpty, OneSwitches, Switching, CallbackMatchesState
<1>2. QED
  BY <1>1, SyncInvariance, PTL

\* rcu_sync_exit() and rcu_sync_func() queue cb_head only when it is not queued,
\* and rcu_sync_dtor() returns only when it is not.
THEOREM CallbackOnce == SyncSpec => []CallbackMatchesState
<1>1. SyncInv => CallbackMatchesState
  BY DEF SyncInv
<1>2. QED
  BY <1>1, SyncInvariance, PTL

\* Readers go back to the fast path a full grace period after the last
\* rcu_sync_exit().
THEOREM GraceBeforeFast == SyncSpec => FastAfterGrace
<1>1. SyncInv /\ [SyncNext]_syncVars =>
        [gp_state # "IDLE" /\ gp_state' = "IDLE" => unsynced = {}]_syncVars
  <2> SUFFICES ASSUME SyncInv, SyncNext, gp_state # "IDLE", gp_state' = "IDLE"
               PROVE  unsynced = {}
    OBVIOUS
  <2>1. CASE Callback
    BY <2>1 DEF SyncInv, Callback, rcu_sync_func, somebody_entered, requeued, ExitCovered,
       CallbackMatchesState, SyncTypeOK
  <2>2. ASSUME NEW u \in Updaters, EnterFunc(u) PROVE FALSE
    <3>1. gp_count > 0
      BY <2>2, BusyCount DEF EnterFunc, Busy
    <3>2. QED
      BY <2>2, <3>1 DEF EnterFunc, rcu_sync_func, somebody_entered
  <2>3. CASE Reinit
    BY <2>3 DEF SyncInv, Reinit, Quiet, ExitCovered
  <2>4. CASE Dtor
    BY <2>4 DEF Dtor, cancel_replay
  <2>5. ASSUME NEW u \in Updaters, Exit(u) PROVE FALSE
    BY <2>5 DEF Exit, exit_again
  <2>6. ASSUME NEW u \in Updaters, Enter(u) PROVE FALSE
    BY <2>6 DEF Enter
  <2>7. QED
    BY <2>1, <2>2, <2>3, <2>4, <2>5, <2>6 DEF SyncNext, EnterStep, SectionStep, SectionBegin,
       ReadIdle, SectionEnd, Synchronized, WaitEvent, PrepareToWait, WokenUp, Barrier, rssVars
<1>2. QED
  BY <1>1, SyncInvariance, PTL DEF SyncSpec, FastAfterGrace

-----------------------------------------------------------------------------
(* The semaphore's use of rcu_sync.                                         *)

\* Every step of the semaphore calls one function of rcu_sync or leaves it alone.
LEMMA SyncSteps == [Next]_vars => [SyncNext]_syncVars
<1>1. ASSUME NEW r \in Readers, DownRead(r) \/ UpRead(r) \/ ReaderStep(r)
      PROVE  SyncNext \/ UNCHANGED syncVars
  BY <1>1 DEF ReaderStep, DownRead, UpRead, IsIdle, FastInc, DownReadEnd, UpReadDec, UpReadEnd,
     SyncNext, SectionStep
<1>2. ASSUME NEW u \in Updaters, DownWrite(u) \/ UpWrite(u) \/ WriterStep(u)
      PROVE  SyncNext \/ UNCHANGED syncVars
  BY <1>2 DEF WriterStep, DownWrite, UpWrite, SyncEnter, WriteTrylock, PrepareToRcuwait,
     RcuwaitSet, SumCpu, RcuwaitCheck, WakeWriteTrylock, WakeGrant, WakeProcess, WakeUnlock,
     SyncExit, SyncNext
<1>3. ASSUME NEW t \in Tasks, WaitersLock(t) \/ TaskStep(t)
      PROVE  UNCHANGED syncVars
  BY <1>3 DEF WaitersLock, TaskStep, TryStep, TryInc, TryCheck, TryDec, Prod, WaitStep,
     WaitWriteTrylock, WaitUnlock, SleepSet, SleepTest, Woken
<1>4. ASSUME SyncCallback \/ FreeRwsem \/ FreeRwsemEnd \/ InitRwsem
      PROVE  SyncNext
  BY <1>4 DEF SyncCallback, FreeRwsem, FreeRwsemEnd, InitRwsem, SyncNext
<1>5. ASSUME UNCHANGED vars PROVE UNCHANGED syncVars
  BY <1>5 DEF vars
<1>6. QED
  BY <1>1, <1>2, <1>3, <1>4, <1>5 DEF Next

\* percpu_down_read(), percpu_up_read(), percpu_down_write(), percpu_up_write()
\* and percpu_free_rwsem() call rcu_sync only in the orders its own
\* specification allows: an exit follows an enter, and its destruction follows
\* the last use.  What is proved of rcu_sync holds inside the semaphore.
THEOREM UsesRcuSync == Spec => SyncSpec
<1>1. Init => SyncInit
  BY DEF Init
<1>2. QED
  BY <1>1, SyncSteps, PTL DEF Spec, SyncSpec

-----------------------------------------------------------------------------
(* The invariant of the semaphore.                                          *)

\* The two parts of a program counter.
Fn(t) == pc[t][1]
At(t) == pc[t][2]

\* Who is between spin_lock_irq(&sem->waiters.lock) and the unlock, and who runs
\* with preemption disabled.
Locked == {t \in Tasks : Fn(t) \in {"queue", "wake"} /\ At(t) \notin {"lock", "exit"}}
PreemptOff == Locked \cup {t \in Tasks : Fn(t) \in {"down", "try", "up"}}

\* Only readers take the read side, only writers the write side.
Roles ==
  /\ \A r \in Readers : Fn(r) \notin {"write", "wake"}
  /\ \A u \in Updaters : /\ Fn(u) \notin {"down", "try", "up"}
                         /\ Fn(u) = "queue" => At(u) \notin {"chk", "dec", "prod"}

\* A CPU is left only when preemption is enabled again, so no two tasks that
\* count readers are on the same one.
OwnCpu ==
  /\ \A t \in PreemptOff : cpu[t] \in CPUs
  /\ \A t, u \in Tasks : cpu[t] = cpu[u] /\ cpu[t] # None => t = u

\* waiters.lock is held by exactly the task that is inside it.
LockOwner == \A t \in Tasks : waiters_lock = t <=> t \in Locked

\* The list links each waiter that has not been granted once, and its head stays
\* the same while a wake function works for it.
Queue ==
  /\ NoDup(waiters)
  /\ \A t \in Tasks : private[t] <=> t \in Linked(waiters)
  /\ \A t \in Tasks : private[t] => Fn(t) = "sleep"
  /\ \A t \in Tasks : Fn(t) = "wake" /\ At(t) \in {"chk", "ok"} => waiters # <<>>
  /\ \A t \in Tasks : Fn(t) = "wake" /\ At(t) = "chk" => Head(waiters) \in Readers

\* The first waiter, for which a wake function has just taken the semaphore.
Picked == {t \in Tasks : /\ waiters # <<>> /\ t = Head(waiters)
                         /\ \E u \in Tasks : Fn(u) = "wake" /\ At(u) = "ok"}

\* The writers that own block, as BlockOwned counts them.
Owners == {u \in Updaters : \/ Fn(u) = "held"
                            \/ Fn(u) = "write" /\ At(u) # "enter"
                            \/ Fn(u) = "queue" /\ At(u) = "ok"
                            \/ u \in Granted \cup Picked}

\* block is set exactly while one writer owns it.
OneOwner ==
  /\ block <=> Owners # {}
  /\ \A u, v \in Owners : u = v

\* Who saw block set under waiters.lock, or gave it away there, may find it
\* clear again; then the writer that cleared it is waiting for waiters.lock.
Waker == {u \in Updaters : Fn(u) = "wake" /\ At(u) = "lock"}
GaveUp(t) ==
  /\ Fn(t) \in {"queue", "wake"}
  /\ \/ At(t) \in {"dec", "prod", "fail"}
     \/ At(t) = "wakeup" /\ p \notin Readers
WakerFollows ==
  \A t \in Tasks :
    GaveUp(t) => block \/ Waker # {} \/ (Fn(t) = "wake" /\ At(t) = "fail" /\ waiters = <<>>)

\* NoLostWakeup, by the parts of the program counter.
WakeComes ==
  waiters # <<>> /\ ~block =>
    \E u \in Updaters : Fn(u) = "wake" /\ At(u) \notin {"fail", "exit"}

\* Past rcu_sync_enter() a writer is entered, until its rcu_sync_exit().
WritersEntered ==
  \A u \in Updaters :
    Fn(u) # "out" /\ ~(Fn(u) = "write" /\ At(u) = "enter") => upc[u] = "entered"

\* Nobody uses the semaphore from percpu_free_rwsem() on.
Unused == phase # "live" => \A t \in Tasks : Fn(t) = "out"

-----------------------------------------------------------------------------
(* The counters.                                                            *)

\* Readers whose increment is a read lock, and tasks whose increment is not yet
\* known to be one or is about to be taken back.
Holders == {r \in Readers : \/ Fn(r) = "held"
                            \/ Fn(r) \in {"down", "try", "queue"} /\ At(r) = "ok"
                            \/ Fn(r) = "up" /\ At(r) = "begin"
                            \/ r \in Granted \cup Picked}
Transient == {t \in Tasks : /\ Fn(t) \in {"down", "try", "queue", "wake"}
                            /\ At(t) \in {"chk", "dec"}}

\* The increments minus the decrements of each CPU, which read_count keeps modulo
\* 2^32 and which may be negative, and their sums over the first CPUs.
Tally(rc, V, W) ==
  /\ V \in [CPUs -> Int]
  /\ W \in [0 .. NR_CPUS -> Int]
  /\ W[0] = 0
  /\ \A c \in CPUs : W[c] = W[c - 1] + V[c]
  /\ \A c \in CPUs : rc[c] = V[c] % Modulus

\* The increments that per_cpu_sum() has not passed yet.
Ahead == {t \in Transient : cpu[t] >= next_cpu}

\* What the sum would come to if nothing else moved: at least the readers that
\* hold the semaphore, and at most the readers plus one transient increment on
\* each CPU it has passed.
InBounds(total) ==
  /\ total >= Cardinality(Holders) + Cardinality(Ahead)
  /\ total <= Cardinality(Readers) + (next_cpu - 1) + Cardinality(Ahead)

\* The writer that owns block is inside per_cpu_sum().
Summing == \E u \in Updaters : Fn(u) = "write" /\ At(u) = "sum"

\* The tallies add up to the increments there are, and while they are summed the
\* sum so far and the tallies still to come stay in bounds.
Balanced ==
  \E V, W :
    /\ Tally(read_count, V, W)
    /\ W[NR_CPUS] = Cardinality(Holders) + Cardinality(Transient)
    /\ Summing => \E Z \in Int : /\ sum = Z % Modulus
                                 /\ InBounds(Z + W[NR_CPUS] - W[next_cpu - 1])

\* The counters keep their range and their balance.
Counted ==
  /\ read_count \in [CPUs -> 0 .. Modulus - 1]
  /\ sum \in 0 .. Modulus - 1
  /\ next_cpu \in 1 .. NR_CPUS + 1
  /\ Balanced

\* Whoever has a transient increment is still on a CPU.
OnCpus == \A t \in Transient : cpu[t] \in CPUs

\* The writers that hold the semaphore, and the steps of a reader-writer lock.
Writers == {u \in Updaters : Fn(u) = "held"}
Hold == INSTANCE AbstractRwLock WITH readers <- Holders, writers <- Writers
LockStep == Hold!Next \/ UNCHANGED <<Holders, Writers>>

\* The types of the variables other than those of rcu_sync and the counters.
Types ==
  /\ block \in BOOLEAN
  /\ waiters \in Seq(Tasks)
  /\ waiters_lock \in Tasks \cup {None}
  /\ writer \in Updaters \cup {None}
  /\ private \in [Tasks -> BOOLEAN]
  /\ awake \in [Tasks -> BOOLEAN]
  /\ pc \in [Tasks -> Steps]
  /\ cpu \in [Tasks -> CPUs \cup {None}]
  /\ p \in Tasks \cup {None}

\* The inductive invariant of the semaphore.
IInv ==
  /\ Types /\ Roles /\ OwnCpu /\ LockOwner /\ Queue /\ OneOwner
  /\ WakerFollows /\ WakeComes /\ WritersEntered /\ Unused /\ Counted

-----------------------------------------------------------------------------
(* Program counters and CPUs.                                               *)

\* What the second part of a program counter says about the first.
LEMMA StepPlaces ==
  ASSUME NEW s \in Steps
  PROVE  /\ s = <<s[1], s[2]>>
         /\ s[2] = "lock" => s[1] \in {"queue", "wake"}
         /\ s[2] \in {"chk", "dec", "ok", "fail"} => s[1] \in {"down", "try", "queue", "wake"}
         /\ s[2] = "prod" => s[1] \in {"down", "try", "queue", "wake", "up"}
         /\ s[2] = "sched" => s[1] \in {"sleep", "write"}
         /\ s[1] = "out" => s = Out
         /\ s[1] = "held" => s = Held
<1>1. CASE s = Out
  BY <1>1 DEF Out
<1>2. CASE s = Held
  BY <1>2 DEF Held
<1>3. CASE s \in {"down", "try", "queue", "wake"} \X {"begin", "chk", "dec", "prod", "ok", "fail"}
  BY <1>3
<1>4. CASE s \in {"up"} \X {"begin", "prod", "done"}
  BY <1>4
<1>5. CASE s \in {"queue", "wake"} \X {"lock"}
  BY <1>5
<1>6. CASE s \in {"sleep"} \X {"set", "test", "sched"}
  BY <1>6
<1>7. CASE s \in {"write"} \X {"enter", "prepare", "set", "sum", "sched"}
  BY <1>7
<1>8. CASE s \in {"wake"} \X {"wakeup", "exit"}
  BY <1>8
<1>9. QED
  BY <1>1, <1>2, <1>3, <1>4, <1>5, <1>6, <1>7, <1>8 DEF Steps

\* The two program counters outside any function.
LEMMA Ends == Out \in Steps /\ Held \in Steps /\ Out[1] = "out" /\ Held[1] = "held"
BY DEF Steps, Out, Held

\* The same of a task's program counter.
LEMMA Places ==
  ASSUME pc \in [Tasks -> Steps], NEW t \in Tasks
  PROVE  /\ pc[t] = <<Fn(t), At(t)>>
         /\ At(t) = "lock" => Fn(t) \in {"queue", "wake"}
         /\ At(t) \in {"chk", "dec", "ok", "fail"} => Fn(t) \in {"down", "try", "queue", "wake"}
         /\ At(t) = "prod" => Fn(t) \in {"down", "try", "queue", "wake", "up"}
         /\ At(t) = "sched" => Fn(t) \in {"sleep", "write"}
         /\ pc[t] = Out <=> Fn(t) = "out"
         /\ pc[t] = Held <=> Fn(t) = "held"
<1>1. pc[t] \in Steps
  OBVIOUS
<1>2. QED
  BY <1>1, StepPlaces, Ends DEF Fn, At

\* A test of a task's program counter is a test of its two parts.
LEMMA PcIs ==
  ASSUME pc \in [Tasks -> Steps], NEW t \in Tasks, NEW a, NEW b
  PROVE  pc[t] = <<a, b>> <=> Fn(t) = a /\ At(t) = b
<1>1. pc[t] = <<Fn(t), At(t)>>
  BY Places
<1>2. QED
  BY <1>1

\* Goto() moves one task.
LEMMA Moves ==
  ASSUME pc \in [Tasks -> Steps], NEW t \in Tasks, NEW s \in Steps, Goto(t, s)
  PROVE  /\ pc' \in [Tasks -> Steps]
         /\ Fn(t)' = s[1] /\ At(t)' = s[2]
         /\ \A x \in Tasks : x # t => Fn(x)' = Fn(x) /\ At(x)' = At(x)
BY DEF Goto, Fn, At

\* preempt_disable() puts the task on a CPU nobody else is pinned to.
LEMMA Disable ==
  ASSUME cpu \in [Tasks -> CPUs \cup {None}], NEW t \in Tasks, preempt_disable(t)
  PROVE  /\ cpu' \in [Tasks -> CPUs \cup {None}]
         /\ cpu'[t] \in CPUs
         /\ \A x \in Tasks : cpu[x] # cpu'[t]
         /\ \A x \in Tasks : x # t => cpu'[x] = cpu[x]
BY DEF preempt_disable

\* preempt_enable() gives the CPU up.
LEMMA Enable ==
  ASSUME cpu \in [Tasks -> CPUs \cup {None}], NEW t \in Tasks, preempt_enable(t)
  PROVE  /\ cpu' \in [Tasks -> CPUs \cup {None}]
         /\ cpu'[t] = None
         /\ \A x \in Tasks : x # t => cpu'[x] = cpu[x]
BY DEF preempt_enable

\* Program counters that are reached from more than one place.
LEMMA StepsHas ==
  /\ \A f \in {"down", "try"} : <<f, "begin">> \in Steps
  /\ \A a \in {"lock", "ok", "fail"} : <<"queue", a>> \in Steps
  /\ <<"sleep", "sched">> \in Steps /\ <<"sleep", "set">> \in Steps
  /\ <<"write", "prepare">> \in Steps /\ <<"write", "sched">> \in Steps
  /\ <<"wake", "ok">> \in Steps /\ <<"wake", "fail">> \in Steps
BY DEF Steps

\* The first waiter sleeps and has not been granted.
LEMMA FirstWaiter ==
  ASSUME IInv, waiters # <<>>
  PROVE  /\ Head(waiters) \in Tasks
         /\ private[Head(waiters)]
         /\ Fn(Head(waiters)) = "sleep"
<1>1. Head(waiters) \in Linked(waiters) /\ Head(waiters) \in Tasks
  BY ListFirst DEF IInv, Types, list_first_entry
<1>2. QED
  BY <1>1 DEF IInv, Queue

\* No two transient increments are on the same CPU.
LEMMA CountsOnCpus ==
  ASSUME IInv
  PROVE  OnCpus /\ \A x, y \in Transient : cpu[x] = cpu[y] => x = y
<1>1. ASSUME NEW x \in Transient PROVE cpu[x] \in CPUs /\ cpu[x] # None
  <2>1. x \in Tasks /\ At(x) \in {"chk", "dec"} /\ Fn(x) \in {"down", "try", "queue", "wake"}
    BY <1>1 DEF Transient
  <2>2. x \in PreemptOff
    BY <2>1 DEF PreemptOff, Locked
  <2>3. QED
    BY <2>2, PercpuAssumption DEF IInv, OwnCpu
<1>2. QED
  BY <1>1 DEF OnCpus, Transient, IInv, OwnCpu

-----------------------------------------------------------------------------
(* Counting modulo Modulus.                                                 *)

\* There are fewer readers and CPUs than an unsigned int can count.
LEMMA ModulusPositive ==
  /\ Modulus \in Int /\ Modulus > 0
  /\ Cardinality(Readers) \in Nat /\ Cardinality(Readers) + NR_CPUS < Modulus
BY PercpuAssumption, RcuSyncAssumption, FS_CardinalityType

\* The remainder is in range, and is the number itself when that is small.
LEMMA ModRange ==
  ASSUME NEW a \in Int
  PROVE  a % Modulus \in 0 .. Modulus - 1 /\ (a \in 0 .. Modulus - 1 => a % Modulus = a)
<1>1. Modulus \in Int /\ Modulus > 0
  BY ModulusPositive
<1>2. QED
  BY <1>1

\* Adding to a remainder.
LEMMA ModAdd ==
  ASSUME NEW a \in Int, NEW b \in Int
  PROVE  add(a % Modulus, b) = (a + b) % Modulus
<1>1. Modulus \in Int /\ Modulus > 0
  BY ModulusPositive
<1>2. ((a % Modulus) + b) % Modulus = (a + b) % Modulus
  BY <1>1
<1>3. QED
  BY <1>2 DEF add

\* Adding 2^32 - 1 takes one away.
LEMMA ModDec ==
  ASSUME NEW a \in Int
  PROVE  add(a % Modulus, Modulus - 1) = (a - 1) % Modulus
<1>1. Modulus \in Int /\ Modulus > 0
  BY ModulusPositive
<1>2. PICK b \in Int : b = a - 1
  OBVIOUS
<1>3. PICK m \in Int : m = Modulus - 1
  BY <1>1
<1>4. add(a % Modulus, m) = (a + m) % Modulus
  BY ModAdd
<1>5. add(Modulus % Modulus, b) = (Modulus + b) % Modulus
  BY <1>1, ModAdd
<1>6. Modulus % Modulus = 0 /\ 0 + b = b
  BY <1>1
<1>7. Modulus + b = a + m
  BY <1>1, <1>2, <1>3
<1>8. QED
  BY <1>2, <1>3, <1>4, <1>5, <1>6, <1>7 DEF add

\* Adding two remainders.
LEMMA ModSum ==
  ASSUME NEW a \in Int, NEW b \in Int
  PROVE  add(a % Modulus, b % Modulus) = (a + b) % Modulus
<1>1. PICK r \in Int : r = b % Modulus
  BY ModRange
<1>2. add(a % Modulus, r) = (a + r) % Modulus
  BY ModAdd
<1>3. add(r, a) = (b + a) % Modulus
  BY <1>1, ModAdd
<1>4. add(r, a) = (a + r) % Modulus /\ b + a = a + b
  BY DEF add
<1>5. QED
  BY <1>1, <1>2, <1>3, <1>4

\* The sets that are counted are finite.
LEMMA Sizes ==
  /\ IsFiniteSet(Holders) /\ Cardinality(Holders) \in Nat
  /\ IsFiniteSet(Transient) /\ Cardinality(Transient) \in Nat
  /\ IsFiniteSet(Ahead) /\ Cardinality(Ahead) \in Nat
  /\ Cardinality(Readers) \in Nat /\ Cardinality(Holders) <= Cardinality(Readers)
<1>1. IsFiniteSet(Tasks) /\ IsFiniteSet(Readers)
  BY RcuSyncAssumption, FS_Union DEF Tasks
<1>2. Holders \subseteq Readers /\ Transient \subseteq Tasks /\ Ahead \subseteq Tasks
  BY DEF Holders, Transient, Ahead
<1>3. QED
  BY <1>1, <1>2, FS_Subset, FS_CardinalityType

\* The same after a step.
LEMMA SizesNext ==
  /\ IsFiniteSet(Holders') /\ Cardinality(Holders') \in Nat
  /\ IsFiniteSet(Transient') /\ Cardinality(Transient') \in Nat
  /\ IsFiniteSet(Ahead') /\ Cardinality(Ahead') \in Nat
<1>1. IsFiniteSet(Tasks) /\ IsFiniteSet(Readers)
  BY RcuSyncAssumption, FS_Union DEF Tasks
<1>2. Holders' \subseteq Readers /\ Transient' \subseteq Tasks /\ Ahead' \subseteq Tasks
  BY DEF Holders, Transient, Ahead
<1>3. QED
  BY <1>1, <1>2, FS_Subset, FS_CardinalityType

\* A step that moves no counter and no one in or out of the counted sets.
LEMMA CountIdle ==
  ASSUME Counted, UNCHANGED <<read_count, Holders, Transient>>,
         \A x \in Transient : cpu'[x] = cpu[x],
         Summing' => Summing /\ UNCHANGED <<sum, next_cpu>>,
         sum' \in 0 .. Modulus - 1, next_cpu' \in 1 .. NR_CPUS + 1
  PROVE  Counted'
<1>1. PICK V, W :
        /\ Tally(read_count, V, W)
        /\ W[NR_CPUS] = Cardinality(Holders) + Cardinality(Transient)
        /\ Summing => \E Z \in Int : /\ sum = Z % Modulus
                                     /\ InBounds(Z + W[NR_CPUS] - W[next_cpu - 1])
  BY DEF Counted, Balanced
<1>2. Tally(read_count, V, W)'
  BY <1>1 DEF Tally
<1>3. ASSUME Summing'
      PROVE  \E Z \in Int : /\ sum' = Z % Modulus
                            /\ InBounds(Z + W[NR_CPUS] - W[next_cpu - 1])'
  <2>1. PICK Z \in Int : sum = Z % Modulus /\ InBounds(Z + W[NR_CPUS] - W[next_cpu - 1])
    BY <1>1, <1>3
  <2>2. UNCHANGED Ahead
    BY <1>3 DEF Ahead
  <2>3. InBounds(Z + W[NR_CPUS] - W[next_cpu - 1])'
    BY <1>3, <2>1, <2>2 DEF InBounds
  <2>4. QED
    BY <1>3, <2>1, <2>3
<1>4. Balanced'
  BY <1>1, <1>2, <1>3 DEF Balanced
<1>5. QED
  BY <1>4 DEF Counted

\* A check that lets a reader pass turns a transient increment into a read lock,
\* which no writer is counting.
LEMMA CountPass ==
  ASSUME Counted, UNCHANGED <<read_count, sum, next_cpu>>, ~Summing',
         Cardinality(Holders') + Cardinality(Transient')
           = Cardinality(Holders) + Cardinality(Transient)
  PROVE  Counted'
<1>1. PICK V, W :
        /\ Tally(read_count, V, W)
        /\ W[NR_CPUS] = Cardinality(Holders) + Cardinality(Transient)
  BY DEF Counted, Balanced
<1>2. Tally(read_count, V, W)'
  BY <1>1 DEF Tally
<1>3. Balanced'
  BY <1>1, <1>2 DEF Balanced
<1>4. QED
  BY <1>3 DEF Counted

\* A step that adds d to the counter of CPU c.  What the sum would come to moves
\* along if c is still to be summed.
LEMMA CountMove ==
  ASSUME Counted, NEW c \in CPUs, NEW d \in Int, d = 1 \/ d = 0 - 1,
         read_count' = [read_count EXCEPT ![c] = add(@, IF d = 1 THEN 1 ELSE Modulus - 1)],
         Cardinality(Holders') + Cardinality(Transient')
           = Cardinality(Holders) + Cardinality(Transient) + d,
         UNCHANGED <<sum, next_cpu>>,
         Summing' => /\ Summing
                     /\ Cardinality(Ahead') >= Cardinality(Ahead) + (IF c < next_cpu THEN 0 ELSE d)
                     /\ Cardinality(Holders') + Cardinality(Ahead')
                          <= Cardinality(Holders) + Cardinality(Ahead)
                               + (IF c < next_cpu THEN 0 ELSE d)
  PROVE  Counted'
<1>1. PICK V, W :
        /\ Tally(read_count, V, W)
        /\ W[NR_CPUS] = Cardinality(Holders) + Cardinality(Transient)
        /\ Summing => \E Z \in Int : /\ sum = Z % Modulus
                                     /\ InBounds(Z + W[NR_CPUS] - W[next_cpu - 1])
  BY DEF Counted, Balanced
<1>2. read_count' = [read_count EXCEPT ![c] = (V[c] + d) % Modulus]
  <2>1. V[c] \in Int /\ read_count[c] = V[c] % Modulus
    BY <1>1 DEF Tally
  <2>2. CASE d = 1
    BY <2>1, <2>2, ModAdd
  <2>3. CASE d = 0 - 1
    <3>1. V[c] + d = V[c] - 1 /\ d # 1
      BY <2>1, <2>3
    <3>2. add(read_count[c], Modulus - 1) = (V[c] - 1) % Modulus
      BY <2>1, ModDec
    <3>3. QED
      BY <3>1, <3>2
  <2>4. QED
    BY <2>2, <2>3
<1> DEFINE V1 == [V EXCEPT ![c] = @ + d]
           W1 == [n \in 0 .. NR_CPUS |-> IF n < c THEN W[n] ELSE W[n] + d]
<1>3. Tally(read_count', V1, W1)
  <2>0. NR_CPUS \in Nat /\ c \in Nat /\ c > 0 /\ c <= NR_CPUS
    BY PercpuAssumption DEF CPUs
  <2>1. V1 \in [CPUs -> Int] /\ W1 \in [0 .. NR_CPUS -> Int] /\ W1[0] = 0
    BY <1>1, <2>0 DEF Tally
  <2>2. ASSUME NEW k \in CPUs PROVE W1[k] = W1[k - 1] + V1[k]
    <3>1. k \in 0 .. NR_CPUS /\ k - 1 \in 0 .. NR_CPUS /\ W[k] = W[k - 1] + V[k]
      BY <1>1, <2>0 DEF Tally, CPUs
    <3>2. V[k] \in Int /\ W[k] \in Int /\ W[k - 1] \in Int
      BY <1>1, <3>1 DEF Tally
    <3>3. CASE k < c
      BY <2>0, <3>1, <3>2, <3>3
    <3>4. CASE k = c
      BY <1>1, <2>0, <3>1, <3>2, <3>4 DEF Tally
    <3>5. CASE k > c
      <4>1. ~(k < c) /\ ~(k - 1 < c) /\ k # c
        BY <2>0, <3>1, <3>5
      <4>2. W1[k] = W[k] + d /\ W1[k - 1] = W[k - 1] + d /\ V1[k] = V[k]
        BY <3>1, <4>1 DEF Tally
      <4>3. QED
        BY <3>1, <3>2, <4>2
    <3>6. QED
      BY <2>0, <3>1, <3>3, <3>4, <3>5
  <2>3. ASSUME NEW k \in CPUs PROVE read_count'[k] = V1[k] % Modulus
    BY <1>1, <1>2 DEF Tally, Counted
  <2>4. QED
    BY <2>1, <2>2, <2>3 DEF Tally
<1>4. /\ NR_CPUS \in Nat /\ NR_CPUS \in 0 .. NR_CPUS /\ c \in Int /\ c <= NR_CPUS
      /\ next_cpu \in Int /\ next_cpu - 1 \in 0 .. NR_CPUS
  BY PercpuAssumption DEF Counted, CPUs
<1>5. W[NR_CPUS] \in Int /\ W[next_cpu - 1] \in Int
  BY <1>1, <1>4 DEF Tally
<1>6. W1[NR_CPUS] = W[NR_CPUS] + d
  BY <1>3, <1>4
<1>7. W1[next_cpu - 1] = IF c < next_cpu THEN W[next_cpu - 1] + d ELSE W[next_cpu - 1]
  BY <1>3, <1>4
<1>8. ASSUME Summing'
      PROVE  \E Z \in Int : /\ sum' = Z % Modulus
                            /\ InBounds(Z + W1[NR_CPUS] - W1[next_cpu - 1])'
  <2>1. PICK Z \in Int : sum = Z % Modulus /\ InBounds(Z + W[NR_CPUS] - W[next_cpu - 1])
    BY <1>1, <1>8
  <2>2. Z + W1[NR_CPUS] - W1[next_cpu - 1]
          = Z + W[NR_CPUS] - W[next_cpu - 1] + (IF c < next_cpu THEN 0 ELSE d)
    BY <1>5, <1>6, <1>7
  <2> DEFINE H == Cardinality(Holders)
             A == Cardinality(Ahead)
             Hn == Cardinality(Holders')
             An == Cardinality(Ahead')
             R == Cardinality(Readers)
             T == Z + W[NR_CPUS] - W[next_cpu - 1]
             e == IF c < next_cpu THEN 0 ELSE d
  <2>3. H \in Nat /\ A \in Nat /\ R \in Nat
    BY Sizes
  <2>4. Hn \in Nat /\ An \in Nat
    BY Sizes, SizesNext
  <2>5. /\ T \in Int /\ e \in Int
        /\ T >= H + A /\ T <= R + (next_cpu - 1) + A
        /\ An >= A + e /\ Hn + An <= H + A + e
    BY <1>5, <1>8, <2>1 DEF InBounds
  <2> HIDE DEF H, A, Hn, An, R, T, e
  <2>6. T + e >= Hn + An /\ T + e <= R + (next_cpu - 1) + An
    BY <1>4, <2>3, <2>4, <2>5
  <2>7. InBounds(Z + W1[NR_CPUS] - W1[next_cpu - 1])'
    BY <2>2, <2>6 DEF InBounds, H, A, Hn, An, R, T, e
  <2>8. QED
    BY <2>1, <2>7
<1>9. W1[NR_CPUS] = Cardinality(Holders') + Cardinality(Transient')
  BY <1>1, <1>6
<1>10. Balanced'
  BY <1>3, <1>8, <1>9 DEF Balanced
<1>11. read_count' \in [CPUs -> 0 .. Modulus - 1]
  <2>1. V[c] + d \in Int
    BY <1>1 DEF Tally
  <2>2. (V[c] + d) % Modulus \in 0 .. Modulus - 1
    BY <2>1, ModRange
  <2>3. QED
    BY <1>2, <2>2 DEF Counted
<1>12. QED
  BY <1>10, <1>11 DEF Counted

\* An increment on the task's CPU.
LEMMA CountInc ==
  ASSUME Counted, NEW t \in Tasks, cpu[t] \in CPUs,
         read_count' = [read_count EXCEPT ![cpu[t]] = add(@, 1)],
         Cardinality(Holders') + Cardinality(Transient')
           = Cardinality(Holders) + Cardinality(Transient) + 1,
         UNCHANGED <<sum, next_cpu>>,
         Summing' => /\ Summing
                     /\ Holders' = Holders
                     /\ Cardinality(Ahead') = Cardinality(Ahead) + (IF cpu[t] < next_cpu THEN 0 ELSE 1)
  PROVE  Counted'
<1>1. PICK c \in CPUs : c = cpu[t]
  OBVIOUS
<1>2. PICK d \in Int : d = 1
  OBVIOUS
<1>3. read_count' = [read_count EXCEPT ![c] = add(@, IF d = 1 THEN 1 ELSE Modulus - 1)]
  BY <1>1, <1>2
<1>4. Cardinality(Holders') + Cardinality(Transient')
        = Cardinality(Holders) + Cardinality(Transient) + d
  BY <1>2
<1>5. Summing' => /\ Summing
                  /\ Cardinality(Ahead') >= Cardinality(Ahead) + (IF c < next_cpu THEN 0 ELSE d)
                  /\ Cardinality(Holders') + Cardinality(Ahead')
                       <= Cardinality(Holders) + Cardinality(Ahead)
                            + (IF c < next_cpu THEN 0 ELSE d)
  BY <1>1, <1>2, Sizes
<1>6. QED
  BY <1>2, <1>3, <1>4, <1>5, CountMove

\* A decrement on the task's CPU.
LEMMA CountDec ==
  ASSUME Counted, NEW t \in Tasks, cpu[t] \in CPUs,
         read_count' = [read_count EXCEPT ![cpu[t]] = add(@, Modulus - 1)],
         Cardinality(Holders') + Cardinality(Transient')
           = Cardinality(Holders) + Cardinality(Transient) - 1,
         UNCHANGED <<sum, next_cpu>>,
         Summing' => /\ Summing
                     /\ Cardinality(Ahead') >= Cardinality(Ahead) - (IF cpu[t] < next_cpu THEN 0 ELSE 1)
                     /\ Cardinality(Holders') + Cardinality(Ahead')
                          <= Cardinality(Holders) + Cardinality(Ahead)
                               - (IF cpu[t] < next_cpu THEN 0 ELSE 1)
  PROVE  Counted'
<1>1. PICK c \in CPUs : c = cpu[t]
  OBVIOUS
<1>2. PICK d \in Int : d = 0 - 1
  OBVIOUS
<1>3. read_count' = [read_count EXCEPT ![c] = add(@, IF d = 1 THEN 1 ELSE Modulus - 1)]
  BY <1>1, <1>2
<1>4. Cardinality(Holders') + Cardinality(Transient')
        = Cardinality(Holders) + Cardinality(Transient) + d
  BY <1>2, Sizes
<1>5. Summing' => /\ Summing
                  /\ Cardinality(Ahead') >= Cardinality(Ahead) + (IF c < next_cpu THEN 0 ELSE d)
                  /\ Cardinality(Holders') + Cardinality(Ahead')
                       <= Cardinality(Holders) + Cardinality(Ahead)
                            + (IF c < next_cpu THEN 0 ELSE d)
  BY <1>1, <1>2, Sizes, SizesNext
<1>6. QED
  BY <1>2, <1>3, <1>4, <1>5, CountMove

\* A new pass of per_cpu_sum() starts from everything that is counted now.
LEMMA CountStart ==
  ASSUME Counted, OnCpus, UNCHANGED <<read_count, Holders, Transient, cpu>>,
         sum' = 0, next_cpu' = 1
  PROVE  Counted'
<1>1. PICK V, W :
        /\ Tally(read_count, V, W)
        /\ W[NR_CPUS] = Cardinality(Holders) + Cardinality(Transient)
  BY DEF Counted, Balanced
<1>2. Tally(read_count, V, W)'
  BY <1>1 DEF Tally
<1>3. Ahead' = Transient
  BY PercpuAssumption DEF Ahead, OnCpus, CPUs
<1>4. NR_CPUS \in Nat /\ W[NR_CPUS] \in Int /\ W[0] = 0
  BY <1>1, PercpuAssumption DEF Tally
<1> DEFINE H == Cardinality(Holders)
           T == Cardinality(Transient)
           R == Cardinality(Readers)
<1>5. H \in Nat /\ T \in Nat /\ R \in Nat /\ H <= R
  BY Sizes
<1> HIDE DEF H, T, R
<1>6. W[NR_CPUS] = H + T /\ W[1 - 1] = 0
  BY <1>1, <1>4 DEF H, T
<1>7. InBounds(0 + W[NR_CPUS] - W[next_cpu - 1])'
  <2>1. 0 + W[NR_CPUS] - W[1 - 1] = H + T
    BY <1>5, <1>6
  <2>2. H + T >= H + T /\ H + T <= R + (1 - 1) + T
    BY <1>5
  <2>3. QED
    BY <1>3, <2>1, <2>2 DEF InBounds, H, T, R
<1>8. sum' = 0 % Modulus
  BY ModRange, ModulusPositive
<1>9. Balanced'
  BY <1>1, <1>2, <1>7, <1>8 DEF Balanced
<1>10. QED
  BY <1>9, ModulusPositive, PercpuAssumption DEF Counted

\* One CPU's counter joins the sum; at most one transient increment is on it.
LEMMA CountSum ==
  ASSUME Counted, OnCpus, \A t, u \in Transient : cpu[t] = cpu[u] => t = u, Summing,
         UNCHANGED <<read_count, Holders, Transient, cpu>>,
         next_cpu <= NR_CPUS, sum' = add(sum, read_count[next_cpu]), next_cpu' = next_cpu + 1
  PROVE  Counted'
<1>1. PICK V, W :
        /\ Tally(read_count, V, W)
        /\ W[NR_CPUS] = Cardinality(Holders) + Cardinality(Transient)
        /\ Summing => \E Z \in Int : /\ sum = Z % Modulus
                                     /\ InBounds(Z + W[NR_CPUS] - W[next_cpu - 1])
  BY DEF Counted, Balanced
<1>2. PICK Z \in Int : sum = Z % Modulus /\ InBounds(Z + W[NR_CPUS] - W[next_cpu - 1])
  BY <1>1
<1>3. /\ NR_CPUS \in Nat /\ NR_CPUS \in 0 .. NR_CPUS /\ next_cpu \in CPUs /\ next_cpu \in Int
      /\ next_cpu \in 0 .. NR_CPUS /\ next_cpu - 1 \in 0 .. NR_CPUS
      /\ next_cpu + 1 \in 1 .. NR_CPUS + 1 /\ (next_cpu + 1) - 1 = next_cpu
  BY PercpuAssumption DEF Counted, CPUs
<1>4. /\ V[next_cpu] \in Int /\ W[NR_CPUS] \in Int /\ W[next_cpu] \in Int
      /\ W[next_cpu - 1] \in Int /\ W[next_cpu] = W[next_cpu - 1] + V[next_cpu]
      /\ read_count[next_cpu] = V[next_cpu] % Modulus
  BY <1>1, <1>3 DEF Tally
<1>5. PICK Z1 \in Int : Z1 = Z + V[next_cpu]
  BY <1>4
<1>6. sum' = Z1 % Modulus
  BY <1>2, <1>4, <1>5, ModSum
<1>7. Z1 + W[NR_CPUS] - W[next_cpu] = Z + W[NR_CPUS] - W[next_cpu - 1]
  BY <1>4, <1>5
<1>8. Cardinality(Ahead) - 1 <= Cardinality(Ahead') /\ Cardinality(Ahead') <= Cardinality(Ahead)
  <2>1. Ahead' = {t \in Ahead : cpu[t] # next_cpu}
    <3>1. \A t \in Transient : cpu[t] \in Int
      BY DEF OnCpus, CPUs
    <3>2. \A t \in Transient : cpu[t] >= next_cpu + 1 <=> cpu[t] >= next_cpu /\ cpu[t] # next_cpu
      BY <1>3, <3>1
    <3>3. QED
      BY <3>2 DEF Ahead
  <2>2. CASE \E t \in Ahead : cpu[t] = next_cpu
    <3>1. PICK t \in Ahead : cpu[t] = next_cpu
      BY <2>2
    <3>2. Ahead' = Ahead \ {t}
      BY <2>1, <3>1 DEF Ahead
    <3>3. Cardinality(Ahead') = Cardinality(Ahead) - 1
      BY <3>1, <3>2, Sizes, FS_RemoveElement
    <3>4. QED
      BY <3>3, Sizes
  <2>3. CASE ~ \E t \in Ahead : cpu[t] = next_cpu
    <3>1. Ahead' = Ahead
      BY <2>1, <2>3
    <3>2. QED
      BY <3>1, Sizes
  <2>4. QED
    BY <2>2, <2>3
<1>9. InBounds(Z1 + W[NR_CPUS] - W[next_cpu - 1])'
  <2> DEFINE H == Cardinality(Holders)
             A == Cardinality(Ahead)
             An == Cardinality(Ahead')
             R == Cardinality(Readers)
             T == Z + W[NR_CPUS] - W[next_cpu - 1]
  <2>1. H \in Nat /\ A \in Nat /\ R \in Nat /\ An \in Nat
    BY Sizes, SizesNext
  <2>2. /\ T \in Int
        /\ T >= H + A /\ T <= R + (next_cpu - 1) + A
        /\ A - 1 <= An /\ An <= A
    BY <1>2, <1>4, <1>8 DEF InBounds
  <2> HIDE DEF H, A, An, R, T
  <2>3. T >= H + An /\ T <= R + next_cpu + An
    BY <1>3, <2>1, <2>2
  <2>4. /\ Z1 + W[NR_CPUS] - W[(next_cpu + 1) - 1] = T
        /\ R + ((next_cpu + 1) - 1) + An = R + next_cpu + An
    BY <1>3, <1>7 DEF T
  <2>5. QED
    BY <2>3, <2>4 DEF InBounds, H, A, An, R
<1>10. Tally(read_count, V, W)'
  BY <1>1 DEF Tally
<1>11. Balanced'
  BY <1>1, <1>6, <1>9, <1>10 DEF Balanced
<1>12. QED
  BY <1>3, <1>6, <1>11, ModRange DEF Counted

\* A sum over all CPUs that comes to zero leaves no reader that holds the
\* semaphore: there are too few of them for the counters to wrap around.
LEMMA SumZero ==
  ASSUME Counted, OnCpus, Summing, ~(next_cpu <= NR_CPUS), sum = 0
  PROVE  Holders = {}
<1>1. PICK V, W :
        /\ Tally(read_count, V, W)
        /\ Summing => \E Z \in Int : /\ sum = Z % Modulus
                                     /\ InBounds(Z + W[NR_CPUS] - W[next_cpu - 1])
  BY DEF Counted, Balanced
<1>2. PICK Z \in Int : sum = Z % Modulus /\ InBounds(Z + W[NR_CPUS] - W[next_cpu - 1])
  BY <1>1
<1>3. /\ NR_CPUS \in Nat /\ NR_CPUS \in 0 .. NR_CPUS
      /\ next_cpu = NR_CPUS + 1 /\ next_cpu - 1 = NR_CPUS
  BY PercpuAssumption DEF Counted
<1>4. W[NR_CPUS] \in Int
  BY <1>1, <1>3 DEF Tally
<1>5. Ahead = {}
  BY <1>3 DEF Ahead, OnCpus, CPUs
<1>6. Cardinality(Ahead) = 0
  BY <1>5, FS_EmptySet
<1>7. Z >= Cardinality(Holders) /\ Z <= Cardinality(Readers) + NR_CPUS
  <2>1. Z + W[NR_CPUS] - W[next_cpu - 1] = Z
    BY <1>3, <1>4
  <2>2. QED
    BY <1>2, <1>3, <1>6, <2>1, Sizes DEF InBounds
<1>8. Z \in 0 .. Modulus - 1
  BY <1>3, <1>7, Sizes, ModulusPositive
<1>9. Z = 0
  BY <1>2, <1>8, ModRange
<1>10. Cardinality(Holders) = 0
  BY <1>7, <1>9, Sizes
<1>11. QED
  BY <1>10, Sizes, FS_EmptySet

\* The counters of a semaphore nobody uses, as they are initialized.
Blank ==
  /\ read_count = [c \in CPUs |-> 0]
  /\ Holders = {} /\ Transient = {} /\ ~Summing
  /\ sum \in 0 .. Modulus - 1
  /\ next_cpu \in 1 .. NR_CPUS + 1

\* Zero everywhere is right then.
LEMMA CountReset == Blank => Counted
<1> SUFFICES ASSUME Blank PROVE Counted
  OBVIOUS
<1> DEFINE V == [c \in CPUs |-> 0]
           W == [n \in 0 .. NR_CPUS |-> 0]
<1>1. NR_CPUS \in Nat /\ NR_CPUS \in 0 .. NR_CPUS /\ 0 % Modulus = 0
  BY PercpuAssumption, ModRange, ModulusPositive
<1>2. Tally(read_count, V, W)
  BY <1>1 DEF Blank, Tally, CPUs
<1>3. W[NR_CPUS] = Cardinality(Holders) + Cardinality(Transient)
  BY <1>1, FS_EmptySet DEF Blank
<1>4. Balanced
  BY <1>2, <1>3 DEF Blank, Balanced
<1>5. QED
  BY <1>4, ModulusPositive DEF Blank, Counted

-----------------------------------------------------------------------------
(* One lemma per action: it keeps the invariant and moves the lock as it may.*)

\* A trylock counts the reader, or the waiter it works for, before it looks at block.
LEMMA TryIncInv ==
  ASSUME IInv, NEW t \in Tasks, TryInc(t)
  PROVE  IInv' /\ LockStep
<1>1. Fn(t) \in {"down", "try", "queue", "wake"} /\ At(t) = "begin"
  BY PcIs DEF IInv, Types, TryInc, this_cpu_inc
<1>2. Fn(t) # "wake" => t \in Readers
  BY Places, PercpuAssumption DEF IInv, Types, Roles, Tasks, Goto, TryInc, this_cpu_inc
<1>3. Fn(t) = "wake" => waiters # <<>> /\ Head(waiters) \in Readers
  BY Places DEF IInv, Types, TryInc, this_cpu_inc
<1>4. Fn(t)' = Fn(t) /\ At(t)' = "chk"
  BY DEF IInv, Types, Goto, Fn, At, TryInc, this_cpu_inc
<1>5. \A x \in Tasks : x # t => Fn(x)' = Fn(x) /\ At(x)' = At(x)
  BY DEF IInv, Types, Goto, Fn, At, TryInc, this_cpu_inc
<1>6. read_count' = [read_count EXCEPT ![cpu[t]] = add(@, 1)]
  BY DEF TryInc, this_cpu_inc
<1>frame. UNCHANGED <<block, waiters, waiters_lock, writer, private, awake, cpu, sum,
                      next_cpu, p, upc, phase>>
  BY DEF TryInc, syncVars, rssVars, rcuVars, semVars, countVars, listVars, waitVars, sumVars
<1>granted. Granted' = Granted
  BY <1>1, <1>2, <1>3, <1>4, <1>5, <1>frame DEF Granted, In, Fn
<1>picked. Picked' = Picked
  BY <1>1, <1>2, <1>3, <1>4, <1>5, <1>frame DEF Picked
<1>owners. Owners' = Owners
  BY <1>1, <1>2, <1>3, <1>4, <1>5, <1>granted, <1>picked DEF Owners, Tasks
<1>Types. Types'
  <2>1. pc' \in [Tasks -> Steps]
    BY DEF IInv, Types, Goto, Steps, TryInc, this_cpu_inc
  <2>2. cpu' \in [Tasks -> CPUs \cup {None}]
    BY <1>frame DEF IInv, Types
  <2>3. awake' \in [Tasks -> BOOLEAN] /\ private' \in [Tasks -> BOOLEAN]
    BY <1>frame DEF IInv, Types
  <2>4. QED
    BY <1>frame, <2>1, <2>2, <2>3 DEF IInv, Types
<1>Roles. Roles'
  BY <1>1, <1>2, <1>3, <1>4, <1>5, PercpuAssumption DEF IInv, Roles, Tasks
<1>OwnCpu. OwnCpu'
  BY <1>1, <1>2, <1>3, <1>4, <1>5, <1>frame DEF IInv, OwnCpu, PreemptOff, Locked
<1>LockOwner. LockOwner'
  BY <1>1, <1>2, <1>3, <1>4, <1>5, <1>frame DEF IInv, LockOwner, Locked
<1>Queue. Queue'
  BY <1>1, <1>2, <1>3, <1>4, <1>5, <1>frame DEF IInv, Queue
<1>OneOwner. OneOwner'
  BY <1>frame, <1>owners DEF IInv, OneOwner
<1>WakerFollows. WakerFollows'
  BY <1>1, <1>2, <1>3, <1>4, <1>5, <1>frame DEF IInv, WakerFollows, GaveUp, Waker, Tasks
<1>WakeComes. WakeComes'
  BY <1>1, <1>2, <1>3, <1>4, <1>5, <1>frame DEF IInv, WakeComes, Tasks
<1>WritersEntered. WritersEntered'
  BY <1>1, <1>2, <1>3, <1>4, <1>5, <1>frame DEF IInv, WritersEntered, Tasks
<1>Unused. Unused'
  BY <1>1, <1>2, <1>3, <1>4, <1>5, <1>frame DEF IInv, Unused
<1>holders. Holders' = Holders
  BY <1>1, <1>2, <1>3, <1>4, <1>5, <1>granted, <1>picked DEF Holders, Tasks
<1>transient. t \notin Transient /\ Transient' = Transient \cup {t}
  BY <1>1, <1>2, <1>3, <1>4, <1>5 DEF Transient
<1>writers. Writers' = Writers
  BY <1>1, <1>2, <1>3, <1>4, <1>5 DEF Writers, Tasks
<1>Counted. Counted'
  <2>1. cpu[t] \in CPUs /\ cpu[t] \in Int /\ next_cpu \in Int
    BY <1>1 DEF IInv, OwnCpu, PreemptOff, Locked, Counted, CPUs
  <2>2. Cardinality(Transient') = Cardinality(Transient) + 1
    BY <1>transient, Sizes, FS_AddElement
  <2>3. Cardinality(Holders') + Cardinality(Transient')
          = Cardinality(Holders) + Cardinality(Transient) + 1
    BY <1>holders, <2>2, Sizes
  <2>4. Cardinality(Ahead') = Cardinality(Ahead) + (IF cpu[t] < next_cpu THEN 0 ELSE 1)
    <3>1. CASE cpu[t] < next_cpu
      <4>1. Ahead' = Ahead
        BY <1>frame, <1>transient, <2>1, <3>1 DEF Ahead
      <4>2. QED
        BY <3>1, <4>1, Sizes
    <3>2. CASE ~(cpu[t] < next_cpu)
      <4>1. t \notin Ahead /\ Ahead' = Ahead \cup {t}
        BY <1>frame, <1>transient, <2>1, <3>2 DEF Ahead
      <4>2. QED
        BY <3>2, <4>1, Sizes, FS_AddElement
    <3>3. QED
      BY <3>1, <3>2
  <2>5. Summing' => Summing
    BY <1>1, <1>2, <1>3, <1>4, <1>5 DEF Summing, Tasks
  <2>6. QED
    BY <1>6, <1>frame, <1>holders, <2>1, <2>3, <2>4, <2>5, CountInc, Sizes DEF IInv
<1>lock. LockStep
  BY <1>holders, <1>writers DEF LockStep
<1> QED
  BY <1>Types, <1>Roles, <1>OwnCpu, <1>LockOwner, <1>Queue, <1>OneOwner, <1>WakerFollows,
     <1>WakeComes, <1>WritersEntered, <1>Unused, <1>Counted, <1>lock DEF IInv

\* Without block the increment becomes a read lock; with it, it is to be undone.
LEMMA TryCheckInv ==
  ASSUME IInv, NEW t \in Tasks, TryCheck(t)
  PROVE  IInv' /\ LockStep
<1>1. Fn(t) \in {"down", "try", "queue", "wake"} /\ At(t) = "chk"
  BY Places DEF IInv, Types, TryCheck, readers_allowed
<1>2. Fn(t)' = Fn(t) /\ At(t)' = IF block THEN "dec" ELSE "ok"
  BY DEF IInv, Types, Goto, Fn, At, TryCheck, readers_allowed
<1>3. \A x \in Tasks : x # t => Fn(x)' = Fn(x) /\ At(x)' = At(x)
  BY DEF IInv, Types, Goto, Fn, At, TryCheck, readers_allowed
<1>frame. UNCHANGED <<block, read_count, waiters, waiters_lock, writer, private, awake, cpu,
                      sum, next_cpu, p, upc, phase>>
  BY DEF TryCheck, syncVars, rssVars, rcuVars, semVars, countVars, listVars, waitVars, sumVars
<1>granted. Granted' = Granted
  BY <1>1, <1>2, <1>3, <1>frame DEF Granted, In, Fn
<1>picked. Picked' = IF Fn(t) = "wake" /\ ~block THEN {Head(waiters)} ELSE Picked
  BY <1>1, <1>2, <1>3, <1>frame DEF IInv, Types, LockOwner, Locked, Roles, Queue, Granted,
     Picked, In
<1>owners. Owners' = Owners
  <2>1. Fn(t) = "wake" => Head(waiters) \notin Updaters
    BY <1>1, PercpuAssumption DEF IInv, Queue
  <2>2. Fn(t) # "wake" => t \notin Updaters
    BY <1>1 DEF IInv, Roles
  <2>3. ASSUME NEW v \in Updaters PROVE v \in Owners' <=> v \in Owners
    <3>1. v \in Picked' <=> v \in Picked
      BY <1>picked, <2>1 DEF Picked
    <3>2. CASE v = t
      BY <1>1, <1>2, <1>granted, <2>2, <3>1, <3>2 DEF Owners
    <3>3. CASE v # t
      BY <1>3, <1>granted, <3>1, <3>3 DEF Owners, Tasks
    <3>4. QED
      BY <3>2, <3>3
  <2>4. QED
    BY <2>3 DEF Owners
<1>Types. Types'
  <2>1. pc' \in [Tasks -> Steps]
    BY <1>1, <1>2, <1>3, <1>frame, <1>granted, <1>picked, Ends DEF IInv, Types, Steps, Goto,
       Roles, TryCheck, readers_allowed, Fn, At
  <2>2. cpu' \in [Tasks -> CPUs \cup {None}]
    BY <1>frame DEF IInv, Types
  <2>3. awake' \in [Tasks -> BOOLEAN] /\ private' \in [Tasks -> BOOLEAN]
    BY <1>frame DEF IInv, Types
  <2>4. QED
    BY <1>frame, <2>1, <2>2, <2>3 DEF IInv, Types
<1>Roles. Roles'
  BY <1>1, <1>2, <1>3 DEF IInv, Roles, Tasks
<1>OwnCpu. OwnCpu'
  BY <1>1, <1>2, <1>3, <1>frame DEF IInv, OwnCpu, PreemptOff, Locked
<1>LockOwner. LockOwner'
  BY <1>1, <1>2, <1>3, <1>frame DEF IInv, LockOwner, Locked
<1>Queue. Queue'
  BY <1>1, <1>2, <1>3, <1>frame DEF IInv, Queue
<1>OneOwner. OneOwner'
  BY <1>frame, <1>owners DEF IInv, OneOwner
<1>WakerFollows. WakerFollows'
  BY <1>1, <1>2, <1>3, <1>frame DEF IInv, WakerFollows, GaveUp, Waker, Tasks
<1>WakeComes. WakeComes'
  BY <1>1, <1>2, <1>3, <1>frame DEF IInv, WakeComes, Tasks
<1>WritersEntered. WritersEntered'
  BY <1>1, <1>2, <1>3, <1>frame DEF IInv, WritersEntered, Tasks
<1>Unused. Unused'
  BY <1>1, <1>2, <1>3, <1>frame DEF IInv, Unused
<1>none. ~block => Owners = {} /\ Writers = {}
  BY DEF IInv, OneOwner, Owners, Writers
<1> DEFINE g == IF Fn(t) = "wake" THEN Head(waiters) ELSE t
<1>new. g \in Readers /\ g \in Tasks /\ g \notin Holders
  <2>1. CASE Fn(t) = "wake"
    <3>1. waiters # <<>> /\ Head(waiters) \in Readers
      BY <1>1, <2>1 DEF IInv, Queue
    <3>2. private[g] /\ Fn(g) = "sleep" /\ g \in Tasks
      BY <2>1, <3>1, FirstWaiter
    <3>3. \A x \in Tasks : ~(Fn(x) = "wake" /\ At(x) = "ok")
      BY <1>1, <2>1 DEF IInv, LockOwner, Locked
    <3>4. QED
      BY <2>1, <3>1, <3>2, <3>3 DEF Holders, Granted, Picked
  <2>2. CASE Fn(t) # "wake"
    <3>1. t \in Readers
      BY <1>1, <2>2 DEF IInv, Roles, Tasks
    <3>2. t \notin Granted \cup Picked
      BY <1>1, FirstWaiter DEF Granted, Picked, In, Fn, At
    <3>3. QED
      BY <1>1, <2>2, <3>1, <3>2 DEF Holders
  <2>3. QED
    BY <2>1, <2>2
<1>holders. Holders' = IF block THEN Holders ELSE Holders \cup {g}
  <2>1. ASSUME NEW x \in Readers
        PROVE  x \in Holders' <=> IF block THEN x \in Holders ELSE x \in Holders \/ x = g
    <3>1. CASE x = t
      BY <1>1, <1>2, <1>granted, <1>picked, <3>1 DEF Holders, IInv, Roles
    <3>2. CASE x # t
      <4>1. Fn(x)' = Fn(x) /\ At(x)' = At(x)
        BY <1>3, <3>2 DEF Tasks
      <4>2. Picked' = IF Fn(t) = "wake" /\ ~block THEN {g} ELSE Picked
        BY <1>picked
      <4>3. Fn(t) = "wake" \/ x # g
        BY <3>2
      <4>4. Fn(t) = "wake" => Picked = {}
        BY <1>1 DEF IInv, LockOwner, Locked, Picked
      <4>5. QED
        BY <1>granted, <4>1, <4>2, <4>3, <4>4 DEF Holders
    <3>3. QED
      BY <3>1, <3>2
  <2>2. QED
    BY <1>new, <2>1 DEF Holders
<1>transient. t \in Transient /\ Transient' = IF block THEN Transient ELSE Transient \ {t}
  BY <1>1, <1>2, <1>3 DEF Transient
<1>writers. Writers' = Writers
  BY <1>1, <1>2, <1>3 DEF Writers, Tasks
<1>Counted. Counted'
  <2>1. CASE block
    <3>1. Summing' => Summing
      BY <1>1, <1>2, <1>3 DEF Summing, Tasks
    <3>2. QED
      BY <1>frame, <1>holders, <1>transient, <2>1, <3>1, CountIdle DEF IInv, Counted
  <2>2. CASE ~block
    <3>1. ~Summing'
      BY <1>none, <1>owners, <2>2 DEF Summing, Owners
    <3>2. Cardinality(Holders') = Cardinality(Holders) + 1
      BY <1>new, <1>holders, <2>2, Sizes, FS_AddElement
    <3>3. Cardinality(Transient') = Cardinality(Transient) - 1
      BY <1>transient, <2>2, Sizes, FS_RemoveElement
    <3>4. Cardinality(Holders') + Cardinality(Transient')
            = Cardinality(Holders) + Cardinality(Transient)
      BY <3>2, <3>3, Sizes
    <3>5. QED
      BY <1>frame, <3>1, <3>4, CountPass DEF IInv
  <2>3. QED
    BY <2>1, <2>2
<1>lock. LockStep
  BY <1>none, <1>new, <1>holders, <1>writers DEF LockStep, Hold!Next, Hold!AcquireRead
<1> QED
  BY <1>Types, <1>Roles, <1>OwnCpu, <1>LockOwner, <1>Queue, <1>OneOwner, <1>WakerFollows,
     <1>WakeComes, <1>WritersEntered, <1>Unused, <1>Counted, <1>lock DEF IInv

\* The increment is taken back.
LEMMA TryDecInv ==
  ASSUME IInv, NEW t \in Tasks, TryDec(t)
  PROVE  IInv' /\ LockStep
<1>1. Fn(t) \in {"down", "try", "queue", "wake"} /\ At(t) = "dec"
  BY Places DEF IInv, Types, TryDec, this_cpu_dec
<1>2. Fn(t)' = Fn(t) /\ At(t)' = "prod"
  BY DEF IInv, Types, Goto, Fn, At, TryDec, this_cpu_dec
<1>3. \A x \in Tasks : x # t => Fn(x)' = Fn(x) /\ At(x)' = At(x)
  BY DEF IInv, Types, Goto, Fn, At, TryDec, this_cpu_dec
<1>4. read_count' = [read_count EXCEPT ![cpu[t]] = add(@, Modulus - 1)]
  BY DEF TryDec, this_cpu_dec
<1>frame. UNCHANGED <<block, waiters, waiters_lock, writer, private, awake, cpu, sum,
                      next_cpu, p, upc, phase>>
  BY DEF TryDec, syncVars, rssVars, rcuVars, semVars, countVars, listVars, waitVars, sumVars
<1>granted. Granted' = Granted
  BY <1>1, <1>2, <1>3, <1>frame DEF Granted, In, Fn
<1>picked. Picked' = Picked
  BY <1>1, <1>2, <1>3, <1>frame DEF Picked
<1>owners. Owners' = Owners
  BY <1>1, <1>2, <1>3, <1>granted, <1>picked DEF Owners, Tasks
<1>Types. Types'
  <2>1. pc' \in [Tasks -> Steps]
    BY <1>1, <1>2, <1>3, <1>4, <1>frame, <1>granted, <1>picked, Ends DEF IInv, Types, Steps,
       Goto, Roles, TryDec, this_cpu_dec, Fn, At
  <2>2. cpu' \in [Tasks -> CPUs \cup {None}]
    BY <1>frame DEF IInv, Types
  <2>3. awake' \in [Tasks -> BOOLEAN] /\ private' \in [Tasks -> BOOLEAN]
    BY <1>frame DEF IInv, Types
  <2>4. QED
    BY <1>frame, <2>1, <2>2, <2>3 DEF IInv, Types
<1>Roles. Roles'
  BY <1>1, <1>2, <1>3 DEF IInv, Roles, Tasks
<1>OwnCpu. OwnCpu'
  BY <1>1, <1>2, <1>3, <1>frame DEF IInv, OwnCpu, PreemptOff, Locked
<1>LockOwner. LockOwner'
  BY <1>1, <1>2, <1>3, <1>frame DEF IInv, LockOwner, Locked
<1>Queue. Queue'
  BY <1>1, <1>2, <1>3, <1>frame DEF IInv, Queue
<1>OneOwner. OneOwner'
  BY <1>frame, <1>owners DEF IInv, OneOwner
<1>WakerFollows. WakerFollows'
  BY <1>1, <1>2, <1>3, <1>frame DEF IInv, WakerFollows, GaveUp, Waker, Tasks
<1>WakeComes. WakeComes'
  BY <1>1, <1>2, <1>3, <1>frame DEF IInv, WakeComes, Tasks
<1>WritersEntered. WritersEntered'
  BY <1>1, <1>2, <1>3, <1>frame DEF IInv, WritersEntered, Tasks
<1>Unused. Unused'
  BY <1>1, <1>2, <1>3, <1>frame DEF IInv, Unused
<1>holders. Holders' = Holders
  BY <1>1, <1>2, <1>3, <1>granted, <1>picked DEF Holders, Tasks
<1>transient. t \in Transient /\ Transient' = Transient \ {t}
  BY <1>1, <1>2, <1>3 DEF Transient
<1>writers. Writers' = Writers
  BY <1>1, <1>2, <1>3 DEF Writers, Tasks
<1>Counted. Counted'
  <2>1. cpu[t] \in CPUs /\ cpu[t] \in Int /\ next_cpu \in Int
    BY <1>1 DEF IInv, OwnCpu, PreemptOff, Locked, Counted, CPUs
  <2>2. Cardinality(Transient') = Cardinality(Transient) - 1
    BY <1>transient, Sizes, FS_RemoveElement
  <2>3. Cardinality(Holders') + Cardinality(Transient')
          = Cardinality(Holders) + Cardinality(Transient) - 1
    BY <1>holders, <2>2, Sizes
  <2>4. Cardinality(Ahead') = Cardinality(Ahead) - (IF cpu[t] < next_cpu THEN 0 ELSE 1)
    <3>1. CASE cpu[t] < next_cpu
      <4>1. Ahead' = Ahead
        BY <1>frame, <1>transient, <2>1, <3>1 DEF Ahead
      <4>2. QED
        BY <3>1, <4>1, Sizes
    <3>2. CASE ~(cpu[t] < next_cpu)
      <4>1. t \in Ahead /\ Ahead' = Ahead \ {t}
        BY <1>frame, <1>transient, <2>1, <3>2 DEF Ahead
      <4>2. QED
        BY <3>2, <4>1, Sizes, FS_RemoveElement
    <3>3. QED
      BY <3>1, <3>2
  <2>5. Summing' => Summing
    BY <1>1, <1>2, <1>3 DEF Summing, Tasks
  <2>6. /\ Cardinality(Ahead') >= Cardinality(Ahead) - (IF cpu[t] < next_cpu THEN 0 ELSE 1)
        /\ Cardinality(Holders') + Cardinality(Ahead')
             <= Cardinality(Holders) + Cardinality(Ahead)
                  - (IF cpu[t] < next_cpu THEN 0 ELSE 1)
    BY <1>holders, <2>4, Sizes
  <2>7. QED
    BY <1>4, <1>frame, <2>1, <2>3, <2>5, <2>6, CountDec DEF IInv
<1>lock. LockStep
  BY <1>holders, <1>writers DEF LockStep
<1> QED
  BY <1>Types, <1>Roles, <1>OwnCpu, <1>LockOwner, <1>Queue, <1>OneOwner, <1>WakerFollows,
     <1>WakeComes, <1>WritersEntered, <1>Unused, <1>Counted, <1>lock DEF IInv

\* A prod changes nothing but the writer's task state.
LEMMA ProdInv ==
  ASSUME IInv, NEW t \in Tasks, Prod(t)
  PROVE  IInv' /\ LockStep
<1>1. Fn(t) \in {"down", "try", "queue", "wake", "up"} /\ At(t) = "prod"
  BY Places DEF IInv, Types, Prod, In, prod
<1>2. Fn(t)' = Fn(t) /\ At(t)' = IF Fn(t) = "up" THEN "done" ELSE "fail"
  BY DEF IInv, Types, Goto, Fn, At, Prod, In, prod
<1>3. \A x \in Tasks : x # t => Fn(x)' = Fn(x) /\ At(x)' = At(x)
  BY DEF IInv, Types, Goto, Fn, At, Prod, In, prod
<1>frame. UNCHANGED <<block, read_count, waiters, waiters_lock, writer, private, cpu, sum,
                      next_cpu, p, upc, phase>>
  BY DEF Prod, syncVars, rssVars, rcuVars, semVars, countVars, listVars, waitVars, sumVars
<1>granted. Granted' = Granted
  BY <1>1, <1>2, <1>3, <1>frame DEF Granted, In, Fn
<1>picked. Picked' = Picked
  BY <1>1, <1>2, <1>3, <1>frame DEF Picked
<1>owners. Owners' = Owners
  BY <1>1, <1>2, <1>3, <1>granted, <1>picked DEF Owners, Tasks
<1>Types. Types'
  <2>1. pc' \in [Tasks -> Steps]
    BY <1>1, <1>2, <1>3, <1>frame, <1>granted, <1>picked, Ends DEF IInv, Types, Steps, Goto,
       Roles, Prod, In, prod, Fn, At
  <2>2. cpu' \in [Tasks -> CPUs \cup {None}]
    BY <1>frame DEF IInv, Types
  <2>3. awake' \in [Tasks -> BOOLEAN] /\ private' \in [Tasks -> BOOLEAN]
    BY <1>frame DEF IInv, Types, Prod, In, prod
  <2>4. QED
    BY <1>frame, <2>1, <2>2, <2>3 DEF IInv, Types
<1>Roles. Roles'
  BY <1>1, <1>2, <1>3 DEF IInv, Roles, Tasks
<1>OwnCpu. OwnCpu'
  BY <1>1, <1>2, <1>3, <1>frame DEF IInv, OwnCpu, PreemptOff, Locked
<1>LockOwner. LockOwner'
  BY <1>1, <1>2, <1>3, <1>frame DEF IInv, LockOwner, Locked
<1>Queue. Queue'
  BY <1>1, <1>2, <1>3, <1>frame DEF IInv, Queue
<1>OneOwner. OneOwner'
  BY <1>frame, <1>owners DEF IInv, OneOwner
<1>WakerFollows. WakerFollows'
  BY <1>1, <1>2, <1>3, <1>frame DEF IInv, WakerFollows, GaveUp, Waker, Tasks
<1>WakeComes. WakeComes'
  BY <1>1, <1>2, <1>3, <1>frame DEF IInv, WakeComes, WakerFollows, GaveUp, Waker, Tasks
<1>WritersEntered. WritersEntered'
  BY <1>1, <1>2, <1>3, <1>frame DEF IInv, WritersEntered, Tasks
<1>Unused. Unused'
  BY <1>1, <1>2, <1>3, <1>frame DEF IInv, Unused
<1>holders. Holders' = Holders
  BY <1>1, <1>2, <1>3, <1>granted, <1>picked DEF Holders, Tasks
<1>transient. Transient' = Transient
  BY <1>1, <1>2, <1>3 DEF Transient
<1>writers. Writers' = Writers
  BY <1>1, <1>2, <1>3 DEF Writers, Tasks
<1>Counted. Counted'
  <2>1. \A x \in Transient : cpu'[x] = cpu[x]
    BY <1>1, <1>2, <1>3, <1>frame DEF Transient
  <2>2. Summing' => Summing
    BY <1>1, <1>2, <1>3 DEF Summing, Tasks
  <2>3. /\ UNCHANGED <<sum, next_cpu, read_count>>
        /\ sum' \in 0 .. Modulus - 1 /\ next_cpu' \in 1 .. NR_CPUS + 1
    BY <1>frame DEF IInv, Counted
  <2>4. QED
    BY <1>holders, <1>transient, <2>1, <2>2, <2>3, CountIdle DEF IInv
<1>lock. LockStep
  BY <1>holders, <1>writers DEF LockStep
<1> QED
  BY <1>Types, <1>Roles, <1>OwnCpu, <1>LockOwner, <1>Queue, <1>OneOwner, <1>WakerFollows,
     <1>WakeComes, <1>WritersEntered, <1>Unused, <1>Counted, <1>lock DEF IInv

\* A reader disables preemption on a CPU of its own.
LEMMA DownReadInv ==
  ASSUME IInv, NEW r \in Readers, DownRead(r)
  PROVE  IInv' /\ LockStep
<1>task. r \in Tasks
  BY DEF Tasks
<1>to. PICK s \in Steps : Goto(r, s) /\ s[1] \in {"down", "try"} /\ s[2] = "begin"
  BY <1>task, StepsHas, Ends DEF DownRead, SectionBegin
<1>move. /\ pc' \in [Tasks -> Steps]
         /\ Fn(r)' = s[1] /\ At(r)' = s[2]
         /\ \A x \in Tasks : x # r => Fn(x)' = Fn(x) /\ At(x)' = At(x)
  BY <1>task, <1>to, Moves DEF IInv, Types
<1>1. Fn(r) = "out" /\ phase = "live"
  BY <1>task, Places DEF IInv, Types, DownRead, SectionBegin
<1>2. Fn(r)' \in {"down", "try"} /\ At(r)' = "begin"
  BY <1>to, <1>move
<1>3. \A x \in Tasks : x # r => Fn(x)' = Fn(x) /\ At(x)' = At(x)
  BY <1>to, <1>move
<1>4. cpu'[r] \in CPUs /\ \A x \in Tasks : cpu[x] # cpu'[r]
  BY <1>task, Enable, Disable DEF IInv, Types, DownRead
<1>5. \A x \in Tasks : x # r => cpu'[x] = cpu[x]
  BY <1>task, Enable, Disable DEF IInv, Types, DownRead
<1>frame. UNCHANGED <<block, read_count, waiters, waiters_lock, writer, private, awake, sum,
                      next_cpu, p, upc, phase>>
  BY DEF DownRead, SectionBegin, semVars, countVars, listVars, waitVars, sumVars
<1>granted. Granted' = Granted
  BY <1>task, <1>1, <1>2, <1>3, <1>frame DEF Granted, In, Fn
<1>picked. Picked' = Picked
  BY <1>task, <1>1, <1>2, <1>3, <1>frame DEF Picked
<1>owners. Owners' = Owners
  BY <1>task, <1>1, <1>2, <1>3, <1>granted, <1>picked DEF Owners, Tasks
<1>Types. Types'
  <2>1. pc' \in [Tasks -> Steps]
    BY <1>move
  <2>2. cpu' \in [Tasks -> CPUs \cup {None}]
    BY <1>task, Disable DEF IInv, Types, DownRead
  <2>3. awake' \in [Tasks -> BOOLEAN] /\ private' \in [Tasks -> BOOLEAN]
    BY <1>frame DEF IInv, Types
  <2>4. QED
    BY <1>frame, <2>1, <2>2, <2>3 DEF IInv, Types
<1>Roles. Roles'
  BY <1>task, <1>1, <1>2, <1>3, PercpuAssumption DEF IInv, Roles, Tasks
<1>OwnCpu. OwnCpu'
  BY <1>task, <1>1, <1>2, <1>3, <1>4, <1>5 DEF IInv, OwnCpu, PreemptOff, Locked
<1>LockOwner. LockOwner'
  BY <1>task, <1>1, <1>2, <1>3, <1>frame DEF IInv, LockOwner, Locked
<1>Queue. Queue'
  BY <1>task, <1>1, <1>2, <1>3, <1>frame DEF IInv, Queue
<1>OneOwner. OneOwner'
  BY <1>frame, <1>owners DEF IInv, OneOwner
<1>WakerFollows. WakerFollows'
  BY <1>task, <1>1, <1>2, <1>3, <1>frame DEF IInv, WakerFollows, GaveUp, Waker, Tasks
<1>WakeComes. WakeComes'
  BY <1>task, <1>1, <1>2, <1>3, <1>frame DEF IInv, WakeComes, Tasks
<1>WritersEntered. WritersEntered'
  BY <1>task, <1>1, <1>2, <1>3, <1>frame, PercpuAssumption DEF IInv, WritersEntered, Roles,
     Unused, Tasks
<1>Unused. Unused'
  BY <1>task, <1>1, <1>2, <1>3, <1>frame DEF IInv, Unused
<1>holders. Holders' = Holders
  BY <1>task, <1>1, <1>2, <1>3, <1>granted, <1>picked DEF Holders, Tasks
<1>transient. Transient' = Transient
  BY <1>task, <1>1, <1>2, <1>3 DEF Transient
<1>writers. Writers' = Writers
  BY <1>task, <1>1, <1>2, <1>3 DEF Writers, Tasks
<1>Counted. Counted'
  <2>1. \A x \in Transient : cpu'[x] = cpu[x]
    BY <1>task, <1>1, <1>2, <1>3, <1>4, <1>5 DEF Transient
  <2>2. Summing' => Summing
    BY <1>task, <1>1, <1>2, <1>3 DEF Summing, Tasks
  <2>3. /\ UNCHANGED <<sum, next_cpu, read_count>>
        /\ sum' \in 0 .. Modulus - 1 /\ next_cpu' \in 1 .. NR_CPUS + 1
    BY <1>frame DEF IInv, Counted
  <2>4. QED
    BY <1>holders, <1>transient, <2>1, <2>2, <2>3, CountIdle DEF IInv
<1>lock. LockStep
  BY <1>holders, <1>writers DEF LockStep
<1> QED
  BY <1>Types, <1>Roles, <1>OwnCpu, <1>LockOwner, <1>Queue, <1>OneOwner, <1>WakerFollows,
     <1>WakeComes, <1>WritersEntered, <1>Unused, <1>Counted, <1>lock DEF IInv

\* The choice between the two paths is rcu_sync's own state.
LEMMA IsIdleInv ==
  ASSUME IInv, NEW r \in Readers, IsIdle(r)
  PROVE  IInv' /\ LockStep
<1>task. r \in Tasks
  BY DEF Tasks
<1>1. UNCHANGED pc
  BY DEF IsIdle, ReadIdle
<1>2. \A x \in Tasks : Fn(x)' = Fn(x) /\ At(x)' = At(x)
  BY <1>task DEF IInv, Types, Goto, Fn, At, IsIdle, ReadIdle
<1>frame. UNCHANGED <<block, read_count, waiters, waiters_lock, writer, private, awake, cpu,
                      sum, next_cpu, p, upc, phase>>
  BY DEF IsIdle, ReadIdle, semVars, countVars, listVars, waitVars, sumVars
<1>granted. Granted' = Granted
  BY <1>task, <1>1, <1>2, <1>frame DEF Granted, In, Fn
<1>picked. Picked' = Picked
  BY <1>task, <1>1, <1>2, <1>frame DEF Picked
<1>owners. Owners' = Owners
  BY <1>task, <1>1, <1>2, <1>granted, <1>picked DEF Owners, Tasks
<1>Types. Types'
  BY <1>task, <1>1, <1>2, <1>frame DEF IInv, Types
<1>Roles. Roles'
  BY <1>task, <1>1, <1>2 DEF IInv, Roles, Tasks
<1>OwnCpu. OwnCpu'
  BY <1>task, <1>1, <1>2, <1>frame DEF IInv, OwnCpu, PreemptOff, Locked
<1>LockOwner. LockOwner'
  BY <1>task, <1>1, <1>2, <1>frame DEF IInv, LockOwner, Locked
<1>Queue. Queue'
  BY <1>task, <1>1, <1>2, <1>frame DEF IInv, Queue
<1>OneOwner. OneOwner'
  BY <1>frame, <1>owners DEF IInv, OneOwner
<1>WakerFollows. WakerFollows'
  BY <1>task, <1>1, <1>2, <1>frame DEF IInv, WakerFollows, GaveUp, Waker, Tasks
<1>WakeComes. WakeComes'
  BY <1>task, <1>1, <1>2, <1>frame DEF IInv, WakeComes, Tasks
<1>WritersEntered. WritersEntered'
  BY <1>task, <1>1, <1>2, <1>frame DEF IInv, WritersEntered, Tasks
<1>Unused. Unused'
  BY <1>task, <1>1, <1>2, <1>frame DEF IInv, Unused
<1>holders. Holders' = Holders
  BY <1>task, <1>1, <1>2, <1>granted, <1>picked DEF Holders, Tasks
<1>transient. Transient' = Transient
  BY <1>task, <1>1, <1>2 DEF Transient
<1>writers. Writers' = Writers
  BY <1>task, <1>1, <1>2 DEF Writers, Tasks
<1>Counted. Counted'
  <2>1. \A x \in Transient : cpu'[x] = cpu[x]
    BY <1>task, <1>1, <1>2, <1>frame DEF Transient
  <2>2. Summing' => Summing
    BY <1>task, <1>1, <1>2 DEF Summing, Tasks
  <2>3. /\ UNCHANGED <<sum, next_cpu, read_count>>
        /\ sum' \in 0 .. Modulus - 1 /\ next_cpu' \in 1 .. NR_CPUS + 1
    BY <1>frame DEF IInv, Counted
  <2>4. QED
    BY <1>holders, <1>transient, <2>1, <2>2, <2>3, CountIdle DEF IInv
<1>lock. LockStep
  BY <1>holders, <1>writers DEF LockStep
<1> QED
  BY <1>Types, <1>Roles, <1>OwnCpu, <1>LockOwner, <1>Queue, <1>OneOwner, <1>WakerFollows,
     <1>WakeComes, <1>WritersEntered, <1>Unused, <1>Counted, <1>lock DEF IInv

\* A reader on the fast path takes the lock without a look at block: there is no
\* writer, because no updater of rcu_sync is entered.
LEMMA FastIncInv ==
  ASSUME IInv, SlowWhileEntered, NEW r \in Readers, FastInc(r)
  PROVE  IInv' /\ LockStep
<1>task. r \in Tasks
  BY DEF Tasks
<1>1. Fn(r) \in {"down", "try"} /\ At(r) = "begin" /\ rpc[r] = "fast"
  BY <1>task, PcIs DEF IInv, Types, FastInc, this_cpu_inc
<1>2. Fn(r)' = Fn(r) /\ At(r)' = "ok"
  BY <1>task DEF IInv, Types, Goto, Fn, At, FastInc, this_cpu_inc
<1>3. \A x \in Tasks : x # r => Fn(x)' = Fn(x) /\ At(x)' = At(x)
  BY <1>task DEF IInv, Types, Goto, Fn, At, FastInc, this_cpu_inc
<1>4. read_count' = [read_count EXCEPT ![cpu[r]] = add(@, 1)]
  BY DEF FastInc, this_cpu_inc
<1>frame. UNCHANGED <<block, waiters, waiters_lock, writer, private, awake, cpu, sum,
                      next_cpu, p, upc, phase>>
  BY DEF FastInc, syncVars, rssVars, rcuVars, semVars, countVars, listVars, waitVars, sumVars
<1>granted. Granted' = Granted
  BY <1>task, <1>1, <1>2, <1>3, <1>frame DEF Granted, In, Fn
<1>picked. Picked' = Picked
  BY <1>task, <1>1, <1>2, <1>3, <1>frame DEF Picked
<1>owners. Owners' = Owners
  BY <1>task, <1>1, <1>2, <1>3, <1>granted, <1>picked DEF Owners, Tasks
<1>Types. Types'
  <2>1. pc' \in [Tasks -> Steps]
    BY <1>task DEF IInv, Types, Goto, Steps, FastInc, this_cpu_inc
  <2>2. cpu' \in [Tasks -> CPUs \cup {None}]
    BY <1>frame DEF IInv, Types
  <2>3. awake' \in [Tasks -> BOOLEAN] /\ private' \in [Tasks -> BOOLEAN]
    BY <1>frame DEF IInv, Types
  <2>4. QED
    BY <1>frame, <2>1, <2>2, <2>3 DEF IInv, Types
<1>Roles. Roles'
  BY <1>task, <1>1, <1>2, <1>3 DEF IInv, Roles, Tasks
<1>OwnCpu. OwnCpu'
  BY <1>task, <1>1, <1>2, <1>3, <1>frame DEF IInv, OwnCpu, PreemptOff, Locked
<1>LockOwner. LockOwner'
  BY <1>task, <1>1, <1>2, <1>3, <1>frame DEF IInv, LockOwner, Locked
<1>Queue. Queue'
  BY <1>task, <1>1, <1>2, <1>3, <1>frame DEF IInv, Queue
<1>OneOwner. OneOwner'
  BY <1>frame, <1>owners DEF IInv, OneOwner
<1>WakerFollows. WakerFollows'
  BY <1>task, <1>1, <1>2, <1>3, <1>frame DEF IInv, WakerFollows, GaveUp, Waker, Tasks
<1>WakeComes. WakeComes'
  BY <1>task, <1>1, <1>2, <1>3, <1>frame DEF IInv, WakeComes, Tasks
<1>WritersEntered. WritersEntered'
  BY <1>task, <1>1, <1>2, <1>3, <1>frame DEF IInv, WritersEntered, Tasks
<1>Unused. Unused'
  BY <1>task, <1>1, <1>2, <1>3, <1>frame DEF IInv, Unused
<1>apart. r \notin Granted \cup Picked
  BY <1>1, FirstWaiter DEF Granted, Picked, In, Fn, At
<1>none. Owners = {} /\ Writers = {}
  <2>1. \A u \in Updaters : upc[u] # "entered"
    BY <1>1 DEF SlowWhileEntered
  <2>2. \A u \in Updaters : Fn(u) = "out" \/ (Fn(u) = "write" /\ At(u) = "enter")
    BY <2>1 DEF IInv, WritersEntered
  <2>3. \A u \in Updaters : u \notin Granted \cup Picked
    BY <2>2, FirstWaiter DEF Granted, Picked, In, Fn, At
  <2>4. QED
    BY <2>2, <2>3 DEF Owners, Writers
<1>holders. r \notin Holders /\ Holders' = Holders \cup {r}
  BY <1>task, <1>1, <1>2, <1>3, <1>granted, <1>picked, <1>apart DEF Holders, Tasks
<1>transient. Transient' = Transient
  BY <1>task, <1>1, <1>2, <1>3 DEF Transient
<1>writers. Writers' = Writers
  BY <1>task, <1>1, <1>2, <1>3 DEF Writers, Tasks
<1>Counted. Counted'
  <2>1. cpu[r] \in CPUs
    BY <1>task, <1>1 DEF IInv, OwnCpu, PreemptOff
  <2>2. Cardinality(Holders') = Cardinality(Holders) + 1
    BY <1>holders, Sizes, FS_AddElement
  <2>3. Cardinality(Holders') + Cardinality(Transient')
          = Cardinality(Holders) + Cardinality(Transient) + 1
    BY <1>transient, <2>2, Sizes
  <2>4. ~Summing'
    BY <1>none, <1>owners DEF Summing, Owners
  <2>5. QED
    BY <1>4, <1>frame, <2>1, <2>3, <2>4, <1>task, CountInc DEF IInv
<1>lock. LockStep
  BY <1>task, <1>holders, <1>writers, <1>none DEF LockStep, Hold!Next, Hold!AcquireRead
<1> QED
  BY <1>Types, <1>Roles, <1>OwnCpu, <1>LockOwner, <1>Queue, <1>OneOwner, <1>WakerFollows,
     <1>WakeComes, <1>WritersEntered, <1>Unused, <1>Counted, <1>lock DEF IInv

\* Preemption is enabled again by a reader that holds the lock, has failed or is
\* to queue.
LEMMA DownReadEndInv ==
  ASSUME IInv, NEW r \in Readers, DownReadEnd(r)
  PROVE  IInv' /\ LockStep
<1>task. r \in Tasks
  BY DEF Tasks
<1>to. PICK s \in Steps :
    /\ Goto(r, s)
    /\ \/ pc[r] \in {<<"down", "ok">>, <<"try", "ok">>} /\ s = Held
       \/ pc[r] = <<"try", "fail">> /\ s = Out
       \/ pc[r] = <<"down", "fail">> /\ s = <<"queue", "lock">>
  BY <1>task, StepsHas, Ends DEF DownReadEnd, SectionEnd
<1>move. /\ pc' \in [Tasks -> Steps]
         /\ Fn(r)' = s[1] /\ At(r)' = s[2]
         /\ \A x \in Tasks : x # r => Fn(x)' = Fn(x) /\ At(x)' = At(x)
  BY <1>task, <1>to, Moves DEF IInv, Types
<1>1. \/ Fn(r) \in {"down", "try"} /\ At(r) = "ok" /\ Fn(r)' = "held"
      \/ Fn(r) = "try" /\ At(r) = "fail" /\ Fn(r)' = "out"
      \/ Fn(r) = "down" /\ At(r) = "fail" /\ Fn(r)' = "queue" /\ At(r)' = "lock"
  <2>1. CASE pc[r] \in {<<"down", "ok">>, <<"try", "ok">>} /\ s = Held
    BY <1>task, <1>move, <2>1, PcIs, Ends DEF IInv, Types, Fn, At
  <2>2. CASE pc[r] = <<"try", "fail">> /\ s = Out
    BY <1>task, <1>move, <2>2, PcIs, Ends DEF IInv, Types
  <2>3. CASE pc[r] = <<"down", "fail">> /\ s = <<"queue", "lock">>
    BY <1>task, <1>move, <2>3, PcIs, Ends DEF IInv, Types
  <2>4. QED
    BY <1>to, <2>1, <2>2, <2>3
<1>2. \A x \in Tasks : x # r => Fn(x)' = Fn(x) /\ At(x)' = At(x)
  BY <1>to, <1>move
<1>3. cpu'[r] = None
  BY <1>task, Enable, Disable DEF IInv, Types, DownReadEnd
<1>4. \A x \in Tasks : x # r => cpu'[x] = cpu[x]
  BY <1>task, Enable, Disable DEF IInv, Types, DownReadEnd
<1>frame. UNCHANGED <<block, read_count, waiters, waiters_lock, writer, private, awake, sum,
                      next_cpu, p, upc, phase>>
  BY DEF DownReadEnd, SectionEnd, semVars, countVars, listVars, waitVars, sumVars
<1>granted. Granted' = Granted
  BY <1>task, <1>1, <1>2, <1>frame DEF Granted, In, Fn
<1>picked. Picked' = Picked
  BY <1>task, <1>1, <1>2, <1>frame DEF Picked
<1>owners. Owners' = Owners
  BY <1>task, <1>1, <1>2, <1>granted, <1>picked, PercpuAssumption DEF Owners, Tasks
<1>Types. Types'
  <2>1. pc' \in [Tasks -> Steps]
    BY <1>move
  <2>2. cpu' \in [Tasks -> CPUs \cup {None}]
    BY <1>task, Enable DEF IInv, Types, DownReadEnd
  <2>3. awake' \in [Tasks -> BOOLEAN] /\ private' \in [Tasks -> BOOLEAN]
    BY <1>frame DEF IInv, Types
  <2>4. QED
    BY <1>frame, <2>1, <2>2, <2>3 DEF IInv, Types
<1>Roles. Roles'
  BY <1>task, <1>1, <1>2 DEF IInv, Roles, Tasks
<1>OwnCpu. OwnCpu'
  BY <1>task, <1>1, <1>2, <1>3, <1>4 DEF IInv, OwnCpu, PreemptOff, Locked
<1>LockOwner. LockOwner'
  BY <1>task, <1>1, <1>2, <1>frame DEF IInv, LockOwner, Locked
<1>Queue. Queue'
  BY <1>task, <1>1, <1>2, <1>frame DEF IInv, Queue
<1>OneOwner. OneOwner'
  BY <1>frame, <1>owners DEF IInv, OneOwner
<1>WakerFollows. WakerFollows'
  BY <1>task, <1>1, <1>2, <1>frame DEF IInv, WakerFollows, GaveUp, Waker, Tasks
<1>WakeComes. WakeComes'
  BY <1>task, <1>1, <1>2, <1>frame DEF IInv, WakeComes, Tasks
<1>WritersEntered. WritersEntered'
  BY <1>task, <1>1, <1>2, <1>frame DEF IInv, WritersEntered, Tasks
<1>Unused. Unused'
  BY <1>task, <1>1, <1>2, <1>frame DEF IInv, Unused
<1>holders. Holders' = Holders
  BY <1>task, <1>1, <1>2, <1>granted, <1>picked DEF Holders, Tasks
<1>transient. Transient' = Transient
  BY <1>task, <1>1, <1>2 DEF Transient
<1>writers. Writers' = Writers
  BY <1>task, <1>1, <1>2, PercpuAssumption DEF Writers, Tasks
<1>Counted. Counted'
  <2>1. \A x \in Transient : cpu'[x] = cpu[x]
    BY <1>task, <1>1, <1>2, <1>3, <1>4 DEF Transient
  <2>2. Summing' => Summing
    BY <1>task, <1>1, <1>2 DEF Summing, Tasks
  <2>3. /\ UNCHANGED <<sum, next_cpu, read_count>>
        /\ sum' \in 0 .. Modulus - 1 /\ next_cpu' \in 1 .. NR_CPUS + 1
    BY <1>frame DEF IInv, Counted
  <2>4. QED
    BY <1>holders, <1>transient, <2>1, <2>2, <2>3, CountIdle DEF IInv
<1>lock. LockStep
  BY <1>holders, <1>writers DEF LockStep
<1> QED
  BY <1>Types, <1>Roles, <1>OwnCpu, <1>LockOwner, <1>Queue, <1>OneOwner, <1>WakerFollows,
     <1>WakeComes, <1>WritersEntered, <1>Unused, <1>Counted, <1>lock DEF IInv

\* A reader that holds the lock starts to release it, perhaps on another CPU.
LEMMA UpReadInv ==
  ASSUME IInv, NEW r \in Readers, UpRead(r)
  PROVE  IInv' /\ LockStep
<1>task. r \in Tasks
  BY DEF Tasks
<1>1. Fn(r) = "held" /\ phase = "live"
  BY <1>task, Places DEF IInv, Types, UpRead, SectionBegin
<1>2. Fn(r)' = "up" /\ At(r)' = "begin"
  BY <1>task DEF IInv, Types, Goto, Fn, At, UpRead, SectionBegin
<1>3. \A x \in Tasks : x # r => Fn(x)' = Fn(x) /\ At(x)' = At(x)
  BY <1>task DEF IInv, Types, Goto, Fn, At, UpRead, SectionBegin
<1>4. cpu'[r] \in CPUs /\ \A x \in Tasks : cpu[x] # cpu'[r]
  BY <1>task, Enable, Disable DEF IInv, Types, UpRead
<1>5. \A x \in Tasks : x # r => cpu'[x] = cpu[x]
  BY <1>task, Enable, Disable DEF IInv, Types, UpRead
<1>frame. UNCHANGED <<block, read_count, waiters, waiters_lock, writer, private, awake, sum,
                      next_cpu, p, upc, phase>>
  BY DEF UpRead, SectionBegin, semVars, countVars, listVars, waitVars, sumVars
<1>granted. Granted' = Granted
  BY <1>task, <1>1, <1>2, <1>3, <1>frame DEF Granted, In, Fn
<1>picked. Picked' = Picked
  BY <1>task, <1>1, <1>2, <1>3, <1>frame DEF Picked
<1>owners. Owners' = Owners
  BY <1>task, <1>1, <1>2, <1>3, <1>granted, <1>picked, PercpuAssumption DEF Owners, Tasks
<1>Types. Types'
  <2>1. pc' \in [Tasks -> Steps]
    BY <1>task DEF IInv, Types, Goto, Steps, UpRead, SectionBegin
  <2>2. cpu' \in [Tasks -> CPUs \cup {None}]
    BY <1>task, Disable DEF IInv, Types, UpRead
  <2>3. awake' \in [Tasks -> BOOLEAN] /\ private' \in [Tasks -> BOOLEAN]
    BY <1>frame DEF IInv, Types
  <2>4. QED
    BY <1>frame, <2>1, <2>2, <2>3 DEF IInv, Types
<1>Roles. Roles'
  BY <1>task, <1>1, <1>2, <1>3, PercpuAssumption DEF IInv, Roles, Tasks
<1>OwnCpu. OwnCpu'
  BY <1>task, <1>1, <1>2, <1>3, <1>4, <1>5 DEF IInv, OwnCpu, PreemptOff, Locked
<1>LockOwner. LockOwner'
  BY <1>task, <1>1, <1>2, <1>3, <1>frame DEF IInv, LockOwner, Locked
<1>Queue. Queue'
  BY <1>task, <1>1, <1>2, <1>3, <1>frame DEF IInv, Queue
<1>OneOwner. OneOwner'
  BY <1>frame, <1>owners DEF IInv, OneOwner
<1>WakerFollows. WakerFollows'
  BY <1>task, <1>1, <1>2, <1>3, <1>frame DEF IInv, WakerFollows, GaveUp, Waker, Tasks
<1>WakeComes. WakeComes'
  BY <1>task, <1>1, <1>2, <1>3, <1>frame DEF IInv, WakeComes, Tasks
<1>WritersEntered. WritersEntered'
  BY <1>task, <1>1, <1>2, <1>3, <1>frame DEF IInv, WritersEntered, Tasks
<1>Unused. Unused'
  BY <1>task, <1>1, <1>2, <1>3, <1>frame DEF IInv, Unused
<1>holders. Holders' = Holders
  BY <1>task, <1>1, <1>2, <1>3, <1>granted, <1>picked DEF Holders, Tasks
<1>transient. Transient' = Transient
  BY <1>task, <1>1, <1>2, <1>3 DEF Transient
<1>writers. Writers' = Writers
  BY <1>task, <1>1, <1>2, <1>3, PercpuAssumption DEF Writers, Tasks
<1>Counted. Counted'
  <2>1. \A x \in Transient : cpu'[x] = cpu[x]
    BY <1>task, <1>1, <1>2, <1>3, <1>4, <1>5 DEF Transient
  <2>2. Summing' => Summing
    BY <1>task, <1>1, <1>2, <1>3 DEF Summing, Tasks
  <2>3. /\ UNCHANGED <<sum, next_cpu, read_count>>
        /\ sum' \in 0 .. Modulus - 1 /\ next_cpu' \in 1 .. NR_CPUS + 1
    BY <1>frame DEF IInv, Counted
  <2>4. QED
    BY <1>holders, <1>transient, <2>1, <2>2, <2>3, CountIdle DEF IInv
<1>lock. LockStep
  BY <1>holders, <1>writers DEF LockStep
<1> QED
  BY <1>Types, <1>Roles, <1>OwnCpu, <1>LockOwner, <1>Queue, <1>OneOwner, <1>WakerFollows,
     <1>WakeComes, <1>WritersEntered, <1>Unused, <1>Counted, <1>lock DEF IInv

\* A reader releases the lock, and may leave a counter that never counted it
\* below zero.
LEMMA UpReadDecInv ==
  ASSUME IInv, NEW r \in Readers, UpReadDec(r)
  PROVE  IInv' /\ LockStep
<1>task. r \in Tasks
  BY DEF Tasks
<1>1. Fn(r) = "up" /\ At(r) = "begin"
  BY <1>task, PcIs DEF IInv, Types, UpReadDec, this_cpu_dec
<1>2. Fn(r)' = "up" /\ At(r)' \in {"prod", "done"}
  BY <1>task DEF IInv, Types, Goto, Fn, At, UpReadDec, this_cpu_dec
<1>3. \A x \in Tasks : x # r => Fn(x)' = Fn(x) /\ At(x)' = At(x)
  BY <1>task DEF IInv, Types, Goto, Fn, At, UpReadDec, this_cpu_dec
<1>4. read_count' = [read_count EXCEPT ![cpu[r]] = add(@, Modulus - 1)]
  BY DEF UpReadDec, this_cpu_dec
<1>frame. UNCHANGED <<block, waiters, waiters_lock, writer, private, awake, cpu, sum,
                      next_cpu, p, upc, phase>>
  BY DEF UpReadDec, syncVars, rssVars, rcuVars, semVars, countVars, listVars, waitVars, sumVars
<1>granted. Granted' = Granted
  BY <1>task, <1>1, <1>2, <1>3, <1>frame DEF Granted, In, Fn
<1>picked. Picked' = Picked
  BY <1>task, <1>1, <1>2, <1>3, <1>frame DEF Picked
<1>owners. Owners' = Owners
  BY <1>task, <1>1, <1>2, <1>3, <1>granted, <1>picked DEF Owners, Tasks
<1>Types. Types'
  <2>1. pc' \in [Tasks -> Steps]
    BY <1>task DEF IInv, Types, Goto, Steps, UpReadDec, this_cpu_dec
  <2>2. cpu' \in [Tasks -> CPUs \cup {None}]
    BY <1>frame DEF IInv, Types
  <2>3. awake' \in [Tasks -> BOOLEAN] /\ private' \in [Tasks -> BOOLEAN]
    BY <1>frame DEF IInv, Types
  <2>4. QED
    BY <1>frame, <2>1, <2>2, <2>3 DEF IInv, Types
<1>Roles. Roles'
  BY <1>task, <1>1, <1>2, <1>3 DEF IInv, Roles, Tasks
<1>OwnCpu. OwnCpu'
  BY <1>task, <1>1, <1>2, <1>3, <1>frame DEF IInv, OwnCpu, PreemptOff, Locked
<1>LockOwner. LockOwner'
  BY <1>task, <1>1, <1>2, <1>3, <1>frame DEF IInv, LockOwner, Locked
<1>Queue. Queue'
  BY <1>task, <1>1, <1>2, <1>3, <1>frame DEF IInv, Queue
<1>OneOwner. OneOwner'
  BY <1>frame, <1>owners DEF IInv, OneOwner
<1>WakerFollows. WakerFollows'
  BY <1>task, <1>1, <1>2, <1>3, <1>frame DEF IInv, WakerFollows, GaveUp, Waker, Tasks
<1>WakeComes. WakeComes'
  BY <1>task, <1>1, <1>2, <1>3, <1>frame DEF IInv, WakeComes, Tasks
<1>WritersEntered. WritersEntered'
  BY <1>task, <1>1, <1>2, <1>3, <1>frame DEF IInv, WritersEntered, Tasks
<1>Unused. Unused'
  BY <1>task, <1>1, <1>2, <1>3, <1>frame DEF IInv, Unused
<1>apart. r \notin Granted \cup Picked
  BY <1>1, FirstWaiter DEF Granted, Picked, In, Fn, At
<1>holders. r \in Holders /\ Holders' = Holders \ {r}
  BY <1>task, <1>1, <1>2, <1>3, <1>granted, <1>picked, <1>apart DEF Holders, Tasks
<1>transient. Transient' = Transient
  BY <1>task, <1>1, <1>2, <1>3 DEF Transient
<1>writers. Writers' = Writers
  BY <1>task, <1>1, <1>2, <1>3 DEF Writers, Tasks
<1>Counted. Counted'
  <2>1. cpu[r] \in CPUs /\ cpu[r] \in Int /\ next_cpu \in Int
    BY <1>task, <1>1 DEF IInv, OwnCpu, PreemptOff, Locked, Counted, CPUs
  <2>2. Cardinality(Holders') = Cardinality(Holders) - 1
    BY <1>holders, Sizes, FS_RemoveElement
  <2>3. Cardinality(Holders') + Cardinality(Transient')
          = Cardinality(Holders) + Cardinality(Transient) - 1
    BY <1>transient, <2>2, Sizes
  <2>4. Ahead' = Ahead
    BY <1>frame, <1>transient DEF Ahead
  <2>5. Summing' => Summing
    BY <1>task, <1>1, <1>2, <1>3 DEF Summing, Tasks
  <2>6. /\ Cardinality(Ahead') >= Cardinality(Ahead) - (IF cpu[r] < next_cpu THEN 0 ELSE 1)
        /\ Cardinality(Holders') + Cardinality(Ahead')
             <= Cardinality(Holders) + Cardinality(Ahead)
                  - (IF cpu[r] < next_cpu THEN 0 ELSE 1)
    BY <2>2, <2>4, Sizes
  <2>7. QED
    BY <1>task, <1>4, <1>frame, <2>1, <2>3, <2>5, <2>6, CountDec DEF IInv
<1>lock. LockStep
  BY <1>task, <1>holders, <1>writers DEF LockStep, Hold!Next, Hold!ReleaseRead
<1> QED
  BY <1>Types, <1>Roles, <1>OwnCpu, <1>LockOwner, <1>Queue, <1>OneOwner, <1>WakerFollows,
     <1>WakeComes, <1>WritersEntered, <1>Unused, <1>Counted, <1>lock DEF IInv

\* The release is over.
LEMMA UpReadEndInv ==
  ASSUME IInv, NEW r \in Readers, UpReadEnd(r)
  PROVE  IInv' /\ LockStep
<1>task. r \in Tasks
  BY DEF Tasks
<1>to. PICK s \in Steps : Goto(r, s) /\ s = Out
  BY <1>task, StepsHas, Ends DEF UpReadEnd, SectionEnd
<1>move. /\ pc' \in [Tasks -> Steps]
         /\ Fn(r)' = s[1] /\ At(r)' = s[2]
         /\ \A x \in Tasks : x # r => Fn(x)' = Fn(x) /\ At(x)' = At(x)
  BY <1>task, <1>to, Moves DEF IInv, Types
<1>1. Fn(r) = "up" /\ At(r) = "done"
  BY <1>task, PcIs DEF IInv, Types, UpReadEnd, SectionEnd
<1>2. Fn(r)' = "out"
  BY <1>to, <1>move, Ends
<1>3. \A x \in Tasks : x # r => Fn(x)' = Fn(x) /\ At(x)' = At(x)
  BY <1>to, <1>move
<1>4. cpu'[r] = None
  BY <1>task, Enable, Disable DEF IInv, Types, UpReadEnd
<1>5. \A x \in Tasks : x # r => cpu'[x] = cpu[x]
  BY <1>task, Enable, Disable DEF IInv, Types, UpReadEnd
<1>frame. UNCHANGED <<block, read_count, waiters, waiters_lock, writer, private, awake, sum,
                      next_cpu, p, upc, phase>>
  BY DEF UpReadEnd, SectionEnd, semVars, countVars, listVars, waitVars, sumVars
<1>granted. Granted' = Granted
  BY <1>task, <1>1, <1>2, <1>3, <1>frame DEF Granted, In, Fn
<1>picked. Picked' = Picked
  BY <1>task, <1>1, <1>2, <1>3, <1>frame DEF Picked
<1>owners. Owners' = Owners
  BY <1>task, <1>1, <1>2, <1>3, <1>granted, <1>picked DEF Owners, Tasks
<1>Types. Types'
  <2>1. pc' \in [Tasks -> Steps]
    BY <1>move
  <2>2. cpu' \in [Tasks -> CPUs \cup {None}]
    BY <1>task, Enable DEF IInv, Types, UpReadEnd
  <2>3. awake' \in [Tasks -> BOOLEAN] /\ private' \in [Tasks -> BOOLEAN]
    BY <1>frame DEF IInv, Types
  <2>4. QED
    BY <1>frame, <2>1, <2>2, <2>3 DEF IInv, Types
<1>Roles. Roles'
  BY <1>task, <1>1, <1>2, <1>3 DEF IInv, Roles, Tasks
<1>OwnCpu. OwnCpu'
  BY <1>task, <1>1, <1>2, <1>3, <1>4, <1>5 DEF IInv, OwnCpu, PreemptOff, Locked
<1>LockOwner. LockOwner'
  BY <1>task, <1>1, <1>2, <1>3, <1>frame DEF IInv, LockOwner, Locked
<1>Queue. Queue'
  BY <1>task, <1>1, <1>2, <1>3, <1>frame DEF IInv, Queue
<1>OneOwner. OneOwner'
  BY <1>frame, <1>owners DEF IInv, OneOwner
<1>WakerFollows. WakerFollows'
  BY <1>task, <1>1, <1>2, <1>3, <1>frame DEF IInv, WakerFollows, GaveUp, Waker, Tasks
<1>WakeComes. WakeComes'
  BY <1>task, <1>1, <1>2, <1>3, <1>frame DEF IInv, WakeComes, Tasks
<1>WritersEntered. WritersEntered'
  BY <1>task, <1>1, <1>2, <1>3, <1>frame DEF IInv, WritersEntered, Tasks
<1>Unused. Unused'
  BY <1>task, <1>1, <1>2, <1>3, <1>frame DEF IInv, Unused
<1>holders. Holders' = Holders
  BY <1>task, <1>1, <1>2, <1>3, <1>granted, <1>picked DEF Holders, Tasks
<1>transient. Transient' = Transient
  BY <1>task, <1>1, <1>2, <1>3 DEF Transient
<1>writers. Writers' = Writers
  BY <1>task, <1>1, <1>2, <1>3 DEF Writers, Tasks
<1>Counted. Counted'
  <2>1. \A x \in Transient : cpu'[x] = cpu[x]
    BY <1>task, <1>1, <1>2, <1>3, <1>4, <1>5 DEF Transient
  <2>2. Summing' => Summing
    BY <1>task, <1>1, <1>2, <1>3 DEF Summing, Tasks
  <2>3. /\ UNCHANGED <<sum, next_cpu, read_count>>
        /\ sum' \in 0 .. Modulus - 1 /\ next_cpu' \in 1 .. NR_CPUS + 1
    BY <1>frame DEF IInv, Counted
  <2>4. QED
    BY <1>holders, <1>transient, <2>1, <2>2, <2>3, CountIdle DEF IInv
<1>lock. LockStep
  BY <1>holders, <1>writers DEF LockStep
<1> QED
  BY <1>Types, <1>Roles, <1>OwnCpu, <1>LockOwner, <1>Queue, <1>OneOwner, <1>WakerFollows,
     <1>WakeComes, <1>WritersEntered, <1>Unused, <1>Counted, <1>lock DEF IInv

\* waiters.lock is taken.
LEMMA WaitersLockInv ==
  ASSUME IInv, NEW t \in Tasks, WaitersLock(t)
  PROVE  IInv' /\ LockStep
<1>1. Fn(t) \in {"queue", "wake"} /\ At(t) = "lock"
  BY Places DEF IInv, Types, WaitersLock
<1>2. waiters_lock = None /\ waiters_lock' = t
  BY DEF WaitersLock
<1>3. Fn(t)' = Fn(t) /\ At(t)' = "begin"
  BY DEF IInv, Types, Goto, Fn, At, WaitersLock
<1>4. \A x \in Tasks : x # t => Fn(x)' = Fn(x) /\ At(x)' = At(x)
  BY DEF IInv, Types, Goto, Fn, At, WaitersLock
<1>5. cpu'[t] \in CPUs /\ \A x \in Tasks : cpu[x] # cpu'[t]
  BY Enable, Disable DEF IInv, Types, WaitersLock
<1>6. \A x \in Tasks : x # t => cpu'[x] = cpu[x]
  BY Enable, Disable DEF IInv, Types, WaitersLock
<1>frame. UNCHANGED <<block, read_count, waiters, writer, private, awake, sum, next_cpu, p,
                      upc, phase>>
  BY DEF WaitersLock, syncVars, rssVars, rcuVars, semVars, countVars, listVars, waitVars,
     sumVars
<1>granted. Granted' = Granted
  BY <1>1, <1>3, <1>4, <1>frame DEF Granted, In, Fn
<1>picked. Picked' = Picked
  BY <1>1, <1>3, <1>4, <1>frame DEF Picked
<1>owners. Owners' = Owners
  BY <1>1, <1>3, <1>4, <1>granted, <1>picked DEF Owners, Tasks
<1>Types. Types'
  <2>1. pc' \in [Tasks -> Steps]
    BY <1>1, <1>2, <1>3, <1>4, <1>5, <1>6, <1>frame, <1>granted, <1>picked, Ends DEF IInv,
       Types, Steps, Goto, Roles, WaitersLock, preempt_disable, Fn, At
  <2>2. cpu' \in [Tasks -> CPUs \cup {None}]
    BY Disable DEF IInv, Types, WaitersLock
  <2>3. awake' \in [Tasks -> BOOLEAN] /\ private' \in [Tasks -> BOOLEAN]
    BY <1>frame DEF IInv, Types
  <2>4. QED
    BY <1>frame, <1>2, <2>1, <2>2, <2>3 DEF IInv, Types
<1>Roles. Roles'
  BY <1>1, <1>3, <1>4 DEF IInv, Roles, Tasks
<1>OwnCpu. OwnCpu'
  <2>1. \A x \in PreemptOff' : cpu'[x] \in CPUs
    BY <1>1, <1>2, <1>3, <1>4, <1>5, <1>6, <1>frame, <1>granted, <1>picked DEF IInv, OwnCpu,
       PreemptOff, Locked
  <2>2. \A x, y \in Tasks : cpu'[x] = cpu'[y] /\ cpu'[x] # None => x = y
    BY <1>1, <1>2, <1>3, <1>4, <1>5, <1>6, <1>frame, <1>granted, <1>picked DEF IInv, OwnCpu
  <2>3. QED
    BY <2>1, <2>2 DEF OwnCpu
<1>LockOwner. LockOwner'
  BY <1>1, <1>3, <1>4, <1>2, <1>frame, PercpuAssumption DEF IInv, Types, LockOwner, Locked
<1>Queue. Queue'
  BY <1>1, <1>3, <1>4, <1>frame DEF IInv, Queue
<1>OneOwner. OneOwner'
  BY <1>frame, <1>owners DEF IInv, OneOwner
<1>WakerFollows. WakerFollows'
  BY <1>1, <1>3, <1>4, <1>2, <1>frame, PercpuAssumption DEF IInv, WakerFollows, GaveUp, Waker,
     LockOwner, Locked, Tasks
<1>WakeComes. WakeComes'
  BY <1>1, <1>3, <1>4, <1>frame DEF IInv, WakeComes, Tasks
<1>WritersEntered. WritersEntered'
  BY <1>1, <1>3, <1>4, <1>frame DEF IInv, WritersEntered, Tasks
<1>Unused. Unused'
  BY <1>1, <1>3, <1>4, <1>frame DEF IInv, Unused
<1>holders. Holders' = Holders
  BY <1>1, <1>3, <1>4, <1>granted, <1>picked DEF Holders, Tasks
<1>transient. Transient' = Transient
  BY <1>1, <1>3, <1>4 DEF Transient
<1>writers. Writers' = Writers
  BY <1>1, <1>3, <1>4 DEF Writers, Tasks
<1>Counted. Counted'
  <2>1. \A x \in Transient : cpu'[x] = cpu[x]
    BY <1>1, <1>3, <1>4, <1>5, <1>6 DEF Transient
  <2>2. Summing' => Summing
    BY <1>1, <1>3, <1>4 DEF Summing, Tasks
  <2>3. /\ UNCHANGED <<sum, next_cpu, read_count>>
        /\ sum' \in 0 .. Modulus - 1 /\ next_cpu' \in 1 .. NR_CPUS + 1
    BY <1>frame DEF IInv, Counted
  <2>4. QED
    BY <1>holders, <1>transient, <2>1, <2>2, <2>3, CountIdle DEF IInv
<1>lock. LockStep
  BY <1>holders, <1>writers DEF LockStep
<1> QED
  BY <1>Types, <1>Roles, <1>OwnCpu, <1>LockOwner, <1>Queue, <1>OneOwner, <1>WakerFollows,
     <1>WakeComes, <1>WritersEntered, <1>Unused, <1>Counted, <1>lock DEF IInv

\* A writer tries to take block under waiters.lock.
LEMMA WaitWriteTrylockInv ==
  ASSUME IInv, NEW t \in Tasks, WaitWriteTrylock(t)
  PROVE  IInv' /\ LockStep
<1>to. PICK s \in Steps :
    /\ Goto(t, s)
    /\ \/ ~block /\ s = <<"queue", "ok">>
       \/ block /\ s = <<"queue", "fail">>
  BY StepsHas, Ends DEF WaitWriteTrylock, down_write_trylock
<1>move. /\ pc' \in [Tasks -> Steps]
         /\ Fn(t)' = s[1] /\ At(t)' = s[2]
         /\ \A x \in Tasks : x # t => Fn(x)' = Fn(x) /\ At(x)' = At(x)
  BY <1>to, Moves DEF IInv, Types
<1>1. t \in Updaters
  BY DEF WaitWriteTrylock, down_write_trylock
<1>2. Fn(t) = "queue" /\ At(t) = "begin"
  BY PcIs DEF IInv, Types, WaitWriteTrylock, down_write_trylock
<1>3. Fn(t)' = "queue" /\ At(t)' = IF block THEN "fail" ELSE "ok"
  BY <1>to, <1>move
<1>4. \A x \in Tasks : x # t => Fn(x)' = Fn(x) /\ At(x)' = At(x)
  BY <1>to, <1>move
<1>5. block' = TRUE
  BY DEF WaitWriteTrylock, down_write_trylock
<1>frame. UNCHANGED <<read_count, waiters, waiters_lock, writer, private, awake, cpu, sum,
                      next_cpu, p, upc, phase>>
  BY DEF WaitWriteTrylock, syncVars, rssVars, rcuVars, semVars, countVars, listVars, waitVars,
     sumVars
<1>granted. Granted' = Granted
  BY <1>1, <1>2, <1>3, <1>4, <1>frame DEF Granted, In, Fn
<1>picked. Picked' = Picked
  BY <1>1, <1>2, <1>3, <1>4, <1>frame DEF Picked
<1>owners. Owners' = IF block THEN Owners ELSE {t}
  BY <1>1, <1>2, <1>3, <1>4, <1>5, <1>frame, <1>granted, <1>picked, PercpuAssumption DEF IInv,
     Roles, Owners, Tasks, OneOwner
<1>Types. Types'
  <2>1. pc' \in [Tasks -> Steps]
    BY <1>move
  <2>2. cpu' \in [Tasks -> CPUs \cup {None}]
    BY <1>frame DEF IInv, Types
  <2>3. awake' \in [Tasks -> BOOLEAN] /\ private' \in [Tasks -> BOOLEAN]
    BY <1>frame DEF IInv, Types
  <2>4. QED
    BY <1>frame, <1>5, <2>1, <2>2, <2>3 DEF IInv, Types
<1>Roles. Roles'
  BY <1>1, <1>2, <1>3, <1>4 DEF IInv, Roles, Tasks
<1>OwnCpu. OwnCpu'
  BY <1>1, <1>2, <1>3, <1>4, <1>frame DEF IInv, OwnCpu, PreemptOff, Locked
<1>LockOwner. LockOwner'
  BY <1>1, <1>2, <1>3, <1>4, <1>frame DEF IInv, LockOwner, Locked
<1>Queue. Queue'
  BY <1>1, <1>2, <1>3, <1>4, <1>frame DEF IInv, Queue
<1>OneOwner. OneOwner'
  BY <1>1, <1>2, <1>3, <1>4, <1>5, <1>frame, <1>granted, <1>picked, <1>owners DEF IInv, Types,
     OneOwner
<1>WakerFollows. WakerFollows'
  BY <1>1, <1>2, <1>3, <1>4, <1>5, <1>frame DEF IInv, WakerFollows, GaveUp, Waker, Tasks
<1>WakeComes. WakeComes'
  BY <1>1, <1>2, <1>3, <1>4, <1>5, <1>frame DEF IInv, WakeComes, Tasks
<1>WritersEntered. WritersEntered'
  BY <1>1, <1>2, <1>3, <1>4, <1>frame DEF IInv, WritersEntered, Tasks
<1>Unused. Unused'
  BY <1>1, <1>2, <1>3, <1>4, <1>frame DEF IInv, Unused
<1>holders. Holders' = Holders
  BY <1>1, <1>2, <1>3, <1>4, <1>granted, <1>picked, PercpuAssumption DEF IInv, Roles, Holders,
     Tasks
<1>transient. Transient' = Transient
  BY <1>1, <1>2, <1>3, <1>4 DEF Transient
<1>writers. Writers' = Writers
  BY <1>1, <1>2, <1>3, <1>4 DEF Writers, Tasks
<1>Counted. Counted'
  <2>1. \A x \in Transient : cpu'[x] = cpu[x]
    BY <1>1, <1>2, <1>3, <1>4, <1>frame DEF Transient
  <2>2. Summing' => Summing
    BY <1>1, <1>2, <1>3, <1>4 DEF Summing, Tasks
  <2>3. /\ UNCHANGED <<sum, next_cpu, read_count>>
        /\ sum' \in 0 .. Modulus - 1 /\ next_cpu' \in 1 .. NR_CPUS + 1
    BY <1>frame DEF IInv, Counted
  <2>4. QED
    BY <1>holders, <1>transient, <2>1, <2>2, <2>3, CountIdle DEF IInv
<1>lock. LockStep
  BY <1>holders, <1>writers DEF LockStep
<1> QED
  BY <1>Types, <1>Roles, <1>OwnCpu, <1>LockOwner, <1>Queue, <1>OneOwner, <1>WakerFollows,
     <1>WakeComes, <1>WritersEntered, <1>Unused, <1>Counted, <1>lock DEF IInv

\* Whoever got the lock or block under waiters.lock leaves with it; whoever did
\* not has joined the list, and block was not cleared unseen.
LEMMA WaitUnlockInv ==
  ASSUME IInv, NEW t \in Tasks, WaitUnlock(t)
  PROVE  IInv' /\ LockStep
<1>to. PICK s \in Steps :
    /\ Goto(t, s)
    /\ \/ /\ pc[t] = <<"queue", "ok">>
          /\ s = Owned(t)
          /\ UNCHANGED <<waiters, private>>
       \/ /\ pc[t] = <<"queue", "fail">>
          /\ s = <<"sleep", "set">>
          /\ waiters' = list_add_tail(waiters, t)
          /\ private' = [private EXCEPT ![t] = TRUE]
  BY StepsHas, Ends DEF WaitUnlock, Owned
<1>move. /\ pc' \in [Tasks -> Steps]
         /\ Fn(t)' = s[1] /\ At(t)' = s[2]
         /\ \A x \in Tasks : x # t => Fn(x)' = Fn(x) /\ At(x)' = At(x)
  BY <1>to, Moves DEF IInv, Types
<1>1. \/ /\ Fn(t) = "queue" /\ At(t) = "ok"
         /\ t \in Readers => Fn(t)' = "held"
         /\ t \notin Readers => Fn(t)' = "write" /\ At(t)' = "prepare"
         /\ UNCHANGED <<waiters, private>>
      \/ /\ Fn(t) = "queue" /\ At(t) = "fail"
         /\ Fn(t)' = "sleep" /\ At(t)' = "set"
         /\ waiters' = list_add_tail(waiters, t)
         /\ private' = [private EXCEPT ![t] = TRUE]
  BY <1>to, <1>move, Ends, PcIs, Places DEF IInv, Types, WaitUnlock, Owned, preempt_enable,
     Roles, Tasks
<1>2. \A x \in Tasks : x # t => Fn(x)' = Fn(x) /\ At(x)' = At(x)
  BY <1>to, <1>move
<1>3. waiters_lock' = None
  BY DEF WaitUnlock, Owned
<1>4. cpu'[t] = None
  BY Enable, Disable DEF IInv, Types, WaitUnlock
<1>5. \A x \in Tasks : x # t => cpu'[x] = cpu[x]
  BY Enable, Disable DEF IInv, Types, WaitUnlock
<1>frame. UNCHANGED <<block, read_count, writer, awake, sum, next_cpu, p, upc, phase>>
  BY DEF WaitUnlock, syncVars, rssVars, rcuVars, semVars, countVars, listVars, waitVars, sumVars
<1>granted. Granted' = Granted
  BY <1>1, <1>2, <1>3, <1>frame DEF IInv, Types, Queue, Granted, In, Fn
<1>picked. Picked = {} /\ Picked' = {}
  BY <1>1, <1>2, <1>frame DEF IInv, LockOwner, Locked, Picked
<1>owners. Owners' = Owners
  BY <1>1, <1>2, <1>granted, <1>picked DEF Owners, Tasks
<1>Types. Types'
  <2>1. pc' \in [Tasks -> Steps]
    BY <1>move
  <2>2. cpu' \in [Tasks -> CPUs \cup {None}]
    BY Enable DEF IInv, Types, WaitUnlock
  <2>3. awake' \in [Tasks -> BOOLEAN] /\ private' \in [Tasks -> BOOLEAN]
    BY <1>frame DEF IInv, Types, WaitUnlock, Owned
  <2>4. QED
    <3>1. waiters' \in Seq(Tasks)
      BY <1>1, ListTypes DEF IInv, Types
    <3>2. QED
      BY <1>1, <1>2, <1>3, <1>4, <1>5, <1>frame, <1>granted, <1>picked, <2>1, <2>2, <2>3, <3>1
         DEF IInv, Types
<1>Roles. Roles'
  BY <1>1, <1>2 DEF IInv, Roles, Tasks
<1>OwnCpu. OwnCpu'
  <2>1. \A x \in PreemptOff' : cpu'[x] \in CPUs
    BY <1>1, <1>2, <1>3, <1>4, <1>5, <1>frame, <1>granted, <1>picked DEF IInv, OwnCpu,
       PreemptOff, Locked
  <2>2. \A x, y \in Tasks : cpu'[x] = cpu'[y] /\ cpu'[x] # None => x = y
    BY <1>1, <1>2, <1>3, <1>4, <1>5, <1>frame, <1>granted, <1>picked DEF IInv, OwnCpu
  <2>3. QED
    BY <2>1, <2>2 DEF OwnCpu
<1>LockOwner. LockOwner'
  BY <1>1, <1>2, <1>3, <1>frame, PercpuAssumption DEF IInv, Types, LockOwner, Locked
<1>Queue. Queue'
  <2>1. \A x \in Tasks : ~(Fn(x)' = "wake" /\ At(x)' \in {"chk", "ok"})
    BY <1>1, <1>2 DEF IInv, LockOwner, Locked
  <2>2. CASE UNCHANGED <<waiters, private>>
    BY <1>1, <1>2, <2>1, <2>2 DEF IInv, Queue
  <2>3. CASE /\ At(t) = "fail" /\ Fn(t)' = "sleep"
             /\ waiters' = list_add_tail(waiters, t)
             /\ private' = [private EXCEPT ![t] = TRUE]
    <3>1. t \notin Linked(waiters)
      BY <1>1 DEF IInv, Queue
    <3>2. /\ NoDup(waiters')
          /\ Linked(waiters') = Linked(waiters) \cup {t}
      BY <2>3, <3>1, ListAddTail DEF IInv, Types, Queue
    <3>3. \A x \in Tasks : private'[x] <=> private[x] \/ x = t
      BY <2>3 DEF IInv, Types
    <3>4. QED
      BY <1>2, <2>1, <2>3, <3>2, <3>3 DEF IInv, Queue
  <2>4. QED
    BY <1>1, <2>2, <2>3
<1>OneOwner. OneOwner'
  BY <1>frame, <1>owners DEF IInv, OneOwner
<1>WakerFollows. WakerFollows'
  BY <1>1, <1>2, <1>frame DEF IInv, WakerFollows, GaveUp, Waker, Tasks
<1>WakeComes. WakeComes'
  BY <1>1, <1>2, <1>3, <1>frame DEF IInv, WakeComes, WakerFollows, GaveUp, Waker, Tasks
<1>WritersEntered. WritersEntered'
  BY <1>1, <1>2, <1>frame DEF IInv, WritersEntered, Tasks
<1>Unused. Unused'
  BY <1>1, <1>2, <1>frame DEF IInv, Unused
<1>holders. Holders' = Holders
  BY <1>1, <1>2, <1>granted, <1>picked DEF Holders, Tasks
<1>transient. Transient' = Transient
  BY <1>1, <1>2 DEF Transient
<1>writers. Writers' = Writers
  BY <1>1, <1>2, PercpuAssumption DEF Writers, Tasks
<1>Counted. Counted'
  <2>1. \A x \in Transient : cpu'[x] = cpu[x]
    BY <1>1, <1>2, <1>4, <1>5 DEF Transient
  <2>2. Summing' => Summing
    BY <1>1, <1>2 DEF Summing, Tasks
  <2>3. /\ UNCHANGED <<sum, next_cpu, read_count>>
        /\ sum' \in 0 .. Modulus - 1 /\ next_cpu' \in 1 .. NR_CPUS + 1
    BY <1>frame DEF IInv, Counted
  <2>4. QED
    BY <1>holders, <1>transient, <2>1, <2>2, <2>3, CountIdle DEF IInv
<1>lock. LockStep
  BY <1>holders, <1>writers DEF LockStep
<1> QED
  BY <1>Types, <1>Roles, <1>OwnCpu, <1>LockOwner, <1>Queue, <1>OneOwner, <1>WakerFollows,
     <1>WakeComes, <1>WritersEntered, <1>Unused, <1>Counted, <1>lock DEF IInv

\* A waiter is about to sleep.
LEMMA SleepSetInv ==
  ASSUME IInv, NEW t \in Tasks, SleepSet(t)
  PROVE  IInv' /\ LockStep
<1>1. Fn(t) = "sleep" /\ At(t) = "set"
  BY PcIs DEF IInv, Types, SleepSet
<1>2. Fn(t)' = "sleep" /\ At(t)' = "test"
  BY DEF IInv, Types, Goto, Fn, At, SleepSet
<1>3. \A x \in Tasks : x # t => Fn(x)' = Fn(x) /\ At(x)' = At(x)
  BY DEF IInv, Types, Goto, Fn, At, SleepSet
<1>frame. UNCHANGED <<block, read_count, waiters, waiters_lock, writer, private, cpu, sum,
                      next_cpu, p, upc, phase>>
  BY DEF SleepSet, syncVars, rssVars, rcuVars, semVars, countVars, listVars, waitVars, sumVars
<1>granted. Granted' = Granted
  BY <1>1, <1>2, <1>3, <1>frame DEF Granted, In, Fn
<1>picked. Picked' = Picked
  BY <1>1, <1>2, <1>3, <1>frame DEF Picked
<1>owners. Owners' = Owners
  BY <1>1, <1>2, <1>3, <1>granted, <1>picked DEF Owners, Tasks
<1>Types. Types'
  <2>1. pc' \in [Tasks -> Steps]
    BY DEF IInv, Types, Goto, Steps, SleepSet
  <2>2. cpu' \in [Tasks -> CPUs \cup {None}]
    BY <1>frame DEF IInv, Types
  <2>3. awake' \in [Tasks -> BOOLEAN] /\ private' \in [Tasks -> BOOLEAN]
    BY <1>frame DEF IInv, Types, SleepSet
  <2>4. QED
    BY <1>frame, <2>1, <2>2, <2>3 DEF IInv, Types
<1>Roles. Roles'
  BY <1>1, <1>2, <1>3 DEF IInv, Roles, Tasks
<1>OwnCpu. OwnCpu'
  BY <1>1, <1>2, <1>3, <1>frame DEF IInv, OwnCpu, PreemptOff, Locked
<1>LockOwner. LockOwner'
  BY <1>1, <1>2, <1>3, <1>frame DEF IInv, LockOwner, Locked
<1>Queue. Queue'
  BY <1>1, <1>2, <1>3, <1>frame DEF IInv, Queue
<1>OneOwner. OneOwner'
  BY <1>frame, <1>owners DEF IInv, OneOwner
<1>WakerFollows. WakerFollows'
  BY <1>1, <1>2, <1>3, <1>frame DEF IInv, WakerFollows, GaveUp, Waker, Tasks
<1>WakeComes. WakeComes'
  BY <1>1, <1>2, <1>3, <1>frame DEF IInv, WakeComes, Tasks
<1>WritersEntered. WritersEntered'
  BY <1>1, <1>2, <1>3, <1>frame DEF IInv, WritersEntered, Tasks
<1>Unused. Unused'
  BY <1>1, <1>2, <1>3, <1>frame DEF IInv, Unused
<1>holders. Holders' = Holders
  BY <1>1, <1>2, <1>3, <1>granted, <1>picked DEF Holders, Tasks
<1>transient. Transient' = Transient
  BY <1>1, <1>2, <1>3 DEF Transient
<1>writers. Writers' = Writers
  BY <1>1, <1>2, <1>3 DEF Writers, Tasks
<1>Counted. Counted'
  <2>1. \A x \in Transient : cpu'[x] = cpu[x]
    BY <1>1, <1>2, <1>3, <1>frame DEF Transient
  <2>2. Summing' => Summing
    BY <1>1, <1>2, <1>3 DEF Summing, Tasks
  <2>3. /\ UNCHANGED <<sum, next_cpu, read_count>>
        /\ sum' \in 0 .. Modulus - 1 /\ next_cpu' \in 1 .. NR_CPUS + 1
    BY <1>frame DEF IInv, Counted
  <2>4. QED
    BY <1>holders, <1>transient, <2>1, <2>2, <2>3, CountIdle DEF IInv
<1>lock. LockStep
  BY <1>holders, <1>writers DEF LockStep
<1> QED
  BY <1>Types, <1>Roles, <1>OwnCpu, <1>LockOwner, <1>Queue, <1>OneOwner, <1>WakerFollows,
     <1>WakeComes, <1>WritersEntered, <1>Unused, <1>Counted, <1>lock DEF IInv

\* A waiter sees that it was granted the lock or block.
LEMMA SleepTestInv ==
  ASSUME IInv, NEW t \in Tasks, SleepTest(t)
  PROVE  IInv' /\ LockStep
<1>to. PICK s \in Steps :
    /\ Goto(t, s)
    /\ \/ private[t] /\ s = <<"sleep", "sched">>
       \/ ~private[t] /\ s = Owned(t)
  BY StepsHas, Ends DEF SleepTest, Owned
<1>move. /\ pc' \in [Tasks -> Steps]
         /\ Fn(t)' = s[1] /\ At(t)' = s[2]
         /\ \A x \in Tasks : x # t => Fn(x)' = Fn(x) /\ At(x)' = At(x)
  BY <1>to, Moves DEF IInv, Types
<1>1. Fn(t) = "sleep" /\ At(t) = "test"
  BY PcIs DEF IInv, Types, SleepTest, Owned
<1>2. \/ /\ private[t]
         /\ Fn(t)' = "sleep" /\ At(t)' = "sched"
      \/ /\ ~private[t]
         /\ t \in Readers => Fn(t)' = "held"
         /\ t \notin Readers => Fn(t)' = "write" /\ At(t)' = "prepare"
  BY <1>to, <1>move, Ends, PcIs DEF IInv, Types, Owned, Tasks
<1>3. \A x \in Tasks : x # t => Fn(x)' = Fn(x) /\ At(x)' = At(x)
  BY <1>to, <1>move
<1>frame. UNCHANGED <<block, read_count, waiters, waiters_lock, writer, private, cpu, sum,
                      next_cpu, p, upc, phase>>
  BY DEF SleepTest, syncVars, rssVars, rcuVars, semVars, countVars, listVars, waitVars, sumVars
<1>granted. Granted' = IF private[t] THEN Granted ELSE Granted \ {t}
  BY <1>1, <1>2, <1>3, <1>frame DEF Granted, In, Fn
<1>picked. Picked' = Picked
  BY <1>1, <1>2, <1>3, <1>frame DEF Picked
<1>owners. Owners' = Owners
  <2>1. ASSUME NEW v \in Updaters PROVE v \in Owners' <=> v \in Owners
    <3>1. CASE v = t
      BY <1>1, <1>2, <1>granted, <1>picked, <3>1, PercpuAssumption DEF Owners, Granted, In,
         Tasks, Fn, At
    <3>2. CASE v # t
      BY <1>3, <1>granted, <1>picked, <3>2 DEF Owners, Tasks
    <3>3. QED
      BY <3>1, <3>2
  <2>2. QED
    BY <2>1 DEF Owners
<1>Types. Types'
  <2>1. pc' \in [Tasks -> Steps]
    BY <1>move
  <2>2. cpu' \in [Tasks -> CPUs \cup {None}]
    BY <1>frame DEF IInv, Types
  <2>3. awake' \in [Tasks -> BOOLEAN] /\ private' \in [Tasks -> BOOLEAN]
    BY <1>frame DEF IInv, Types, SleepTest, Owned
  <2>4. QED
    BY <1>frame, <2>1, <2>2, <2>3 DEF IInv, Types
<1>Roles. Roles'
  BY <1>1, <1>2, <1>3 DEF IInv, Roles, Tasks
<1>OwnCpu. OwnCpu'
  BY <1>1, <1>2, <1>3, <1>frame DEF IInv, OwnCpu, PreemptOff, Locked
<1>LockOwner. LockOwner'
  BY <1>1, <1>2, <1>3, <1>frame DEF IInv, LockOwner, Locked
<1>Queue. Queue'
  BY <1>1, <1>2, <1>3, <1>frame DEF IInv, Queue
<1>OneOwner. OneOwner'
  BY <1>frame, <1>owners DEF IInv, OneOwner
<1>WakerFollows. WakerFollows'
  BY <1>1, <1>2, <1>3, <1>frame DEF IInv, WakerFollows, GaveUp, Waker, Tasks
<1>WakeComes. WakeComes'
  BY <1>1, <1>2, <1>3, <1>frame DEF IInv, WakeComes, Tasks
<1>WritersEntered. WritersEntered'
  BY <1>1, <1>2, <1>3, <1>frame DEF IInv, WritersEntered, Tasks
<1>Unused. Unused'
  BY <1>1, <1>2, <1>3, <1>frame DEF IInv, Unused
<1>holders. Holders' = Holders
  <2>1. ASSUME NEW x \in Readers PROVE x \in Holders' <=> x \in Holders
    <3>1. CASE x = t
      BY <1>1, <1>2, <1>granted, <1>picked, <3>1 DEF Holders, Granted, In, Tasks, Fn, At
    <3>2. CASE x # t
      BY <1>3, <1>granted, <1>picked, <3>2 DEF Holders, Tasks
    <3>3. QED
      BY <3>1, <3>2
  <2>2. QED
    BY <2>1 DEF Holders
<1>transient. Transient' = Transient
  BY <1>1, <1>2, <1>3 DEF Transient
<1>writers. Writers' = Writers
  BY <1>1, <1>2, <1>3, PercpuAssumption DEF Writers, Tasks
<1>Counted. Counted'
  <2>1. \A x \in Transient : cpu'[x] = cpu[x]
    BY <1>1, <1>2, <1>3, <1>frame DEF Transient
  <2>2. Summing' => Summing
    BY <1>1, <1>2, <1>3 DEF Summing, Tasks
  <2>3. /\ UNCHANGED <<sum, next_cpu, read_count>>
        /\ sum' \in 0 .. Modulus - 1 /\ next_cpu' \in 1 .. NR_CPUS + 1
    BY <1>frame DEF IInv, Counted
  <2>4. QED
    BY <1>holders, <1>transient, <2>1, <2>2, <2>3, CountIdle DEF IInv
<1>lock. LockStep
  BY <1>holders, <1>writers DEF LockStep
<1> QED
  BY <1>Types, <1>Roles, <1>OwnCpu, <1>LockOwner, <1>Queue, <1>OneOwner, <1>WakerFollows,
     <1>WakeComes, <1>WritersEntered, <1>Unused, <1>Counted, <1>lock DEF IInv

\* A task that slept looks again.
LEMMA WokenInv ==
  ASSUME IInv, NEW t \in Tasks, Woken(t)
  PROVE  IInv' /\ LockStep
<1>1. Fn(t) \in {"sleep", "write"} /\ At(t) = "sched"
  BY Places DEF IInv, Types, Woken
<1>2. Fn(t)' = Fn(t) /\ At(t)' = "set"
  BY DEF IInv, Types, Goto, Fn, At, Woken
<1>3. \A x \in Tasks : x # t => Fn(x)' = Fn(x) /\ At(x)' = At(x)
  BY DEF IInv, Types, Goto, Fn, At, Woken
<1>frame. UNCHANGED <<block, read_count, waiters, waiters_lock, writer, private, awake, cpu,
                      sum, next_cpu, p, upc, phase>>
  BY DEF Woken, syncVars, rssVars, rcuVars, semVars, countVars, listVars, waitVars, sumVars
<1>granted. Granted' = Granted
  BY <1>1, <1>2, <1>3, <1>frame DEF Granted, In, Fn
<1>picked. Picked' = Picked
  BY <1>1, <1>2, <1>3, <1>frame DEF Picked
<1>owners. Owners' = Owners
  BY <1>1, <1>2, <1>3, <1>granted, <1>picked DEF Owners, Tasks
<1>Types. Types'
  <2>1. pc' \in [Tasks -> Steps]
    BY <1>1, <1>2, <1>3, <1>frame, <1>granted, <1>picked, Ends DEF IInv, Types, Steps, Goto,
       Roles, Woken, Fn, At
  <2>2. cpu' \in [Tasks -> CPUs \cup {None}]
    BY <1>frame DEF IInv, Types
  <2>3. awake' \in [Tasks -> BOOLEAN] /\ private' \in [Tasks -> BOOLEAN]
    BY <1>frame DEF IInv, Types
  <2>4. QED
    BY <1>frame, <2>1, <2>2, <2>3 DEF IInv, Types
<1>Roles. Roles'
  BY <1>1, <1>2, <1>3 DEF IInv, Roles, Tasks
<1>OwnCpu. OwnCpu'
  BY <1>1, <1>2, <1>3, <1>frame DEF IInv, OwnCpu, PreemptOff, Locked
<1>LockOwner. LockOwner'
  BY <1>1, <1>2, <1>3, <1>frame DEF IInv, LockOwner, Locked
<1>Queue. Queue'
  BY <1>1, <1>2, <1>3, <1>frame DEF IInv, Queue
<1>OneOwner. OneOwner'
  BY <1>frame, <1>owners DEF IInv, OneOwner
<1>WakerFollows. WakerFollows'
  BY <1>1, <1>2, <1>3, <1>frame DEF IInv, WakerFollows, GaveUp, Waker, Tasks
<1>WakeComes. WakeComes'
  BY <1>1, <1>2, <1>3, <1>frame DEF IInv, WakeComes, Tasks
<1>WritersEntered. WritersEntered'
  BY <1>1, <1>2, <1>3, <1>frame DEF IInv, WritersEntered, Tasks
<1>Unused. Unused'
  BY <1>1, <1>2, <1>3, <1>frame DEF IInv, Unused
<1>holders. Holders' = Holders
  BY <1>1, <1>2, <1>3, <1>granted, <1>picked DEF Holders, Tasks
<1>transient. Transient' = Transient
  BY <1>1, <1>2, <1>3 DEF Transient
<1>writers. Writers' = Writers
  BY <1>1, <1>2, <1>3 DEF Writers, Tasks
<1>Counted. Counted'
  <2>1. \A x \in Transient : cpu'[x] = cpu[x]
    BY <1>1, <1>2, <1>3, <1>frame DEF Transient
  <2>2. Summing' => Summing
    BY <1>1, <1>2, <1>3 DEF Summing, Tasks
  <2>3. /\ UNCHANGED <<sum, next_cpu, read_count>>
        /\ sum' \in 0 .. Modulus - 1 /\ next_cpu' \in 1 .. NR_CPUS + 1
    BY <1>frame DEF IInv, Counted
  <2>4. QED
    BY <1>holders, <1>transient, <2>1, <2>2, <2>3, CountIdle DEF IInv
<1>lock. LockStep
  BY <1>holders, <1>writers DEF LockStep
<1> QED
  BY <1>Types, <1>Roles, <1>OwnCpu, <1>LockOwner, <1>Queue, <1>OneOwner, <1>WakerFollows,
     <1>WakeComes, <1>WritersEntered, <1>Unused, <1>Counted, <1>lock DEF IInv

\* A writer starts with rcu_sync_enter().
LEMMA DownWriteInv ==
  ASSUME IInv, SyncTypeOK, NEW u \in Updaters, DownWrite(u)
  PROVE  IInv' /\ LockStep
<1>task. u \in Tasks
  BY DEF Tasks
<1>1. Fn(u) = "out" /\ phase = "live"
  BY <1>task, Places DEF IInv, Types, DownWrite, Enter, UpdaterGoto
<1>2. Fn(u)' = "write" /\ At(u)' = "enter"
  BY <1>task DEF IInv, Types, Goto, Fn, At, DownWrite, Enter, UpdaterGoto
<1>3. \A x \in Tasks : x # u => Fn(x)' = Fn(x) /\ At(x)' = At(x)
  BY <1>task DEF IInv, Types, Goto, Fn, At, DownWrite, Enter, UpdaterGoto
<1>4. \A v \in Updaters : v # u => upc'[v] = upc[v]
  BY <1>task, PercpuAssumption DEF SyncTypeOK, DownWrite, Enter, UpdaterGoto
<1>frame. UNCHANGED <<block, read_count, waiters, waiters_lock, writer, private, awake, cpu,
                      sum, next_cpu, p, phase>>
  BY DEF DownWrite, Enter, UpdaterGoto, semVars, countVars, listVars, waitVars, sumVars
<1>granted. Granted' = Granted
  BY <1>task, <1>1, <1>2, <1>3, <1>4, <1>frame DEF Granted, In, Fn
<1>picked. Picked' = Picked
  BY <1>task, <1>1, <1>2, <1>3, <1>4, <1>frame DEF Picked
<1>owners. Owners' = Owners
  BY <1>task, <1>1, <1>2, <1>3, <1>4, <1>granted, <1>picked DEF Owners, Tasks
<1>Types. Types'
  <2>1. pc' \in [Tasks -> Steps]
    BY <1>task DEF IInv, Types, Goto, Steps, DownWrite, Enter, UpdaterGoto
  <2>2. cpu' \in [Tasks -> CPUs \cup {None}]
    BY <1>frame DEF IInv, Types
  <2>3. awake' \in [Tasks -> BOOLEAN] /\ private' \in [Tasks -> BOOLEAN]
    BY <1>frame DEF IInv, Types
  <2>4. QED
    BY <1>frame, <2>1, <2>2, <2>3 DEF IInv, Types
<1>Roles. Roles'
  BY <1>task, <1>1, <1>2, <1>3, <1>4, PercpuAssumption DEF IInv, Roles, Tasks
<1>OwnCpu. OwnCpu'
  BY <1>task, <1>1, <1>2, <1>3, <1>4, <1>frame DEF IInv, OwnCpu, PreemptOff, Locked
<1>LockOwner. LockOwner'
  BY <1>task, <1>1, <1>2, <1>3, <1>4, <1>frame DEF IInv, LockOwner, Locked
<1>Queue. Queue'
  BY <1>task, <1>1, <1>2, <1>3, <1>4, <1>frame DEF IInv, Queue
<1>OneOwner. OneOwner'
  BY <1>frame, <1>owners DEF IInv, OneOwner
<1>WakerFollows. WakerFollows'
  BY <1>task, <1>1, <1>2, <1>3, <1>4, <1>frame DEF IInv, WakerFollows, GaveUp, Waker, Tasks
<1>WakeComes. WakeComes'
  BY <1>task, <1>1, <1>2, <1>3, <1>4, <1>frame DEF IInv, WakeComes, Tasks
<1>WritersEntered. WritersEntered'
  BY <1>task, <1>1, <1>2, <1>3, <1>4, <1>frame DEF IInv, WritersEntered, Tasks
<1>Unused. Unused'
  BY <1>task, <1>1, <1>2, <1>3, <1>4, <1>frame DEF IInv, Unused
<1>holders. Holders' = Holders
  BY <1>task, <1>1, <1>2, <1>3, <1>4, <1>granted, <1>picked DEF Holders, Tasks
<1>transient. Transient' = Transient
  BY <1>task, <1>1, <1>2, <1>3, <1>4 DEF Transient
<1>writers. Writers' = Writers
  BY <1>task, <1>1, <1>2, <1>3, <1>4 DEF Writers, Tasks
<1>Counted. Counted'
  <2>1. \A x \in Transient : cpu'[x] = cpu[x]
    BY <1>task, <1>1, <1>2, <1>3, <1>4, <1>frame DEF Transient
  <2>2. Summing' => Summing
    BY <1>task, <1>1, <1>2, <1>3, <1>4 DEF Summing, Tasks
  <2>3. /\ UNCHANGED <<sum, next_cpu, read_count>>
        /\ sum' \in 0 .. Modulus - 1 /\ next_cpu' \in 1 .. NR_CPUS + 1
    BY <1>frame DEF IInv, Counted
  <2>4. QED
    BY <1>holders, <1>transient, <2>1, <2>2, <2>3, CountIdle DEF IInv
<1>lock. LockStep
  BY <1>holders, <1>writers DEF LockStep
<1> QED
  BY <1>Types, <1>Roles, <1>OwnCpu, <1>LockOwner, <1>Queue, <1>OneOwner, <1>WakerFollows,
     <1>WakeComes, <1>WritersEntered, <1>Unused, <1>Counted, <1>lock DEF IInv

\* The steps of rcu_sync_enter() concern a writer that is not past it.
LEMMA SyncEnterInv ==
  ASSUME IInv, SyncTypeOK, NEW u \in Updaters, SyncEnter(u)
  PROVE  IInv' /\ LockStep
<1>task. u \in Tasks
  BY DEF Tasks
<1>1. UNCHANGED pc
  BY DEF SyncEnter, EnterStep, Synchronized, EnterFunc, WaitEvent, PrepareToWait, WokenUp,
     UpdaterGoto
<1>2. upc[u] # "entered"
  BY DEF SyncEnter, EnterStep, Synchronized, EnterFunc, WaitEvent, PrepareToWait, WokenUp,
     UpdaterGoto
<1>3. \A v \in Updaters : v # u => upc'[v] = upc[v]
  BY <1>task, PercpuAssumption DEF SyncTypeOK, SyncEnter, EnterStep, Synchronized, EnterFunc,
     WaitEvent, PrepareToWait, WokenUp, UpdaterGoto
<1>4. \A x \in Tasks : Fn(x)' = Fn(x) /\ At(x)' = At(x)
  BY <1>task DEF IInv, Types, Goto, Fn, At, SyncEnter, EnterStep, Synchronized, EnterFunc,
     WaitEvent, PrepareToWait, WokenUp, UpdaterGoto
<1>frame. UNCHANGED <<block, read_count, waiters, waiters_lock, writer, private, awake, cpu,
                      sum, next_cpu, p, phase>>
  BY DEF SyncEnter, EnterStep, Synchronized, EnterFunc, WaitEvent, PrepareToWait, WokenUp,
     UpdaterGoto, semVars, countVars, listVars, waitVars, sumVars
<1>granted. Granted' = Granted
  BY <1>task, <1>1, <1>3, <1>4, <1>frame DEF Granted, In, Fn
<1>picked. Picked' = Picked
  BY <1>task, <1>1, <1>3, <1>4, <1>frame DEF Picked
<1>owners. Owners' = Owners
  BY <1>task, <1>1, <1>3, <1>4, <1>granted, <1>picked DEF Owners, Tasks
<1>Types. Types'
  BY <1>task, <1>1, <1>3, <1>4, <1>frame DEF IInv, Types
<1>Roles. Roles'
  BY <1>task, <1>1, <1>3, <1>4 DEF IInv, Roles, Tasks
<1>OwnCpu. OwnCpu'
  BY <1>task, <1>1, <1>3, <1>4, <1>frame DEF IInv, OwnCpu, PreemptOff, Locked
<1>LockOwner. LockOwner'
  BY <1>task, <1>1, <1>3, <1>4, <1>frame DEF IInv, LockOwner, Locked
<1>Queue. Queue'
  BY <1>task, <1>1, <1>3, <1>4, <1>frame DEF IInv, Queue
<1>OneOwner. OneOwner'
  BY <1>frame, <1>owners DEF IInv, OneOwner
<1>WakerFollows. WakerFollows'
  BY <1>task, <1>1, <1>3, <1>4, <1>frame DEF IInv, WakerFollows, GaveUp, Waker, Tasks
<1>WakeComes. WakeComes'
  BY <1>task, <1>1, <1>3, <1>4, <1>frame DEF IInv, WakeComes, Tasks
<1>WritersEntered. WritersEntered'
  BY <1>task, <1>1, <1>3, <1>4, <1>2, <1>frame DEF IInv, WritersEntered, Tasks
<1>Unused. Unused'
  BY <1>task, <1>1, <1>3, <1>4, <1>frame DEF IInv, Unused
<1>holders. Holders' = Holders
  BY <1>task, <1>1, <1>3, <1>4, <1>granted, <1>picked DEF Holders, Tasks
<1>transient. Transient' = Transient
  BY <1>task, <1>1, <1>3, <1>4 DEF Transient
<1>writers. Writers' = Writers
  BY <1>task, <1>1, <1>3, <1>4 DEF Writers, Tasks
<1>Counted. Counted'
  <2>1. \A x \in Transient : cpu'[x] = cpu[x]
    BY <1>task, <1>1, <1>3, <1>4, <1>frame DEF Transient
  <2>2. Summing' => Summing
    BY <1>task, <1>1, <1>3, <1>4 DEF Summing, Tasks
  <2>3. /\ UNCHANGED <<sum, next_cpu, read_count>>
        /\ sum' \in 0 .. Modulus - 1 /\ next_cpu' \in 1 .. NR_CPUS + 1
    BY <1>frame DEF IInv, Counted
  <2>4. QED
    BY <1>holders, <1>transient, <2>1, <2>2, <2>3, CountIdle DEF IInv
<1>lock. LockStep
  BY <1>holders, <1>writers DEF LockStep
<1> QED
  BY <1>Types, <1>Roles, <1>OwnCpu, <1>LockOwner, <1>Queue, <1>OneOwner, <1>WakerFollows,
     <1>WakeComes, <1>WritersEntered, <1>Unused, <1>Counted, <1>lock DEF IInv

\* A writer that is entered tries to take block.
LEMMA WriteTrylockInv ==
  ASSUME IInv, NEW u \in Updaters, WriteTrylock(u)
  PROVE  IInv' /\ LockStep
<1>task. u \in Tasks
  BY DEF Tasks
<1>to. PICK s \in Steps :
    /\ Goto(u, s)
    /\ \/ ~block /\ s = <<"write", "prepare">>
       \/ block /\ s = <<"queue", "lock">>
  BY <1>task, StepsHas, Ends DEF WriteTrylock, down_write_trylock
<1>move. /\ pc' \in [Tasks -> Steps]
         /\ Fn(u)' = s[1] /\ At(u)' = s[2]
         /\ \A x \in Tasks : x # u => Fn(x)' = Fn(x) /\ At(x)' = At(x)
  BY <1>task, <1>to, Moves DEF IInv, Types
<1>1. Fn(u) = "write" /\ At(u) = "enter" /\ upc[u] = "entered"
  BY <1>task, PcIs DEF IInv, Types, WriteTrylock, down_write_trylock
<1>2. \/ ~block /\ Fn(u)' = "write" /\ At(u)' = "prepare"
      \/ block /\ Fn(u)' = "queue" /\ At(u)' = "lock"
  BY <1>to, <1>move
<1>3. \A x \in Tasks : x # u => Fn(x)' = Fn(x) /\ At(x)' = At(x)
  BY <1>to, <1>move
<1>4. block' = TRUE
  BY DEF WriteTrylock, down_write_trylock
<1>frame. UNCHANGED <<read_count, waiters, waiters_lock, writer, private, awake, cpu, sum,
                      next_cpu, p, upc, phase>>
  BY DEF WriteTrylock, syncVars, rssVars, rcuVars, semVars, countVars, listVars, waitVars,
     sumVars
<1>granted. Granted' = Granted
  BY <1>task, <1>1, <1>2, <1>3, <1>frame DEF Granted, In, Fn
<1>picked. Picked' = Picked
  BY <1>task, <1>1, <1>2, <1>3, <1>frame DEF Picked
<1>owners. Owners' = IF block THEN Owners ELSE {u}
  BY <1>task, <1>1, <1>2, <1>3, <1>4, <1>frame, <1>granted, <1>picked, PercpuAssumption DEF
     IInv, Roles, Owners, Tasks, OneOwner
<1>Types. Types'
  <2>1. pc' \in [Tasks -> Steps]
    BY <1>move
  <2>2. cpu' \in [Tasks -> CPUs \cup {None}]
    BY <1>frame DEF IInv, Types
  <2>3. awake' \in [Tasks -> BOOLEAN] /\ private' \in [Tasks -> BOOLEAN]
    BY <1>frame DEF IInv, Types
  <2>4. QED
    BY <1>frame, <1>4, <2>1, <2>2, <2>3 DEF IInv, Types
<1>Roles. Roles'
  BY <1>task, <1>1, <1>2, <1>3 DEF IInv, Roles, Tasks
<1>OwnCpu. OwnCpu'
  BY <1>task, <1>1, <1>2, <1>3, <1>frame DEF IInv, OwnCpu, PreemptOff, Locked
<1>LockOwner. LockOwner'
  BY <1>task, <1>1, <1>2, <1>3, <1>frame DEF IInv, LockOwner, Locked
<1>Queue. Queue'
  BY <1>task, <1>1, <1>2, <1>3, <1>frame DEF IInv, Queue
<1>OneOwner. OneOwner'
  BY <1>task, <1>1, <1>2, <1>3, <1>4, <1>frame, <1>granted, <1>picked, <1>owners DEF IInv,
     Types, OneOwner
<1>WakerFollows. WakerFollows'
  BY <1>task, <1>1, <1>2, <1>3, <1>4, <1>frame DEF IInv, WakerFollows, GaveUp, Waker, Tasks
<1>WakeComes. WakeComes'
  BY <1>task, <1>1, <1>2, <1>3, <1>4, <1>frame DEF IInv, WakeComes, Tasks
<1>WritersEntered. WritersEntered'
  BY <1>task, <1>1, <1>2, <1>3, <1>frame DEF IInv, WritersEntered, Tasks
<1>Unused. Unused'
  BY <1>task, <1>1, <1>2, <1>3, <1>frame DEF IInv, Unused
<1>holders. Holders' = Holders
  BY <1>task, <1>1, <1>2, <1>3, <1>granted, <1>picked DEF Holders, Tasks
<1>transient. Transient' = Transient
  BY <1>task, <1>1, <1>2, <1>3 DEF Transient
<1>writers. Writers' = Writers
  BY <1>task, <1>1, <1>2, <1>3 DEF Writers, Tasks
<1>Counted. Counted'
  <2>1. \A x \in Transient : cpu'[x] = cpu[x]
    BY <1>task, <1>1, <1>2, <1>3, <1>frame DEF Transient
  <2>2. Summing' => Summing
    BY <1>task, <1>1, <1>2, <1>3 DEF Summing, Tasks
  <2>3. /\ UNCHANGED <<sum, next_cpu, read_count>>
        /\ sum' \in 0 .. Modulus - 1 /\ next_cpu' \in 1 .. NR_CPUS + 1
    BY <1>frame DEF IInv, Counted
  <2>4. QED
    BY <1>holders, <1>transient, <2>1, <2>2, <2>3, CountIdle DEF IInv
<1>lock. LockStep
  BY <1>holders, <1>writers DEF LockStep
<1> QED
  BY <1>Types, <1>Roles, <1>OwnCpu, <1>LockOwner, <1>Queue, <1>OneOwner, <1>WakerFollows,
     <1>WakeComes, <1>WritersEntered, <1>Unused, <1>Counted, <1>lock DEF IInv

\* The owner of block shows itself to those who prod.
LEMMA PrepareToRcuwaitInv ==
  ASSUME IInv, NEW u \in Updaters, PrepareToRcuwait(u)
  PROVE  IInv' /\ LockStep
<1>task. u \in Tasks
  BY DEF Tasks
<1>1. Fn(u) = "write" /\ At(u) = "prepare"
  BY <1>task, PcIs DEF IInv, Types, PrepareToRcuwait
<1>2. Fn(u)' = "write" /\ At(u)' = "set"
  BY <1>task DEF IInv, Types, Goto, Fn, At, PrepareToRcuwait
<1>3. \A x \in Tasks : x # u => Fn(x)' = Fn(x) /\ At(x)' = At(x)
  BY <1>task DEF IInv, Types, Goto, Fn, At, PrepareToRcuwait
<1>frame. UNCHANGED <<block, read_count, waiters, waiters_lock, private, awake, cpu, sum,
                      next_cpu, p, upc, phase>>
  BY DEF PrepareToRcuwait, syncVars, rssVars, rcuVars, semVars, countVars, listVars, waitVars,
     sumVars
<1>granted. Granted' = Granted
  BY <1>task, <1>1, <1>2, <1>3, <1>frame DEF Granted, In, Fn
<1>picked. Picked' = Picked
  BY <1>task, <1>1, <1>2, <1>3, <1>frame DEF Picked
<1>owners. Owners' = Owners
  BY <1>task, <1>1, <1>2, <1>3, <1>granted, <1>picked DEF Owners, Tasks
<1>Types. Types'
  <2>1. pc' \in [Tasks -> Steps]
    BY <1>task DEF IInv, Types, Goto, Steps, PrepareToRcuwait
  <2>2. cpu' \in [Tasks -> CPUs \cup {None}]
    BY <1>frame DEF IInv, Types
  <2>3. awake' \in [Tasks -> BOOLEAN] /\ private' \in [Tasks -> BOOLEAN]
    BY <1>frame DEF IInv, Types
  <2>4. QED
    BY <1>task, <1>1, <1>2, <1>3, <1>frame, PercpuAssumption, <2>1, <2>2, <2>3 DEF IInv, Types,
       Tasks, PrepareToRcuwait
<1>Roles. Roles'
  BY <1>task, <1>1, <1>2, <1>3 DEF IInv, Roles, Tasks
<1>OwnCpu. OwnCpu'
  BY <1>task, <1>1, <1>2, <1>3, <1>frame DEF IInv, OwnCpu, PreemptOff, Locked
<1>LockOwner. LockOwner'
  BY <1>task, <1>1, <1>2, <1>3, <1>frame DEF IInv, LockOwner, Locked
<1>Queue. Queue'
  BY <1>task, <1>1, <1>2, <1>3, <1>frame DEF IInv, Queue
<1>OneOwner. OneOwner'
  BY <1>frame, <1>owners DEF IInv, OneOwner
<1>WakerFollows. WakerFollows'
  BY <1>task, <1>1, <1>2, <1>3, <1>frame DEF IInv, WakerFollows, GaveUp, Waker, Tasks
<1>WakeComes. WakeComes'
  BY <1>task, <1>1, <1>2, <1>3, <1>frame DEF IInv, WakeComes, Tasks
<1>WritersEntered. WritersEntered'
  BY <1>task, <1>1, <1>2, <1>3, <1>frame DEF IInv, WritersEntered, Tasks
<1>Unused. Unused'
  BY <1>task, <1>1, <1>2, <1>3, <1>frame DEF IInv, Unused
<1>holders. Holders' = Holders
  BY <1>task, <1>1, <1>2, <1>3, <1>granted, <1>picked DEF Holders, Tasks
<1>transient. Transient' = Transient
  BY <1>task, <1>1, <1>2, <1>3 DEF Transient
<1>writers. Writers' = Writers
  BY <1>task, <1>1, <1>2, <1>3 DEF Writers, Tasks
<1>Counted. Counted'
  <2>1. \A x \in Transient : cpu'[x] = cpu[x]
    BY <1>task, <1>1, <1>2, <1>3, <1>frame DEF Transient
  <2>2. Summing' => Summing
    BY <1>task, <1>1, <1>2, <1>3 DEF Summing, Tasks
  <2>3. /\ UNCHANGED <<sum, next_cpu, read_count>>
        /\ sum' \in 0 .. Modulus - 1 /\ next_cpu' \in 1 .. NR_CPUS + 1
    BY <1>frame DEF IInv, Counted
  <2>4. QED
    BY <1>holders, <1>transient, <2>1, <2>2, <2>3, CountIdle DEF IInv
<1>lock. LockStep
  BY <1>holders, <1>writers DEF LockStep
<1> QED
  BY <1>Types, <1>Roles, <1>OwnCpu, <1>LockOwner, <1>Queue, <1>OneOwner, <1>WakerFollows,
     <1>WakeComes, <1>WritersEntered, <1>Unused, <1>Counted, <1>lock DEF IInv

\* The owner of block starts to sum.
LEMMA RcuwaitSetInv ==
  ASSUME IInv, NEW u \in Updaters, RcuwaitSet(u)
  PROVE  IInv' /\ LockStep
<1>task. u \in Tasks
  BY DEF Tasks
<1>1. Fn(u) = "write" /\ At(u) = "set"
  BY <1>task, PcIs DEF IInv, Types, RcuwaitSet
<1>2. Fn(u)' = "write" /\ At(u)' = "sum"
  BY <1>task DEF IInv, Types, Goto, Fn, At, RcuwaitSet
<1>3. \A x \in Tasks : x # u => Fn(x)' = Fn(x) /\ At(x)' = At(x)
  BY <1>task DEF IInv, Types, Goto, Fn, At, RcuwaitSet
<1>4. sum' = 0 /\ next_cpu' = 1
  BY DEF RcuwaitSet
<1>frame. UNCHANGED <<block, read_count, waiters, waiters_lock, writer, private, cpu, p,
                      upc, phase>>
  BY DEF RcuwaitSet, syncVars, rssVars, rcuVars, semVars, countVars, listVars, waitVars, sumVars
<1>granted. Granted' = Granted
  BY <1>task, <1>1, <1>2, <1>3, <1>frame DEF Granted, In, Fn
<1>picked. Picked' = Picked
  BY <1>task, <1>1, <1>2, <1>3, <1>frame DEF Picked
<1>owners. Owners' = Owners
  BY <1>task, <1>1, <1>2, <1>3, <1>granted, <1>picked DEF Owners, Tasks
<1>Types. Types'
  <2>1. pc' \in [Tasks -> Steps]
    BY <1>task DEF IInv, Types, Goto, Steps, RcuwaitSet
  <2>2. cpu' \in [Tasks -> CPUs \cup {None}]
    BY <1>frame DEF IInv, Types
  <2>3. awake' \in [Tasks -> BOOLEAN] /\ private' \in [Tasks -> BOOLEAN]
    BY <1>frame DEF IInv, Types, RcuwaitSet
  <2>4. QED
    BY <1>frame, <2>1, <2>2, <2>3 DEF IInv, Types
<1>Roles. Roles'
  BY <1>task, <1>1, <1>2, <1>3 DEF IInv, Roles, Tasks
<1>OwnCpu. OwnCpu'
  BY <1>task, <1>1, <1>2, <1>3, <1>frame DEF IInv, OwnCpu, PreemptOff, Locked
<1>LockOwner. LockOwner'
  BY <1>task, <1>1, <1>2, <1>3, <1>frame DEF IInv, LockOwner, Locked
<1>Queue. Queue'
  BY <1>task, <1>1, <1>2, <1>3, <1>frame DEF IInv, Queue
<1>OneOwner. OneOwner'
  BY <1>frame, <1>owners DEF IInv, OneOwner
<1>WakerFollows. WakerFollows'
  BY <1>task, <1>1, <1>2, <1>3, <1>frame DEF IInv, WakerFollows, GaveUp, Waker, Tasks
<1>WakeComes. WakeComes'
  BY <1>task, <1>1, <1>2, <1>3, <1>frame DEF IInv, WakeComes, Tasks
<1>WritersEntered. WritersEntered'
  BY <1>task, <1>1, <1>2, <1>3, <1>frame DEF IInv, WritersEntered, Tasks
<1>Unused. Unused'
  BY <1>task, <1>1, <1>2, <1>3, <1>frame DEF IInv, Unused
<1>holders. Holders' = Holders
  BY <1>task, <1>1, <1>2, <1>3, <1>granted, <1>picked DEF Holders, Tasks
<1>transient. Transient' = Transient
  BY <1>task, <1>1, <1>2, <1>3 DEF Transient
<1>writers. Writers' = Writers
  BY <1>task, <1>1, <1>2, <1>3 DEF Writers, Tasks
<1>Counted. Counted'
  <2>1. OnCpus
    BY CountsOnCpus
  <2>2. QED
    BY <1>4, <1>frame, <1>holders, <1>transient, <2>1, CountStart DEF IInv
<1>lock. LockStep
  BY <1>holders, <1>writers DEF LockStep
<1> QED
  BY <1>Types, <1>Roles, <1>OwnCpu, <1>LockOwner, <1>Queue, <1>OneOwner, <1>WakerFollows,
     <1>WakeComes, <1>WritersEntered, <1>Unused, <1>Counted, <1>lock DEF IInv

\* The owner of block adds one CPU's counter.
LEMMA SumCpuInv ==
  ASSUME IInv, NEW u \in Updaters, SumCpu(u)
  PROVE  IInv' /\ LockStep
<1>task. u \in Tasks
  BY DEF Tasks
<1>1. UNCHANGED pc
  BY DEF SumCpu, cpus_left
<1>2. Fn(u) = "write" /\ At(u) = "sum"
  BY <1>task, PcIs DEF IInv, Types, SumCpu, cpus_left
<1>3. next_cpu <= NR_CPUS /\ next_cpu' = next_cpu + 1
  BY DEF SumCpu, cpus_left
<1>4. sum' = add(sum, read_count[next_cpu])
  BY DEF SumCpu, cpus_left
<1>5. \A x \in Tasks : Fn(x)' = Fn(x) /\ At(x)' = At(x)
  BY <1>task DEF IInv, Types, Goto, Fn, At, SumCpu, cpus_left
<1>frame. UNCHANGED <<block, read_count, waiters, waiters_lock, writer, private, awake, cpu,
                      p, upc, phase>>
  BY DEF SumCpu, syncVars, rssVars, rcuVars, semVars, countVars, listVars, waitVars, sumVars
<1>granted. Granted' = Granted
  BY <1>task, <1>1, <1>2, <1>5, <1>frame DEF Granted, In, Fn
<1>picked. Picked' = Picked
  BY <1>task, <1>1, <1>2, <1>5, <1>frame DEF Picked
<1>owners. Owners' = Owners
  BY <1>task, <1>1, <1>2, <1>5, <1>granted, <1>picked DEF Owners, Tasks
<1>Types. Types'
  BY <1>task, <1>1, <1>2, <1>5, <1>frame DEF IInv, Types
<1>Roles. Roles'
  BY <1>task, <1>1, <1>2, <1>5 DEF IInv, Roles, Tasks
<1>OwnCpu. OwnCpu'
  BY <1>task, <1>1, <1>2, <1>5, <1>frame DEF IInv, OwnCpu, PreemptOff, Locked
<1>LockOwner. LockOwner'
  BY <1>task, <1>1, <1>2, <1>5, <1>frame DEF IInv, LockOwner, Locked
<1>Queue. Queue'
  BY <1>task, <1>1, <1>2, <1>5, <1>frame DEF IInv, Queue
<1>OneOwner. OneOwner'
  BY <1>frame, <1>owners DEF IInv, OneOwner
<1>WakerFollows. WakerFollows'
  BY <1>task, <1>1, <1>2, <1>5, <1>frame DEF IInv, WakerFollows, GaveUp, Waker, Tasks
<1>WakeComes. WakeComes'
  BY <1>task, <1>1, <1>2, <1>5, <1>frame DEF IInv, WakeComes, Tasks
<1>WritersEntered. WritersEntered'
  BY <1>task, <1>1, <1>2, <1>5, <1>frame DEF IInv, WritersEntered, Tasks
<1>Unused. Unused'
  BY <1>task, <1>1, <1>2, <1>5, <1>frame DEF IInv, Unused
<1>holders. Holders' = Holders
  BY <1>task, <1>1, <1>2, <1>5, <1>granted, <1>picked DEF Holders, Tasks
<1>transient. Transient' = Transient
  BY <1>task, <1>1, <1>2, <1>5 DEF Transient
<1>writers. Writers' = Writers
  BY <1>task, <1>1, <1>2, <1>5 DEF Writers, Tasks
<1>Counted. Counted'
  <2>1. OnCpus /\ \A x, y \in Transient : cpu[x] = cpu[y] => x = y
    BY CountsOnCpus
  <2>2. Summing
    BY <1>2 DEF Summing
  <2>3. QED
    BY <1>3, <1>4, <1>frame, <1>holders, <1>transient, <2>1, <2>2, CountSum DEF IInv
<1>lock. LockStep
  BY <1>holders, <1>writers DEF LockStep
<1> QED
  BY <1>Types, <1>Roles, <1>OwnCpu, <1>LockOwner, <1>Queue, <1>OneOwner, <1>WakerFollows,
     <1>WakeComes, <1>WritersEntered, <1>Unused, <1>Counted, <1>lock DEF IInv

\* The owner of block finds the sum zero, and then no reader holds the lock, or
\* has to sleep.
LEMMA RcuwaitCheckInv ==
  ASSUME IInv, NEW u \in Updaters, RcuwaitCheck(u)
  PROVE  IInv' /\ LockStep
<1>task. u \in Tasks
  BY DEF Tasks
<1>to. PICK s \in Steps :
    /\ Goto(u, s)
    /\ \/ sum = 0 /\ s = Held
       \/ sum # 0 /\ s = <<"write", "sched">>
  BY <1>task, StepsHas, Ends DEF RcuwaitCheck, cpus_left, waitVars
<1>move. /\ pc' \in [Tasks -> Steps]
         /\ Fn(u)' = s[1] /\ At(u)' = s[2]
         /\ \A x \in Tasks : x # u => Fn(x)' = Fn(x) /\ At(x)' = At(x)
  BY <1>task, <1>to, Moves DEF IInv, Types
<1>1. Fn(u) = "write" /\ At(u) = "sum" /\ ~(next_cpu <= NR_CPUS)
  BY <1>task, PcIs DEF IInv, Types, RcuwaitCheck, cpus_left, waitVars
<1>2. \/ sum = 0 /\ Fn(u)' = "held"
      \/ sum # 0 /\ Fn(u)' = "write" /\ At(u)' = "sched"
  <2>1. CASE sum = 0 /\ s = Held
    BY <1>move, <2>1, PcIs, Ends DEF IInv, Types
  <2>2. CASE sum # 0 /\ s = <<"write", "sched">>
    BY <1>move, <2>2, PcIs, Ends DEF IInv, Types
  <2>3. QED
    BY <1>to, <2>1, <2>2
<1>3. \A x \in Tasks : x # u => Fn(x)' = Fn(x) /\ At(x)' = At(x)
  BY <1>to, <1>move
<1>4. sum' = 0 /\ next_cpu' = 1
  BY DEF RcuwaitCheck, cpus_left, waitVars
<1>frame. UNCHANGED <<block, read_count, waiters, waiters_lock, private, cpu, p, upc, phase>>
  BY DEF RcuwaitCheck, syncVars, rssVars, rcuVars, semVars, countVars, listVars, waitVars,
     sumVars
<1>granted. Granted' = Granted
  BY <1>task, <1>1, <1>2, <1>3, <1>frame DEF Granted, In, Fn
<1>picked. Picked' = Picked
  BY <1>task, <1>1, <1>2, <1>3, <1>frame DEF Picked
<1>owners. Owners' = Owners
  BY <1>task, <1>1, <1>2, <1>3, <1>granted, <1>picked DEF Owners, Tasks
<1>Types. Types'
  <2>1. pc' \in [Tasks -> Steps]
    BY <1>move
  <2>2. cpu' \in [Tasks -> CPUs \cup {None}]
    BY <1>frame DEF IInv, Types
  <2>3. awake' \in [Tasks -> BOOLEAN] /\ private' \in [Tasks -> BOOLEAN]
    BY <1>frame DEF IInv, Types, RcuwaitCheck, cpus_left, waitVars
  <2>4. QED
    BY <1>task, <1>1, <1>2, <1>3, <1>4, <1>frame, PercpuAssumption, <2>1, <2>2, <2>3 DEF IInv,
       Types, Tasks, RcuwaitCheck, cpus_left, waitVars
<1>Roles. Roles'
  BY <1>task, <1>1, <1>2, <1>3 DEF IInv, Roles, Tasks
<1>OwnCpu. OwnCpu'
  BY <1>task, <1>1, <1>2, <1>3, <1>frame DEF IInv, OwnCpu, PreemptOff, Locked
<1>LockOwner. LockOwner'
  BY <1>task, <1>1, <1>2, <1>3, <1>frame DEF IInv, LockOwner, Locked
<1>Queue. Queue'
  BY <1>task, <1>1, <1>2, <1>3, <1>frame DEF IInv, Queue
<1>OneOwner. OneOwner'
  BY <1>frame, <1>owners DEF IInv, OneOwner
<1>WakerFollows. WakerFollows'
  BY <1>task, <1>1, <1>2, <1>3, <1>frame DEF IInv, WakerFollows, GaveUp, Waker, Tasks
<1>WakeComes. WakeComes'
  BY <1>task, <1>1, <1>2, <1>3, <1>frame DEF IInv, WakeComes, Tasks
<1>WritersEntered. WritersEntered'
  BY <1>task, <1>1, <1>2, <1>3, <1>frame DEF IInv, WritersEntered, Tasks
<1>Unused. Unused'
  BY <1>task, <1>1, <1>2, <1>3, <1>frame DEF IInv, Unused
<1>alone. u \in Owners /\ \A v \in Owners : v = u
  BY <1>1 DEF IInv, OneOwner, Owners
<1>holders. Holders' = Holders
  BY <1>task, <1>1, <1>2, <1>3, <1>granted, <1>picked, PercpuAssumption DEF IInv, Roles,
     Holders, Tasks
<1>transient. Transient' = Transient
  BY <1>task, <1>1, <1>2, <1>3 DEF Transient
<1>writers. Writers' = IF sum = 0 THEN Writers \cup {u} ELSE Writers
  BY <1>task, <1>1, <1>2, <1>3 DEF Writers, Tasks
<1>Counted. Counted'
  <2>1. ~Summing'
    <3>1. ~(Fn(u)' = "write" /\ At(u)' = "sum")
      BY <1>2
    <3>2. \A v \in Updaters : Fn(v)' = "write" /\ At(v)' = "sum" => v = u
      BY <1>alone, <1>owners DEF Owners
    <3>3. QED
      BY <3>1, <3>2 DEF Summing
  <2>2. sum' \in 0 .. Modulus - 1 /\ next_cpu' \in 1 .. NR_CPUS + 1
    BY <1>4, ModulusPositive, PercpuAssumption
  <2>3. QED
    BY <1>frame, <1>holders, <1>transient, <2>1, <2>2, CountIdle DEF IInv
<1>lock. LockStep
  <2>1. CASE sum = 0
    <3>1. Summing
      BY <1>1 DEF Summing
    <3>2. Holders = {}
      BY <1>1, <2>1, <3>1, CountsOnCpus, SumZero DEF IInv
    <3>3. Writers = {}
      BY <1>alone, <1>1 DEF Writers, Owners
    <3>4. QED
      BY <1>task, <1>holders, <1>writers, <2>1, <3>2, <3>3 DEF LockStep, Hold!Next,
         Hold!AcquireWrite
  <2>2. CASE sum # 0
    BY <1>holders, <1>writers, <2>2 DEF LockStep
  <2>3. QED
    BY <2>1, <2>2
<1> QED
  BY <1>Types, <1>Roles, <1>OwnCpu, <1>LockOwner, <1>Queue, <1>OneOwner, <1>WakerFollows,
     <1>WakeComes, <1>WritersEntered, <1>Unused, <1>Counted, <1>lock DEF IInv

\* A writer clears block and is the one that wakes the list.
LEMMA UpWriteInv ==
  ASSUME IInv, NEW u \in Updaters, UpWrite(u)
  PROVE  IInv' /\ LockStep
<1>task. u \in Tasks
  BY DEF Tasks
<1>1. Fn(u) = "held"
  BY <1>task, Places DEF IInv, Types, UpWrite
<1>2. Fn(u)' = "wake" /\ At(u)' = "lock"
  BY <1>task DEF IInv, Types, Goto, Fn, At, UpWrite
<1>3. \A x \in Tasks : x # u => Fn(x)' = Fn(x) /\ At(x)' = At(x)
  BY <1>task DEF IInv, Types, Goto, Fn, At, UpWrite
<1>4. block' = FALSE
  BY DEF UpWrite
<1>frame. UNCHANGED <<read_count, waiters, waiters_lock, writer, private, awake, cpu, sum,
                      next_cpu, p, upc, phase>>
  BY DEF UpWrite, syncVars, rssVars, rcuVars, semVars, countVars, listVars, waitVars, sumVars
<1>granted. Granted' = Granted
  BY <1>task, <1>1, <1>2, <1>3, <1>frame DEF Granted, In, Fn
<1>picked. Picked' = Picked
  BY <1>task, <1>1, <1>2, <1>3, <1>frame DEF Picked
<1>owners. Owners = {u} /\ Owners' = {}
  <2>1. u \in Owners /\ \A v \in Owners : v = u
    BY <1>1 DEF IInv, OneOwner, Owners
  <2>2. u \notin Granted \cup Picked
    BY <1>1, FirstWaiter DEF Granted, Picked, In, Fn, At
  <2>3. ASSUME NEW v \in Owners' PROVE FALSE
    <3>1. CASE v = u
      BY <1>2, <1>granted, <1>picked, <2>2, <2>3, <3>1 DEF Owners
    <3>2. CASE v # u
      BY <1>task, <1>3, <1>granted, <1>picked, <2>1, <2>3, <3>2 DEF Owners, Tasks
    <3>3. QED
      BY <3>1, <3>2
  <2>4. QED
    BY <2>1, <2>3
<1>Types. Types'
  <2>1. pc' \in [Tasks -> Steps]
    BY <1>task DEF IInv, Types, Goto, Steps, UpWrite
  <2>2. cpu' \in [Tasks -> CPUs \cup {None}]
    BY <1>frame DEF IInv, Types
  <2>3. awake' \in [Tasks -> BOOLEAN] /\ private' \in [Tasks -> BOOLEAN]
    BY <1>frame DEF IInv, Types
  <2>4. QED
    BY <1>frame, <1>4, <2>1, <2>2, <2>3 DEF IInv, Types
<1>Roles. Roles'
  BY <1>task, <1>1, <1>2, <1>3, PercpuAssumption DEF IInv, Roles, Tasks
<1>OwnCpu. OwnCpu'
  BY <1>task, <1>1, <1>2, <1>3, <1>frame DEF IInv, OwnCpu, PreemptOff, Locked
<1>LockOwner. LockOwner'
  BY <1>task, <1>1, <1>2, <1>3, <1>frame DEF IInv, LockOwner, Locked
<1>Queue. Queue'
  BY <1>task, <1>1, <1>2, <1>3, <1>frame DEF IInv, Queue
<1>OneOwner. OneOwner'
  BY <1>task, <1>1, <1>2, <1>3, <1>4, <1>frame, <1>granted, <1>picked, <1>owners DEF IInv,
     Types, OneOwner
<1>WakerFollows. WakerFollows'
  BY <1>task, <1>1, <1>2, <1>3, <1>frame DEF IInv, WakerFollows, GaveUp, Waker, Tasks
<1>WakeComes. WakeComes'
  BY <1>task, <1>1, <1>2, <1>3, <1>frame DEF IInv, WakeComes, Tasks
<1>WritersEntered. WritersEntered'
  BY <1>task, <1>1, <1>2, <1>3, <1>frame DEF IInv, WritersEntered, Tasks
<1>Unused. Unused'
  BY <1>task, <1>1, <1>2, <1>3, <1>frame DEF IInv, Unused
<1>holders. Holders' = Holders
  BY <1>task, <1>1, <1>2, <1>3, <1>granted, <1>picked, PercpuAssumption DEF IInv, Roles,
     Holders, Tasks
<1>transient. Transient' = Transient
  BY <1>task, <1>1, <1>2, <1>3 DEF Transient
<1>writers. Writers = {u} /\ Writers' = {}
  <2>1. Writers = {u}
    BY <1>owners, <1>1 DEF Writers, Owners
  <2>2. QED
    BY <1>task, <1>2, <1>3, <2>1 DEF Writers, Tasks
<1>Counted. Counted'
  <2>1. \A x \in Transient : cpu'[x] = cpu[x]
    BY <1>task, <1>1, <1>2, <1>3, <1>frame DEF Transient
  <2>2. Summing' => Summing
    BY <1>task, <1>1, <1>2, <1>3 DEF Summing, Tasks
  <2>3. /\ UNCHANGED <<sum, next_cpu, read_count>>
        /\ sum' \in 0 .. Modulus - 1 /\ next_cpu' \in 1 .. NR_CPUS + 1
    BY <1>frame DEF IInv, Counted
  <2>4. QED
    BY <1>holders, <1>transient, <2>1, <2>2, <2>3, CountIdle DEF IInv
<1>lock. LockStep
  BY <1>task, <1>holders, <1>writers DEF LockStep, Hold!Next, Hold!ReleaseWrite
<1> QED
  BY <1>Types, <1>Roles, <1>OwnCpu, <1>LockOwner, <1>Queue, <1>OneOwner, <1>WakerFollows,
     <1>WakeComes, <1>WritersEntered, <1>Unused, <1>Counted, <1>lock DEF IInv

\* The wake function takes block for a writer at the head of the list, or stops.
LEMMA WakeWriteTrylockInv ==
  ASSUME IInv, NEW u \in Updaters, WakeWriteTrylock(u)
  PROVE  IInv' /\ LockStep
<1>task. u \in Tasks
  BY DEF Tasks
<1>to. PICK s \in Steps :
    /\ Goto(u, s)
    /\ \/ waiters = <<>> /\ s = <<"wake", "fail">> /\ block' = block
       \/ /\ waiters # <<>> /\ Head(waiters) \in Updaters
          /\ ~block /\ s = <<"wake", "ok">> /\ block' = TRUE
       \/ waiters # <<>> /\ block /\ s = <<"wake", "fail">> /\ block' = block
  BY <1>task, StepsHas, Ends DEF WakeWriteTrylock, down_write_trylock
<1>move. /\ pc' \in [Tasks -> Steps]
         /\ Fn(u)' = s[1] /\ At(u)' = s[2]
         /\ \A x \in Tasks : x # u => Fn(x)' = Fn(x) /\ At(x)' = At(x)
  BY <1>task, <1>to, Moves DEF IInv, Types
<1>1. Fn(u) = "wake" /\ At(u) = "begin"
  BY <1>task, PcIs DEF IInv, Types, WakeWriteTrylock, down_write_trylock
<1>2. Fn(u)' = "wake"
  BY <1>to, <1>move
<1>3. \A x \in Tasks : x # u => Fn(x)' = Fn(x) /\ At(x)' = At(x)
  BY <1>to, <1>move
<1>4. \/ waiters = <<>> /\ At(u)' = "fail" /\ block' = block
      \/ /\ waiters # <<>> /\ Head(waiters) \in Updaters
         /\ ~block /\ At(u)' = "ok" /\ block' = TRUE
      \/ waiters # <<>> /\ block /\ At(u)' = "fail" /\ block' = block
  BY <1>to, <1>move
<1>frame. UNCHANGED <<read_count, waiters, waiters_lock, writer, private, awake, cpu, sum,
                      next_cpu, p, upc, phase>>
  BY DEF WakeWriteTrylock, syncVars, rssVars, rcuVars, semVars, countVars, listVars, waitVars,
     sumVars
<1>granted. Granted' = Granted
  BY <1>task, <1>1, <1>2, <1>3, <1>4, <1>frame DEF Granted, In, Fn
<1>picked. Picked = {} /\ Picked' = IF At(u)' = "ok" THEN {Head(waiters)} ELSE {}
  BY <1>task, <1>1, <1>2, <1>3, <1>4, <1>frame DEF IInv, Types, LockOwner, Locked, Roles, Queue,
     Granted, Picked, In
<1>owners. Owners' = IF At(u)' = "ok" THEN {Head(waiters)} ELSE Owners
  BY <1>task, <1>1, <1>2, <1>3, <1>4, <1>frame, <1>granted, <1>picked, PercpuAssumption DEF
     IInv, Roles, Owners, Tasks, OneOwner
<1>Types. Types'
  <2>1. pc' \in [Tasks -> Steps]
    BY <1>move
  <2>2. cpu' \in [Tasks -> CPUs \cup {None}]
    BY <1>frame DEF IInv, Types
  <2>3. awake' \in [Tasks -> BOOLEAN] /\ private' \in [Tasks -> BOOLEAN]
    BY <1>frame DEF IInv, Types
  <2>4. QED
    BY <1>task, <1>1, <1>2, <1>3, <1>4, <1>frame, PercpuAssumption, <2>1, <2>2, <2>3 DEF IInv,
       Types, Tasks
<1>Roles. Roles'
  BY <1>task, <1>1, <1>2, <1>3, <1>4 DEF IInv, Roles, Tasks
<1>OwnCpu. OwnCpu'
  BY <1>task, <1>1, <1>2, <1>3, <1>4, <1>frame DEF IInv, OwnCpu, PreemptOff, Locked
<1>LockOwner. LockOwner'
  BY <1>task, <1>1, <1>2, <1>3, <1>4, <1>frame DEF IInv, LockOwner, Locked
<1>Queue. Queue'
  BY <1>task, <1>1, <1>2, <1>3, <1>4, <1>frame DEF IInv, Queue
<1>OneOwner. OneOwner'
  <2>1. CASE At(u)' = "ok"
    BY <1>4, <1>owners, <2>1 DEF OneOwner
  <2>2. CASE At(u)' # "ok"
    BY <1>4, <1>owners, <2>2 DEF IInv, OneOwner
  <2>3. QED
    BY <2>1, <2>2
<1>WakerFollows. WakerFollows'
  BY <1>task, <1>1, <1>2, <1>3, <1>4, <1>frame DEF IInv, WakerFollows, GaveUp, Waker, Tasks
<1>WakeComes. WakeComes'
  BY <1>task, <1>1, <1>2, <1>3, <1>4, <1>frame DEF IInv, WakeComes, Tasks
<1>WritersEntered. WritersEntered'
  BY <1>task, <1>1, <1>2, <1>3, <1>4, <1>frame DEF IInv, WritersEntered, Tasks
<1>Unused. Unused'
  BY <1>task, <1>1, <1>2, <1>3, <1>4, <1>frame DEF IInv, Unused
<1>holders. Holders' = Holders
  BY <1>task, <1>1, <1>2, <1>3, <1>4, <1>granted, <1>picked, PercpuAssumption DEF IInv, Roles,
     Holders, Tasks
<1>transient. Transient' = Transient
  BY <1>task, <1>1, <1>2, <1>3, <1>4 DEF Transient
<1>writers. Writers' = Writers
  BY <1>task, <1>1, <1>2, <1>3, <1>4 DEF Writers, Tasks
<1>Counted. Counted'
  <2>1. \A x \in Transient : cpu'[x] = cpu[x]
    BY <1>task, <1>1, <1>2, <1>3, <1>4, <1>frame DEF Transient
  <2>2. Summing' => Summing
    BY <1>task, <1>1, <1>2, <1>3, <1>4 DEF Summing, Tasks
  <2>3. /\ UNCHANGED <<sum, next_cpu, read_count>>
        /\ sum' \in 0 .. Modulus - 1 /\ next_cpu' \in 1 .. NR_CPUS + 1
    BY <1>frame DEF IInv, Counted
  <2>4. QED
    BY <1>holders, <1>transient, <2>1, <2>2, <2>3, CountIdle DEF IInv
<1>lock. LockStep
  BY <1>holders, <1>writers DEF LockStep
<1> QED
  BY <1>Types, <1>Roles, <1>OwnCpu, <1>LockOwner, <1>Queue, <1>OneOwner, <1>WakerFollows,
     <1>WakeComes, <1>WritersEntered, <1>Unused, <1>Counted, <1>lock DEF IInv

\* The wake function unlinks the first waiter and tells it that it was granted.
LEMMA WakeGrantInv ==
  ASSUME IInv, NEW u \in Updaters, WakeGrant(u)
  PROVE  IInv' /\ LockStep
<1>task. u \in Tasks
  BY DEF Tasks
<1>1. Fn(u) = "wake" /\ At(u) = "ok"
  BY <1>task, PcIs DEF IInv, Types, WakeGrant
<1>2. Fn(u)' = "wake" /\ At(u)' = "wakeup"
  BY <1>task DEF IInv, Types, Goto, Fn, At, WakeGrant
<1>3. \A x \in Tasks : x # u => Fn(x)' = Fn(x) /\ At(x)' = At(x)
  BY <1>task DEF IInv, Types, Goto, Fn, At, WakeGrant
<1>4. p' = Head(waiters) /\ waiters' = Tail(waiters)
  BY DEF WakeGrant
<1>5. private' = [private EXCEPT ![Head(waiters)] = FALSE]
  BY DEF WakeGrant
<1>frame. UNCHANGED <<block, read_count, waiters_lock, writer, awake, cpu, sum, next_cpu,
                      upc, phase>>
  BY DEF WakeGrant, syncVars, rssVars, rcuVars, semVars, countVars, listVars, waitVars, sumVars
<1>first. waiters # <<>> /\ Head(waiters) \in Tasks /\ private[Head(waiters)]
  BY <1>task, <1>1, FirstWaiter DEF IInv, Queue
<1>granted. Granted' = Granted \cup {Head(waiters)}
  BY <1>task, <1>1, <1>2, <1>3, <1>4, <1>5, <1>frame, <1>first, FirstWaiter DEF IInv, Types,
     Granted, In, Fn, At
<1>picked. Picked = {Head(waiters)} /\ Picked' = {}
  <2>1. Picked = {Head(waiters)}
    BY <1>task, <1>1, <1>first DEF Picked
  <2>2. \A x \in Tasks : ~(Fn(x)' = "wake" /\ At(x)' = "ok")
    BY <1>task, <1>1, <1>2, <1>3 DEF IInv, LockOwner, Locked
  <2>3. QED
    BY <2>1, <2>2 DEF Picked
<1>owners. Owners' = Owners
  BY <1>task, <1>1, <1>2, <1>3, <1>first, <1>granted, <1>picked DEF Owners, Tasks
<1>Types. Types'
  <2>1. pc' \in [Tasks -> Steps]
    BY <1>task DEF IInv, Types, Goto, Steps, WakeGrant
  <2>2. cpu' \in [Tasks -> CPUs \cup {None}]
    BY <1>frame DEF IInv, Types
  <2>3. awake' \in [Tasks -> BOOLEAN] /\ private' \in [Tasks -> BOOLEAN]
    BY <1>frame, <1>4, <1>5 DEF IInv, Types
  <2>4. QED
    BY <1>task, <1>1, <1>2, <1>3, <1>4, <1>5, <1>frame, <1>first, <1>granted, <1>picked, <2>1,
       <2>2, <2>3 DEF IInv, Types, WakeGrant
<1>Roles. Roles'
  BY <1>task, <1>1, <1>2, <1>3 DEF IInv, Roles, Tasks
<1>OwnCpu. OwnCpu'
  BY <1>task, <1>1, <1>2, <1>3, <1>frame DEF IInv, OwnCpu, PreemptOff, Locked
<1>LockOwner. LockOwner'
  BY <1>task, <1>1, <1>2, <1>3, <1>frame DEF IInv, LockOwner, Locked
<1>Queue. Queue'
  <2>1. /\ waiters' \in Seq(Tasks)
        /\ NoDup(waiters')
        /\ Linked(waiters') = Linked(waiters) \ {Head(waiters)}
    BY <1>4, <1>first, ListTail DEF IInv, Types, Queue
  <2>2. \A x \in Tasks : private'[x] <=> private[x] /\ x # Head(waiters)
    BY <1>5, <1>first DEF IInv, Types
  <2>3. \A x \in Tasks : private'[x] => Fn(x)' = "sleep"
    BY <1>task, <1>1, <1>2, <1>3, <2>2 DEF IInv, Queue
  <2>4. \A x \in Tasks : ~(Fn(x)' = "wake" /\ At(x)' \in {"chk", "ok"})
    BY <1>task, <1>1, <1>2, <1>3 DEF IInv, LockOwner, Locked
  <2>5. QED
    BY <2>1, <2>2, <2>3, <2>4 DEF IInv, Queue
<1>OneOwner. OneOwner'
  BY <1>frame, <1>owners DEF IInv, OneOwner
<1>WakerFollows. WakerFollows'
  <2>1. ASSUME Head(waiters) \notin Readers PROVE block
    <3>1. Head(waiters) \in Owners
      BY <1>first, <1>picked, <2>1 DEF Owners, Tasks
    <3>2. QED
      BY <3>1 DEF IInv, OneOwner
  <2>2. ASSUME NEW x \in Tasks, GaveUp(x)' PROVE x = u /\ Head(waiters) \notin Readers
    BY <1>task, <1>1, <1>2, <1>3, <1>4, <2>2 DEF IInv, LockOwner, Locked, GaveUp
  <2>3. QED
    BY <1>frame, <2>1, <2>2 DEF WakerFollows
<1>WakeComes. WakeComes'
  BY <1>task, <1>1, <1>2, <1>3, <1>frame DEF IInv, WakeComes, Tasks
<1>WritersEntered. WritersEntered'
  BY <1>task, <1>1, <1>2, <1>3, <1>frame DEF IInv, WritersEntered, Tasks
<1>Unused. Unused'
  BY <1>task, <1>1, <1>2, <1>3, <1>frame DEF IInv, Unused
<1>holders. Holders' = Holders
  BY <1>task, <1>1, <1>2, <1>3, <1>first, <1>granted, <1>picked DEF Holders, Tasks
<1>transient. Transient' = Transient
  BY <1>task, <1>1, <1>2, <1>3 DEF Transient
<1>writers. Writers' = Writers
  BY <1>task, <1>1, <1>2, <1>3 DEF Writers, Tasks
<1>Counted. Counted'
  <2>1. \A x \in Transient : cpu'[x] = cpu[x]
    BY <1>task, <1>1, <1>2, <1>3, <1>frame DEF Transient
  <2>2. Summing' => Summing
    BY <1>task, <1>1, <1>2, <1>3 DEF Summing, Tasks
  <2>3. /\ UNCHANGED <<sum, next_cpu, read_count>>
        /\ sum' \in 0 .. Modulus - 1 /\ next_cpu' \in 1 .. NR_CPUS + 1
    BY <1>frame DEF IInv, Counted
  <2>4. QED
    BY <1>holders, <1>transient, <2>1, <2>2, <2>3, CountIdle DEF IInv
<1>lock. LockStep
  BY <1>holders, <1>writers DEF LockStep
<1> QED
  BY <1>Types, <1>Roles, <1>OwnCpu, <1>LockOwner, <1>Queue, <1>OneOwner, <1>WakerFollows,
     <1>WakeComes, <1>WritersEntered, <1>Unused, <1>Counted, <1>lock DEF IInv

\* The wake function wakes it, and goes on after a reader.
LEMMA WakeProcessInv ==
  ASSUME IInv, NEW u \in Updaters, WakeProcess(u)
  PROVE  IInv' /\ LockStep
<1>task. u \in Tasks
  BY DEF Tasks
<1>1. Fn(u) = "wake" /\ At(u) = "wakeup" /\ p' = None
  BY <1>task DEF IInv, Types, Goto, Fn, At, WakeProcess, wake_next
<1>2. Fn(u)' = "wake" /\ At(u)' = IF p \in Readers THEN "begin" ELSE "fail"
  BY <1>task DEF IInv, Types, Goto, Fn, At, WakeProcess, wake_next
<1>3. \A x \in Tasks : x # u => Fn(x)' = Fn(x) /\ At(x)' = At(x)
  BY <1>task DEF IInv, Types, Goto, Fn, At, WakeProcess, wake_next
<1>frame. UNCHANGED <<block, read_count, waiters, waiters_lock, writer, private, cpu, sum,
                      next_cpu, upc, phase>>
  BY DEF WakeProcess, syncVars, rssVars, rcuVars, semVars, countVars, listVars, waitVars,
     sumVars
<1>granted. Granted' = Granted
  BY <1>task, <1>1, <1>2, <1>3, <1>frame DEF Granted, In, Fn
<1>picked. Picked' = Picked
  BY <1>task, <1>1, <1>2, <1>3, <1>frame DEF Picked
<1>owners. Owners' = Owners
  BY <1>task, <1>1, <1>2, <1>3, <1>granted, <1>picked DEF Owners, Tasks
<1>Types. Types'
  <2>1. pc' \in [Tasks -> Steps]
    BY <1>task DEF IInv, Types, Goto, Steps, WakeProcess, wake_next
  <2>2. cpu' \in [Tasks -> CPUs \cup {None}]
    BY <1>frame DEF IInv, Types
  <2>3. awake' \in [Tasks -> BOOLEAN] /\ private' \in [Tasks -> BOOLEAN]
    BY <1>frame DEF IInv, Types, WakeProcess, wake_next
  <2>4. QED
    BY <1>task, <1>1, <1>2, <1>3, <1>frame, PercpuAssumption, <2>1, <2>2, <2>3 DEF IInv, Types,
       Tasks
<1>Roles. Roles'
  BY <1>task, <1>1, <1>2, <1>3 DEF IInv, Roles, Tasks
<1>OwnCpu. OwnCpu'
  BY <1>task, <1>1, <1>2, <1>3, <1>frame DEF IInv, OwnCpu, PreemptOff, Locked
<1>LockOwner. LockOwner'
  BY <1>task, <1>1, <1>2, <1>3, <1>frame DEF IInv, LockOwner, Locked
<1>Queue. Queue'
  BY <1>task, <1>1, <1>2, <1>3, <1>frame DEF IInv, Queue
<1>OneOwner. OneOwner'
  BY <1>frame, <1>owners DEF IInv, OneOwner
<1>WakerFollows. WakerFollows'
  BY <1>task, <1>1, <1>2, <1>3, <1>frame, PercpuAssumption DEF IInv, WakerFollows, GaveUp,
     Waker, LockOwner, Locked, Tasks
<1>WakeComes. WakeComes'
  BY <1>task, <1>1, <1>2, <1>3, <1>frame DEF IInv, WakeComes, WakerFollows, GaveUp, Waker, Tasks
<1>WritersEntered. WritersEntered'
  BY <1>task, <1>1, <1>2, <1>3, <1>frame DEF IInv, WritersEntered, Tasks
<1>Unused. Unused'
  BY <1>task, <1>1, <1>2, <1>3, <1>frame DEF IInv, Unused
<1>holders. Holders' = Holders
  BY <1>task, <1>1, <1>2, <1>3, <1>granted, <1>picked DEF Holders, Tasks
<1>transient. Transient' = Transient
  BY <1>task, <1>1, <1>2, <1>3 DEF Transient
<1>writers. Writers' = Writers
  BY <1>task, <1>1, <1>2, <1>3 DEF Writers, Tasks
<1>Counted. Counted'
  <2>1. \A x \in Transient : cpu'[x] = cpu[x]
    BY <1>task, <1>1, <1>2, <1>3, <1>frame DEF Transient
  <2>2. Summing' => Summing
    BY <1>task, <1>1, <1>2, <1>3 DEF Summing, Tasks
  <2>3. /\ UNCHANGED <<sum, next_cpu, read_count>>
        /\ sum' \in 0 .. Modulus - 1 /\ next_cpu' \in 1 .. NR_CPUS + 1
    BY <1>frame DEF IInv, Counted
  <2>4. QED
    BY <1>holders, <1>transient, <2>1, <2>2, <2>3, CountIdle DEF IInv
<1>lock. LockStep
  BY <1>holders, <1>writers DEF LockStep
<1> QED
  BY <1>Types, <1>Roles, <1>OwnCpu, <1>LockOwner, <1>Queue, <1>OneOwner, <1>WakerFollows,
     <1>WakeComes, <1>WritersEntered, <1>Unused, <1>Counted, <1>lock DEF IInv

\* A wakeup is over.
LEMMA WakeUnlockInv ==
  ASSUME IInv, NEW u \in Updaters, WakeUnlock(u)
  PROVE  IInv' /\ LockStep
<1>task. u \in Tasks
  BY DEF Tasks
<1>1. Fn(u) = "wake" /\ At(u) = "fail"
  BY <1>task, PcIs DEF IInv, Types, WakeUnlock
<1>2. Fn(u)' = "wake" /\ At(u)' = "exit"
  BY <1>task DEF IInv, Types, Goto, Fn, At, WakeUnlock
<1>3. \A x \in Tasks : x # u => Fn(x)' = Fn(x) /\ At(x)' = At(x)
  BY <1>task DEF IInv, Types, Goto, Fn, At, WakeUnlock
<1>4. waiters_lock' = None
  BY DEF WakeUnlock
<1>5. cpu'[u] = None
  BY <1>task, Enable, Disable DEF IInv, Types, WakeUnlock
<1>6. \A x \in Tasks : x # u => cpu'[x] = cpu[x]
  BY <1>task, Enable, Disable DEF IInv, Types, WakeUnlock
<1>frame. UNCHANGED <<block, read_count, waiters, writer, private, awake, sum, next_cpu, p,
                      upc, phase>>
  BY DEF WakeUnlock, syncVars, rssVars, rcuVars, semVars, countVars, listVars, waitVars, sumVars
<1>granted. Granted' = Granted
  BY <1>task, <1>1, <1>2, <1>3, <1>frame DEF Granted, In, Fn
<1>picked. Picked' = Picked
  BY <1>task, <1>1, <1>2, <1>3, <1>frame DEF Picked
<1>owners. Owners' = Owners
  BY <1>task, <1>1, <1>2, <1>3, <1>granted, <1>picked DEF Owners, Tasks
<1>Types. Types'
  <2>1. pc' \in [Tasks -> Steps]
    BY <1>task DEF IInv, Types, Goto, Steps, WakeUnlock
  <2>2. cpu' \in [Tasks -> CPUs \cup {None}]
    BY <1>task, Enable DEF IInv, Types, WakeUnlock
  <2>3. awake' \in [Tasks -> BOOLEAN] /\ private' \in [Tasks -> BOOLEAN]
    BY <1>frame DEF IInv, Types
  <2>4. QED
    BY <1>frame, <1>4, <2>1, <2>2, <2>3 DEF IInv, Types
<1>Roles. Roles'
  BY <1>task, <1>1, <1>2, <1>3 DEF IInv, Roles, Tasks
<1>OwnCpu. OwnCpu'
  BY <1>task, <1>1, <1>2, <1>3, <1>5, <1>6 DEF IInv, OwnCpu, PreemptOff, Locked
<1>LockOwner. LockOwner'
  BY <1>task, <1>1, <1>2, <1>3, <1>4, <1>frame, PercpuAssumption DEF IInv, Types, LockOwner,
     Locked
<1>Queue. Queue'
  BY <1>task, <1>1, <1>2, <1>3, <1>frame DEF IInv, Queue
<1>OneOwner. OneOwner'
  BY <1>frame, <1>owners DEF IInv, OneOwner
<1>WakerFollows. WakerFollows'
  BY <1>task, <1>1, <1>2, <1>3, <1>frame DEF IInv, WakerFollows, GaveUp, Waker, Tasks
<1>WakeComes. WakeComes'
  BY <1>task, <1>1, <1>2, <1>3, <1>frame DEF IInv, WakeComes, Tasks
<1>WritersEntered. WritersEntered'
  BY <1>task, <1>1, <1>2, <1>3, <1>frame DEF IInv, WritersEntered, Tasks
<1>Unused. Unused'
  BY <1>task, <1>1, <1>2, <1>3, <1>frame DEF IInv, Unused
<1>holders. Holders' = Holders
  BY <1>task, <1>1, <1>2, <1>3, <1>granted, <1>picked DEF Holders, Tasks
<1>transient. Transient' = Transient
  BY <1>task, <1>1, <1>2, <1>3 DEF Transient
<1>writers. Writers' = Writers
  BY <1>task, <1>1, <1>2, <1>3 DEF Writers, Tasks
<1>Counted. Counted'
  <2>1. \A x \in Transient : cpu'[x] = cpu[x]
    BY <1>task, <1>1, <1>2, <1>3, <1>5, <1>6 DEF Transient
  <2>2. Summing' => Summing
    BY <1>task, <1>1, <1>2, <1>3 DEF Summing, Tasks
  <2>3. /\ UNCHANGED <<sum, next_cpu, read_count>>
        /\ sum' \in 0 .. Modulus - 1 /\ next_cpu' \in 1 .. NR_CPUS + 1
    BY <1>frame DEF IInv, Counted
  <2>4. QED
    BY <1>holders, <1>transient, <2>1, <2>2, <2>3, CountIdle DEF IInv
<1>lock. LockStep
  BY <1>holders, <1>writers DEF LockStep
<1> QED
  BY <1>Types, <1>Roles, <1>OwnCpu, <1>LockOwner, <1>Queue, <1>OneOwner, <1>WakerFollows,
     <1>WakeComes, <1>WritersEntered, <1>Unused, <1>Counted, <1>lock DEF IInv

\* The writer ends with rcu_sync_exit().
LEMMA SyncExitInv ==
  ASSUME IInv, SyncTypeOK, NEW u \in Updaters, SyncExit(u)
  PROVE  IInv' /\ LockStep
<1>task. u \in Tasks
  BY DEF Tasks
<1>to. PICK s \in Steps : Goto(u, s) /\ s = Out
  BY <1>task, StepsHas, Ends DEF SyncExit, Exit, UpdaterGoto
<1>move. /\ pc' \in [Tasks -> Steps]
         /\ Fn(u)' = s[1] /\ At(u)' = s[2]
         /\ \A x \in Tasks : x # u => Fn(x)' = Fn(x) /\ At(x)' = At(x)
  BY <1>task, <1>to, Moves DEF IInv, Types
<1>1. Fn(u) = "wake" /\ At(u) = "exit"
  BY <1>task, PcIs DEF IInv, Types, SyncExit, Exit, UpdaterGoto
<1>2. Fn(u)' = "out"
  BY <1>to, <1>move, Ends
<1>3. \A x \in Tasks : x # u => Fn(x)' = Fn(x) /\ At(x)' = At(x)
  BY <1>to, <1>move
<1>4. \A v \in Updaters : v # u => upc'[v] = upc[v]
  BY DEF SyncExit, Exit, UpdaterGoto
<1>frame. UNCHANGED <<block, read_count, waiters, waiters_lock, writer, private, awake, cpu,
                      sum, next_cpu, p, phase>>
  BY DEF SyncExit, Exit, UpdaterGoto, semVars, countVars, listVars, waitVars, sumVars
<1>granted. Granted' = Granted
  BY <1>task, <1>1, <1>2, <1>3, <1>4, <1>frame DEF Granted, In, Fn
<1>picked. Picked' = Picked
  BY <1>task, <1>1, <1>2, <1>3, <1>4, <1>frame DEF Picked
<1>owners. Owners' = Owners
  BY <1>task, <1>1, <1>2, <1>3, <1>4, <1>granted, <1>picked DEF Owners, Tasks
<1>Types. Types'
  <2>1. pc' \in [Tasks -> Steps]
    BY <1>move
  <2>2. cpu' \in [Tasks -> CPUs \cup {None}]
    BY <1>frame DEF IInv, Types
  <2>3. awake' \in [Tasks -> BOOLEAN] /\ private' \in [Tasks -> BOOLEAN]
    BY <1>frame DEF IInv, Types
  <2>4. QED
    BY <1>frame, <2>1, <2>2, <2>3 DEF IInv, Types
<1>Roles. Roles'
  BY <1>task, <1>1, <1>2, <1>3, <1>4 DEF IInv, Roles, Tasks
<1>OwnCpu. OwnCpu'
  BY <1>task, <1>1, <1>2, <1>3, <1>4, <1>frame DEF IInv, OwnCpu, PreemptOff, Locked
<1>LockOwner. LockOwner'
  BY <1>task, <1>1, <1>2, <1>3, <1>4, <1>frame DEF IInv, LockOwner, Locked
<1>Queue. Queue'
  BY <1>task, <1>1, <1>2, <1>3, <1>4, <1>frame DEF IInv, Queue
<1>OneOwner. OneOwner'
  BY <1>frame, <1>owners DEF IInv, OneOwner
<1>WakerFollows. WakerFollows'
  BY <1>task, <1>1, <1>2, <1>3, <1>4, <1>frame DEF IInv, WakerFollows, GaveUp, Waker, Tasks
<1>WakeComes. WakeComes'
  BY <1>task, <1>1, <1>2, <1>3, <1>4, <1>frame DEF IInv, WakeComes, Tasks
<1>WritersEntered. WritersEntered'
  BY <1>task, <1>1, <1>2, <1>3, <1>4, <1>frame DEF IInv, WritersEntered, Tasks
<1>Unused. Unused'
  BY <1>task, <1>1, <1>2, <1>3, <1>4, <1>frame DEF IInv, Unused
<1>holders. Holders' = Holders
  BY <1>task, <1>1, <1>2, <1>3, <1>4, <1>granted, <1>picked DEF Holders, Tasks
<1>transient. Transient' = Transient
  BY <1>task, <1>1, <1>2, <1>3, <1>4 DEF Transient
<1>writers. Writers' = Writers
  BY <1>task, <1>1, <1>2, <1>3, <1>4 DEF Writers, Tasks
<1>Counted. Counted'
  <2>1. \A x \in Transient : cpu'[x] = cpu[x]
    BY <1>task, <1>1, <1>2, <1>3, <1>4, <1>frame DEF Transient
  <2>2. Summing' => Summing
    BY <1>task, <1>1, <1>2, <1>3, <1>4 DEF Summing, Tasks
  <2>3. /\ UNCHANGED <<sum, next_cpu, read_count>>
        /\ sum' \in 0 .. Modulus - 1 /\ next_cpu' \in 1 .. NR_CPUS + 1
    BY <1>frame DEF IInv, Counted
  <2>4. QED
    BY <1>holders, <1>transient, <2>1, <2>2, <2>3, CountIdle DEF IInv
<1>lock. LockStep
  BY <1>holders, <1>writers DEF LockStep
<1> QED
  BY <1>Types, <1>Roles, <1>OwnCpu, <1>LockOwner, <1>Queue, <1>OneOwner, <1>WakerFollows,
     <1>WakeComes, <1>WritersEntered, <1>Unused, <1>Counted, <1>lock DEF IInv

\* The callback of rcu_sync does not touch the semaphore.
LEMMA SyncCallbackInv ==
  ASSUME IInv, SyncCallback
  PROVE  IInv' /\ LockStep
<1>1. UNCHANGED pc
  BY DEF SyncCallback, Callback
<1>2. \A x \in Tasks : Fn(x)' = Fn(x) /\ At(x)' = At(x)
  BY DEF IInv, Types, Goto, Fn, At, SyncCallback, Callback
<1>frame. UNCHANGED <<block, read_count, waiters, waiters_lock, writer, private, awake, cpu,
                      sum, next_cpu, p, upc, phase>>
  BY DEF SyncCallback, Callback, semVars, countVars, listVars, waitVars, sumVars
<1>granted. Granted' = Granted
  BY <1>1, <1>2, <1>frame DEF Granted, In, Fn
<1>picked. Picked' = Picked
  BY <1>1, <1>2, <1>frame DEF Picked
<1>owners. Owners' = Owners
  BY <1>1, <1>2, <1>granted, <1>picked DEF Owners, Tasks
<1>Types. Types'
  BY <1>1, <1>2, <1>frame DEF IInv, Types
<1>Roles. Roles'
  BY <1>1, <1>2 DEF IInv, Roles, Tasks
<1>OwnCpu. OwnCpu'
  BY <1>1, <1>2, <1>frame DEF IInv, OwnCpu, PreemptOff, Locked
<1>LockOwner. LockOwner'
  BY <1>1, <1>2, <1>frame DEF IInv, LockOwner, Locked
<1>Queue. Queue'
  BY <1>1, <1>2, <1>frame DEF IInv, Queue
<1>OneOwner. OneOwner'
  BY <1>frame, <1>owners DEF IInv, OneOwner
<1>WakerFollows. WakerFollows'
  BY <1>1, <1>2, <1>frame DEF IInv, WakerFollows, GaveUp, Waker, Tasks
<1>WakeComes. WakeComes'
  BY <1>1, <1>2, <1>frame DEF IInv, WakeComes, Tasks
<1>WritersEntered. WritersEntered'
  BY <1>1, <1>2, <1>frame DEF IInv, WritersEntered, Tasks
<1>Unused. Unused'
  BY <1>1, <1>2, <1>frame DEF IInv, Unused
<1>holders. Holders' = Holders
  BY <1>1, <1>2, <1>granted, <1>picked DEF Holders, Tasks
<1>transient. Transient' = Transient
  BY <1>1, <1>2 DEF Transient
<1>writers. Writers' = Writers
  BY <1>1, <1>2 DEF Writers, Tasks
<1>Counted. Counted'
  <2>1. \A x \in Transient : cpu'[x] = cpu[x]
    BY <1>1, <1>2, <1>frame DEF Transient
  <2>2. Summing' => Summing
    BY <1>1, <1>2 DEF Summing, Tasks
  <2>3. /\ UNCHANGED <<sum, next_cpu, read_count>>
        /\ sum' \in 0 .. Modulus - 1 /\ next_cpu' \in 1 .. NR_CPUS + 1
    BY <1>frame DEF IInv, Counted
  <2>4. QED
    BY <1>holders, <1>transient, <2>1, <2>2, <2>3, CountIdle DEF IInv
<1>lock. LockStep
  BY <1>holders, <1>writers DEF LockStep
<1> QED
  BY <1>Types, <1>Roles, <1>OwnCpu, <1>LockOwner, <1>Queue, <1>OneOwner, <1>WakerFollows,
     <1>WakeComes, <1>WritersEntered, <1>Unused, <1>Counted, <1>lock DEF IInv

\* percpu_free_rwsem() comes when nobody uses the semaphore.
LEMMA FreeRwsemInv ==
  ASSUME IInv, FreeRwsem
  PROVE  IInv' /\ LockStep
<1>1. UNCHANGED pc
  BY DEF FreeRwsem, Dtor
<1>2. \A t \in Tasks : Fn(t) = "out"
  BY Places DEF IInv, Types, FreeRwsem, Dtor
<1>3. \A x \in Tasks : Fn(x)' = Fn(x) /\ At(x)' = At(x)
  BY DEF IInv, Types, Goto, Fn, At, FreeRwsem, Dtor
<1>frame. UNCHANGED <<block, read_count, waiters, waiters_lock, writer, private, awake, cpu,
                      sum, next_cpu, p, upc>>
  BY DEF FreeRwsem, Dtor, semVars, countVars, listVars, waitVars, sumVars
<1>granted. Granted' = Granted
  BY <1>1, <1>2, <1>3, <1>frame DEF Granted, In, Fn
<1>picked. Picked' = Picked
  BY <1>1, <1>2, <1>3, <1>frame DEF Picked
<1>owners. Owners' = Owners
  BY <1>1, <1>2, <1>3, <1>granted, <1>picked DEF Owners, Tasks
<1>Types. Types'
  BY <1>1, <1>2, <1>3, <1>frame DEF IInv, Types
<1>Roles. Roles'
  BY <1>1, <1>2, <1>3 DEF IInv, Roles, Tasks
<1>OwnCpu. OwnCpu'
  BY <1>1, <1>2, <1>3, <1>frame DEF IInv, OwnCpu, PreemptOff, Locked
<1>LockOwner. LockOwner'
  BY <1>1, <1>2, <1>3, <1>frame DEF IInv, LockOwner, Locked
<1>Queue. Queue'
  BY <1>1, <1>2, <1>3, <1>frame DEF IInv, Queue
<1>OneOwner. OneOwner'
  BY <1>frame, <1>owners DEF IInv, OneOwner
<1>WakerFollows. WakerFollows'
  BY <1>1, <1>2, <1>3, <1>frame DEF IInv, WakerFollows, GaveUp, Waker, Tasks
<1>WakeComes. WakeComes'
  BY <1>1, <1>2, <1>3, <1>frame DEF IInv, WakeComes, Tasks
<1>WritersEntered. WritersEntered'
  BY <1>1, <1>2, <1>3, <1>frame DEF IInv, WritersEntered, Tasks
<1>Unused. Unused'
  BY <1>1, <1>2, <1>3, <1>frame DEF IInv, Unused
<1>holders. Holders' = Holders
  BY <1>1, <1>2, <1>3, <1>granted, <1>picked DEF Holders, Tasks
<1>transient. Transient' = Transient
  BY <1>1, <1>2, <1>3 DEF Transient
<1>writers. Writers' = Writers
  BY <1>1, <1>2, <1>3 DEF Writers, Tasks
<1>Counted. Counted'
  <2>1. \A x \in Transient : cpu'[x] = cpu[x]
    BY <1>1, <1>2, <1>3, <1>frame DEF Transient
  <2>2. Summing' => Summing
    BY <1>1, <1>2, <1>3 DEF Summing, Tasks
  <2>3. /\ UNCHANGED <<sum, next_cpu, read_count>>
        /\ sum' \in 0 .. Modulus - 1 /\ next_cpu' \in 1 .. NR_CPUS + 1
    BY <1>frame DEF IInv, Counted
  <2>4. QED
    BY <1>holders, <1>transient, <2>1, <2>2, <2>3, CountIdle DEF IInv
<1>lock. LockStep
  BY <1>holders, <1>writers DEF LockStep
<1> QED
  BY <1>Types, <1>Roles, <1>OwnCpu, <1>LockOwner, <1>Queue, <1>OneOwner, <1>WakerFollows,
     <1>WakeComes, <1>WritersEntered, <1>Unused, <1>Counted, <1>lock DEF IInv

\* Still nobody uses it.
LEMMA FreeRwsemEndInv ==
  ASSUME IInv, FreeRwsemEnd
  PROVE  IInv' /\ LockStep
<1>1. UNCHANGED pc
  BY DEF FreeRwsemEnd, Barrier
<1>2. phase # "live"
  BY DEF FreeRwsemEnd, Barrier
<1>3. \A x \in Tasks : Fn(x)' = Fn(x) /\ At(x)' = At(x)
  BY DEF IInv, Types, Goto, Fn, At, FreeRwsemEnd, Barrier
<1>frame. UNCHANGED <<block, read_count, waiters, waiters_lock, writer, private, awake, cpu,
                      sum, next_cpu, p, upc>>
  BY DEF FreeRwsemEnd, Barrier, semVars, countVars, listVars, waitVars, sumVars
<1>granted. Granted' = Granted
  BY <1>1, <1>3, <1>frame DEF Granted, In, Fn
<1>picked. Picked' = Picked
  BY <1>1, <1>3, <1>frame DEF Picked
<1>owners. Owners' = Owners
  BY <1>1, <1>3, <1>granted, <1>picked DEF Owners, Tasks
<1>Types. Types'
  BY <1>1, <1>3, <1>frame DEF IInv, Types
<1>Roles. Roles'
  BY <1>1, <1>3 DEF IInv, Roles, Tasks
<1>OwnCpu. OwnCpu'
  BY <1>1, <1>3, <1>frame DEF IInv, OwnCpu, PreemptOff, Locked
<1>LockOwner. LockOwner'
  BY <1>1, <1>3, <1>frame DEF IInv, LockOwner, Locked
<1>Queue. Queue'
  BY <1>1, <1>3, <1>frame DEF IInv, Queue
<1>OneOwner. OneOwner'
  BY <1>frame, <1>owners DEF IInv, OneOwner
<1>WakerFollows. WakerFollows'
  BY <1>1, <1>3, <1>frame DEF IInv, WakerFollows, GaveUp, Waker, Tasks
<1>WakeComes. WakeComes'
  BY <1>1, <1>3, <1>frame DEF IInv, WakeComes, Tasks
<1>WritersEntered. WritersEntered'
  BY <1>1, <1>3, <1>frame DEF IInv, WritersEntered, Tasks
<1>Unused. Unused'
  BY <1>1, <1>3, <1>2, <1>frame DEF IInv, Unused, Tasks
<1>holders. Holders' = Holders
  BY <1>1, <1>3, <1>granted, <1>picked DEF Holders, Tasks
<1>transient. Transient' = Transient
  BY <1>1, <1>3 DEF Transient
<1>writers. Writers' = Writers
  BY <1>1, <1>3 DEF Writers, Tasks
<1>Counted. Counted'
  <2>1. \A x \in Transient : cpu'[x] = cpu[x]
    BY <1>1, <1>3, <1>frame DEF Transient
  <2>2. Summing' => Summing
    BY <1>1, <1>3 DEF Summing, Tasks
  <2>3. /\ UNCHANGED <<sum, next_cpu, read_count>>
        /\ sum' \in 0 .. Modulus - 1 /\ next_cpu' \in 1 .. NR_CPUS + 1
    BY <1>frame DEF IInv, Counted
  <2>4. QED
    BY <1>holders, <1>transient, <2>1, <2>2, <2>3, CountIdle DEF IInv
<1>lock. LockStep
  BY <1>holders, <1>writers DEF LockStep
<1> QED
  BY <1>Types, <1>Roles, <1>OwnCpu, <1>LockOwner, <1>Queue, <1>OneOwner, <1>WakerFollows,
     <1>WakeComes, <1>WritersEntered, <1>Unused, <1>Counted, <1>lock DEF IInv

\* percpu_init_rwsem() finds nobody counted, so zero is right.
LEMMA InitRwsemInv ==
  ASSUME IInv, InitRwsem
  PROVE  IInv' /\ LockStep
<1>1. UNCHANGED pc
  BY DEF InitRwsem, Reinit
<1>2. phase # "live"
  BY DEF InitRwsem, Reinit
<1>3. read_count' = [c \in CPUs |-> 0]
  BY DEF InitRwsem, Reinit
<1>4. \A x \in Tasks : Fn(x)' = Fn(x) /\ At(x)' = At(x)
  BY DEF IInv, Types, Goto, Fn, At, InitRwsem, Reinit
<1>frame. UNCHANGED <<block, waiters, waiters_lock, writer, private, awake, cpu, sum,
                      next_cpu, p, upc>>
  BY DEF InitRwsem, Reinit, semVars, countVars, listVars, waitVars, sumVars
<1>granted. Granted' = Granted
  BY <1>1, <1>4, <1>frame DEF Granted, In, Fn
<1>picked. Picked' = Picked
  BY <1>1, <1>4, <1>frame DEF Picked
<1>owners. Owners' = Owners
  BY <1>1, <1>4, <1>granted, <1>picked DEF Owners, Tasks
<1>Types. Types'
  BY <1>1, <1>4, <1>frame DEF IInv, Types
<1>Roles. Roles'
  BY <1>1, <1>4 DEF IInv, Roles, Tasks
<1>OwnCpu. OwnCpu'
  BY <1>1, <1>4, <1>frame DEF IInv, OwnCpu, PreemptOff, Locked
<1>LockOwner. LockOwner'
  BY <1>1, <1>4, <1>frame DEF IInv, LockOwner, Locked
<1>Queue. Queue'
  BY <1>1, <1>4, <1>frame DEF IInv, Queue
<1>OneOwner. OneOwner'
  BY <1>frame, <1>owners DEF IInv, OneOwner
<1>WakerFollows. WakerFollows'
  BY <1>1, <1>4, <1>frame DEF IInv, WakerFollows, GaveUp, Waker, Tasks
<1>WakeComes. WakeComes'
  BY <1>1, <1>4, <1>frame DEF IInv, WakeComes, Tasks
<1>WritersEntered. WritersEntered'
  BY <1>1, <1>4, <1>frame DEF IInv, WritersEntered, Tasks
<1>Unused. Unused'
  BY <1>1, <1>4, <1>2, <1>3, <1>frame DEF IInv, Unused, Tasks
<1>holders. Holders' = Holders
  BY <1>1, <1>4, <1>granted, <1>picked DEF Holders, Tasks
<1>transient. Transient' = Transient
  BY <1>1, <1>4 DEF Transient
<1>writers. Writers' = Writers
  BY <1>1, <1>4 DEF Writers, Tasks
<1>Counted. Counted'
  <2>1. \A x \in Tasks : Fn(x)' = "out" /\ x \notin Granted' \cup Picked'
    BY <1>1, <1>2, <1>3, <1>4, <1>frame, <1>granted, <1>picked, FirstWaiter DEF IInv, Unused,
       Granted, Picked, In, Fn, At
  <2>2. Holders' = {} /\ ~Summing'
    BY <2>1 DEF Holders, Summing, Tasks
  <2>3. Transient' = {}
    BY <2>1 DEF Transient
  <2>4. Blank'
    BY <1>3, <1>frame, <2>2, <2>3 DEF IInv, Counted, Blank
  <2>5. (Blank => Counted)'
    BY CountReset, PTL
  <2>6. QED
    BY <2>4, <2>5
<1>lock. LockStep
  BY <1>holders, <1>writers DEF LockStep
<1> QED
  BY <1>Types, <1>Roles, <1>OwnCpu, <1>LockOwner, <1>Queue, <1>OneOwner, <1>WakerFollows,
     <1>WakeComes, <1>WritersEntered, <1>Unused, <1>Counted, <1>lock DEF IInv

-----------------------------------------------------------------------------
(* The inductive invariant and the theorems.                                *)

\* The invariant holds initially.
LEMMA InitIInv == Init => IInv
<1> SUFFICES ASSUME Init PROVE IInv
  OBVIOUS
<1>1. \A t \in Tasks : Fn(t) = "out"
  BY Ends DEF Init, Fn
<1>2. Granted = {} /\ Picked = {}
  BY <1>1 DEF Granted, Picked, In, Fn
<1>3. Types
  <2>1. pc \in [Tasks -> Steps]
    BY Ends DEF Init
  <2>2. waiters \in Seq(Tasks)
    BY DEF Init
  <2>3. QED
    BY <2>1, <2>2 DEF Init, Types
<1>4. /\ Locked = {} /\ PreemptOff = {} /\ Owners = {}
      /\ Holders = {} /\ Transient = {} /\ ~Summing
  BY <1>1, <1>2 DEF Locked, PreemptOff, Owners, Holders, Transient, Summing, Tasks
<1>5. Roles /\ LockOwner /\ OneOwner /\ WakerFollows /\ WakeComes /\ WritersEntered /\ Unused
  BY <1>1, <1>4, PercpuAssumption DEF Init, Roles, LockOwner, OneOwner, WakerFollows, GaveUp,
     WakeComes, WritersEntered, Unused, Tasks
<1>6. OwnCpu
  BY <1>4 DEF Init, OwnCpu
<1>7. Queue
  BY <1>1 DEF Init, Queue, NoDup, Linked
<1>8. Counted
  BY <1>4, CountReset, ModulusPositive, PercpuAssumption DEF Init, Blank
<1>9. QED
  BY <1>3, <1>5, <1>6, <1>7, <1>8 DEF IInv

\* Every step of a reader, of a writer, of either in the parts they share, and
\* of RCU or the owner of the memory keeps it, and takes or releases the lock
\* only as a reader-writer lock may be.
LEMMA StepIInv ==
  ASSUME IInv, SyncTypeOK, SlowWhileEntered, Next
  PROVE  IInv' /\ LockStep
<1>1. ASSUME NEW r \in Readers, DownRead(r) \/ UpRead(r) \/ ReaderStep(r)
      PROVE  IInv' /\ LockStep
  BY <1>1, DownReadInv, UpReadInv, IsIdleInv, FastIncInv, DownReadEndInv, UpReadDecInv,
     UpReadEndInv DEF ReaderStep
<1>2. ASSUME NEW u \in Updaters, DownWrite(u) \/ UpWrite(u) \/ WriterStep(u)
      PROVE  IInv' /\ LockStep
  BY <1>2, DownWriteInv, UpWriteInv, SyncEnterInv, WriteTrylockInv, PrepareToRcuwaitInv,
     RcuwaitSetInv, SumCpuInv, RcuwaitCheckInv, WakeWriteTrylockInv, WakeGrantInv,
     WakeProcessInv, WakeUnlockInv, SyncExitInv DEF WriterStep
<1>3. ASSUME NEW t \in Tasks, WaitersLock(t) \/ TaskStep(t)
      PROVE  IInv' /\ LockStep
  BY <1>3, WaitersLockInv, TryIncInv, TryCheckInv, TryDecInv, ProdInv, WaitWriteTrylockInv,
     WaitUnlockInv, SleepSetInv, SleepTestInv, WokenInv DEF TaskStep, TryStep, WaitStep
<1>4. ASSUME SyncCallback \/ FreeRwsem \/ FreeRwsemEnd \/ InitRwsem
      PROVE  IInv' /\ LockStep
  BY <1>4, SyncCallbackInv, FreeRwsemInv, FreeRwsemEndInv, InitRwsemInv
<1>5. QED
  BY <1>1, <1>2, <1>3, <1>4 DEF Next

\* A step that changes nothing.
LEMMA StutterIInv ==
  ASSUME IInv, UNCHANGED vars
  PROVE  IInv' /\ UNCHANGED <<Holders, Writers>>
<1>1. /\ UNCHANGED <<block, read_count, waiters, waiters_lock, private, p, writer, awake>>
      /\ UNCHANGED <<sum, next_cpu>>
      /\ UNCHANGED <<pc, cpu, upc, phase>>
  BY DEF vars, semVars, countVars, listVars, waitVars, sumVars, syncVars, rssVars, rcuVars
<1>2. (\A t \in Tasks : Fn(t)' = Fn(t) /\ At(t)' = At(t)) /\ Granted' = Granted
  BY <1>1 DEF Fn, At, Granted, In
<1>3. Locked' = Locked /\ PreemptOff' = PreemptOff /\ Picked' = Picked
  BY <1>1, <1>2 DEF Locked, PreemptOff, Picked
<1>4. Owners' = Owners /\ Holders' = Holders /\ Writers' = Writers /\ Transient' = Transient
  BY <1>2, <1>3 DEF Owners, Holders, Writers, Transient, Tasks
<1>5. Waker' = Waker /\ Summing' = Summing
  BY <1>2 DEF Waker, Summing, Tasks
<1>6. /\ Types' /\ Roles' /\ OwnCpu' /\ LockOwner'
  BY <1>1, <1>2, <1>3 DEF IInv, Types, Roles, OwnCpu, LockOwner, Tasks
<1>7. Queue' /\ OneOwner' /\ WritersEntered' /\ Unused'
  BY <1>1, <1>2, <1>4 DEF IInv, Queue, OneOwner, WritersEntered, Unused, Tasks
<1>8. WakerFollows' /\ WakeComes'
  BY <1>1, <1>2, <1>5 DEF IInv, WakerFollows, GaveUp, WakeComes, Tasks
<1>9. Counted'
  BY <1>1, <1>4, <1>5, CountIdle DEF IInv, Counted
<1>10. QED
  BY <1>4, <1>6, <1>7, <1>8, <1>9 DEF IInv

\* The invariant holds in every state that can be reached.
LEMMA AlwaysIInv == Spec => [](IInv /\ SyncInv)
<1>1. SyncInv => SyncTypeOK /\ SlowWhileEntered
  BY DEF SyncInv, FastPathEmpty, SlowWhileEntered, rcu_sync_is_idle
<1>2. IInv /\ SyncInv /\ [Next]_vars => IInv'
  BY <1>1, StepIInv, StutterIInv
<1>3. QED
  BY <1>2, InitIInv, UsesRcuSync, SyncInvariance, PTL DEF Spec

\* The sets the properties are stated with are those of the invariant.
LEMMA SameSets == IInv => Taken = Picked /\ Reading = Holders /\ Writing = Writers
<1> SUFFICES ASSUME IInv PROVE Taken = Picked /\ Reading = Holders /\ Writing = Writers
  OBVIOUS
<1>1. pc \in [Tasks -> Steps]
  BY DEF IInv, Types
<1>2. Taken = Picked
  BY <1>1, PcIs DEF Taken, Picked
<1>3. ASSUME NEW r \in Readers PROVE r \in Reading <=> r \in Holders
  <2>1. /\ pc[r] = Held <=> Fn(r) = "held"
        /\ pc[r] = <<Fn(r), At(r)>>
    BY <1>1, Places DEF Tasks
  <2>2. pc[r] = <<"up", "begin">> <=> Fn(r) = "up" /\ At(r) = "begin"
    BY <2>1
  <2>3. pc[r] \in {"down", "try", "queue"} \X {"ok"}
          <=> Fn(r) \in {"down", "try", "queue"} /\ At(r) = "ok"
    BY <2>1
  <2>4. QED
    BY <1>2, <2>1, <2>2, <2>3 DEF Reading, Holders
<1>4. ASSUME NEW u \in Updaters PROVE u \in Writing <=> u \in Writers
  BY <1>1, Places DEF Tasks, Writing, Writers
<1>5. QED
  BY <1>2, <1>3, <1>4 DEF Reading, Holders, Writing, Writers

\* Every variable keeps its type; in particular no read_count, and no sum of
\* them, leaves the range of an unsigned int.
THEOREM TypeCorrect == Spec => []TypeOK
<1>1. IInv /\ SyncInv => TypeOK
  BY DEF IInv, Types, Counted, SyncInv, TypeOK
<1>2. QED
  BY <1>1, AlwaysIInv, PTL

\* "This provides writer-writer exclusion" (__percpu_down_write_trylock()):
\* block is set exactly while one writer owns it, for any number of tasks.
THEOREM BlockIsOwned == Spec => []BlockOwned
<1>1. IInv => BlockOwned
  <2> SUFFICES ASSUME IInv PROVE BlockOwned
    OBVIOUS
  <2> DEFINE owners == {u \in Updaters : \/ pc[u] = Held
                                         \/ In(u, "write") /\ pc[u][2] # "enter"
                                         \/ pc[u] = <<"queue", "ok">>
                                         \/ u \in Granted \cup Taken}
  <2>1. ASSUME NEW u \in Updaters PROVE u \in owners <=> u \in Owners
    <3>1. pc[u] = Held <=> Fn(u) = "held"
      BY Places DEF IInv, Types, Tasks
    <3>2. pc[u] = <<"queue", "ok">> <=> Fn(u) = "queue" /\ At(u) = "ok"
      BY PcIs DEF IInv, Types, Tasks
    <3>3. Taken = Picked
      BY SameSets
    <3>4. QED
      BY <3>1, <3>2, <3>3 DEF Owners, In, Fn, At
  <2>2. owners = Owners
    BY <2>1 DEF Owners
  <2> HIDE DEF owners
  <2>3. IF block THEN \E u \in owners : owners = {u} ELSE owners = {}
    BY <2>2 DEF IInv, Types, OneOwner
  <2>4. QED
    BY <2>3 DEF BlockOwned, owners
<1>2. QED
  BY <1>1, AlwaysIInv, PTL

\* "If we fail the trylock, the wakeup must see us on the list"
\* (percpu_rwsem_wait()): nobody is queued without block set or a wakeup that is
\* still going to look at the list.
THEOREM WakeupNotLost == Spec => []NoLostWakeup
<1>1. IInv => NoLostWakeup
  <2> SUFFICES ASSUME IInv, waiters # <<>>, ~block
               PROVE  \E u \in Updaters : /\ In(u, "wake")
                                          /\ pc[u] \notin {<<"wake", "fail">>, <<"wake", "exit">>}
    BY DEF NoLostWakeup
  <2>1. PICK u \in Updaters : Fn(u) = "wake" /\ At(u) \notin {"fail", "exit"}
    BY DEF IInv, WakeComes
  <2>2. pc[u] \notin {<<"wake", "fail">>, <<"wake", "exit">>}
    BY <2>1, PcIs DEF IInv, Types, Tasks
  <2>3. QED
    BY <2>1, <2>2 DEF In, Fn
<1>2. QED
  BY <1>1, AlwaysIInv, PTL

\* The semaphore is a reader-writer lock: a writer that summed the counters to
\* zero, one CPU after the other while increments came and went and the counters
\* wrapped around, holds it alone.
THEOREM ImplementsRwLock == Spec => LockSpec
<1>1. Init => RwLock!Init
  <2>1. ASSUME Init PROVE Reading = {} /\ Writing = {}
    <3>1. IInv /\ \A t \in Tasks : Fn(t) = "out"
      BY <2>1, InitIInv, Ends DEF Init, Fn
    <3>2. Granted = {} /\ Picked = {}
      BY <2>1, <3>1 DEF Init, Granted, Picked, In, Fn
    <3>3. Holders = {} /\ Writers = {}
      BY <3>1, <3>2 DEF Holders, Writers, Tasks
    <3>4. QED
      BY <3>1, <3>3, SameSets
  <2>2. QED
    BY <2>1 DEF RwLock!Init
<1>2. SyncInv => SyncTypeOK /\ SlowWhileEntered
  BY DEF SyncInv, FastPathEmpty, SlowWhileEntered, rcu_sync_is_idle
<1>3. IInv /\ SyncInv /\ IInv' /\ [Next]_vars => [RwLock!Next]_<<Reading, Writing>>
  <2> SUFFICES ASSUME IInv, SyncInv, IInv', [Next]_vars
               PROVE  RwLock!Next \/ UNCHANGED <<Reading, Writing>>
    OBVIOUS
  <2>1. LockStep
    BY <1>2, StepIInv, StutterIInv DEF LockStep
  <2>2. Reading = Holders /\ Writing = Writers
    BY SameSets
  <2>3. Reading' = Holders' /\ Writing' = Writers'
    <3>1. (IInv => Taken = Picked /\ Reading = Holders /\ Writing = Writers)'
      BY SameSets, PTL
    <3>2. QED
      BY <3>1
  <2>4. QED
    BY <2>1, <2>2, <2>3 DEF LockStep, Hold!Next, Hold!AcquireRead, Hold!ReleaseRead,
       Hold!AcquireWrite, Hold!ReleaseWrite, Hold!Downgrade, RwLock!Next, RwLock!AcquireRead,
       RwLock!ReleaseRead, RwLock!AcquireWrite, RwLock!ReleaseWrite, RwLock!Downgrade
<1>4. QED
  BY <1>1, <1>3, AlwaysIInv, PTL DEF Spec, LockSpec, RwLock!Spec
=============================================================================
