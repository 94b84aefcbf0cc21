----------------------------- MODULE MutexProofs -----------------------------
(***************************************************************************)
(* The safety of the mutex for any number of tasks: it is an exclusive     *)
(* lock, a handoff reaches a waiter that takes it, and no wakeup is lost.  *)
(***************************************************************************)
EXTENDS Mutex, TLAPS

-----------------------------------------------------------------------------
(* The lists the waiters are queued on                                      *)

\* Unlinking an element removes it and nothing else, and keeps the order.
LEMMA ListDel ==
  ASSUME NEW S, NEW s \in Seq(S), NoDup(s), NEW e \in Linked(s)
  PROVE  /\ list_del(s, e) \in Seq(S)
         /\ NoDup(list_del(s, e))
         /\ Linked(list_del(s, e)) = Linked(s) \ {e}
         /\ list_first_entry(s) # e =>
              list_first_entry(list_del(s, e)) = list_first_entry(s)
<1>1. PICK k \in 1..Len(s) : s[k] = e
  BY DEF Linked
<1>2. SelectInSeq(s, LAMBDA v : v = e) = k
  <2>1. {i \in 1..Len(s) : s[i] = e} = {k}
    BY <1>1 DEF NoDup
  <2>2. Min({k}) = k
    BY DEF Min
  <2>3. QED
    BY <2>1, <2>2 DEF SelectInSeq
<1> DEFINE r == SubSeq(s, 1, k - 1) \o SubSeq(s, k + 1, Len(s))
<1>3. list_del(s, e) = r
  BY <1>1, <1>2 DEF list_del, RemoveFirst, RemoveAt
<1>4. /\ r \in Seq(S)
      /\ Len(r) = Len(s) - 1
      /\ \A i \in 1..(Len(s) - 1) : r[i] = IF i < k THEN s[i] ELSE s[i + 1]
  <2> DEFINE a == SubSeq(s, 1, k - 1)
             b == SubSeq(s, k + 1, Len(s))
  <2>1. /\ a \in Seq(S) /\ Len(a) = k - 1
        /\ \A i \in 1..(k - 1) : a[i] = s[i]
    BY <1>1
  <2>2. /\ b \in Seq(S) /\ Len(b) = Len(s) - k
        /\ \A i \in 1..(Len(s) - k) : b[i] = s[k + i]
    BY <1>1
  <2> HIDE DEF a, b
  <2>3. /\ a \o b \in Seq(S) /\ Len(a \o b) = Len(s) - 1
        /\ \A i \in 1..(Len(s) - 1) :
             (a \o b)[i] = IF i < k THEN a[i] ELSE b[i - (k - 1)]
    BY <2>1, <2>2, <1>1
  <2>4. \A i \in 1..(Len(s) - 1) : (a \o b)[i] = IF i < k THEN s[i] ELSE s[i + 1]
    BY <2>1, <2>2, <2>3, <1>1
  <2>5. QED
    BY <2>3, <2>4 DEF a, b
<1> HIDE DEF r
<1>5. NoDup(r)
  BY <1>1, <1>4 DEF NoDup
<1>6. ASSUME NEW x \in Linked(r)
      PROVE  x \in Linked(s) \ {e}
  <2>1. PICK i \in 1..Len(r) : r[i] = x
    BY <1>6, <1>4 DEF Linked
  <2>2. PICK j \in 1..Len(s) : j # k /\ s[j] = x
    BY <2>1, <1>1, <1>4
  <2>3. QED
    BY <2>2, <1>1 DEF NoDup, Linked
<1>7. ASSUME NEW x \in Linked(s) \ {e}
      PROVE  x \in Linked(r)
  <2>1. PICK j \in 1..Len(s) : s[j] = x
    BY <1>7 DEF Linked
  <2>2. CASE j < k
    BY <2>1, <2>2, <1>1, <1>4 DEF Linked
  <2>3. CASE j > k
    <3>1. j - 1 \in 1..(Len(s) - 1) /\ r[j - 1] = x
      BY <2>1, <2>3, <1>1, <1>4
    <3>2. QED
      BY <3>1, <1>4 DEF Linked
  <2>4. QED
    BY <2>1, <2>2, <2>3, <1>1, <1>7
<1>8. ASSUME list_first_entry(s) # e PROVE list_first_entry(r) = list_first_entry(s)
  <2>1. Head(s) = s[1] /\ k # 1 /\ Len(s) > 1
    BY <1>1, <1>8 DEF list_first_entry
  <2>2. r[1] = s[1] /\ Head(r) = r[1]
    BY <1>1, <1>4, <2>1
  <2>3. QED
    BY <2>1, <2>2 DEF list_first_entry
<1>9. QED
  BY <1>3, <1>4, <1>5, <1>6, <1>7, <1>8

\* Queueing an element that is not linked links it too.
LEMMA ListAddTail ==
  ASSUME NEW S, NEW s \in Seq(S), NoDup(s), NEW e \in S, e \notin Linked(s)
  PROVE  /\ list_add_tail(s, e) \in Seq(S)
         /\ NoDup(list_add_tail(s, e))
         /\ Linked(list_add_tail(s, e)) = Linked(s) \cup {e}
<1>1. /\ list_add_tail(s, e) \in Seq(S)
      /\ Len(list_add_tail(s, e)) = Len(s) + 1
      /\ \A i \in 1..Len(s) : list_add_tail(s, e)[i] = s[i]
      /\ list_add_tail(s, e)[Len(s) + 1] = e
  BY DEF list_add_tail
<1>2. NoDup(list_add_tail(s, e))
  BY <1>1 DEF NoDup, Linked
<1>3. Linked(list_add_tail(s, e)) = Linked(s) \cup {e}
  BY <1>1 DEF Linked
<1>4. QED
  BY <1>1, <1>2, <1>3

\* The first entry of a list that is not empty is linked, and queueing another
\* element at the tail leaves it the first.
LEMMA ListFirst ==
  ASSUME NEW S, NEW s \in Seq(S), s # <<>>
  PROVE  /\ list_first_entry(s) \in Linked(s)
         /\ list_first_entry(s) \in S
         /\ \A e \in S : list_first_entry(list_add_tail(s, e)) = list_first_entry(s)
<1>1. 1 \in DOMAIN s /\ Head(s) = s[1] /\ s[1] \in S
  OBVIOUS
<1>2. list_first_entry(s) \in Linked(s) /\ list_first_entry(s) \in S
  BY <1>1 DEF list_first_entry, Linked
<1>3. ASSUME NEW e \in S
      PROVE  list_first_entry(list_add_tail(s, e)) = list_first_entry(s)
  BY <1>1 DEF list_first_entry, list_add_tail
<1>4. QED
  BY <1>2, <1>3

\* Exactly the empty list links nothing.
LEMMA ListEmpty ==
  ASSUME NEW S, NEW s \in Seq(S)
  PROVE  s = <<>> <=> Linked(s) = {}
<1>1. CASE s = <<>>
  BY <1>1 DEF Linked
<1>2. CASE s # <<>>
  BY <1>2, ListFirst
<1>3. QED
  BY <1>1, <1>2

-----------------------------------------------------------------------------
\* lock->wait_lock is held by the task that is between its spin_lock() and
\* spin_unlock().
WaitLockHeld ==
  \A t \in Tasks : pc[t] \in {"add", "try", "check"} <=> wait_lock = t

\* Only a task on its way to wake_up_q() has something on its wake_q.
WakeQOwned == \A t \in Tasks : wake_q[t] # None => pc[t] = "wake_up_q"

\* "This ensures the lock cancellation is ordered against mutex_unlock() and
\* wake-ups do not go missing": an unlock that comes after the last trylock of
\* a waiter that may leave has to wait for wait_lock before it picks whom to
\* wake.
CancelBeforeWake ==
  \A t \in Tasks : pc[t] = "check" /\ owner.task = None => \E u \in Tasks : pc[u] = "wake"

\* The inductive invariant: the handoff is safe because it happens under
\* wait_lock, which a waiter keeps from its last trylock until it is dequeued.
IInv ==
  /\ TypeOK
  /\ WaitLockHeld
  /\ OwnerIsHolder
  /\ WaitersLive
  /\ HandoffIsPickedUp
  /\ FlagsMatchQueue
  /\ WakeQOwned
  /\ CancelBeforeWake
  /\ NoLostWakeup

\* __mutex_init() establishes the invariant.
LEMMA InitInv == Init => IInv
<1> SUFFICES ASSUME Init PROVE IInv
  OBVIOUS
<1>1. TypeOK
  BY DEF Init, TypeOK, PCs, SleepStates, TaskStates, Signals
<1>2. WaitLockHeld /\ OwnerIsHolder /\ WakeQOwned /\ CancelBeforeWake
  BY MutexAssumption
  DEF Init, WaitLockHeld, OwnerIsHolder, OwnPC, WakeQOwned, CancelBeforeWake
<1>3. WaitersLive
  BY DEF Init, WaitersLive, Linked, NoDup, WaitPC
<1>4. HandoffIsPickedUp /\ FlagsMatchQueue /\ NoLostWakeup
  BY DEF Init, HandoffIsPickedUp, FlagsMatchQueue, NoLostWakeup
<1>5. QED
  BY <1>1, <1>2, <1>3, <1>4 DEF IInv

\* Nobody but a task past its trylock is named by the word without PICKUP, and
\* only a queued waiter with it: what a successful trylock finds.
LEMMA TrylockFinds ==
  ASSUME IInv, NEW t \in Tasks, may_trylock(t)
  PROVE  /\ \A u \in Tasks : pc[u] \notin OwnPC
         /\ owner.task = None \/ (t \in Linked(wait_list) /\ pc[t] \in WaitPC \ {"try", "check"})
         /\ owner.task = None => "PICKUP" \notin owner.flags
         /\ taken_by(t) \in [task : Tasks \cup {None}, flags : SUBSET Flags]
         /\ "WAITERS" \in taken_by(t).flags <=> "WAITERS" \in owner.flags
         /\ taken_by(t).task = t
         /\ taken_by(t).flags \cap {"HANDOFF", "PICKUP"} = {}
<1>1. owner.task \in Tasks \cup {None} /\ owner.flags \subseteq Flags
  BY DEF IInv, TypeOK
<1>2. \A u \in Tasks : pc[u] \notin OwnPC
  BY MutexAssumption DEF IInv, OwnerIsHolder, may_trylock
<1>3. owner.task = None => "PICKUP" \notin owner.flags
  BY MutexAssumption DEF IInv, HandoffIsPickedUp, WaitersLive
<1>4. owner.task = None \/ (t \in Linked(wait_list) /\ pc[t] \in WaitPC \ {"try", "check"})
  BY DEF IInv, HandoffIsPickedUp, may_trylock
<1>5. QED
  BY <1>1, <1>2, <1>3, <1>4 DEF taken_by

\* A trylock of a task that is not queued.
LEMMA TakenEarlyInv ==
  ASSUME IInv, NEW t \in Tasks, pc[t] \in {"out", "slow", "spin", "lock"},
         __mutex_trylock(t), pc' = [pc EXCEPT ![t] = "cs"],
         mode' \in [Tasks -> SleepStates], osq' \in Tasks \cup {None},
         UNCHANGED <<wait_list, wait_lock, first, wake_q, state, sig>>
  PROVE  IInv'
<1>1. t \notin Linked(wait_list)
  BY DEF IInv, WaitersLive, WaitPC
<1>2. /\ owner' = taken_by(t) /\ owner.task = None
      /\ "PICKUP" \notin owner.flags
      /\ \A u \in Tasks : pc[u] \notin OwnPC
      /\ owner'.task = t /\ owner'.flags \cap {"HANDOFF", "PICKUP"} = {}
      /\ "WAITERS" \in owner'.flags <=> "WAITERS" \in owner.flags
  BY <1>1, TrylockFinds DEF __mutex_trylock
<1>3. TypeOK'
  BY TrylockFinds DEF IInv, TypeOK, PCs, __mutex_trylock
<1>4. WaitLockHeld'
  BY DEF IInv, TypeOK, WaitLockHeld
<1>5. OwnerIsHolder'
  BY <1>2 DEF IInv, TypeOK, OwnerIsHolder, OwnPC
<1>6. WaitersLive'
  BY DEF IInv, TypeOK, WaitersLive, WaitPC
<1>7. HandoffIsPickedUp' /\ FlagsMatchQueue'
  BY <1>2 DEF IInv, HandoffIsPickedUp, FlagsMatchQueue
<1>8. WakeQOwned' /\ CancelBeforeWake' /\ NoLostWakeup'
  BY <1>2, MutexAssumption DEF IInv, TypeOK, WakeQOwned, CancelBeforeWake, NoLostWakeup
<1>9. QED
  BY <1>3, <1>4, <1>5, <1>6, <1>7, <1>8 DEF IInv

\* A step inside the entry path of __mutex_lock_common(), and the trylocks that
\* fail: nothing shared changes but osq.
LEMMA EntryInv ==
  ASSUME IInv, NEW t \in Tasks,
         pc[t] \in {"out", "slow", "osq", "spin", "spin_owner"},
         NEW l \in {"slow", "osq", "spin", "spin_owner", "lock"},
         pc' = [pc EXCEPT ![t] = l],
         mode' \in [Tasks -> SleepStates], osq' \in Tasks \cup {None},
         UNCHANGED <<owner, wait_list, wait_lock, first, wake_q, state, sig>>
  PROVE  IInv'
<1>1. TypeOK'
  BY DEF IInv, TypeOK, PCs, EntryPC
<1>2. WaitLockHeld' /\ OwnerIsHolder'
  BY DEF IInv, TypeOK, WaitLockHeld, OwnerIsHolder, OwnPC
<1>3. WaitersLive'
  BY DEF IInv, TypeOK, WaitersLive, WaitPC
<1>4. HandoffIsPickedUp' /\ FlagsMatchQueue'
  BY DEF IInv, TypeOK, HandoffIsPickedUp, FlagsMatchQueue, WaitersLive, WaitPC
<1>5. WakeQOwned' /\ CancelBeforeWake'
  BY DEF IInv, TypeOK, WakeQOwned, CancelBeforeWake
<1>6. NoLostWakeup'
  BY DEF IInv, TypeOK, NoLostWakeup, Queued
<1>7. QED
  BY <1>1, <1>2, <1>3, <1>4, <1>5, <1>6 DEF IInv

\* Dequeueing a waiter of which the list is left consistent.
LEMMA RemoveFacts ==
  ASSUME IInv, NEW t \in Linked(wait_list), NEW o, __mutex_remove_waiter(t, o)
  PROVE  /\ wait_list' \in Seq(Tasks)
         /\ NoDup(wait_list')
         /\ Linked(wait_list') = Linked(wait_list) \ {t}
         /\ owner' = IF wait_list' = <<>> THEN without_flags(o) ELSE o
BY ListDel DEF IInv, TypeOK, WaitersLive, __mutex_remove_waiter, list_empty

\* From the label acquired: to the return.
LEMMA AcquiredInv ==
  ASSUME IInv, NEW t \in Tasks, NEW o, pc[t] \in WaitPC \cup {"got"},
         o \in [task : Tasks \cup {None}, flags : SUBSET Flags],
         o.task = t, "PICKUP" \notin o.flags,
         "WAITERS" \in o.flags <=> "WAITERS" \in owner.flags,
         \A u \in Tasks : pc[u] \in OwnPC => u = t,
         wait_lock = None \/ wait_lock = t,
         Acquired(t, o)
  PROVE  IInv'
<1> USE DEF Acquired, Goto
<1>1. t \in Linked(wait_list)
  BY DEF IInv, WaitersLive
<1>2. /\ wait_list' \in Seq(Tasks)
      /\ NoDup(wait_list')
      /\ Linked(wait_list') = Linked(wait_list) \ {t}
      /\ owner' = IF wait_list' = <<>> THEN without_flags(o) ELSE o
  BY <1>1, RemoveFacts
<1>3. /\ owner' \in [task : Tasks \cup {None}, flags : SUBSET Flags]
      /\ owner'.task = t
      /\ "PICKUP" \notin owner'.flags
      /\ wait_list' = <<>> => owner'.flags = {}
      /\ wait_list' # <<>> => owner'.flags = o.flags
  BY <1>2 DEF without_flags
<1>4. TypeOK'
  BY <1>2, <1>3 DEF IInv, TypeOK, PCs, SleepStates, TaskStates
<1>5. WaitLockHeld'
  BY MutexAssumption DEF IInv, TypeOK, WaitLockHeld
<1>6. OwnerIsHolder'
  BY <1>3 DEF IInv, TypeOK, OwnerIsHolder, OwnPC
<1>7. WaitersLive'
  BY <1>2 DEF IInv, TypeOK, WaitersLive, WaitPC
<1>8. HandoffIsPickedUp'
  BY <1>3 DEF HandoffIsPickedUp
<1>9. FlagsMatchQueue'
  <2>1. wait_list # <<>>
    BY <1>1 DEF Linked
  <2>2. QED
    BY <2>1, <1>3 DEF IInv, FlagsMatchQueue
<1>10. WakeQOwned' /\ CancelBeforeWake' /\ NoLostWakeup'
  BY <1>3, MutexAssumption
  DEF IInv, TypeOK, WakeQOwned, CancelBeforeWake, NoLostWakeup, WaitPC
<1>11. QED
  BY <1>4, <1>5, <1>6, <1>7, <1>8, <1>9, <1>10 DEF IInv

\* A queued waiter moves on without changing the queue; it may change its own
\* state, set HANDOFF while it is the first, or take wait_lock after a trylock
\* that failed.
LEMMA WaiterInv ==
  ASSUME IInv, NEW t \in Tasks, pc[t] \in WaitPC, NEW l \in WaitPC \ {"try"},
         pc' = [pc EXCEPT ![t] = l],
         state' \in [Tasks -> TaskStates],
         \A u \in Tasks \ {t} : state'[u] = state[u],
         first' \in [Tasks -> BOOLEAN],
         owner' = owner \/ owner' = with_flag("HANDOFF"),
         l = "sched" => pc[t] = "check" /\ owner' = owner,
         l = "check" => owner.task # None /\ owner' = owner /\ ~may_trylock(t),
         IF l = "check" THEN wait_lock' = t /\ (pc[t] = "try" \/ wait_lock = None)
         ELSE IF pc[t] = "check" THEN wait_lock' = None
         ELSE pc[t] # "try" /\ UNCHANGED wait_lock,
         UNCHANGED <<wait_list, osq, mode, wake_q, sig>>
  PROVE  IInv'
<1>0. /\ t \in Linked(wait_list) /\ wait_list # <<>>
      /\ wait_list \in Seq(Tasks)
  BY DEF IInv, TypeOK, WaitersLive, Linked
<1>1. /\ owner' \in [task : Tasks \cup {None}, flags : SUBSET Flags]
      /\ owner'.task = owner.task
      /\ "PICKUP" \in owner'.flags <=> "PICKUP" \in owner.flags
      /\ "WAITERS" \in owner'.flags <=> "WAITERS" \in owner.flags
  BY DEF IInv, TypeOK, with_flag, Flags
<1>2. TypeOK'
  BY <1>1 DEF IInv, TypeOK, PCs
<1>3. WaitLockHeld'
  BY MutexAssumption DEF IInv, TypeOK, WaitLockHeld, WaitPC
<1>4. OwnerIsHolder'
  BY <1>1 DEF IInv, TypeOK, OwnerIsHolder, OwnPC, WaitPC
<1>5. WaitersLive'
  BY DEF IInv, TypeOK, WaitersLive
<1>6. HandoffIsPickedUp'
  BY <1>1 DEF IInv, TypeOK, HandoffIsPickedUp, WaitersLive, may_trylock
<1>7. FlagsMatchQueue'
  BY <1>0, <1>1 DEF IInv, FlagsMatchQueue
<1>8. WakeQOwned'
  BY DEF IInv, TypeOK, WakeQOwned, WaitPC
<1>9. CancelBeforeWake'
  BY <1>1 DEF IInv, TypeOK, CancelBeforeWake, WaitPC
<1>10. NoLostWakeup'
  <2> SUFFICES ASSUME owner'.task = None
               PROVE  \/ \E u \in Tasks : pc'[u] = "wake"
                      \/ Head(wait_list) \in Queued
                      \/ pc'[Head(wait_list)] # "sched"
                      \/ schedule_returns(state'[Head(wait_list)], sig[Head(wait_list)])
    BY DEF NoLostWakeup, Queued
  <2>1. Head(wait_list) \in Tasks
    BY <1>0
  <2>2. \A u \in Tasks : pc[u] = "wake" => pc'[u] = "wake"
    BY DEF IInv, TypeOK, WaitPC
  <2>3. CASE Head(wait_list) = t
    BY <1>1, <2>2, <2>3 DEF IInv, TypeOK, CancelBeforeWake
  <2>4. CASE Head(wait_list) # t
    BY <1>0, <1>1, <2>1, <2>2, <2>4 DEF IInv, TypeOK, NoLostWakeup
  <2>5. QED
    BY <2>3, <2>4
<1>11. QED
  BY <1>2, <1>3, <1>4, <1>5, <1>6, <1>7, <1>8, <1>9, <1>10 DEF IInv

\* A waiter takes the mutex outside wait_lock.
LEMMA GotInv ==
  ASSUME IInv, NEW t \in Tasks, pc[t] \in {"retry", "wspin"},
         __mutex_trylock(t), pc' = [pc EXCEPT ![t] = "got"],
         first' \in [Tasks -> BOOLEAN],
         UNCHANGED <<wait_list, wait_lock, osq, mode, wake_q, state, sig>>
  PROVE  IInv'
<1>1. /\ owner' = taken_by(t)
      /\ \A u \in Tasks : pc[u] \notin OwnPC
      /\ owner'.task = t /\ owner'.flags \cap {"HANDOFF", "PICKUP"} = {}
      /\ "WAITERS" \in owner'.flags <=> "WAITERS" \in owner.flags
  BY TrylockFinds DEF __mutex_trylock
<1>2. TypeOK'
  BY TrylockFinds DEF IInv, TypeOK, PCs, __mutex_trylock
<1>3. WaitLockHeld'
  BY DEF IInv, TypeOK, WaitLockHeld
<1>4. OwnerIsHolder'
  BY <1>1 DEF IInv, TypeOK, OwnerIsHolder, OwnPC
<1>5. WaitersLive'
  BY DEF IInv, TypeOK, WaitersLive, WaitPC
<1>6. HandoffIsPickedUp' /\ FlagsMatchQueue'
  BY <1>1 DEF IInv, HandoffIsPickedUp, FlagsMatchQueue
<1>7. WakeQOwned' /\ CancelBeforeWake' /\ NoLostWakeup'
  BY <1>1, MutexAssumption DEF IInv, TypeOK, WakeQOwned, CancelBeforeWake, NoLostWakeup
<1>8. QED
  BY <1>2, <1>3, <1>4, <1>5, <1>6, <1>7 DEF IInv

\* spin_lock(&lock->wait_lock) and a trylock that fails.
LEMMA LockWaitLockInv ==
  ASSUME IInv, NEW t \in Tasks, pc[t] = "lock", wait_lock = None, wait_lock' = t,
         pc' = [pc EXCEPT ![t] = "add"],
         UNCHANGED <<owner, wait_list, osq, mode, first, wake_q, state, sig>>
  PROVE  IInv'
<1>1. TypeOK'
  BY DEF IInv, TypeOK, PCs, EntryPC
<1>2. WaitLockHeld' /\ OwnerIsHolder'
  BY MutexAssumption DEF IInv, TypeOK, WaitLockHeld, OwnerIsHolder, OwnPC
<1>3. WaitersLive'
  BY DEF IInv, TypeOK, WaitersLive, WaitPC
<1>4. HandoffIsPickedUp' /\ FlagsMatchQueue'
  BY DEF IInv, TypeOK, HandoffIsPickedUp, FlagsMatchQueue, WaitersLive, WaitPC
<1>5. WakeQOwned' /\ CancelBeforeWake' /\ NoLostWakeup'
  BY DEF IInv, TypeOK, WakeQOwned, CancelBeforeWake, NoLostWakeup, Queued
<1>6. QED
  BY <1>1, <1>2, <1>3, <1>4, <1>5 DEF IInv

\* The waiter is queued and announced.
LEMMA AddWaiterInv ==
  ASSUME IInv, NEW t \in Tasks, AddWaiter(t)
  PROVE  IInv'
<1> USE DEF AddWaiter, Goto
<1>0. t \notin Linked(wait_list)
  BY DEF IInv, WaitersLive, WaitPC
<1>1. /\ wait_list' = list_add_tail(wait_list, t)
      /\ wait_list' \in Seq(Tasks)
      /\ NoDup(wait_list')
      /\ Linked(wait_list') = Linked(wait_list) \cup {t}
      /\ wait_list' # <<>>
  <2>1. wait_list \in Seq(Tasks) /\ NoDup(wait_list)
    BY DEF IInv, TypeOK, WaitersLive
  <2>2. Linked(wait_list') = Linked(wait_list) \cup {t}
    BY <1>0, <2>1, ListAddTail DEF __mutex_add_waiter
  <2>3. wait_list' \in Seq(Tasks) /\ NoDup(wait_list')
    BY <1>0, <2>1, ListAddTail DEF __mutex_add_waiter
  <2>4. wait_list' # <<>>
    BY <2>2, <2>3, ListEmpty
  <2>5. QED
    BY <2>2, <2>3, <2>4 DEF __mutex_add_waiter
<1>2. /\ owner' \in [task : Tasks \cup {None}, flags : SUBSET Flags]
      /\ owner'.task = owner.task
      /\ "PICKUP" \in owner'.flags <=> "PICKUP" \in owner.flags
      /\ "WAITERS" \in owner'.flags
  BY DEF IInv, TypeOK, with_flag, Flags, __mutex_add_waiter, list_empty, FlagsMatchQueue
<1>3. TypeOK'
  BY <1>1, <1>2 DEF IInv, TypeOK, PCs, WaitPC, TaskStates, sleep_state
<1>4. WaitLockHeld'
  BY DEF IInv, TypeOK, WaitLockHeld
<1>5. OwnerIsHolder'
  BY <1>2 DEF IInv, TypeOK, OwnerIsHolder, OwnPC
<1>6. WaitersLive'
  BY <1>1 DEF IInv, TypeOK, WaitersLive, WaitPC
<1>7. HandoffIsPickedUp' /\ FlagsMatchQueue'
  BY <1>0, <1>1, <1>2 DEF IInv, TypeOK, HandoffIsPickedUp, FlagsMatchQueue
<1>8. WakeQOwned' /\ CancelBeforeWake'
  BY <1>2 DEF IInv, TypeOK, WakeQOwned, CancelBeforeWake
<1>9. NoLostWakeup'
  <2>1. CASE wait_list = <<>>
    <3>1. Head(wait_list') = t
      BY <1>1, <2>1 DEF list_add_tail
    <3>2. pc'[t] = "try"
      BY DEF IInv, TypeOK
    <3>3. QED
      BY <3>1, <3>2 DEF NoLostWakeup
  <2>2. CASE wait_list # <<>>
    <3>1. Head(wait_list') = Head(wait_list) /\ Head(wait_list) \in Linked(wait_list)
      BY <1>1, <2>2, ListFirst DEF IInv, TypeOK, list_first_entry
    <3>2. Head(wait_list) \in Tasks /\ Head(wait_list) # t
      BY <1>0, <3>1 DEF IInv, WaitersLive
    <3>3. QED
      BY <1>2, <2>2, <3>1, <3>2 DEF IInv, TypeOK, NoLostWakeup, Queued
  <2>3. QED
    BY <2>1, <2>2
<1>10. QED
  BY <1>3, <1>4, <1>5, <1>6, <1>7, <1>8, <1>9 DEF IInv

\* A waiter leaves with -EINTR: an unlock that raced with it has not chosen
\* whom to wake, so the new first waiter is not forgotten.
LEMMA CancelInv ==
  ASSUME IInv, NEW t \in Tasks, pc[t] = "check", wait_lock' = None,
         __mutex_remove_waiter(t, owner),
         state' = [state EXCEPT ![t] = TASK_RUNNING],
         mode' = [mode EXCEPT ![t] = TASK_UNINTERRUPTIBLE],
         pc' = [pc EXCEPT ![t] = "out"],
         UNCHANGED <<osq, first, wake_q, sig>>
  PROVE  IInv'
<1>1. t \in Linked(wait_list) /\ wait_list # <<>>
  BY DEF IInv, WaitersLive, WaitPC, Linked
<1>2. /\ wait_list' \in Seq(Tasks)
      /\ NoDup(wait_list')
      /\ Linked(wait_list') = Linked(wait_list) \ {t}
      /\ owner' = IF wait_list' = <<>> THEN without_flags(owner) ELSE owner
  BY <1>1, RemoveFacts
<1>3. "PICKUP" \in owner.flags => owner.task \in Linked(wait_list') /\ wait_list' # <<>>
  <2>1. "PICKUP" \in owner.flags => owner.task \in Linked(wait_list')
    BY <1>2 DEF IInv, HandoffIsPickedUp
  <2>2. QED
    BY <1>2, <2>1, ListEmpty
<1>4. /\ owner' \in [task : Tasks \cup {None}, flags : SUBSET Flags]
      /\ owner'.task = owner.task
      /\ "PICKUP" \in owner'.flags <=> "PICKUP" \in owner.flags
      /\ wait_list' = <<>> => owner'.flags = {}
      /\ wait_list' # <<>> => owner'.flags = owner.flags
  BY <1>2, <1>3 DEF IInv, TypeOK, without_flags
<1>5. TypeOK'
  BY <1>2, <1>4 DEF IInv, TypeOK, PCs, SleepStates, TaskStates
<1>6. WaitLockHeld'
  BY MutexAssumption DEF IInv, TypeOK, WaitLockHeld
<1>7. OwnerIsHolder'
  BY <1>4 DEF IInv, TypeOK, OwnerIsHolder, OwnPC
<1>8. WaitersLive'
  BY <1>2 DEF IInv, TypeOK, WaitersLive, WaitPC
<1>9. HandoffIsPickedUp'
  BY <1>3, <1>4 DEF IInv, TypeOK, HandoffIsPickedUp
<1>10. FlagsMatchQueue'
  BY <1>1, <1>4 DEF IInv, FlagsMatchQueue
<1>11. WakeQOwned' /\ CancelBeforeWake'
  BY <1>4 DEF IInv, TypeOK, WakeQOwned, CancelBeforeWake
<1>12. NoLostWakeup'
  BY <1>4 DEF IInv, TypeOK, CancelBeforeWake, NoLostWakeup
<1>13. QED
  BY <1>5, <1>6, <1>7, <1>8, <1>9, <1>10, <1>11, <1>12 DEF IInv

\* mutex_unlock() up to the release of the owner word.
LEMMA UnlockInv ==
  ASSUME IInv, NEW t \in Tasks, MutexUnlock(t)
  PROVE  IInv'
<1> USE DEF MutexUnlock, Goto, handoff_wanted, wakeup_wanted
<1>0. owner.task = t /\ "PICKUP" \notin owner.flags
  BY DEF IInv, OwnerIsHolder, OwnPC
<1>1. /\ owner' \in [task : Tasks \cup {None}, flags : SUBSET Flags]
      /\ owner'.flags = owner.flags
      /\ pc'[t] = "handoff" => owner'.task = t
      /\ pc'[t] # "handoff" => owner'.task = None
      /\ pc'[t] = "out" => "WAITERS" \notin owner.flags
      /\ pc'[t] \in {"handoff", "wake", "out"}
  <2>1. /\ pc \in [Tasks -> PCs]
        /\ owner \in [task : Tasks \cup {None}, flags : SUBSET Flags]
    BY DEF IInv, TypeOK
  <2>2. CASE handoff_wanted
    BY <1>0, <2>1, <2>2
  <2>3. CASE ~handoff_wanted /\ wakeup_wanted
    BY <2>1, <2>3
  <2>4. CASE ~handoff_wanted /\ ~wakeup_wanted
    BY <2>1, <2>4
  <2>5. QED
    BY <2>2, <2>3, <2>4
<1>2. TypeOK'
  BY <1>1 DEF IInv, TypeOK, PCs, UnlockPC
<1>3. WaitLockHeld'
  BY DEF IInv, TypeOK, WaitLockHeld
<1>4. OwnerIsHolder'
  BY <1>0, <1>1, MutexAssumption DEF IInv, TypeOK, OwnerIsHolder, OwnPC
<1>5. WaitersLive'
  BY DEF IInv, TypeOK, WaitersLive, WaitPC
<1>6. HandoffIsPickedUp' /\ FlagsMatchQueue'
  BY <1>0, <1>1 DEF IInv, HandoffIsPickedUp, FlagsMatchQueue
<1>7. WakeQOwned'
  BY DEF IInv, TypeOK, WakeQOwned
<1>8. CancelBeforeWake'
  <2> SUFFICES ASSUME NEW u \in Tasks, pc'[u] = "check", owner'.task = None
               PROVE  pc'[t] = "wake"
    BY DEF CancelBeforeWake
  <2>1. u # t /\ u \in Linked(wait_list)
    BY <1>1 DEF IInv, TypeOK, WaitersLive, WaitPC
  <2>2. "WAITERS" \in owner.flags
    BY <2>1 DEF IInv, FlagsMatchQueue, Linked
  <2>3. QED
    BY <1>0, <1>1, <2>2, MutexAssumption
<1>9. NoLostWakeup'
  BY <1>0, <1>1, MutexAssumption DEF IInv, NoLostWakeup, FlagsMatchQueue
<1>10. QED
  BY <1>2, <1>3, <1>4, <1>5, <1>6, <1>7, <1>8, <1>9 DEF IInv

\* The section of __mutex_unlock_slowpath() under wait_lock.
LEMMA UnlockSlowInv ==
  ASSUME IInv, NEW t \in Tasks, UnlockSlow(t)
  PROVE  IInv'
<1> USE DEF UnlockSlow, Goto
<1> DEFINE next == IF list_empty(wait_list) THEN None ELSE list_first_entry(wait_list)
<1>1. /\ next = None \/ (next \in Linked(wait_list) /\ next \in Tasks)
      /\ next = None => wait_list = <<>>
      /\ wait_list # <<>> => next = Head(wait_list) /\ next # None
  BY ListFirst, MutexAssumption DEF IInv, TypeOK, list_empty, list_first_entry
<1>2. /\ wake_q_add(t, next)
      /\ owner' = IF pc[t] = "handoff" THEN handed_to(next) ELSE owner
      /\ pc' = [pc EXCEPT ![t] = "wake_up_q"]
      /\ wait_lock = None /\ pc[t] \in {"wake", "handoff"}
      /\ UNCHANGED <<wait_list, wait_lock, osq, mode, first, state, sig>>
  OBVIOUS
<1> HIDE DEF next, UnlockSlow
<1>3. /\ owner' \in [task : Tasks \cup {None}, flags : SUBSET Flags]
      /\ pc[t] = "handoff" => owner'.task = next /\ ("PICKUP" \in owner'.flags <=> next # None)
      /\ pc[t] = "handoff" => "HANDOFF" \notin owner'.flags
      /\ pc[t] # "handoff" => owner' = owner
      /\ "WAITERS" \in owner'.flags <=> "WAITERS" \in owner.flags
  BY <1>1, <1>2 DEF handed_to, IInv, TypeOK, Flags
<1>4. \A u \in Tasks : pc[u] \notin {"add", "try", "check"}
  BY <1>2, MutexAssumption DEF IInv, WaitLockHeld
<1>5. TypeOK'
  BY <1>1, <1>2, <1>3 DEF IInv, TypeOK, PCs, UnlockPC, wake_q_add
<1>6. WaitLockHeld'
  BY <1>2 DEF IInv, TypeOK, WaitLockHeld
<1>7. OwnerIsHolder'
  <2>1. CASE pc[t] = "wake"
    BY <1>2, <1>3, <2>1 DEF IInv, TypeOK, OwnerIsHolder, OwnPC
  <2>2. CASE pc[t] = "handoff"
    <3>1. \A u \in Tasks : pc[u] \in OwnPC => u = t
      BY <2>2 DEF IInv, OwnerIsHolder, OwnPC
    <3>2. \A u \in Tasks : pc'[u] \notin OwnPC
      BY <3>1, <1>2 DEF IInv, TypeOK, OwnPC
    <3>3. QED
      BY <1>3, <2>2, <3>2, MutexAssumption DEF OwnerIsHolder
  <2>3. QED
    BY <1>2, <2>1, <2>2
<1>8. WaitersLive'
  BY <1>2 DEF IInv, TypeOK, WaitersLive, WaitPC
<1>9. HandoffIsPickedUp'
  <2>1. CASE pc[t] = "wake"
    <3>1. "PICKUP" \in owner.flags => owner.task # t /\ owner.task \in Tasks
      BY <2>1 DEF IInv, HandoffIsPickedUp, WaitersLive, WaitPC
    <3>2. QED
      BY <1>2, <1>3, <2>1, <3>1 DEF IInv, TypeOK, HandoffIsPickedUp
  <2>2. CASE pc[t] = "handoff"
    <3> SUFFICES ASSUME "PICKUP" \in owner'.flags
                 PROVE  next \in Linked(wait_list) /\ pc'[next] \in WaitPC \ {"try", "check"}
      BY <1>2, <1>3, <2>2 DEF HandoffIsPickedUp
    <3>1. next \in Linked(wait_list) /\ next \in Tasks
      BY <1>1, <1>3, <2>2
    <3>2. pc[next] \in WaitPC \ {"try", "check"}
      <4>1. pc[next] \in WaitPC \cup {"got"}
        BY <3>1 DEF IInv, WaitersLive
      <4>2. pc[next] # "got"
        BY <2>2, <3>1 DEF IInv, OwnerIsHolder, OwnPC
      <4>3. QED
        BY <1>4, <3>1, <4>1, <4>2
    <3>3. next # t
      BY <2>2, <3>2 DEF WaitPC
    <3>4. QED
      BY <1>2, <3>1, <3>2, <3>3 DEF IInv, TypeOK
  <2>3. QED
    BY <1>2, <2>1, <2>2
<1>10. FlagsMatchQueue'
  BY <1>2, <1>3 DEF IInv, FlagsMatchQueue
<1>11. WakeQOwned'
  BY <1>2 DEF IInv, TypeOK, WakeQOwned, wake_q_add
<1>12. CancelBeforeWake'
  BY <1>2, <1>4 DEF IInv, TypeOK, CancelBeforeWake
<1>13. NoLostWakeup'
  <2> SUFFICES ASSUME owner'.task = None, wait_list # <<>>
               PROVE  Head(wait_list) \in Queued'
    BY <1>2 DEF NoLostWakeup
  <2>1. wake_q[t] = None
    BY <1>2 DEF IInv, WakeQOwned
  <2>2. next = Head(wait_list) /\ next # None
    BY <1>1
  <2>3. CASE next \in Queued
    <3>1. PICK u \in Tasks : wake_q[u] = next
      BY <2>3 DEF Queued
    <3>2. wake_q'[u] = next
      BY <1>2, <2>1, <2>2, <3>1 DEF wake_q_add, IInv, TypeOK
    <3>3. QED
      BY <2>2, <3>2 DEF Queued
  <2>4. CASE next \notin Queued
    <3>1. wake_q'[t] = next
      BY <1>2, <2>4 DEF wake_q_add, IInv, TypeOK
    <3>2. QED
      BY <2>2, <3>1 DEF Queued
  <2>5. QED
    BY <2>3, <2>4
<1>14. QED
  BY <1>5, <1>6, <1>7, <1>8, <1>9, <1>10, <1>11, <1>12, <1>13 DEF IInv

\* A wakeup of any kind leaves a task in one of the states it may have, and a
\* sleeping waiter that is woken runs.
LEMMA WakeUpType ==
  /\ \A s \in TaskStates : wake_up_process(s) \in TaskStates
  /\ \A s \in TaskStates : wake_up_process(s) = TASK_RUNNING
  /\ \A s \in TaskStates, g \in Signals : signal_wake_up_state(s, g) \in {s, TASK_RUNNING}
BY DEF wake_up_process, signal_wake_up_state, try_to_wake_up, TaskStates, SleepStates,
   TASK_RUNNING, TASK_INTERRUPTIBLE, TASK_UNINTERRUPTIBLE, TASK_KILLABLE, TASK_NORMAL,
   TASK_WAKEKILL

\* wake_up_q() wakes a task that may have left the queue meanwhile.
LEMMA WakeUpQInv ==
  ASSUME IInv, NEW t \in Tasks, WakeUpQ(t)
  PROVE  IInv'
<1> USE DEF WakeUpQ, Goto
<1>1. TypeOK'
  BY WakeUpType DEF IInv, TypeOK, PCs
<1>2. WaitLockHeld' /\ OwnerIsHolder'
  BY DEF IInv, TypeOK, WaitLockHeld, OwnerIsHolder, OwnPC
<1>3. WaitersLive'
  BY DEF IInv, TypeOK, WaitersLive, WaitPC
<1>4. HandoffIsPickedUp' /\ FlagsMatchQueue'
  BY DEF IInv, TypeOK, HandoffIsPickedUp, FlagsMatchQueue, WaitersLive, WaitPC
<1>5. WakeQOwned' /\ CancelBeforeWake'
  BY DEF IInv, TypeOK, WakeQOwned, CancelBeforeWake
<1>6. NoLostWakeup'
  <2> SUFFICES ASSUME owner.task = None, wait_list # <<>>,
                      ~ \E u \in Tasks : pc'[u] = "wake",
                      pc'[Head(wait_list)] = "sched"
               PROVE  \/ Head(wait_list) \in Queued'
                      \/ schedule_returns(state'[Head(wait_list)], sig[Head(wait_list)])
    BY DEF NoLostWakeup
  <2> DEFINE h == Head(wait_list)
  <2>1. h \in Tasks
    BY DEF IInv, TypeOK
  <2> HIDE DEF h
  <2>2. ~ (\E u \in Tasks : pc[u] = "wake") /\ pc[h] = "sched"
    BY <2>1 DEF IInv, TypeOK, h
  <2>3. CASE h = wake_q[t]
    <3>1. state'[h] = TASK_RUNNING
      BY <2>1, <2>3, WakeUpType DEF IInv, TypeOK
    <3>2. QED
      BY <3>1 DEF schedule_returns, h
  <2>4. CASE h # wake_q[t]
    <3>1. state'[h] = state[h]
      BY <2>1, <2>4
    <3>2. h \in Queued => h \in Queued'
      BY <2>4 DEF Queued, IInv, TypeOK
    <3>3. QED
      BY <2>2, <3>1, <3>2 DEF IInv, NoLostWakeup, h
  <2>5. QED
    BY <2>3, <2>4
<1>7. QED
  BY <1>1, <1>2, <1>3, <1>4, <1>5, <1>6 DEF IInv

\* A signal wakes a waiter but neither dequeues it nor touches the owner word.
LEMMA SignalInv ==
  ASSUME IInv, NEW t \in Tasks, SendSignal(t) \/ HandleSignal(t)
  PROVE  IInv'
<1> USE DEF SendSignal, HandleSignal
<1>1. /\ UNCHANGED <<owner, wait_list, wait_lock, osq, pc, mode, first, wake_q>>
      /\ sig' \in [Tasks -> Signals]
      /\ state' \in [Tasks -> TaskStates]
      /\ \A u \in Tasks : state'[u] \in {state[u], TASK_RUNNING}
      /\ \A u \in Tasks : sig'[u] # sig[u] => sig[u] = "none" \/ pc[u] = "out"
  <2>1. UNCHANGED <<owner, wait_list, wait_lock, osq, pc, mode, first, wake_q>>
    OBVIOUS
  <2>2. /\ sig' \in [Tasks -> Signals]
        /\ \A u \in Tasks : sig'[u] # sig[u] => sig[u] = "none" \/ pc[u] = "out"
    <3>1. sig \in [Tasks -> Signals]
      BY DEF IInv, TypeOK
    <3>2. CASE SendSignal(t)
      BY <3>1, <3>2, MutexAssumption DEF Signals
    <3>3. CASE HandleSignal(t)
      BY <3>1, <3>3 DEF Signals
    <3>4. QED
      BY <3>2, <3>3
  <2>3. /\ state' \in [Tasks -> TaskStates]
        /\ \A u \in Tasks : state'[u] \in {state[u], TASK_RUNNING}
    BY WakeUpType, MutexAssumption DEF IInv, TypeOK, TaskStates
  <2>4. QED
    BY <2>1, <2>2, <2>3
<1>2. TypeOK'
  BY <1>1 DEF IInv, TypeOK
<1>3. WaitLockHeld' /\ OwnerIsHolder' /\ WaitersLive' /\ HandoffIsPickedUp'
  BY <1>1 DEF IInv, WaitLockHeld, OwnerIsHolder, WaitersLive, HandoffIsPickedUp
<1>4. FlagsMatchQueue' /\ WakeQOwned' /\ CancelBeforeWake'
  BY <1>1 DEF IInv, FlagsMatchQueue, WakeQOwned, CancelBeforeWake
<1>5. NoLostWakeup'
  <2> SUFFICES ASSUME owner.task = None, wait_list # <<>>,
                      ~ \E u \in Tasks : pc[u] = "wake",
                      Head(wait_list) \notin Queued,
                      pc[Head(wait_list)] = "sched"
               PROVE  schedule_returns(state'[Head(wait_list)], sig'[Head(wait_list)])
    BY <1>1 DEF NoLostWakeup, Queued
  <2>1. Head(wait_list) \in Tasks
    BY DEF IInv, TypeOK
  <2>2. schedule_returns(state[Head(wait_list)], sig[Head(wait_list)])
    BY DEF IInv, NoLostWakeup
  <2>3. QED
    BY <1>1, <2>1, <2>2 DEF schedule_returns, signal_pending_state
<1>6. QED
  BY <1>2, <1>3, <1>4, <1>5 DEF IInv

\* Every step of the mutex code keeps the invariant.
LEMMA NextInv == IInv /\ [Next]_vars => IInv'
<1> SUFFICES ASSUME IInv, [Next]_vars PROVE IInv'
  OBVIOUS
<1> USE DEF Goto
<1>0. /\ mode \in [Tasks -> SleepStates]
      /\ osq \in Tasks \cup {None}
      /\ first \in [Tasks -> BOOLEAN]
      /\ state \in [Tasks -> TaskStates]
      /\ owner \in [task : Tasks \cup {None}, flags : SUBSET Flags]
  BY DEF IInv, TypeOK
<1>1. ASSUME NEW t \in Tasks, MutexLock(t) PROVE IInv'
  <2>1. CASE owner = [task |-> None, flags |-> {}]
    <3>1. __mutex_trylock(t)
      BY <1>1, <2>1 DEF MutexLock, __mutex_trylock, may_trylock, taken_by
    <3>2. QED
      BY <1>0, <1>1, <2>1, <3>1, TakenEarlyInv DEF MutexLock
  <2>2. CASE owner # [task |-> None, flags |-> {}]
    <3>1. mode' \in [Tasks -> SleepStates]
      BY <1>0, <1>1, <2>2, MutexAssumption DEF MutexLock
    <3>2. QED
      BY <1>0, <1>1, <2>2, <3>1, EntryInv DEF MutexLock
  <2>3. QED
    BY <2>1, <2>2
<1>2. ASSUME NEW t \in Tasks, MutexTrylock(t) PROVE IInv'
  BY <1>0, <1>2, TakenEarlyInv DEF MutexTrylock
<1>3. ASSUME NEW t \in Tasks, TakenEarly(t), pc[t] \in {"slow", "spin", "lock"},
             osq' \in Tasks \cup {None},
             UNCHANGED <<wait_list, wait_lock, first, wake_q, state, sig>>
      PROVE  IInv'
  <2>1. mode' \in [Tasks -> SleepStates]
    BY <1>0, <1>3 DEF TakenEarly, SleepStates
  <2>2. QED
    BY <1>3, <2>1, TakenEarlyInv DEF TakenEarly
<1>4. ASSUME NEW t \in Tasks, SlowTrylock(t) \/ StartSpin(t) \/ Spin(t) \/ SpinOnOwner(t)
      PROVE  IInv'
  <2>1. CASE SlowTrylock(t)
    BY <1>0, <1>3, <2>1, EntryInv DEF SlowTrylock, trylock_failed
  <2>2. CASE StartSpin(t)
    BY <1>0, <2>2, EntryInv DEF StartSpin
  <2>3. CASE Spin(t)
    BY <1>0, <1>3, <2>3, EntryInv DEF Spin, trylock_failed
  <2>4. CASE SpinOnOwner(t)
    BY <1>0, <2>4, EntryInv DEF SpinOnOwner
  <2>5. QED
    BY <1>4, <2>1, <2>2, <2>3, <2>4
<1>5. ASSUME NEW t \in Tasks, LockWaitLock(t) PROVE IInv'
  BY <1>0, <1>3, <1>5, LockWaitLockInv DEF LockWaitLock, trylock_failed
<1>6. ASSUME NEW t \in Tasks, may_trylock(t), pc[t] \in {"try", "relock"},
             wait_lock = None \/ wait_lock = t, Acquired(t, taken_by(t))
      PROVE  IInv'
  <2>1. pc[t] \in WaitPC
    BY <1>6 DEF WaitPC
  <2> DEFINE o == taken_by(t)
  <2>2. /\ o \in [task : Tasks \cup {None}, flags : SUBSET Flags]
        /\ o.task = t /\ "PICKUP" \notin o.flags
        /\ "WAITERS" \in o.flags <=> "WAITERS" \in owner.flags
        /\ \A u \in Tasks : pc[u] \notin OwnPC
    BY <1>6, TrylockFinds
  <2> HIDE DEF o
  <2>3. Acquired(t, o)
    BY <1>6 DEF o
  <2>4. QED
    BY <1>6, <2>1, <2>2, <2>3, AcquiredInv
<1>7. ASSUME NEW t \in Tasks, TryLocked(t) PROVE IInv'
  <2>1. CASE may_trylock(t)
    BY <1>6, <1>7, <2>1 DEF TryLocked, trylock_failed, IInv, WaitLockHeld
  <2>2. CASE ~may_trylock(t)
    <3>1. wait_lock = t
      BY <1>7 DEF TryLocked, IInv, WaitLockHeld
    <3>2. owner.task # None
      BY <2>2 DEF may_trylock
    <3>3. QED
      BY <1>0, <1>7, <2>2, <3>1, <3>2, WaiterInv DEF TryLocked, trylock_failed, WaitPC
  <2>3. QED
    BY <2>1, <2>2
<1>8. ASSUME NEW t \in Tasks, CheckSignal(t) PROVE IInv'
  <2>1. CASE signal_pending_state(mode[t], sig[t])
    BY <1>8, <2>1, CancelInv DEF CheckSignal
  <2>2. CASE ~signal_pending_state(mode[t], sig[t])
    BY <1>0, <1>8, <2>2, WaiterInv DEF CheckSignal, WaitPC
  <2>3. QED
    BY <2>1, <2>2
<1>9. ASSUME NEW t \in Tasks, Schedule(t) PROVE IInv'
  <2>1. /\ pc[t] = "sched"
        /\ pc' = [pc EXCEPT ![t] = "set"]
        /\ state' \in [Tasks -> TaskStates]
        /\ \A u \in Tasks \ {t} : state'[u] = state[u]
        /\ first' \in [Tasks -> BOOLEAN]
        /\ owner' = owner \/ owner' = with_flag("HANDOFF")
        /\ UNCHANGED <<wait_list, wait_lock, osq, mode, wake_q, sig>>
    BY <1>0, <1>9 DEF Schedule, TaskStates, __mutex_waiter_is_first
  <2>2. QED
    BY <2>1, WaiterInv DEF WaitPC
<1>10. ASSUME NEW t \in Tasks, SetState(t) PROVE IInv'
  BY <1>0, <1>10, WaiterInv DEF SetState, WaitPC, TaskStates, sleep_state
<1>11. ASSUME NEW t \in Tasks, Retry(t) PROVE IInv'
  <2>1. CASE __mutex_trylock(t) /\ pc' = [pc EXCEPT ![t] = "got"]
    BY <1>0, <1>11, <2>1, GotInv DEF Retry
  <2>2. CASE /\ UNCHANGED owner
             /\ \E l \in {"wspin", "relock"} : pc' = [pc EXCEPT ![t] = l]
    BY <1>0, <1>11, <2>2, WaiterInv DEF Retry, WaitPC
  <2>3. QED
    BY <1>11, <2>1, <2>2 DEF Retry, trylock_failed
<1>12. ASSUME NEW t \in Tasks, WaiterSpin(t) PROVE IInv'
  <2>1. CASE __mutex_trylock(t) /\ pc' = [pc EXCEPT ![t] = "got"]
    BY <1>0, <1>12, <2>1, GotInv DEF WaiterSpin
  <2>2. CASE UNCHANGED owner /\ pc' = [pc EXCEPT ![t] = "wspin_owner"]
    BY <1>0, <1>12, <2>2, WaiterInv DEF WaiterSpin, WaitPC
  <2>3. QED
    BY <1>12, <2>1, <2>2 DEF WaiterSpin, trylock_failed
<1>13. ASSUME NEW t \in Tasks, WaiterSpinOnOwner(t) PROVE IInv'
  <2>1. /\ pc[t] = "wspin_owner"
        /\ \E l \in {"wspin", "relock"} : pc' = [pc EXCEPT ![t] = l]
        /\ state' \in [Tasks -> TaskStates]
        /\ \A u \in Tasks \ {t} : state'[u] = state[u]
        /\ UNCHANGED <<owner, wait_list, wait_lock, osq, mode, first, wake_q, sig>>
    BY <1>0, <1>13 DEF WaiterSpinOnOwner, TaskStates
  <2>2. QED
    BY <1>0, <2>1, WaiterInv DEF WaitPC
<1>14. ASSUME NEW t \in Tasks, Relock(t) PROVE IInv'
  <2>1. CASE may_trylock(t)
    BY <1>6, <1>14, <2>1 DEF Relock, trylock_failed
  <2>2. CASE ~may_trylock(t)
    <3>1. owner.task # None
      BY <2>2 DEF may_trylock
    <3>2. QED
      BY <1>0, <1>14, <2>2, <3>1, WaiterInv DEF Relock, trylock_failed, WaitPC
  <2>3. QED
    BY <2>1, <2>2
<1>15. ASSUME NEW t \in Tasks, Dequeue(t) PROVE IInv'
  <2>1. owner.task = t /\ "PICKUP" \notin owner.flags
    BY <1>15 DEF Dequeue, IInv, OwnerIsHolder, OwnPC
  <2>2. \A u \in Tasks : pc[u] \in OwnPC => u = t
    BY <2>1 DEF IInv, OwnerIsHolder
  <2>3. QED
    BY <1>0, <1>15, <2>1, <2>2, AcquiredInv DEF Dequeue
<1>16. CASE UNCHANGED vars
  BY <1>16 DEF vars, IInv, TypeOK, WaitLockHeld, OwnerIsHolder, WaitersLive,
     HandoffIsPickedUp, FlagsMatchQueue, WakeQOwned, CancelBeforeWake, NoLostWakeup, Queued
<1>17. QED
  BY <1>1, <1>2, <1>4, <1>5, <1>7, <1>8, <1>9, <1>10, <1>11, <1>12, <1>13, <1>14, <1>15,
     <1>16, AddWaiterInv, UnlockInv, UnlockSlowInv, WakeUpQInv, SignalInv
  DEF Next, RunStep, WaitLockStep

\* The inductive invariant holds in every reachable state.
LEMMA AlwaysIInv == Spec => []IInv
BY InitInv, NextInv, PTL DEF Spec

\* The owner word names exactly the task that holds the mutex.
THEOREM MutualExclusion == Spec => []OwnerIsHolder
<1>1. IInv => OwnerIsHolder
  BY DEF IInv
<1>2. QED
  BY <1>1, AlwaysIInv, PTL

\* A handoff goes to a queued waiter that will still try to take the mutex.
THEOREM HandoffSafe == Spec => [](HandoffIsPickedUp /\ FlagsMatchQueue /\ WaitersLive)
<1>1. IInv => HandoffIsPickedUp /\ FlagsMatchQueue /\ WaitersLive
  BY DEF IInv
<1>2. QED
  BY <1>1, AlwaysIInv, PTL

\* No interleaving of unlock, cancellation and sleep loses the wakeup of the
\* first waiter of an unlocked mutex.
THEOREM WakeupNotLost == Spec => []NoLostWakeup
<1>1. IInv => NoLostWakeup
  BY DEF IInv
<1>2. QED
  BY <1>1, AlwaysIInv, PTL

\* Once HANDOFF is set on a locked mutex nobody but the first waiter gets it.
THEOREM HandoffNotStolen == Spec => HandoffHonoured
<1> DEFINE Honoured ==
      ("HANDOFF" \in owner.flags /\ owner.task # None /\ owner'.task # owner.task)
         => owner'.task = Head(wait_list)
<1>1. ASSUME IInv, [Next]_vars PROVE [Honoured]_vars
  <2> SUFFICES ASSUME "HANDOFF" \in owner.flags, owner.task # None,
                      owner'.task # owner.task
               PROVE  owner'.task = Head(wait_list)
    OBVIOUS
  <2> USE <1>1
  <2>0. /\ owner \in [task : Tasks \cup {None}, flags : SUBSET Flags]
        /\ \A f \in Flags : with_flag(f).task = owner.task
        /\ \A o \in [task : Tasks \cup {None}, flags : SUBSET Flags] :
             without_flags(o).task = o.task
        /\ \A t \in Tasks : may_trylock(t) => taken_by(t).task = owner.task
    BY DEF IInv, TypeOK, with_flag, without_flags, taken_by, may_trylock
  <2>1. ASSUME NEW t \in Tasks, UnlockSlow(t) PROVE owner'.task = Head(wait_list)
    <3>1. wait_list # <<>>
      BY DEF IInv, FlagsMatchQueue
    <3>2. QED
      BY <2>1, <3>1 DEF UnlockSlow, handed_to, list_empty, list_first_entry
  <2>2. ASSUME NEW t \in Tasks, MutexUnlock(t) PROVE FALSE
    BY <2>2 DEF MutexUnlock, handoff_wanted
  <2>3. ASSUME NEW t \in Tasks, NEW o, Acquired(t, o), o.task = owner.task,
               o \in [task : Tasks \cup {None}, flags : SUBSET Flags]
        PROVE  FALSE
    BY <2>0, <2>3 DEF Acquired, __mutex_remove_waiter
  <2>4. ASSUME NEW t \in Tasks, may_trylock(t), Acquired(t, taken_by(t)) PROVE FALSE
    <3>1. taken_by(t) \in [task : Tasks \cup {None}, flags : SUBSET Flags]
      BY <2>0, <2>4 DEF taken_by
    <3>2. QED
      BY <2>0, <2>3, <2>4, <3>1
  <2>5. ASSUME NEW t \in Tasks, TryLocked(t) \/ Relock(t) \/ Dequeue(t) PROVE FALSE
    BY <2>0, <2>3, <2>4, <2>5 DEF TryLocked, Relock, Dequeue, trylock_failed
  <2>6. ASSUME NEW t \in Tasks,
               \/ MutexLock(t) \/ MutexTrylock(t) \/ SlowTrylock(t) \/ Spin(t)
               \/ LockWaitLock(t) \/ Retry(t) \/ WaiterSpin(t)
        PROVE  FALSE
    BY <2>0, <2>6 DEF MutexLock, MutexTrylock, SlowTrylock, Spin, LockWaitLock, Retry,
       WaiterSpin, TakenEarly, __mutex_trylock, trylock_failed
  <2>7. ASSUME NEW t \in Tasks, AddWaiter(t) \/ Schedule(t) PROVE FALSE
    BY <2>0, <2>7 DEF AddWaiter, __mutex_add_waiter, Schedule, Flags
  <2>8. ASSUME NEW t \in Tasks, CheckSignal(t) PROVE FALSE
    BY <2>0, <2>8 DEF CheckSignal, __mutex_remove_waiter
  <2>9. QED
    BY <2>1, <2>2, <2>5, <2>6, <2>7, <2>8
    DEF Next, RunStep, WaitLockStep, vars, StartSpin, SpinOnOwner, SetState,
        WaiterSpinOnOwner, WakeUpQ, SendSignal, HandleSignal
<1>2. QED
  BY <1>1, AlwaysIInv, PTL DEF Spec, HandoffHonoured

-----------------------------------------------------------------------------
(* The mutex implements AbstractLock.                                       *)

Held == {"got", "cs"}

\* A successful trylock acquires the abstract lock.
LEMMA AcquireStep ==
  ASSUME IInv, NEW t \in Tasks, may_trylock(t), pc[t] \notin Held,
         NEW l \in Held, pc' = [pc EXCEPT ![t] = l]
  PROVE  Lock!Next
<1>1. \A u \in Tasks : pc[u] \notin Held
  BY TrylockFinds DEF OwnPC, Held
<1>2. Holders = {} /\ Holders' = {t}
  BY <1>1 DEF IInv, TypeOK, Holders, Held
<1>3. QED
  BY <1>2 DEF Lock!Next, Lock!Acquire

\* A step that neither enters nor leaves a critical section is a stutter.
LEMMA StutterStep ==
  ASSUME IInv, NEW t \in Tasks, NEW l, pc' = [pc EXCEPT ![t] = l],
         pc[t] \in Held <=> l \in Held
  PROVE  UNCHANGED Holders
BY DEF IInv, TypeOK, Holders, Held

\* The mutex implements an exclusive lock, whichever way it is acquired: every
\* step of mutex.c acquires or releases the abstract lock or leaves it alone.
THEOREM ImplementsLock == Spec => LockSpec
<1>1. Init => Lock!Init
  BY DEF Init, Lock!Init, Holders
<1>2. ASSUME IInv, [Next]_vars PROVE [Lock!Next]_Holders
  <2> USE <1>2 DEF Held, Goto
  <2>1. ASSUME NEW t \in Tasks, MutexUnlock(t) PROVE Lock!Next
    <3>1. pc[t] = "cs"
      BY <2>1 DEF MutexUnlock
    <3>2. \A u \in Tasks \ {t} : pc[u] \notin Held
      BY <3>1 DEF IInv, OwnerIsHolder, OwnPC
    <3>3. Holders = {t} /\ Holders' = {}
      BY <2>1, <3>1, <3>2 DEF MutexUnlock, IInv, TypeOK, Holders
    <3>4. QED
      BY <3>3 DEF Lock!Next, Lock!Release
  <2>2. ASSUME NEW t \in Tasks, MutexLock(t) PROVE [Lock!Next]_Holders
    <3>1. CASE owner = [task |-> None, flags |-> {}]
      BY <2>2, <3>1, AcquireStep DEF MutexLock, may_trylock
    <3>2. CASE owner # [task |-> None, flags |-> {}]
      BY <2>2, <3>2, StutterStep DEF MutexLock
    <3>3. QED
      BY <3>1, <3>2
  <2>3. ASSUME NEW t \in Tasks, MutexTrylock(t) PROVE Lock!Next
    BY <2>3, AcquireStep DEF MutexTrylock, __mutex_trylock
  <2>4. ASSUME NEW t \in Tasks, SlowTrylock(t) \/ Spin(t) \/ LockWaitLock(t)
        PROVE  [Lock!Next]_Holders
    <3>1. CASE TakenEarly(t)
      BY <2>4, <3>1, AcquireStep
      DEF SlowTrylock, Spin, LockWaitLock, TakenEarly, __mutex_trylock
    <3>2. CASE \E l \in {"osq", "spin_owner", "add"} : pc' = [pc EXCEPT ![t] = l]
      BY <2>4, <3>2, StutterStep DEF SlowTrylock, Spin, LockWaitLock
    <3>3. QED
      BY <2>4, <3>1, <3>2 DEF SlowTrylock, Spin, LockWaitLock
  <2>5. ASSUME NEW t \in Tasks, TryLocked(t) \/ Relock(t) PROVE [Lock!Next]_Holders
    <3>1. CASE may_trylock(t)
      BY <2>5, <3>1, AcquireStep DEF TryLocked, Relock, Acquired, trylock_failed
    <3>2. CASE ~may_trylock(t)
      BY <2>5, <3>2, StutterStep DEF TryLocked, Relock
    <3>3. QED
      BY <3>1, <3>2
  <2>6. ASSUME NEW t \in Tasks, Dequeue(t) PROVE UNCHANGED Holders
    BY <2>6, StutterStep DEF Dequeue, Acquired
  <2>7. ASSUME NEW t \in Tasks, Retry(t) \/ WaiterSpin(t) PROVE [Lock!Next]_Holders
    <3>1. CASE may_trylock(t)
      BY <2>7, <3>1, AcquireStep DEF Retry, WaiterSpin, __mutex_trylock, trylock_failed
    <3>2. CASE \E l \in {"wspin", "relock", "wspin_owner"} : pc' = [pc EXCEPT ![t] = l]
      BY <2>7, <3>2, StutterStep DEF Retry, WaiterSpin
    <3>3. QED
      BY <2>7, <3>1, <3>2 DEF Retry, WaiterSpin, __mutex_trylock
  <2>8. ASSUME NEW t \in Tasks,
               \/ StartSpin(t) \/ SpinOnOwner(t) \/ AddWaiter(t) \/ CheckSignal(t)
               \/ Schedule(t) \/ SetState(t) \/ WaiterSpinOnOwner(t)
               \/ UnlockSlow(t) \/ WakeUpQ(t)
        PROVE  UNCHANGED Holders
    <3>1. /\ pc[t] \notin Held
          /\ \E l \in {"spin", "lock", "try", "out", "sched", "set", "retry", "wspin",
                       "relock", "wake_up_q"} : pc' = [pc EXCEPT ![t] = l]
      BY <2>8 DEF StartSpin, SpinOnOwner, AddWaiter, CheckSignal, Schedule, SetState,
         WaiterSpinOnOwner, UnlockSlow, WakeUpQ
    <3>2. QED
      BY <3>1, StutterStep
  <2>9. CASE UNCHANGED pc
    BY <2>9 DEF Holders
  <2>10. QED
    BY <2>1, <2>2, <2>3, <2>4, <2>5, <2>6, <2>7, <2>8, <2>9
    DEF Next, RunStep, WaitLockStep, SendSignal, HandleSignal, vars
<1>3. QED
  BY <1>1, <1>2, AlwaysIInv, PTL DEF Spec, LockSpec, Lock!Spec
=============================================================================
