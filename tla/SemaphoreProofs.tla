--------------------------- MODULE SemaphoreProofs ---------------------------
(***************************************************************************)
(* What MC_Semaphore checks for three tasks, for any finite number of them *)
(* and any initial count.                                                  *)
(***************************************************************************)
EXTENDS Semaphore, FiniteSetTheorems, TLAPS

-----------------------------------------------------------------------------
(* The lists the waiters are queued on                                      *)

\* Unlinking an element removes it and nothing else, and keeps the order.
LEMMA ListDel ==
  ASSUME NEW S, NEW s \in Seq(S), NoDup(s), NEW e \in Linked(s)
  PROVE  /\ list_del(s, e) \in Seq(S)
         /\ NoDup(list_del(s, e))
         /\ Linked(list_del(s, e)) = Linked(s) \ {e}
         /\ list_first_entry(s) # e =>
              list_first_entry(list_del(s, e)) = list_first_entry(s)
<1>1. PICK k \in 1..Len(s) : s[k] = e
  BY DEF Linked
<1>2. SelectInSeq(s, LAMBDA v : v = e) = k
  <2>1. {i \in 1..Len(s) : s[i] = e} = {k}
    BY <1>1 DEF NoDup
  <2>2. Min({k}) = k
    BY DEF Min
  <2>3. QED
    BY <2>1, <2>2 DEF SelectInSeq
<1> DEFINE r == SubSeq(s, 1, k - 1) \o SubSeq(s, k + 1, Len(s))
<1>3. list_del(s, e) = r
  BY <1>1, <1>2 DEF list_del, RemoveFirst, RemoveAt
<1>4. /\ r \in Seq(S)
      /\ Len(r) = Len(s) - 1
      /\ \A i \in 1..(Len(s) - 1) : r[i] = IF i < k THEN s[i] ELSE s[i + 1]
  <2> DEFINE a == SubSeq(s, 1, k - 1)
             b == SubSeq(s, k + 1, Len(s))
  <2>1. /\ a \in Seq(S) /\ Len(a) = k - 1
        /\ \A i \in 1..(k - 1) : a[i] = s[i]
    BY <1>1
  <2>2. /\ b \in Seq(S) /\ Len(b) = Len(s) - k
        /\ \A i \in 1..(Len(s) - k) : b[i] = s[k + i]
    BY <1>1
  <2> HIDE DEF a, b
  <2>3. /\ a \o b \in Seq(S) /\ Len(a \o b) = Len(s) - 1
        /\ \A i \in 1..(Len(s) - 1) :
             (a \o b)[i] = IF i < k THEN a[i] ELSE b[i - (k - 1)]
    BY <2>1, <2>2, <1>1
  <2>4. \A i \in 1..(Len(s) - 1) : (a \o b)[i] = IF i < k THEN s[i] ELSE s[i + 1]
    BY <2>1, <2>2, <2>3, <1>1
  <2>5. QED
    BY <2>3, <2>4 DEF a, b
<1> HIDE DEF r
<1>5. NoDup(r)
  BY <1>1, <1>4 DEF NoDup
<1>6. ASSUME NEW x \in Linked(r)
      PROVE  x \in Linked(s) \ {e}
  <2>1. PICK i \in 1..Len(r) : r[i] = x
    BY <1>6, <1>4 DEF Linked
  <2>2. PICK j \in 1..Len(s) : j # k /\ s[j] = x
    BY <2>1, <1>1, <1>4
  <2>3. QED
    BY <2>2, <1>1 DEF NoDup, Linked
<1>7. ASSUME NEW x \in Linked(s) \ {e}
      PROVE  x \in Linked(r)
  <2>1. PICK j \in 1..Len(s) : s[j] = x
    BY <1>7 DEF Linked
  <2>2. CASE j < k
    BY <2>1, <2>2, <1>1, <1>4 DEF Linked
  <2>3. CASE j > k
    <3>1. j - 1 \in 1..(Len(s) - 1) /\ r[j - 1] = x
      BY <2>1, <2>3, <1>1, <1>4
    <3>2. QED
      BY <3>1, <1>4 DEF Linked
  <2>4. QED
    BY <2>1, <2>2, <2>3, <1>1, <1>7
<1>8. ASSUME list_first_entry(s) # e PROVE list_first_entry(r) = list_first_entry(s)
  <2>1. Head(s) = s[1] /\ k # 1 /\ Len(s) > 1
    BY <1>1, <1>8 DEF list_first_entry
  <2>2. r[1] = s[1] /\ Head(r) = r[1]
    BY <1>1, <1>4, <2>1
  <2>3. QED
    BY <2>1, <2>2 DEF list_first_entry
<1>9. QED
  BY <1>3, <1>4, <1>5, <1>6, <1>7, <1>8

\* Queueing an element that is not linked links it too.
LEMMA ListAddTail ==
  ASSUME NEW S, NEW s \in Seq(S), NoDup(s), NEW e \in S, e \notin Linked(s)
  PROVE  /\ list_add_tail(s, e) \in Seq(S)
         /\ NoDup(list_add_tail(s, e))
         /\ Linked(list_add_tail(s, e)) = Linked(s) \cup {e}
<1>1. /\ list_add_tail(s, e) \in Seq(S)
      /\ Len(list_add_tail(s, e)) = Len(s) + 1
      /\ \A i \in 1..Len(s) : list_add_tail(s, e)[i] = s[i]
      /\ list_add_tail(s, e)[Len(s) + 1] = e
  BY DEF list_add_tail
<1>2. NoDup(list_add_tail(s, e))
  BY <1>1 DEF NoDup, Linked
<1>3. Linked(list_add_tail(s, e)) = Linked(s) \cup {e}
  BY <1>1 DEF Linked
<1>4. QED
  BY <1>1, <1>2, <1>3

-----------------------------------------------------------------------------
\* The invariant that is inductive: which waiters are queued decides which
\* sections may unlink one, and the queue decides whether count may move.
IInv ==
  /\ TypeOK
  /\ QueuedWaitersLive
  /\ NoFreeUnitWhileWaiting
  /\ Conservation

\* A wakeup of any kind leaves a task in one of the states it may have.
LEMMA WakeUpType ==
  /\ \A s \in TaskStates : wake_up_process(s) \in TaskStates
  /\ \A s \in TaskStates, g \in Signals : signal_wake_up_state(s, g) \in TaskStates
BY DEF wake_up_process, signal_wake_up_state, try_to_wake_up, TaskStates

\* The granted waiters can be counted.
LEMMA GrantedFinite == IsFiniteSet(Granted) /\ Cardinality(Granted) \in Nat
<1>1. IsFiniteSet(Tasks) /\ Granted \subseteq Tasks
  BY SemaphoreAssumption DEF Granted
<1>2. QED
  BY <1>1, FS_Subset, FS_CardinalityType

\* sema_init() establishes the invariant.
LEMMA InitInv == Init => IInv
<1> SUFFICES ASSUME Init PROVE IInv
  OBVIOUS
<1> USE DEF Init
<1>1. TypeOK
  BY SemaphoreAssumption DEF TypeOK, SleepStates, Timeouts, TaskStates, Signals, Results
<1>2. QueuedWaitersLive
  BY DEF QueuedWaitersLive, Waiters, Linked, NoDup
<1>3. NoFreeUnitWhileWaiting
  BY DEF NoFreeUnitWhileWaiting
<1>4. Conservation
  <2>1. Granted = {}
    BY DEF Granted
  <2>2. QED
    BY <2>1, FS_EmptySet, SemaphoreAssumption DEF Conservation
<1>5. QED
  BY <1>1, <1>2, <1>3, <1>4 DEF IInv

\* A section that takes a free unit: nobody is queued, so count may fall.
LEMMA TakeInv ==
  ASSUME IInv, NEW t \in Tasks, CanTake, count' = count - 1,
         acquired' = acquired + 1, ret' = [ret EXCEPT ![t] = "ok"],
         UNCHANGED <<wait_list, up, pc, call, timeout, state, sig>>
  PROVE  IInv'
<1>1. TypeOK'
  BY DEF IInv, TypeOK, CanTake, Results
<1>2. QueuedWaitersLive'
  BY DEF IInv, QueuedWaitersLive, Waiters
<1>3. NoFreeUnitWhileWaiting'
  BY DEF IInv, NoFreeUnitWhileWaiting, CanTake, TypeOK
<1>4. Conservation'
  <2>1. Granted' = Granted
    BY DEF Granted
  <2>2. QED
    BY <2>1, GrantedFinite, SemaphoreAssumption DEF IInv, Conservation, TypeOK
<1>5. QED
  BY <1>1, <1>2, <1>3, <1>4 DEF IInv

\* The types Return() gives the variables of its task.
LEMMA ReturnType ==
  ASSUME TypeOK, NEW t \in Tasks, NEW r \in Results, Return(t, r)
  PROVE  /\ up' \in [Tasks -> BOOLEAN]
         /\ pc' \in [Tasks -> {"out", "sleep"}]
         /\ call' \in [Tasks -> SleepStates]
         /\ timeout' \in [Tasks -> Timeouts]
         /\ state' \in [Tasks -> TaskStates]
         /\ ret' \in [Tasks -> Results]
BY DEF Return, TypeOK, SleepStates, Timeouts, TaskStates

\* down() and its variants that find no free unit.
LEMMA DownContendedInv ==
  ASSUME IInv, NEW t \in Tasks, NEW st \in SleepStates, NEW tmo \in Timeouts,
         DownContended(t, st, tmo)
  PROVE  IInv'
<1> USE DEF DownContended
<1>0. count = 0 /\ t \notin Waiters
  BY DEF IInv, TypeOK, CanTake, QueuedWaitersLive
<1>1. CASE \E r \in Results : Return(t, r) /\ UNCHANGED wait_list
  <2>1. PICK r \in Results : Return(t, r) /\ UNCHANGED wait_list
    BY <1>1
  <2>2. TypeOK'
    BY <2>1, ReturnType DEF IInv, TypeOK
  <2>3. QueuedWaitersLive'
    BY <2>1 DEF IInv, TypeOK, QueuedWaitersLive, Waiters, Return
  <2>4. NoFreeUnitWhileWaiting'
    BY <2>1 DEF IInv, NoFreeUnitWhileWaiting
  <2>5. Granted' = Granted
    BY <2>1 DEF IInv, TypeOK, Granted, Return
  <2>6. QED
    BY <2>2, <2>3, <2>4, <2>5 DEF IInv, Conservation
<1>2. CASE /\ wait_list' = list_add_tail(wait_list, t)
           /\ up' = [up EXCEPT ![t] = FALSE]
           /\ call' = [call EXCEPT ![t] = st]
           /\ timeout' = [timeout EXCEPT ![t] = tmo]
           /\ ret' = [ret EXCEPT ![t] = "none"]
           /\ GoToSleep(t, st)
  <2>1. /\ wait_list' \in Seq(Tasks)
        /\ NoDup(wait_list')
        /\ Linked(wait_list') = Linked(wait_list) \cup {t}
    BY <1>0, <1>2, ListAddTail DEF IInv, TypeOK, QueuedWaitersLive, Waiters
  <2>2. TypeOK'
    BY <1>2, <2>1 DEF IInv, TypeOK, GoToSleep, Results, TaskStates
  <2>3. QueuedWaitersLive'
    BY <1>2, <2>1 DEF IInv, TypeOK, QueuedWaitersLive, Waiters, GoToSleep
  <2>4. NoFreeUnitWhileWaiting'
    BY <1>0 DEF NoFreeUnitWhileWaiting
  <2>5. Granted' = Granted
    BY <1>2 DEF IInv, TypeOK, Granted, GoToSleep
  <2>6. QED
    BY <2>2, <2>3, <2>4, <2>5 DEF IInv, Conservation
<1>3. QED
  BY <1>1, <1>2 DEF Results

\* A section after schedule_timeout(): returns with the unit, gives up, or
\* sleeps again.
LEMMA WakeUpInv ==
  ASSUME IInv, NEW t \in Tasks, WakeUp(t)
  PROVE  IInv'
<1>0. pc[t] = "sleep" /\ UNCHANGED <<count, sig>>
  BY DEF WakeUp
<1>1. CASE up[t] /\ Return(t, "ok") /\ acquired' = acquired + 1 /\ UNCHANGED wait_list
  <2>1. TypeOK'
    BY <1>0, <1>1, ReturnType DEF IInv, TypeOK, Results
  <2>2. QueuedWaitersLive'
    BY <1>1 DEF IInv, TypeOK, QueuedWaitersLive, Waiters, Return
  <2>3. NoFreeUnitWhileWaiting'
    BY <1>0, <1>1 DEF IInv, NoFreeUnitWhileWaiting
  <2>4. Conservation'
    <3>1. Granted' = Granted \ {t} /\ t \in Granted
      BY <1>0, <1>1 DEF IInv, TypeOK, Granted, Return
    <3>2. Cardinality(Granted') = Cardinality(Granted) - 1
      BY <3>1, GrantedFinite, FS_RemoveElement
    <3>3. QED
      BY <1>0, <1>1, <3>2, GrantedFinite, SemaphoreAssumption
      DEF IInv, Conservation, TypeOK
  <2>5. QED
    BY <2>1, <2>2, <2>3, <2>4 DEF IInv
<1>2. CASE /\ ~up[t] /\ UNCHANGED acquired
           /\ \E r \in Results : Return(t, r) /\ wait_list' = WithoutWaiter(t)
  <2>1. PICK r \in Results : Return(t, r) /\ wait_list' = WithoutWaiter(t)
    BY <1>2
  <2>2. /\ wait_list' \in Seq(Tasks)
        /\ NoDup(wait_list')
        /\ Linked(wait_list') = Linked(wait_list) \ {t}
        /\ t \in Linked(wait_list)
    BY <1>0, <1>2, <2>1, ListDel
    DEF IInv, TypeOK, QueuedWaitersLive, Waiters, WithoutWaiter
  <2>3. TypeOK'
    BY <1>0, <1>2, <2>1, <2>2, ReturnType DEF IInv, TypeOK
  <2>4. QueuedWaitersLive'
    BY <2>1, <2>2 DEF IInv, TypeOK, QueuedWaitersLive, Waiters, Return
  <2>5. NoFreeUnitWhileWaiting'
    BY <1>0, <2>2 DEF IInv, NoFreeUnitWhileWaiting, Linked
  <2>6. Granted' = Granted
    BY <1>2, <2>1 DEF IInv, TypeOK, Granted, Return
  <2>7. QED
    BY <1>0, <1>2, <2>3, <2>4, <2>5, <2>6 DEF IInv, Conservation
<1>3. CASE /\ \E tmo \in Timeouts : timeout' = [timeout EXCEPT ![t] = tmo]
           /\ GoToSleep(t, call[t])
           /\ UNCHANGED <<wait_list, up, call, ret, acquired>>
  <2>1. TypeOK'
    BY <1>0, <1>3 DEF IInv, TypeOK, GoToSleep, TaskStates
  <2>2. QueuedWaitersLive'
    BY <1>0, <1>3 DEF IInv, TypeOK, QueuedWaitersLive, Waiters, GoToSleep
  <2>3. Granted' = Granted
    BY <1>0, <1>3 DEF IInv, TypeOK, Granted, GoToSleep
  <2>4. QED
    BY <1>0, <1>3, <2>1, <2>2, <2>3 DEF IInv, Conservation, NoFreeUnitWhileWaiting
<1>4. QED
  <2>1. PICK tmo \in (IF timeout[t] = "left" THEN {"left", "expired"} ELSE {timeout[t]}) :
       \/ grant_seen(t, tmo) /\ Return(t, "ok") /\ acquired' = acquired + 1
          /\ UNCHANGED wait_list
       \/ ~grant_seen(t, tmo) /\ Return(t, "EINTR") /\ wait_list' = WithoutWaiter(t)
          /\ UNCHANGED acquired
       \/ ~grant_seen(t, tmo) /\ Return(t, "ETIME") /\ wait_list' = WithoutWaiter(t)
          /\ UNCHANGED acquired
       \/ ~grant_seen(t, tmo) /\ timeout' = [timeout EXCEPT ![t] = tmo]
          /\ GoToSleep(t, call[t])
          /\ UNCHANGED <<wait_list, up, call, ret, acquired>>
    BY DEF WakeUp
  <2>2. tmo \in Timeouts
    BY DEF Timeouts, IInv, TypeOK
  <2>3. QED
    BY <2>1, <2>2, <1>1, <1>2, <1>3 DEF grant_seen, Results

\* up(): the head of the queue gets the unit, or count grows when nobody waits.
LEMMA UpInv ==
  ASSUME IInv, Up
  PROVE  IInv'
<1>0. acquired' = acquired - 1 /\ UNCHANGED <<pc, call, timeout, sig, ret>>
  BY DEF Up
<1>1. CASE list_empty(wait_list) /\ count' = count + 1 /\ UNCHANGED <<wait_list, up, state>>
  <2>1. TypeOK'
    BY <1>0, <1>1 DEF IInv, TypeOK
  <2>2. QueuedWaitersLive' /\ Granted' = Granted
    BY <1>0, <1>1 DEF IInv, QueuedWaitersLive, Waiters, Granted
  <2>3. NoFreeUnitWhileWaiting'
    BY <1>1 DEF NoFreeUnitWhileWaiting, list_empty
  <2>4. Conservation'
    BY <1>0, <1>1, <2>2, GrantedFinite, SemaphoreAssumption DEF IInv, Conservation, TypeOK
  <2>5. QED
    BY <2>1, <2>2, <2>3, <2>4 DEF IInv
<1>2. CASE ~list_empty(wait_list) /\ UpWaiter
  <2> DEFINE h == FirstWaiter
  <2>1. h \in Linked(wait_list) /\ h \in Tasks /\ pc[h] = "sleep" /\ ~up[h]
    <3>1. wait_list \in Seq(Tasks) /\ wait_list # <<>>
      BY <1>2 DEF IInv, TypeOK, list_empty
    <3>2. 1 \in DOMAIN wait_list /\ Head(wait_list) = wait_list[1]
      BY <3>1
    <3>3. h \in Linked(wait_list)
      BY <3>2 DEF Linked, FirstWaiter, list_first_entry
    <3>4. QED
      BY <3>3 DEF IInv, QueuedWaitersLive, Waiters
  <2> HIDE DEF h
  <2>2. /\ wait_list' = list_del(wait_list, h)
        /\ up' = [up EXCEPT ![h] = TRUE]
        /\ state' = [state EXCEPT ![h] = wake_up_process(@)]
        /\ UNCHANGED count
    BY <1>2 DEF UpWaiter, WithoutWaiter, h
  <2>3. /\ wait_list' \in Seq(Tasks)
        /\ NoDup(wait_list')
        /\ Linked(wait_list') = Linked(wait_list) \ {h}
    BY <2>1, <2>2, ListDel DEF IInv, TypeOK, QueuedWaitersLive
  <2>4. TypeOK'
    BY <1>0, <2>1, <2>2, <2>3, WakeUpType DEF IInv, TypeOK
  <2>5. QueuedWaitersLive'
    BY <1>0, <2>1, <2>2, <2>3 DEF IInv, TypeOK, QueuedWaitersLive, Waiters
  <2>6. NoFreeUnitWhileWaiting'
    BY <1>2, <2>2 DEF IInv, NoFreeUnitWhileWaiting, list_empty
  <2>7. Conservation'
    <3>1. Granted' = Granted \cup {h} /\ h \notin Granted
      BY <1>0, <2>1, <2>2 DEF IInv, TypeOK, Granted
    <3>2. Cardinality(Granted') = Cardinality(Granted) + 1
      BY <3>1, GrantedFinite, FS_AddElement
    <3>3. QED
      BY <1>0, <2>2, <3>2, GrantedFinite, SemaphoreAssumption
      DEF IInv, Conservation, TypeOK
  <2>8. QED
    BY <2>4, <2>5, <2>6, <2>7 DEF IInv
<1>3. QED
  BY <1>1, <1>2 DEF Up

\* Timers and signals touch the task, never the queue or the count.
LEMMA WakersInv ==
  ASSUME IInv, NEW t \in Tasks,
         TimerExpires(t) \/ SendSignal(t) \/ HandleSignal(t)
  PROVE  IInv'
<1>1. TypeOK'
  BY WakeUpType DEF IInv, TypeOK, TimerExpires, SendSignal, HandleSignal, semVars,
     Signals, Timeouts
<1>2. UNCHANGED <<count, wait_list, up, pc, acquired>>
  BY DEF TimerExpires, SendSignal, HandleSignal, semVars
<1>3. QED
  BY <1>1, <1>2 DEF IInv, QueuedWaitersLive, Waiters, NoFreeUnitWhileWaiting,
     Conservation, Granted

\* Every section under sem->lock, every timer and every signal keeps the invariant.
LEMMA NextInv == IInv /\ [Next]_vars => IInv'
<1> SUFFICES ASSUME IInv, [Next]_vars PROVE IInv'
  OBVIOUS
<1>1. ASSUME NEW t \in Tasks, Down(t) PROVE IInv'
  BY <1>1, TakeInv, DownContendedInv DEF Down, DownFast
<1>2. ASSUME NEW t \in Tasks, DownTrylock(t) PROVE IInv'
  <2>1. CASE CanTake
    BY <1>2, <2>1, TakeInv DEF DownTrylock
  <2>2. CASE ~CanTake
    BY <1>2, <2>2 DEF DownTrylock, IInv, TypeOK, Results, QueuedWaitersLive, Waiters,
       NoFreeUnitWhileWaiting, Conservation, Granted
  <2>3. QED
    BY <2>1, <2>2
<1>3. CASE UNCHANGED vars
  BY <1>3 DEF vars, IInv, TypeOK, QueuedWaitersLive, Waiters,
     NoFreeUnitWhileWaiting, Conservation, Granted
<1>4. QED
  BY <1>1, <1>2, <1>3, WakeUpInv, UpInv, WakersInv DEF Next

\* The inductive invariant holds in every reachable state.
LEMMA AlwaysIInv == Spec => []IInv
BY InitInv, NextInv, PTL DEF Spec

\* Type correctness, of every behaviour of semaphore.c.
THEOREM TypeCorrect == Spec => []TypeOK
<1>1. IInv => TypeOK
  BY DEF IInv
<1>2. QED
  BY <1>1, AlwaysIInv, PTL

\* Free units, units passed by __up() and held units always add up to the
\* count given to sema_init(), for any number of tasks.
THEOREM UnitsConserved == Spec => []Conservation
<1>1. IInv => Conservation
  BY DEF IInv
<1>2. QED
  BY <1>1, AlwaysIInv, PTL

\* No waiter is queued beside a free unit, and the queue links exactly the
\* waiters on the stacks of sleeping tasks that were not granted.
THEOREM QueueSound == Spec => [](NoFreeUnitWhileWaiting /\ QueuedWaitersLive)
<1>1. IInv => NoFreeUnitWhileWaiting /\ QueuedWaitersLive
  BY DEF IInv
<1>2. QED
  BY <1>1, AlwaysIInv, PTL

\* A granted waiter returns 0, whatever signal or timeout raced with up().
THEOREM GrantsKept == Spec => GrantIsKept
<1> DEFINE Kept == \A t \in Granted : pc'[t] = "out" => ret'[t] = "ok"
<1>1. ASSUME IInv, [Next]_vars PROVE [Kept]_vars
  <2> SUFFICES ASSUME NEW g \in Tasks, pc[g] = "sleep", up[g], pc'[g] = "out"
               PROVE  ret'[g] = "ok"
    BY DEF Granted
  <2>1. ASSUME NEW t \in Tasks, WakeUp(t) PROVE ret'[g] = "ok"
    <3>1. CASE t = g
      BY <2>1, <3>1, <1>1 DEF WakeUp, grant_seen, Return, IInv, TypeOK
    <3>2. CASE t # g
      BY <2>1, <3>2, <1>1 DEF WakeUp, Return, GoToSleep, IInv, TypeOK
    <3>3. QED
      BY <3>1, <3>2
  <2>2. ASSUME NEW t \in Tasks, Down(t) PROVE ret'[g] = "ok"
    BY <2>2, <1>1 DEF Down, DownFast, DownContended, Return, GoToSleep, IInv, TypeOK
  <2>3. CASE UNCHANGED pc
    BY <2>3
  <2>4. QED
    BY <2>1, <2>2, <2>3, <1>1
    DEF Next, vars, DownTrylock, TimerExpires, SendSignal, HandleSignal, Up
<1>2. QED
  BY <1>1, AlwaysIInv, PTL DEF Spec, GrantIsKept

\* Only __up() grants, and only to the first waiter, so nobody is granted a unit
\* past a waiter that was queued before: units are passed in the order of the queue.
THEOREM GrantsInOrder == Spec => FifoGrant
<1> DEFINE Fifo == \A i, j \in DOMAIN wait_list :
                     i < j /\ wait_list[j] \in Granted' => wait_list[i] \notin Waiters'
<1>1. ASSUME IInv, [Next]_vars PROVE [Fifo]_vars
  <2> SUFFICES ASSUME NEW i \in DOMAIN wait_list, NEW j \in DOMAIN wait_list, i < j,
                      wait_list[j] \in Granted'
               PROVE  FALSE
    OBVIOUS
  <2> DEFINE w == wait_list[j]
  <2>1. w \in Tasks /\ pc[w] = "sleep" /\ ~up[w] /\ up'[w]
    <3>1. w \in Waiters
      BY DEF Waiters, Linked
    <3>2. QED
      BY <3>1, <1>1 DEF IInv, QueuedWaitersLive, Granted
  <2>2. w # FirstWaiter
    <3>1. wait_list \in Seq(Tasks) /\ NoDup(wait_list)
      BY <1>1 DEF IInv, TypeOK, QueuedWaitersLive
    <3>2. 1 \in DOMAIN wait_list /\ Head(wait_list) = wait_list[1] /\ j # 1
      BY <3>1
    <3>3. QED
      BY <3>1, <3>2 DEF NoDup, FirstWaiter, list_first_entry
  <2> HIDE DEF w
  <2>3. ASSUME NEW t \in Tasks, WakeUp(t) PROVE FALSE
    BY <2>1, <2>3, <1>1 DEF WakeUp, Return, GoToSleep, IInv, TypeOK
  <2>4. ASSUME NEW t \in Tasks, Down(t) PROVE FALSE
    BY <2>1, <2>4, <1>1 DEF Down, DownFast, DownContended, Return, GoToSleep, IInv, TypeOK
  <2>5. ASSUME Up PROVE FALSE
    <3>1. up' = up \/ up' = [up EXCEPT ![FirstWaiter] = TRUE]
      BY <2>5 DEF Up, UpWaiter
    <3>2. QED
      BY <2>1, <2>2, <3>1, <1>1 DEF IInv, TypeOK
  <2>6. CASE UNCHANGED up
    BY <2>1, <2>6
  <2>7. QED
    BY <2>3, <2>4, <2>5, <2>6, <1>1
    DEF Next, vars, semVars, DownTrylock, TimerExpires, SendSignal, HandleSignal
<1>2. QED
  BY <1>1, AlwaysIInv, PTL DEF Spec, FifoGrant
=============================================================================
