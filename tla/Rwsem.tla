------------------------------- MODULE Rwsem -------------------------------
(***************************************************************************)
(* Reader-writer semaphores, kernel/locking/rwsem.c.                       *)
(*                                                                         *)
(* sem->count is one atomic word of a writer bit, a waiters bit, a handoff *)
(* bit and the number of readers.  It is changed by additions,             *)
(* subtractions and bit operations, so each of its four parts is modelled  *)
(* as a number and is "set" when it is not zero; that no part ever borrows *)
(* from the next is WordExact.  Every access to the word is an action of   *)
(* its own, a cmpxchg loop being its last, successful access.              *)
(*                                                                         *)
(* sem->owner is not modelled.  It only tells optimistic spinners when to  *)
(* give up, which need_resched() may do at any moment, so a spinner may    *)
(* try or give up whenever it looks.  Whether a waiter has waited for      *)
(* RWSEM_WAIT_TIMEOUT (or is an rt_task()) is a choice too.  A count of    *)
(* readers that reaches RWSEM_FLAG_READFAIL, 2^55 of them, is left out.    *)
(***************************************************************************)
EXTENDS WaitList, TaskState

CONSTANTS
  Tasks,               \* the tasks that use the semaphore
  None,                \* the NULL task
  Readers,             \* the tasks that call the down_read() functions
  Writers,             \* the tasks that call the down_write() functions
  ReadStates,          \* the state arguments of the read slow path
  WriteStates,         \* the state arguments of the write slow path
  Kills,               \* the signals that are explored
  Killed,              \* the tasks they are sent to
  MAX_READERS_WAKEUP   \* readers that one wakeup grants the lock to

ASSUME RwsemAssumption ==
  /\ IsFiniteSet(Tasks)
  /\ None \notin Tasks
  /\ Readers \subseteq Tasks /\ Writers \subseteq Tasks /\ Killed \subseteq Tasks
  /\ ReadStates \subseteq SleepStates
  /\ WriteStates \subseteq SleepStates \ {TASK_INTERRUPTIBLE}
  /\ Kills \subseteq Signals \ {"none"}
  /\ MAX_READERS_WAKEUP \in Nat \ {0}

VARIABLES
  count,      \* sem->count
  wait_list,  \* sem->wait_list, the queued struct rwsem_waiter
  wait_lock,  \* the task that holds sem->wait_lock
  pc,         \* where each task is
  local,      \* the local variables of its call
  granted,    \* the tasks whose waiter.task is NULL: they own a read lock
  wake_q,     \* the tasks on the wake_q of each task
  state,      \* task_struct::state
  sig         \* the pending signal of the task

vars == <<count, wait_list, wait_lock, pc, local, granted, wake_q, state, sig>>

Unlocked == [writer |-> 0, waiters |-> 0, handoff |-> 0, readers |-> 0]

\* Spinning holds sem->osq; marking is rwsem_mark_wake().
SpinPC  == {"r_spin", "r_try", "r_back", "w_spin"}
ReadPC  == {"r_slow", "r_osq", "r_spin", "r_try", "r_back", "r_spun", "r_phase",
            "r_ptry", "r_pback", "r_lock", "r_add", "r_wait", "r_sched", "r_sig"}
WritePC == {"w_slow", "w_spin", "w_lock", "w_try", "w_fail", "w_sched", "w_first",
            "w_count", "w_relock", "w_nolock", "w_empty"}
MarkPC  == {"m_first", "m_undo", "m_adjust", "m_grant"}
PCs     == {"out", "r_held", "w_held", "wake"} \cup ReadPC \cup WritePC \cup MarkPC

\* mode: the state to sleep in.  bias: the reader's own RWSEM_READER_BIAS is
\* in the count.  wlist and wake_type are those of rwsem_mark_wake(), and ret
\* is where the task continues after it.
Idle == [mode |-> TASK_UNINTERRUPTIBLE, wstate |-> "NOT_FIRST", bias |-> 0,
         wake_type |-> "ANY", wlist |-> {}, ret |-> "out"]

\* __init_rwsem()
Init ==
  /\ count = Unlocked
  /\ wait_list = <<>>
  /\ wait_lock = None
  /\ pc = [t \in Tasks |-> "out"]
  /\ local = [t \in Tasks |-> Idle]
  /\ granted = {}
  /\ wake_q = [t \in Tasks |-> {}]
  /\ state = [t \in Tasks |-> TASK_RUNNING]
  /\ sig = [t \in Tasks |-> "none"]

Goto(t, l) == pc' = [pc EXCEPT ![t] = l]
Finish(t, l) == Goto(t, l) /\ local' = [local EXCEPT ![t] = Idle]

\* Starts rwsem_mark_wake(), after which the task continues at r.
mark_wake(t, type, r) ==
  /\ Goto(t, "m_first")
  /\ local' = [local EXCEPT ![t].wake_type = type, ![t].ret = r]

-----------------------------------------------------------------------------
(* What the functions read from the word.                                   *)

LockMask(c)     == c.writer # 0 \/ c.readers # 0
ReadFailed(c)   == c.writer # 0 \/ c.waiters # 0 \/ c.handoff # 0
HandoffMask(c)  == c.writer # 0 \/ c.handoff # 0

AddReaders(n) == count' = [count EXCEPT !.readers = @ + n]

-----------------------------------------------------------------------------
(* Readers                                                                  *)

\* down_read() and its variants: rwsem_read_trylock().
DownRead(t) ==
  /\ t \in Readers /\ pc[t] = "out"
  /\ AddReaders(1)
  /\ IF ReadFailed(count)
     THEN /\ Goto(t, "r_slow")
          /\ \E s \in ReadStates :
               local' = [local EXCEPT ![t].mode = s, ![t].bias = 1]
     ELSE Goto(t, "r_held") /\ UNCHANGED local
  /\ UNCHANGED <<wait_list, wait_lock, granted, wake_q, state, sig>>

\* down_read_trylock(); a failed one changes nothing.
DownReadTrylock(t) ==
  /\ t \in Readers /\ pc[t] = "out"
  /\ ~ReadFailed(count)
  /\ AddReaders(1)
  /\ Goto(t, "r_held")
  /\ UNCHANGED <<wait_list, wait_lock, local, granted, wake_q, state, sig>>

\* rwsem_can_spin_on_owner(): queue at once, or undo the bias and spin.
ReadSlow(t) ==
  /\ pc[t] = "r_slow"
  /\ \/ Goto(t, "r_lock") /\ UNCHANGED <<count, local>>
     \/ /\ AddReaders(-1)
        /\ local' = [local EXCEPT ![t].bias = 0]
        /\ Goto(t, "r_osq")
  /\ UNCHANGED <<wait_list, wait_lock, granted, wake_q, state, sig>>

osq_free == \A t \in Tasks : pc[t] \notin SpinPC

ReadOsq(t) ==
  /\ pc[t] = "r_osq"
  /\ \/ osq_free /\ Goto(t, "r_spin")
     \/ Goto(t, "r_phase")
  /\ UNCHANGED <<count, wait_list, wait_lock, local, granted, wake_q, state, sig>>

\* The first look of rwsem_try_read_lock_unqueued(), from the spin loop, which
\* may also end, and from rwsem_reader_phase_trylock(), which may not happen.
ReadLook(t) ==
  /\ \/ pc[t] = "r_spin" /\ ~HandoffMask(count) /\ Goto(t, "r_try")
     \/ pc[t] = "r_spin" /\ Goto(t, "r_phase")
     \/ pc[t] = "r_phase" /\ ~HandoffMask(count) /\ Goto(t, "r_ptry")
     \/ pc[t] = "r_phase" /\ Goto(t, "r_lock")
  /\ UNCHANGED <<count, wait_list, wait_lock, local, granted, wake_q, state, sig>>

\* Its fetch_add: the lock is taken unless a writer or a handoff came first.
ReadTry(t) ==
  /\ pc[t] \in {"r_try", "r_ptry"}
  /\ AddReaders(1)
  /\ IF HandoffMask(count)
     THEN Goto(t, IF pc[t] = "r_try" THEN "r_back" ELSE "r_pback") /\ UNCHANGED local
     ELSE IF pc[t] = "r_try"
          THEN Goto(t, "r_spun") /\ UNCHANGED local
          ELSE Finish(t, "r_held")
  /\ UNCHANGED <<wait_list, wait_lock, granted, wake_q, state, sig>>

ReadBackOut(t) ==
  /\ pc[t] \in {"r_back", "r_pback"}
  /\ AddReaders(-1)
  /\ Goto(t, IF pc[t] = "r_back" THEN "r_spin" ELSE "r_lock")
  /\ UNCHANGED <<wait_list, wait_lock, local, granted, wake_q, state, sig>>

\* A spinning reader that got the lock takes the queued readers along.
ReadSpun(t) ==
  /\ pc[t] = "r_spun"
  /\ IF count.waiters # 0 THEN mark_wake(t, "READ_OWNED", "r_held")
                          ELSE Finish(t, "r_held")
  /\ UNCHANGED <<count, wait_list, wait_lock, granted, wake_q, state, sig>>

\* The queue is empty and the bias already counts: the lock is owned.
ReadLock(t) ==
  /\ pc[t] = "r_lock"
  /\ wait_lock = None
  /\ IF list_empty(wait_list) /\ local[t].bias = 1 /\ ~HandoffMask(count)
     THEN Finish(t, "r_held") /\ UNCHANGED <<wait_list, wait_lock>>
     ELSE /\ wait_list' = list_add_tail(wait_list, [task |-> t, type |-> "read"])
          /\ wait_lock' = t
          /\ Goto(t, "r_add")
          /\ UNCHANGED local
  /\ UNCHANGED <<count, granted, wake_q, state, sig>>

\* Whether a reader that has queued itself wakes the front of the queue.
wake_if_first(c, first) == c.writer = 0 /\ first
wake_when_queued(c, first) == ~LockMask(c) \/ (c.writer = 0 /\ first)

\* "we're now waiting on the lock, but no longer actively locking"
ReadAdd(t) ==
  /\ pc[t] = "r_add"
  /\ LET first == Len(wait_list) = 1
     IN  /\ count' = [count EXCEPT !.readers = @ - local[t].bias,
                                   !.waiters = IF first THEN @ + 1 ELSE @]
         /\ IF wake_when_queued(count', first)
            THEN /\ Goto(t, "m_first")
                 /\ local' = [local EXCEPT ![t].bias = 0, ![t].wake_type = "ANY",
                                           ![t].ret = "r_wait"]
                 /\ UNCHANGED wait_lock
            ELSE /\ Goto(t, "r_wait")
                 /\ local' = [local EXCEPT ![t].bias = 0]
                 /\ wait_lock' = None
  /\ UNCHANGED <<wait_list, granted, wake_q, state, sig>>

\* set_current_state(), then waiter.task and the signals are looked at.
ReadWait(t) ==
  /\ pc[t] = "r_wait"
  /\ IF t \in granted
     THEN /\ granted' = granted \ {t}
          /\ state' = [state EXCEPT ![t] = TASK_RUNNING]
          /\ Finish(t, "r_held")
     ELSE /\ state' = [state EXCEPT ![t] = local[t].mode]
          /\ Goto(t, IF signal_pending_state(local[t].mode, sig[t])
                     THEN "r_sig" ELSE "r_sched")
          /\ UNCHANGED <<granted, local>>
  /\ UNCHANGED <<count, wait_list, wait_lock, wake_q, sig>>

ReadSchedule(t) ==
  /\ pc[t] = "r_sched"
  /\ schedule_returns(state[t], sig[t])
  /\ Goto(t, "r_wait")
  /\ UNCHANGED <<count, wait_list, wait_lock, local, granted, wake_q, state, sig>>

\* Interrupted: the lock may have been granted just before; if not, -EINTR.
ReadSignal(t) ==
  /\ pc[t] = "r_sig"
  /\ wait_lock = None
  /\ IF t \in granted
     THEN /\ granted' = granted \ {t}
          /\ Finish(t, "r_held")
          /\ UNCHANGED <<wait_list, count>>
     ELSE /\ wait_list' = list_del(wait_list, [task |-> t, type |-> "read"])
          /\ count' = IF list_empty(wait_list')
                      THEN [count EXCEPT !.waiters = 0, !.handoff = 0] ELSE count
          /\ Finish(t, "out")
          /\ UNCHANGED granted
  /\ state' = [state EXCEPT ![t] = TASK_RUNNING]
  /\ UNCHANGED <<wait_lock, wake_q, sig>>

-----------------------------------------------------------------------------
(* Writers                                                                  *)

\* down_write() and down_write_killable().
DownWrite(t) ==
  /\ t \in Writers /\ pc[t] = "out"
  /\ IF count = Unlocked
     THEN count' = [count EXCEPT !.writer = 1] /\ Goto(t, "w_held") /\ UNCHANGED local
     ELSE /\ Goto(t, "w_slow")
          /\ \E s \in WriteStates : local' = [local EXCEPT ![t].mode = s]
          /\ UNCHANGED count
  /\ UNCHANGED <<wait_list, wait_lock, granted, wake_q, state, sig>>

\* down_write_trylock(); a failed one changes nothing.
DownWriteTrylock(t) ==
  /\ t \in Writers /\ pc[t] = "out"
  /\ count = Unlocked
  /\ count' = [count EXCEPT !.writer = 1]
  /\ Goto(t, "w_held")
  /\ UNCHANGED <<wait_list, wait_lock, local, granted, wake_q, state, sig>>

WriteSlow(t) ==
  /\ pc[t] = "w_slow"
  /\ \/ osq_free /\ Goto(t, "w_spin")
     \/ Goto(t, "w_lock")
  /\ UNCHANGED <<count, wait_list, wait_lock, local, granted, wake_q, state, sig>>

\* rwsem_try_write_lock_unqueued() steals the lock past the queue, but not
\* past a handoff.
may_steal(c) == ~LockMask(c) /\ c.handoff = 0

WriteSpin(t) ==
  /\ pc[t] = "w_spin"
  /\ \/ /\ may_steal(count)
        /\ count' = [count EXCEPT !.writer = 1]
        /\ Finish(t, "w_held")
     \/ Goto(t, "w_lock") /\ UNCHANGED <<count, local>>
  /\ UNCHANGED <<wait_list, wait_lock, granted, wake_q, state, sig>>

WriteLock(t) ==
  /\ pc[t] = "w_lock"
  /\ wait_lock = None
  /\ wait_lock' = t
  /\ wait_list' = list_add_tail(wait_list, [task |-> t, type |-> "write"])
  /\ IF list_empty(wait_list)
     THEN /\ count' = [count EXCEPT !.waiters = 1]
          /\ local' = [local EXCEPT ![t].wstate = "FIRST"]
          /\ Goto(t, "w_try")
     ELSE /\ IF count.writer # 0
             THEN Goto(t, "w_try") /\ UNCHANGED local
             ELSE mark_wake(t, IF count.readers # 0 THEN "READERS" ELSE "ANY", "w_try")
          /\ UNCHANGED count
  /\ UNCHANGED <<granted, wake_q, state, sig>>

\* What rwsem_try_write_lock() does to the word of a writer in state w.
takes_if_free(c, w) == ~LockMask(c)
takes_lock(c, w) == ~LockMask(c) /\ (c.handoff = 0 \/ w # "NOT_FIRST")
sets_handoff(c, w) == LockMask(c) /\ c.handoff = 0 /\ w = "HANDOFF"

\* rwsem_try_write_lock() under wait_lock; the lock is not sought again with
\* the state reset.
WriteTry(t) ==
  /\ pc[t] \in {"w_try", "w_relock"}
  /\ wait_lock \in {None, t}
  /\ IF takes_lock(count, local[t].wstate)
     THEN /\ count' = [count EXCEPT !.writer = 1, !.handoff = 0,
                                    !.waiters = IF Len(wait_list) = 1 THEN 0 ELSE @]
          /\ wait_list' = list_del(wait_list, [task |-> t, type |-> "write"])
          /\ state' = [state EXCEPT ![t] = TASK_RUNNING]
          /\ Finish(t, "w_held")
     ELSE /\ count' = IF sets_handoff(count, local[t].wstate)
                      THEN [count EXCEPT !.handoff = 1] ELSE count
          /\ state' = IF pc[t] = "w_try"
                      THEN [state EXCEPT ![t] = local[t].mode] ELSE state
          /\ Goto(t, "w_fail")
          /\ UNCHANGED <<wait_list, local>>
  /\ wait_lock' = None
  /\ UNCHANGED <<granted, wake_q, sig>>

\* Whoever asked for a handoff may find the owner gone and try again at once;
\* a signal ends the wait.
WriteFail(t) ==
  /\ pc[t] = "w_fail"
  /\ \/ local[t].wstate = "HANDOFF" /\ Goto(t, "w_relock")
     \/ Goto(t, IF signal_pending_state(local[t].mode, sig[t])
                THEN "w_nolock" ELSE "w_sched")
  /\ UNCHANGED <<count, wait_list, wait_lock, local, granted, wake_q, state, sig>>

WriteSchedule(t) ==
  /\ pc[t] = "w_sched"
  /\ schedule_returns(state[t], sig[t])
  /\ Goto(t, "w_first")
  /\ UNCHANGED <<count, wait_list, wait_lock, local, granted, wake_q, state, sig>>

\* Awake: the head of the queue is read without wait_lock.
WriteFirst(t) ==
  /\ pc[t] = "w_first"
  /\ state' = [state EXCEPT ![t] = local[t].mode]
  /\ IF local[t].wstate = "HANDOFF"
     THEN Goto(t, "w_relock") /\ UNCHANGED local
     ELSE /\ Goto(t, "w_count")
          /\ local' = IF list_first_entry(wait_list).task = t
                      THEN [local EXCEPT ![t].wstate = "FIRST"] ELSE local
  /\ UNCHANGED <<count, wait_list, wait_lock, granted, wake_q, sig>>

\* The lock is free, or the first writer has waited too long; else it sleeps
\* on, after it has looked at its signals.
WriteCount(t) ==
  /\ pc[t] = "w_count"
  /\ \/ ~LockMask(count) /\ Goto(t, "w_relock") /\ UNCHANGED local
     \/ /\ LockMask(count)
        /\ local[t].wstate = "FIRST"
        /\ local' = [local EXCEPT ![t].wstate = "HANDOFF"]
        /\ Goto(t, "w_relock")
     \/ /\ LockMask(count)
        /\ Goto(t, IF signal_pending_state(local[t].mode, sig[t])
                   THEN "w_nolock" ELSE "w_sched")
        /\ UNCHANGED local
  /\ UNCHANGED <<count, wait_list, wait_lock, granted, wake_q, state, sig>>

\* out_nolock: -EINTR.  The handoff is taken back, and the next waiter, who
\* may have waited for this one only, is woken.
WriteNoLock(t) ==
  /\ pc[t] = "w_nolock"
  /\ wait_lock = None
  /\ wait_lock' = t
  /\ state' = [state EXCEPT ![t] = TASK_RUNNING]
  /\ wait_list' = list_del(wait_list, [task |-> t, type |-> "write"])
  /\ count' = IF local[t].wstate = "HANDOFF"
              THEN [count EXCEPT !.handoff = @ - 1] ELSE count
  /\ IF list_empty(wait_list') THEN Goto(t, "w_empty") /\ UNCHANGED local
                               ELSE mark_wake(t, "ANY", "out")
  /\ UNCHANGED <<granted, wake_q, sig>>

WriteEmpty(t) ==
  /\ pc[t] = "w_empty"
  /\ count' = [count EXCEPT !.waiters = 0]
  /\ wait_lock' = None
  /\ Finish(t, "out")
  /\ UNCHANGED <<wait_list, granted, wake_q, state, sig>>

-----------------------------------------------------------------------------
(* rwsem_mark_wake() and wake_up_q()                                        *)

\* wake_q_add() leaves a task alone that is on a wake_q already.
wake_q_add(t, us) ==
  wake_q[t] \cup {u \in us : \A v \in Tasks : u \notin wake_q[v]}

\* Back to the caller.
Return(t) ==
  IF local[t].ret \in {"out", "r_held"}
  THEN Finish(t, local[t].ret)
  ELSE /\ Goto(t, local[t].ret)
       /\ local' = [local EXCEPT ![t].wake_type = "ANY", ![t].wlist = {},
                                 ![t].ret = "out"]

\* The caller drops wait_lock and wakes whom it has queued; a writer that woke
\* nobody goes on under the lock.
Marked(t) ==
  IF wake_q'[t] = {}
  THEN /\ wait_lock' = IF local[t].ret = "w_try" THEN t ELSE None
       /\ Return(t)
  ELSE /\ wait_lock' = None
       /\ Goto(t, "wake")
       /\ local' = [local EXCEPT ![t].wlist = {}]

granted_early(t) == IF local[t].wake_type = "READ_OWNED" THEN 0 ELSE 1

\* "Writers might steal the lock before we grant it to the next reader."
never_stolen(c) == FALSE
stolen(c) == c.writer # 0

\* The first waiter: a writer is woken, to a reader the lock is granted at
\* once, unless the caller's own read lock keeps writers away.
MarkFirst(t) ==
  /\ pc[t] = "m_first"
  /\ wait_lock \in {None, t}
  /\ IF list_empty(wait_list) \/ list_first_entry(wait_list).type = "write"
     THEN /\ wake_q' = IF ~list_empty(wait_list) /\ local[t].wake_type = "ANY"
                       THEN [wake_q EXCEPT ![t] =
                               wake_q_add(t, {list_first_entry(wait_list).task})]
                       ELSE wake_q
          /\ Marked(t)
          /\ UNCHANGED count
     ELSE /\ wait_lock' = t
          /\ AddReaders(granted_early(t))
          /\ Goto(t, IF granted_early(t) = 1 /\ stolen(count)
                     THEN "m_undo" ELSE "m_adjust")
          /\ UNCHANGED <<local, wake_q>>
  /\ UNCHANGED <<wait_list, granted, state, sig>>

\* A writer stole the lock: the grant is undone, and a reader that has waited
\* too long asks for a handoff.
MarkUndo(t) ==
  /\ pc[t] = "m_undo"
  /\ \/ AddReaders(-1)
     \/ /\ count.handoff = 0
        /\ count' = [count EXCEPT !.readers = @ - 1, !.handoff = 1]
  /\ UNCHANGED wake_q
  /\ Marked(t)
  /\ UNCHANGED <<wait_list, granted, state, sig>>

\* The queued readers that are granted the lock, wherever they are queued: the
\* first MAX_READERS_WAKEUP of them.
is_reader(w) == w.type = "read"

ReadersToWake ==
  LET readers == {i \in DOMAIN wait_list : is_reader(wait_list[i])}
  IN  {wait_list[i] : i \in {i \in readers :
         Cardinality({j \in readers : j <= i}) <= MAX_READERS_WAKEUP}}

\* The bias of the early grant is part of what the readers are counted with.
forget_read_owned(t, n) == n - 1
adjustment(t, n) == n - granted_early(t)

\* "1) Collect the read-waiters in a separate list, count them and fully
\* increment the reader count in rwsem."
MarkAdjust(t) ==
  /\ pc[t] = "m_adjust"
  /\ wait_list' = list_del_all(wait_list, ReadersToWake)
  /\ LET woken == {w.task : w \in ReadersToWake}
     IN  /\ local' = [local EXCEPT ![t].wlist = woken]
         /\ count' = [count EXCEPT !.readers = @ + adjustment(t, Cardinality(woken)),
                                   !.waiters = IF list_empty(wait_list') THEN @ - 1 ELSE @,
                                   !.handoff = IF woken # {} /\ @ # 0 THEN @ - 1 ELSE @]
  /\ Goto(t, "m_grant")
  /\ UNCHANGED <<wait_lock, granted, wake_q, state, sig>>

\* "2) For each waiters in the new list, clear waiter->task and put them into
\* wake_q to be woken up later."  The whole list in one step: the word and the
\* queue are adjusted already and wait_lock is held, so all that a reader cleared
\* early could do is return and release, as it can right after this step.
MarkGrant(t) ==
  /\ pc[t] = "m_grant"
  /\ granted' = granted \cup local[t].wlist
  /\ wake_q' = [wake_q EXCEPT ![t] = wake_q_add(t, local[t].wlist)]
  /\ Marked(t)
  /\ UNCHANGED <<count, wait_list, state, sig>>

WakeUpQ(t) ==
  /\ pc[t] = "wake"
  /\ \E u \in wake_q[t] :
       /\ wake_q' = [wake_q EXCEPT ![t] = @ \ {u}]
       /\ state' = [state EXCEPT ![u] = wake_up_process(@)]
  /\ IF wake_q'[t] = {} THEN Return(t) ELSE UNCHANGED <<pc, local>>
  /\ UNCHANGED <<count, wait_list, wait_lock, granted, sig>>

-----------------------------------------------------------------------------
(* Unlocking                                                                *)

\* The last reader wakes the queue.
UpRead(t) ==
  /\ pc[t] = "r_held"
  /\ AddReaders(-1)
  /\ IF ~LockMask(count') /\ count.waiters # 0
     THEN mark_wake(t, "ANY", "out")
     ELSE Finish(t, "out")
  /\ UNCHANGED <<wait_list, wait_lock, granted, wake_q, state, sig>>

\* Tests the word of before the release, writer bit included.
wake_if_unlocked(c) == ~LockMask(c) /\ c.waiters # 0
wake_after_write(c) == c.waiters # 0

UpWrite(t) ==
  /\ pc[t] = "w_held"
  /\ count' = [count EXCEPT !.writer = @ - 1]
  /\ IF wake_after_write(count) THEN mark_wake(t, "ANY", "out") ELSE Finish(t, "out")
  /\ UNCHANGED <<wait_list, wait_lock, granted, wake_q, state, sig>>

DowngradeWrite(t) ==
  /\ pc[t] = "w_held"
  /\ count' = [count EXCEPT !.writer = @ - 1, !.readers = @ + 1]
  /\ IF count.waiters # 0
     THEN mark_wake(t, "READ_OWNED", "r_held")
     ELSE Finish(t, "r_held")
  /\ UNCHANGED <<wait_list, wait_lock, granted, wake_q, state, sig>>

-----------------------------------------------------------------------------
(* Signals, wherever the task is; it handles them outside the semaphore.    *)

SendSignal(t) ==
  /\ t \in Killed
  /\ sig[t] = "none"
  /\ \E s \in Kills :
       /\ sig' = [sig EXCEPT ![t] = s]
       /\ state' = [state EXCEPT ![t] = signal_wake_up_state(@, s)]
  /\ UNCHANGED <<count, wait_list, wait_lock, pc, local, granted, wake_q>>

HandleSignal(t) ==
  /\ pc[t] = "out"
  /\ sig[t] # "none"
  /\ sig' = [sig EXCEPT ![t] = "none"]
  /\ UNCHANGED <<count, wait_list, wait_lock, pc, local, granted, wake_q, state>>

\* A new call, which is never forced to happen.
Call(t) == DownRead(t) \/ DownReadTrylock(t) \/ DownWrite(t) \/ DownWriteTrylock(t)

\* The steps of a call that need not wait for wait_lock, and those that do.
RunStep(t) ==
  \/ ReadSlow(t) \/ ReadOsq(t) \/ ReadLook(t) \/ ReadTry(t) \/ ReadBackOut(t)
  \/ ReadSpun(t) \/ ReadAdd(t) \/ ReadWait(t) \/ ReadSchedule(t)
  \/ WriteSlow(t) \/ WriteSpin(t) \/ WriteFail(t) \/ WriteSchedule(t)
  \/ WriteFirst(t) \/ WriteCount(t) \/ WriteEmpty(t)
  \/ MarkUndo(t) \/ MarkAdjust(t) \/ MarkGrant(t) \/ WakeUpQ(t)
  \/ UpRead(t) \/ UpWrite(t)

WaitLockStep(t) ==
  ReadLock(t) \/ ReadSignal(t) \/ WriteLock(t) \/ WriteTry(t) \/ WriteNoLock(t) \/ MarkFirst(t)

Next ==
  \E t \in Tasks :
    \/ Call(t) \/ RunStep(t) \/ WaitLockStep(t) \/ DowngradeWrite(t)
    \/ SendSignal(t) \/ HandleSignal(t)

\* A task that may run does; the queued spinlock wait_lock is FIFO, so whoever
\* waits for it gets it; spinning ends; holders unlock.
Fairness ==
  \A t \in Tasks : WF_vars(RunStep(t)) /\ SF_vars(WaitLockStep(t))

Spec == Init /\ [][Next]_vars
FairSpec == Spec /\ Fairness

-----------------------------------------------------------------------------
(* Properties                                                               *)

WordType   == [writer : Int, waiters : Int, handoff : Int, readers : Int]
WaiterType == [task : Tasks, type : {"read", "write"}]
LocalType  == [mode : SleepStates, wstate : {"NOT_FIRST", "FIRST", "HANDOFF"},
               bias : {0, 1}, wake_type : {"ANY", "READERS", "READ_OWNED"},
               wlist : SUBSET Tasks, ret : {"out", "r_held", "r_wait", "w_try"}]

TypeOK ==
  /\ count \in WordType
  /\ wait_list \in Seq(WaiterType)
  /\ wait_lock \in Tasks \cup {None}
  /\ pc \in [Tasks -> PCs]
  /\ local \in [Tasks -> LocalType]
  /\ granted \subseteq Tasks
  /\ wake_q \in [Tasks -> SUBSET Tasks]
  /\ state \in [Tasks -> TaskStates]
  /\ sig \in [Tasks -> Signals]

\* Who holds the semaphore: a reader also while it still wakes others on behalf
\* of its acquisition or of downgrade_write().
Reading == {t \in Tasks : \/ pc[t] \in {"r_held", "r_spun"}
                          \/ pc[t] \in MarkPC \cup {"wake"} /\ local[t].ret = "r_held"}
Writing == {t \in Tasks : pc[t] = "w_held"}

RwLock == INSTANCE AbstractRwLock WITH readers <- Reading, writers <- Writing

\* The semaphore is a reader-writer lock, and downgrade_write() lets no writer
\* in between, although spinners take it past the queue, readers are counted
\* before they are granted the lock, and counted again when they back out.
LockSpec == RwLock!Spec

\* Every reader bias in the word belongs to a read lock that is held or granted,
\* to a reader that will back out, or to a rwsem_mark_wake() under way.
Biased ==
  Cardinality(Reading)
    + Cardinality({t \in Tasks : pc[t] \in {"r_slow", "r_back", "r_pback"}})
    + Cardinality({t \in Tasks : pc[t] \in {"r_lock", "r_add"} /\ local[t].bias = 1})
    + Cardinality({t \in Tasks : pc[t] \in {"m_undo", "m_adjust"} /\ granted_early(t) = 1})
    + Cardinality({t \in Tasks : t \in granted \/ \E u \in Tasks : t \in local[u].wlist})

\* The word is exact: one writer bit per writer, the readers counted, the
\* waiters bit set when wait_lock is free exactly while tasks are queued, and no
\* part of the word ever below zero or above its width.
WordExact ==
  /\ count.writer = Cardinality(Writing)
  /\ count.readers = Biased
  /\ count.waiters \in {0, 1} /\ count.handoff \in {0, 1}
  /\ wait_lock = None => (count.waiters = 1 <=> wait_list # <<>>)

Asleep(t) == pc[t] \in {"r_sched", "w_sched"} /\ ~schedule_returns(state[t], sig[t])

\* No wakeup is lost: a reader that was granted the lock sleeps only while it is
\* on a wake_q, and the tasks queued on a free semaphore are never all asleep
\* with nobody left inside who will look at the queue, although readers that
\* back out of the count do not look at it.  The second half is meant for at most
\* one killed task: two of them can leave the handoff bit behind and the writer
\* after them asleep, which BlocksOnLockersOnly is about.
NoLostWakeup ==
  /\ \A t \in granted : Asleep(t) => \E u \in Tasks : t \in wake_q[u]
  /\ ~LockMask(count) /\ wait_list # <<>> =>
       \E t \in Tasks : pc[t] # "out" /\ ~Asleep(t)

\* Once a waiter has asked for the handoff, no writer but the first waiter takes
\* the semaphore, and no reader that is not queued does: neither spinners, nor
\* newcomers, nor writers further back.  Queued readers that rwsem_mark_wake()
\* grants the semaphore, in a batch with the first one, are not spoken of.
HandoffToHead ==
  [][count.handoff # 0 =>
       \A t \in Tasks :
         /\ t \in Writing' \ Writing => list_first_entry(wait_list).task = t
         /\ pc[t] \in {"r_try", "r_ptry", "r_lock", "out"} => t \notin Reading']_vars

\* Unless new calls keep arriving for ever, every call comes to its end and the
\* semaphore becomes idle: no call sleeps for ever, spins for ever or leaves the
\* others waiting for each other.  Like NoLostWakeup, for at most one killed task.
Drains ==
  []<><<\E t \in Tasks : Call(t)>>_vars \/ <>[](\A t \in Tasks : pc[t] = "out")

\* "Block until there are no active lockers.": a writer that is first in the queue
\* does not stay blocked on a semaphore that nobody holds or is about to leave.
BlocksOnLockersOnly ==
  \A t \in Tasks :
    /\ pc[t] = "w_sched" /\ Asleep(t)
    /\ list_first_entry(wait_list).task = t
    /\ \A u \in Tasks \ {t} : pc[u] = "out"
    => LockMask(count)
=============================================================================
