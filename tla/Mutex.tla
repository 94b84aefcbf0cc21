------------------------------- MODULE Mutex -------------------------------
(***************************************************************************)
(* Sleeping mutexes, kernel/locking/mutex.c (without wait/wound contexts). *)
(*                                                                         *)
(* lock->owner is one atomic word, a task and three flags: every cmpxchg   *)
(* loop decides with its last, successful access and is one action.        *)
(* lock->wait_list is changed only under the spinlock lock->wait_lock, and *)
(* what happens under it in one piece is one action; wait_lock is a        *)
(* variable because __mutex_lock_common() keeps it over several accesses   *)
(* to the owner word, which lockless callers change meanwhile.             *)
(***************************************************************************)
EXTENDS WaitList, TaskState

CONSTANTS
  Tasks,   \* the tasks that use the mutex
  None,    \* the NULL task
  Modes,   \* the state arguments of __mutex_lock() that are explored
  Kills,   \* the signals that are explored
  Killed   \* the tasks they are sent to

ASSUME MutexAssumption ==
  /\ IsFiniteSet(Tasks)
  /\ None \notin Tasks
  /\ Modes \subseteq SleepStates
  /\ Kills \subseteq Signals \ {"none"}
  /\ Killed \subseteq Tasks

VARIABLES
  owner,      \* lock->owner, the task and the flags in its low bits
  wait_list,  \* lock->wait_list, the tasks whose waiter is queued
  wait_lock,  \* the task that holds lock->wait_lock
  osq,        \* the task that holds lock->osq, see OsqLock
  pc,         \* where each task is
  mode,       \* the state argument of the task's __mutex_lock_common()
  first,      \* its local variable first
  wake_q,     \* the task queued on the wake_q of an unlocking task
  state,      \* task_struct::state
  sig         \* the pending signal of the task

vars == <<owner, wait_list, wait_lock, osq, pc, mode, first, wake_q, state, sig>>

Flags == {"WAITERS", "HANDOFF", "PICKUP"}

\* Inside __mutex_lock_common() before the waiter is queued, with it queued,
\* and with the mutex owned.
EntryPC  == {"slow", "osq", "spin", "spin_owner", "lock", "add"}
WaitPC   == {"try", "check", "sched", "set", "retry", "wspin", "wspin_owner", "relock"}
UnlockPC == {"wake", "handoff", "wake_up_q"}
PCs      == {"out", "got", "cs"} \cup EntryPC \cup WaitPC \cup UnlockPC

TypeOK ==
  /\ owner \in [task : Tasks \cup {None}, flags : SUBSET Flags]
  /\ wait_list \in Seq(Tasks)
  /\ wait_lock \in Tasks \cup {None}
  /\ osq \in Tasks \cup {None}
  /\ pc \in [Tasks -> PCs]
  /\ mode \in [Tasks -> SleepStates]
  /\ first \in [Tasks -> BOOLEAN]
  /\ wake_q \in [Tasks -> Tasks \cup {None}]
  /\ state \in [Tasks -> TaskStates]
  /\ sig \in [Tasks -> Signals]

\* __mutex_init()
Init ==
  /\ owner = [task |-> None, flags |-> {}]
  /\ wait_list = <<>>
  /\ wait_lock = None
  /\ osq = None
  /\ pc = [t \in Tasks |-> "out"]
  /\ mode = [t \in Tasks |-> TASK_UNINTERRUPTIBLE]
  /\ first = [t \in Tasks |-> FALSE]
  /\ wake_q = [t \in Tasks |-> None]
  /\ state = [t \in Tasks |-> TASK_RUNNING]
  /\ sig = [t \in Tasks |-> "none"]

Goto(t, l) == pc' = [pc EXCEPT ![t] = l]

-----------------------------------------------------------------------------
(* The owner word.                                                          *)

\* __mutex_trylock(): an unlocked mutex, or one that was handed to the caller.
may_trylock(t) ==
  owner.task = None \/ (owner.task = t /\ "PICKUP" \in owner.flags)

taken_by(t) == [task |-> t, flags |-> owner.flags \ {"HANDOFF", "PICKUP"}]

__mutex_trylock(t) == may_trylock(t) /\ owner' = taken_by(t)

trylock_failed(t) == ~may_trylock(t) /\ UNCHANGED owner

\* __mutex_set_flag(), and __mutex_clear_flag() of all of MUTEX_FLAGS.
with_flag(f) == [owner EXCEPT !.flags = @ \cup {f}]
without_flags(o) == [o EXCEPT !.flags = {}]

\* __mutex_handoff(): next is NULL when nobody waits any more.
handed_to(next) ==
  [task  |-> next,
   flags |-> (owner.flags \cap {"WAITERS"})
               \cup (IF next = None THEN {} ELSE {"PICKUP"})]

-----------------------------------------------------------------------------
(* The waiters.                                                             *)

__mutex_waiter_is_first(t) == list_first_entry(wait_list) = t

\* __mutex_add_waiter(): the first waiter announces the queue.
add_waiter_no_flag(t) ==
  /\ wait_list' = list_add_tail(wait_list, t)
  /\ UNCHANGED owner
__mutex_add_waiter(t) ==
  /\ wait_list' = list_add_tail(wait_list, t)
  /\ owner' = IF list_empty(wait_list) THEN with_flag("WAITERS") ELSE owner

\* __mutex_remove_waiter(), when the owner word is o before it.
__mutex_remove_waiter(t, o) ==
  /\ wait_list' = list_del(wait_list, t)
  /\ owner' = IF list_empty(wait_list') THEN without_flags(o) ELSE o

\* From the label acquired: to the return, in one piece: waiter removed,
\* wait_lock released.  o is the owner word with the mutex taken.
Acquired(t, o) ==
  /\ state' = [state EXCEPT ![t] = TASK_RUNNING]
  /\ __mutex_remove_waiter(t, o)
  /\ wait_lock' = None
  /\ mode' = [mode EXCEPT ![t] = TASK_UNINTERRUPTIBLE]
  /\ Goto(t, "cs")
  /\ UNCHANGED <<osq, first, wake_q, sig>>

-----------------------------------------------------------------------------
(* mutex_lock(), mutex_lock_interruptible(), mutex_lock_killable().         *)

\* __mutex_trylock_fast() wants a word that is all zeroes.
MutexLock(t) ==
  /\ pc[t] = "out"
  /\ \/ /\ owner = [task |-> None, flags |-> {}]
        /\ owner' = [task |-> t, flags |-> {}]
        /\ Goto(t, "cs")
        /\ UNCHANGED mode
     \/ /\ owner # [task |-> None, flags |-> {}]
        /\ \E m \in Modes : mode' = [mode EXCEPT ![t] = m]
        /\ Goto(t, "slow")
        /\ UNCHANGED owner
  /\ UNCHANGED <<wait_list, wait_lock, osq, first, wake_q, state, sig>>

\* The call returns 0 without having queued a waiter.
TakenEarly(t) ==
  /\ __mutex_trylock(t)
  /\ mode' = [mode EXCEPT ![t] = TASK_UNINTERRUPTIBLE]
  /\ Goto(t, "cs")

SlowTrylock(t) ==
  /\ pc[t] = "slow"
  /\ \/ TakenEarly(t)
     \/ trylock_failed(t) /\ Goto(t, "osq") /\ UNCHANGED mode
  /\ UNCHANGED <<wait_list, wait_lock, osq, first, wake_q, state, sig>>

\* mutex_can_spin_on_owner() and osq_lock() fail when the CPU is wanted or
\* the owner does not run, which may be the case at any time.
StartSpin(t) ==
  /\ pc[t] = "osq"
  /\ \/ osq = None /\ osq' = t /\ Goto(t, "spin")
     \/ Goto(t, "lock") /\ UNCHANGED osq
  /\ UNCHANGED <<owner, wait_list, wait_lock, mode, first, wake_q, state, sig>>

\* mutex_optimistic_spin() without a waiter.
Spin(t) ==
  /\ pc[t] = "spin"
  /\ \/ TakenEarly(t) /\ osq' = None
     \/ trylock_failed(t) /\ Goto(t, "spin_owner") /\ UNCHANGED <<osq, mode>>
  /\ UNCHANGED <<wait_list, wait_lock, first, wake_q, state, sig>>

\* mutex_spin_on_owner(): the owner changed, or it left its CPU or this task
\* is asked to, and the task gives up.
SpinOnOwner(t) ==
  /\ pc[t] = "spin_owner"
  /\ \/ Goto(t, "spin") /\ UNCHANGED osq
     \/ Goto(t, "lock") /\ osq' = None
  /\ UNCHANGED <<owner, wait_list, wait_lock, mode, first, wake_q, state, sig>>

\* spin_lock(&lock->wait_lock) and the second try.
LockWaitLock(t) ==
  /\ pc[t] = "lock"
  /\ wait_lock = None
  /\ \/ TakenEarly(t) /\ UNCHANGED wait_lock
     \/ trylock_failed(t) /\ wait_lock' = t /\ Goto(t, "add") /\ UNCHANGED mode
  /\ UNCHANGED <<wait_list, osq, first, wake_q, state, sig>>

\* The state the caller of __mutex_lock() asked to sleep in.
sleep_state(t) == mode[t]

AddWaiter(t) ==
  /\ pc[t] = "add"
  /\ __mutex_add_waiter(t)
  /\ state' = [state EXCEPT ![t] = sleep_state(t)]
  /\ Goto(t, "try")
  /\ UNCHANGED <<wait_lock, osq, mode, first, wake_q, sig>>

\* The loop's trylock, under wait_lock.
TryLocked(t) ==
  /\ pc[t] = "try"
  /\ \/ may_trylock(t) /\ Acquired(t, taken_by(t))
     \/ /\ trylock_failed(t)
        /\ Goto(t, "check")
        /\ UNCHANGED <<wait_list, wait_lock, osq, mode, first, wake_q, state, sig>>

\* A signal ends the call with -EINTR; otherwise the task goes to sleep.
CheckSignal(t) ==
  /\ pc[t] = "check"
  /\ wait_lock' = None
  /\ \/ /\ signal_pending_state(mode[t], sig[t])
        /\ state' = [state EXCEPT ![t] = TASK_RUNNING]
        /\ __mutex_remove_waiter(t, owner)
        /\ mode' = [mode EXCEPT ![t] = TASK_UNINTERRUPTIBLE]
        /\ Goto(t, "out")
     \/ /\ ~signal_pending_state(mode[t], sig[t])
        /\ Goto(t, "sched")
        /\ UNCHANGED <<owner, wait_list, mode, state>>
  /\ UNCHANGED <<osq, first, wake_q, sig>>

\* schedule_preempt_disabled() returns, and the first waiter asks for the
\* handoff: nobody else can become the first while it is queued.
Schedule(t) ==
  /\ pc[t] = "sched"
  /\ schedule_returns(state[t], sig[t])
  /\ state' = [state EXCEPT ![t] = TASK_RUNNING]
  /\ first' = [first EXCEPT ![t] = __mutex_waiter_is_first(t)]
  /\ owner' = IF __mutex_waiter_is_first(t) THEN with_flag("HANDOFF") ELSE owner
  /\ Goto(t, "set")
  /\ UNCHANGED <<wait_list, wait_lock, osq, mode, wake_q, sig>>

SetState(t) ==
  /\ pc[t] = "set"
  /\ state' = [state EXCEPT ![t] = sleep_state(t)]
  /\ Goto(t, "retry")
  /\ UNCHANGED <<owner, wait_list, wait_lock, osq, mode, first, wake_q, sig>>

\* The trylock without wait_lock; only the first waiter spins after it.
Retry(t) ==
  /\ pc[t] = "retry"
  /\ \/ __mutex_trylock(t) /\ Goto(t, "got")
     \/ trylock_failed(t) /\ Goto(t, IF first[t] THEN "wspin" ELSE "relock")
  /\ first' = [first EXCEPT ![t] = FALSE]
  /\ UNCHANGED <<wait_list, wait_lock, osq, mode, wake_q, state, sig>>

\* mutex_optimistic_spin() with a waiter: beside the OSQ.
WaiterSpin(t) ==
  /\ pc[t] = "wspin"
  /\ \/ __mutex_trylock(t) /\ Goto(t, "got")
     \/ trylock_failed(t) /\ Goto(t, "wspin_owner")
  /\ UNCHANGED <<wait_list, wait_lock, osq, mode, first, wake_q, state, sig>>

\* need_resched() is tested again after the loop; if it holds the task runs
\* on with TASK_RUNNING.
WaiterSpinOnOwner(t) ==
  /\ pc[t] = "wspin_owner"
  /\ \/ Goto(t, "wspin") /\ UNCHANGED state
     \/ Goto(t, "relock") /\ UNCHANGED state
     \/ Goto(t, "relock") /\ state' = [state EXCEPT ![t] = TASK_RUNNING]
  /\ UNCHANGED <<owner, wait_list, wait_lock, osq, mode, first, wake_q, sig>>

\* spin_lock(&lock->wait_lock) at the end of the loop and the trylock at its
\* head, before the error conditions are tested.
RelockThenCheck(t) ==
  /\ pc[t] = "relock"
  /\ wait_lock = None
  /\ wait_lock' = t
  /\ Goto(t, "check")
  /\ UNCHANGED <<owner, wait_list, osq, mode, first, wake_q, state, sig>>
Relock(t) ==
  /\ pc[t] = "relock"
  /\ wait_lock = None
  /\ \/ may_trylock(t) /\ Acquired(t, taken_by(t))
     \/ /\ trylock_failed(t)
        /\ wait_lock' = t
        /\ Goto(t, "check")
        /\ UNCHANGED <<wait_list, osq, mode, first, wake_q, state, sig>>

\* The mutex was taken outside wait_lock: dequeue the waiter under it.
Dequeue(t) ==
  /\ pc[t] = "got"
  /\ wait_lock = None
  /\ Acquired(t, owner)

\* mutex_trylock()
MutexTrylock(t) ==
  /\ pc[t] = "out"
  /\ __mutex_trylock(t)
  /\ Goto(t, "cs")
  /\ UNCHANGED <<wait_list, wait_lock, osq, mode, first, wake_q, state, sig>>

-----------------------------------------------------------------------------
(* mutex_unlock().                                                          *)

\* Does the unlocking task leave the word alone for __mutex_handoff()?
no_handoff == FALSE
handoff_wanted == "HANDOFF" \in owner.flags

\* Must it go on and wake the first waiter?
nobody_to_wake == FALSE
wakeup_wanted == "WAITERS" \in owner.flags

ReleasedThenHandedOff(t) ==
  /\ pc[t] = "cs"
  /\ owner' = [owner EXCEPT !.task = None]
  /\ Goto(t, IF handoff_wanted THEN "handoff"
             ELSE IF wakeup_wanted THEN "wake" ELSE "out")
  /\ UNCHANGED <<wait_list, wait_lock, osq, mode, first, wake_q, state, sig>>
MutexUnlock(t) ==
  /\ pc[t] = "cs"
  /\ \/ /\ handoff_wanted
        /\ Goto(t, "handoff")
        /\ UNCHANGED owner
     \/ /\ ~handoff_wanted
        /\ owner' = [owner EXCEPT !.task = None]
        /\ Goto(t, IF wakeup_wanted THEN "wake" ELSE "out")
  /\ UNCHANGED <<wait_list, wait_lock, osq, mode, first, wake_q, state, sig>>

\* wake_q_add(): a task that is on another wake_q already is left there.
Queued == {wake_q[u] : u \in Tasks}
wake_unless_handoff(t, next) ==
  wake_q' = [wake_q EXCEPT ![t] = IF pc[t] = "handoff" THEN None ELSE next]
wake_q_add(t, next) ==
  wake_q' = [wake_q EXCEPT ![t] = IF next \in Queued THEN None ELSE next]

\* The section under wait_lock.
UnlockSlow(t) ==
  /\ pc[t] \in {"wake", "handoff"}
  /\ wait_lock = None
  /\ LET next == IF list_empty(wait_list) THEN None ELSE list_first_entry(wait_list)
     IN /\ wake_q_add(t, next)
        /\ owner' = IF pc[t] = "handoff" THEN handed_to(next) ELSE owner
  /\ Goto(t, "wake_up_q")
  /\ UNCHANGED <<wait_list, wait_lock, osq, mode, first, state, sig>>

\* wake_up_q(), after wait_lock was released.
WakeUpQ(t) ==
  /\ pc[t] = "wake_up_q"
  /\ state' = [u \in Tasks |-> IF u = wake_q[t] THEN wake_up_process(state[u])
                                                ELSE state[u]]
  /\ wake_q' = [wake_q EXCEPT ![t] = None]
  /\ Goto(t, "out")
  /\ UNCHANGED <<owner, wait_list, wait_lock, osq, mode, first, sig>>

-----------------------------------------------------------------------------
(* Signals, wherever the task is; it handles them outside the mutex code.   *)

SendSignal(t) ==
  /\ t \in Killed
  /\ sig[t] = "none"
  /\ \E s \in Kills :
       /\ sig' = [sig EXCEPT ![t] = s]
       /\ state' = [state EXCEPT ![t] = signal_wake_up_state(@, s)]
  /\ UNCHANGED <<owner, wait_list, wait_lock, osq, pc, mode, first, wake_q>>

HandleSignal(t) ==
  /\ pc[t] = "out"
  /\ sig[t] # "none"
  /\ sig' = [sig EXCEPT ![t] = "none"]
  /\ UNCHANGED <<owner, wait_list, wait_lock, osq, pc, mode, first, wake_q, state>>

\* The steps of a task that is inside a mutex function without wait_lock to
\* wait for, and those that wait for it.
RunStep(t) ==
  \/ SlowTrylock(t) \/ StartSpin(t) \/ Spin(t) \/ SpinOnOwner(t)
  \/ AddWaiter(t) \/ TryLocked(t) \/ CheckSignal(t)
  \/ Schedule(t) \/ SetState(t) \/ Retry(t)
  \/ WaiterSpin(t) \/ WaiterSpinOnOwner(t)
  \/ WakeUpQ(t)
WaitLockStep(t) ==
  LockWaitLock(t) \/ Relock(t) \/ Dequeue(t) \/ UnlockSlow(t)

Next ==
  \E t \in Tasks :
    \/ MutexLock(t) \/ MutexTrylock(t) \/ MutexUnlock(t)
    \/ RunStep(t) \/ WaitLockStep(t)
    \/ SendSignal(t) \/ HandleSignal(t)

\* A task that may run does; the queued spinlock wait_lock is FIFO, so whoever
\* waits for it gets it; spinning ends; holders unlock.
Fairness ==
  \A t \in Tasks :
    /\ WF_vars(RunStep(t))
    /\ SF_vars(WaitLockStep(t))
    /\ WF_vars(MutexUnlock(t))

Spec == Init /\ [][Next]_vars
FairSpec == Spec /\ Fairness

-----------------------------------------------------------------------------
(* Properties                                                               *)

OwnPC == {"got", "cs", "handoff"}

\* The owner word names the one task that took the mutex and has not given it
\* away, so no two tasks are in the critical section, whichever of the fast
\* path, the spinners, the sleepers and the handoff raced for it.
OwnerIsHolder ==
  \A t \in Tasks :
    pc[t] \in OwnPC <=> owner.task = t /\ "PICKUP" \notin owner.flags

\* A mutex that was handed off belongs to a queued waiter that will still try
\* to take it: it is never handed to a task that has left or is about to leave
\* with -EINTR.
HandoffIsPickedUp ==
  "PICKUP" \in owner.flags =>
    /\ owner.task \in Linked(wait_list)
    /\ pc[owner.task] \in WaitPC \ {"try", "check"}

\* lock->wait_list links exactly the waiters on the stacks of the tasks that
\* are inside __mutex_lock_common(), each once.
WaitersLive ==
  /\ Linked(wait_list) = {t \in Tasks : pc[t] \in WaitPC \cup {"got"}}
  /\ NoDup(wait_list)

\* "Bit0 indicates a non-empty waiter list; unlock must issue a wakeup", and
\* nobody asks for a handoff without being queued.
FlagsMatchQueue ==
  /\ "WAITERS" \in owner.flags <=> wait_list # <<>>
  /\ "HANDOFF" \in owner.flags => wait_list # <<>>

\* The unlocked mutex is never forgotten: its first waiter is running, is about
\* to be woken, or an unlock that will wake it is under way.
NoLostWakeup ==
  owner.task = None /\ wait_list # <<>> =>
    \/ \E u \in Tasks : pc[u] = "wake"
    \/ Head(wait_list) \in Queued
    \/ pc[Head(wait_list)] # "sched"
    \/ schedule_returns(state[Head(wait_list)], sig[Head(wait_list)])

\* "Bit1 indicates unlock needs to hand the lock to the top-waiter": once it is
\* set on a locked mutex, that lock is not stolen by a spinner.
HandoffHonoured ==
  [][/\ "HANDOFF" \in owner.flags
     /\ owner.task # None
     /\ owner'.task # owner.task
     => owner'.task = Head(wait_list)]_vars

\* Who holds the mutex, from its successful trylock to its mutex_unlock().
Holders == {t \in Tasks : pc[t] \in {"got", "cs"}}

Lock == INSTANCE AbstractLock WITH holders <- Holders

\* The mutex is an exclusive lock.
LockSpec == Lock!Spec

\* The task a mutex was handed to wakes up and takes it.
HandoffCompletes ==
  \A t \in Tasks :
    owner.task = t /\ "PICKUP" \in owner.flags ~> pc[t] = "cs"

\* While tasks wait, the mutex keeps being acquired or the waiters leave.
Progress ==
  (\E t \in Tasks : pc[t] \in EntryPC \cup WaitPC)
     ~> (\A t \in Tasks : pc[t] \notin EntryPC \cup WaitPC)
          \/ (\E t \in Tasks : pc[t] = "cs")
=============================================================================
