----------------------------- MODULE Semaphore -----------------------------
(***************************************************************************)
(* Counting semaphores, kernel/locking/semaphore.c.                        *)
(*                                                                         *)
(* Everything the functions read or write of the semaphore is protected by *)
(* the raw spinlock sem->lock, so each section between taking and          *)
(* releasing that lock is one action; a sleeping task releases it in       *)
(* schedule_timeout() and takes it again afterwards, and everything may    *)
(* happen in between.  A section that finds a signal before it sets the    *)
(* task state is the same as one that finds it in schedule(), because      *)
(* __schedule() tests signal_pending_state() again.                        *)
(***************************************************************************)
EXTENDS WaitList, TaskState

CONSTANTS
  Tasks,       \* the tasks that call down*() and up()
  InitCount,   \* the value given to sema_init()
  MaxSpareUps  \* bound: how many more up()s than down()s are explored

ASSUME SemaphoreAssumption ==
  /\ IsFiniteSet(Tasks)
  /\ InitCount \in Nat
  /\ MaxSpareUps \in Nat

VARIABLES
  count,       \* sem->count
  wait_list,   \* sem->wait_list, the tasks whose waiter is queued
  up,          \* waiter.up of the waiter on the task's stack
  pc,          \* where the task is: outside, sleeping in schedule_timeout()
  call,        \* the state argument of __down_common()
  timeout,     \* the timeout variable of __down_common()
  state,       \* task_struct::state
  sig,         \* pending signals of the task
  ret,         \* what the task's last call returned
  acquired     \* ghost: successful down*()s minus up()s

semVars  == <<count, wait_list, up>>
vars     == <<count, wait_list, up, pc, call, timeout, state, sig, ret, acquired>>

\* MAX_SCHEDULE_TIMEOUT never expires; "left" is any positive number of
\* jiffies and "expired" any number that is not positive.
Timeouts == {"max", "left", "expired"}
Results  == {"none", "ok", "EINTR", "ETIME", "busy"}

TypeOK ==
  /\ count \in Nat
  /\ wait_list \in Seq(Tasks)
  /\ up \in [Tasks -> BOOLEAN]
  /\ pc \in [Tasks -> {"out", "sleep"}]
  /\ call \in [Tasks -> SleepStates]
  /\ timeout \in [Tasks -> Timeouts]
  /\ state \in [Tasks -> TaskStates]
  /\ sig \in [Tasks -> Signals]
  /\ ret \in [Tasks -> Results]
  /\ acquired \in Int

Init ==
  /\ count = InitCount
  /\ wait_list = <<>>
  /\ up = [t \in Tasks |-> FALSE]
  /\ pc = [t \in Tasks |-> "out"]
  /\ call = [t \in Tasks |-> TASK_UNINTERRUPTIBLE]
  /\ timeout = [t \in Tasks |-> "max"]
  /\ state = [t \in Tasks |-> TASK_RUNNING]
  /\ sig = [t \in Tasks |-> "none"]
  /\ ret = [t \in Tasks |-> "none"]
  /\ acquired = 0

Waiters == Linked(wait_list)
Granted == {t \in Tasks : pc[t] = "sleep" /\ up[t]}

\* Is there a unit to take without waiting?
CanTake == count > 0

\* The queue without the waiter of t, and the waiter __up() serves.
WithoutWaiter(t) == list_del(wait_list, t)

LastWaiter == wait_list[Len(wait_list)]
FirstWaiter == list_first_entry(wait_list)

\* What a task that holds sem->lock after it slept takes for a grant.
grant_seen_after_signal(t, tmo) ==
  up[t] /\ ~signal_pending_state(call[t], sig[t]) /\ tmo # "expired"
grant_seen(t, tmo) == up[t]

-----------------------------------------------------------------------------
(* down(), down_interruptible(), down_killable() and down_timeout(): the    *)
(* same function but for the state and the timeout __down_common() gets.    *)

DownFast(t) ==
  /\ pc[t] = "out"
  /\ CanTake
  /\ count' = count - 1
  /\ acquired' = acquired + 1
  /\ ret' = [ret EXCEPT ![t] = "ok"]
  /\ UNCHANGED <<wait_list, up, pc, call, timeout, state, sig>>

\* One pass of the loop of __down_common() ends here when the task may sleep:
\* __set_current_state(), release the lock, schedule_timeout().
GoToSleep(t, st) ==
  /\ pc' = [pc EXCEPT ![t] = "sleep"]
  /\ state' = [state EXCEPT ![t] = st]

\* The function returns r, and its stack frame with the waiter is gone.
Return(t, r) ==
  /\ pc' = [pc EXCEPT ![t] = "out"]
  /\ state' = [state EXCEPT ![t] = TASK_RUNNING]
  /\ ret' = [ret EXCEPT ![t] = r]
  /\ up' = [up EXCEPT ![t] = FALSE]
  /\ call' = [call EXCEPT ![t] = TASK_UNINTERRUPTIBLE]
  /\ timeout' = [timeout EXCEPT ![t] = "max"]

\* The first pass of the loop: the waiter is queued, and a signal or a timeout
\* that is not positive takes it off again before the lock is released.
DownContended(t, st, tmo) ==
  /\ pc[t] = "out"
  /\ ~CanTake
  /\ \/ /\ signal_pending_state(st, sig[t])
        /\ Return(t, "EINTR")
        /\ UNCHANGED wait_list
     \/ /\ ~signal_pending_state(st, sig[t])
        /\ tmo = "expired"
        /\ Return(t, "ETIME")
        /\ UNCHANGED wait_list
     \/ /\ ~signal_pending_state(st, sig[t])
        /\ tmo # "expired"
        /\ wait_list' = list_add_tail(wait_list, t)
        /\ up' = [up EXCEPT ![t] = FALSE]
        /\ call' = [call EXCEPT ![t] = st]
        /\ timeout' = [timeout EXCEPT ![t] = tmo]
        /\ ret' = [ret EXCEPT ![t] = "none"]
        /\ GoToSleep(t, st)
  /\ UNCHANGED <<count, sig, acquired>>

\* Only down_timeout() has a finite timeout, and it sleeps uninterruptibly.
Down(t) ==
  \E st \in SleepStates, tmo \in Timeouts :
    /\ tmo # "max" => st = TASK_UNINTERRUPTIBLE
    /\ DownFast(t) \/ DownContended(t, st, tmo)

\* schedule_timeout() has returned and sem->lock is taken again.  A timeout
\* that was left may have run out meanwhile, whoever woke the task; the loop
\* then tests waiter.up, the signal and the timeout in this order.
WakeUp(t) ==
  /\ pc[t] = "sleep"
  /\ schedule_returns(state[t], sig[t])
  /\ \E tmo \in (IF timeout[t] = "left" THEN {"left", "expired"} ELSE {timeout[t]}) :
       \/ /\ grant_seen(t, tmo)
          /\ Return(t, "ok")
          /\ acquired' = acquired + 1
          /\ UNCHANGED wait_list
       \/ /\ ~grant_seen(t, tmo)
          /\ signal_pending_state(call[t], sig[t])
          /\ Return(t, "EINTR")
          /\ wait_list' = WithoutWaiter(t)
          /\ UNCHANGED acquired
       \/ /\ ~grant_seen(t, tmo)
          /\ ~signal_pending_state(call[t], sig[t])
          /\ tmo = "expired"
          /\ Return(t, "ETIME")
          /\ wait_list' = WithoutWaiter(t)
          /\ UNCHANGED acquired
       \/ /\ ~grant_seen(t, tmo)
          /\ ~signal_pending_state(call[t], sig[t])
          /\ tmo # "expired"
          /\ timeout' = [timeout EXCEPT ![t] = tmo]
          /\ GoToSleep(t, call[t])
          /\ UNCHANGED <<wait_list, up, call, ret, acquired>>
  /\ UNCHANGED <<count, sig>>

DownTrylock(t) ==
  /\ pc[t] = "out"
  /\ \/ /\ CanTake
        /\ count' = count - 1
        /\ acquired' = acquired + 1
        /\ ret' = [ret EXCEPT ![t] = "ok"]
     \/ /\ ~CanTake
        /\ ret' = [ret EXCEPT ![t] = "busy"]
        /\ UNCHANGED <<count, acquired>>
  /\ UNCHANGED <<wait_list, up, pc, call, timeout, state, sig>>

\* __up(): the first waiter gets the unit, sem->count is not touched.
UpAndCount ==
  /\ wait_list' = WithoutWaiter(FirstWaiter)
  /\ up' = [up EXCEPT ![FirstWaiter] = TRUE]
  /\ state' = [state EXCEPT ![FirstWaiter] = wake_up_process(@)]
  /\ count' = count + 1
UpWaiter ==
  /\ wait_list' = WithoutWaiter(FirstWaiter)
  /\ up' = [up EXCEPT ![FirstWaiter] = TRUE]
  /\ state' = [state EXCEPT ![FirstWaiter] = wake_up_process(@)]
  /\ UNCHANGED count

\* up() "may be called from any context and even by tasks which have never
\* called down()": the caller is not part of the state.
Up ==
  /\ acquired > -MaxSpareUps
  /\ acquired' = acquired - 1
  /\ \/ /\ list_empty(wait_list)
        /\ count' = count + 1
        /\ UNCHANGED <<wait_list, up, state>>
     \/ /\ ~list_empty(wait_list)
        /\ UpWaiter
  /\ UNCHANGED <<pc, call, timeout, sig, ret>>

\* The timer of schedule_timeout() fires: process_timeout() wakes the task.
TimerExpires(t) ==
  /\ pc[t] = "sleep"
  /\ timeout[t] = "left"
  /\ timeout' = [timeout EXCEPT ![t] = "expired"]
  /\ state' = [state EXCEPT ![t] = wake_up_process(@)]
  /\ UNCHANGED <<semVars, pc, call, sig, ret, acquired>>

\* A signal is sent to the task, wherever it is.
SendSignal(t) ==
  /\ \E s \in {"pending", "fatal"} :
       /\ sig[t] = "none" \/ (sig[t] = "pending" /\ s = "fatal")
       /\ sig' = [sig EXCEPT ![t] = s]
       /\ state' = [state EXCEPT ![t] = signal_wake_up_state(@, s)]
  /\ UNCHANGED <<semVars, pc, call, timeout, ret, acquired>>

\* Outside the semaphore functions the task handles its signals.
HandleSignal(t) ==
  /\ pc[t] = "out"
  /\ sig[t] # "none"
  /\ sig' = [sig EXCEPT ![t] = "none"]
  /\ UNCHANGED <<semVars, pc, call, timeout, state, ret, acquired>>

Next ==
  \/ \E t \in Tasks :
       \/ Down(t)
       \/ WakeUp(t)
       \/ DownTrylock(t)
       \/ TimerExpires(t)
       \/ SendSignal(t)
       \/ HandleSignal(t)
  \/ Up

\* A task that may run does run, a timer that was armed fires, and whoever
\* acquired the semaphore releases it.
Fairness ==
  /\ \A t \in Tasks : WF_vars(WakeUp(t)) /\ WF_vars(TimerExpires(t))
  /\ WF_vars(acquired > 0 /\ Up)

Spec == Init /\ [][Next]_vars
FairSpec == Spec /\ Fairness

-----------------------------------------------------------------------------
(* Properties                                                               *)

\* No unit of the semaphore is lost or made up, whatever signals, timeouts and
\* up()s race: what is free, what up() has passed to a waiter that has not
\* returned yet and what callers hold add up to the initial count.
Conservation == count + Cardinality(Granted) + acquired = InitCount

\* "If it's zero, there may be tasks waiting on the wait_list": and only then.
\* A free unit is never left beside a queued waiter, so a new down() cannot
\* overtake the queue and no waiter sleeps while the semaphore is available.
NoFreeUnitWhileWaiting == wait_list # <<>> => count = 0

\* sem->wait_list links exactly the waiters on the stacks of the tasks that are
\* inside __down_common() and were not granted: none dangles after its function
\* returned, none is linked twice, and none sleeps unlinked.
QueuedWaitersLive ==
  /\ Waiters = {t \in Tasks : pc[t] = "sleep" /\ ~up[t]}
  /\ NoDup(wait_list)

\* A waiter to which __up() has passed the unit returns 0, even when a signal
\* arrived or its timeout ran out in the meantime: the unit is not dropped.
GrantIsKept ==
  [][\A t \in Granted : pc'[t] = "out" => ret'[t] = "ok"]_vars

\* Units are passed in the order in which the waiters were queued.
FifoGrant ==
  [][\A i, j \in DOMAIN wait_list :
       i < j /\ wait_list[j] \in Granted' => wait_list[i] \notin Waiters']_vars

\* Every down*() that sleeps returns, as long as holders release.
DownReturns == \A t \in Tasks : pc[t] = "sleep" ~> pc[t] = "out"

=============================================================================
