----------------------------- MODULE TaskState -----------------------------
(***************************************************************************)
(* The part of the scheduler and of signal delivery that the sleeping      *)
(* locks are written against: task_struct::state as a set of state bits,   *)
(* what wakes a task, and when schedule() does not put a task to sleep.    *)
(* A task that is about to sleep sets its state, and schedule() blocks it  *)
(* for as long as the state is not TASK_RUNNING; a wakeup is the store of  *)
(* TASK_RUNNING, so one that arrives between set_current_state() and       *)
(* schedule() is not lost.                                                 *)
(***************************************************************************)

TASK_RUNNING         == {}
TASK_INTERRUPTIBLE   == {"INTERRUPTIBLE"}
TASK_UNINTERRUPTIBLE == {"UNINTERRUPTIBLE"}
TASK_WAKEKILL        == {"WAKEKILL"}
TASK_KILLABLE        == TASK_WAKEKILL \cup TASK_UNINTERRUPTIBLE
TASK_NORMAL          == TASK_INTERRUPTIBLE \cup TASK_UNINTERRUPTIBLE

\* The states a locking function may sleep in.
SleepStates == {TASK_INTERRUPTIBLE, TASK_UNINTERRUPTIBLE, TASK_KILLABLE}
TaskStates  == SleepStates \cup {TASK_RUNNING}

\* What signal_pending() and __fatal_signal_pending() tell apart.
Signals == {"none", "pending", "fatal"}

signal_pending_state(state, sig) ==
  /\ state \cap (TASK_INTERRUPTIBLE \cup TASK_WAKEKILL) # {}
  /\ sig # "none"
  /\ TASK_INTERRUPTIBLE \subseteq state \/ sig = "fatal"

\* The state of the woken task: unchanged unless it sleeps in a state of mask.
try_to_wake_up(state, mask) ==
  IF state \cap mask # {} THEN TASK_RUNNING ELSE state

wake_up_nobody(state) == state
wake_up_process(state) == try_to_wake_up(state, TASK_NORMAL)

\* A fatal signal is delivered with TASK_WAKEKILL, any other with 0.
signal_wake_up_state(state, sig) ==
  try_to_wake_up(state, (IF sig = "fatal" THEN TASK_WAKEKILL ELSE {})
                          \cup TASK_INTERRUPTIBLE)

\* schedule() returns to the task: somebody woke it, or it never slept
\* because a signal it listens to is pending.
schedule_returns(state, sig) ==
  state = TASK_RUNNING \/ signal_pending_state(state, sig)
=============================================================================
