----------------------------- MODULE Completion -----------------------------
(***************************************************************************)
(* struct completion, kernel/sched/completion.c, on the simple wait queues *)
(* of kernel/sched/swait.c: how often the event has happened and not been  *)
(* consumed, and the tasks that wait for it.  Everything happens under     *)
(* x->wait.lock.  complete_all(), timeouts and interruptible waits are not *)
(* modelled: their callers are outside the modules that use this one.      *)
(***************************************************************************)
EXTENDS WaitList, TaskState

init_completion == [done |-> 0, wait |-> <<>>]

\* complete(): one more event; the first waiter is taken off the queue and
\* swake_up_locked() wakes it.
completed(x) ==
  [done |-> x.done + 1,
   wait |-> IF list_empty(x.wait) THEN x.wait ELSE Tail(x.wait)]
woken_by_complete(x) ==
  IF list_empty(x.wait) THEN {} ELSE {list_first_entry(x.wait)}

\* do_wait_for_common(): the task returns with an event, or queues itself, once,
\* and sleeps.  A completion on the stack is gone when its waiter has returned.
event_pending(x) == x.done # 0
queued(x, t) ==
  [x EXCEPT !.wait = IF t \in Linked(@) THEN @ ELSE list_add_tail(@, t)]
=============================================================================
