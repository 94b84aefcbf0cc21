------------------------------ MODULE RcuSync ------------------------------
(***************************************************************************)
(* rcu_sync: updaters that force readers off their fast path,              *)
(* kernel/rcu/sync.c.                                                      *)
(*                                                                         *)
(* RCU itself is external and modelled by its guarantee: a grace period    *)
(* that starts waits for the read-side sections in progress and for no     *)
(* later one.  What happens under rss_lock, which is also the lock of the  *)
(* wait queue gp_wait, is one action.  The specification is named for what *)
(* it specifies, so that the users of rcu_sync can extend this module.     *)
(***************************************************************************)
EXTENDS Naturals, FiniteSets

CONSTANTS
  Readers,   \* who calls rcu_sync_is_idle()
  Updaters   \* who calls rcu_sync_enter() and rcu_sync_exit()

ASSUME RcuSyncAssumption == IsFiniteSet(Readers) /\ IsFiniteSet(Updaters)

VARIABLES
  gp_state, gp_count,  \* the fields of struct rcu_sync
  gp_wait,    \* the updaters queued on rsp->gp_wait
  cb_queued,  \* rsp->cb_head is queued with call_rcu()
  cb_waits,   \* the readers its grace period still waits for
  gp_waits,   \* the readers each synchronize_rcu() still waits for
  rpc,        \* readers: outside, in a section, on the fast or the slow path
  upc,        \* updaters: where in rcu_sync_enter()
  phase,      \* of the object: live, being destroyed, destroyed
  barrier,    \* rcu_barrier() waits for the callback
  unsynced    \* history: readers whose section began before the last exit

rssVars == <<gp_state, gp_count, gp_wait>>
rcuVars == <<cb_queued, cb_waits, gp_waits>>
syncVars == <<rssVars, rcuVars, rpc, upc, phase, barrier, unsynced>>

GpStates == {"IDLE", "ENTER", "PASSED", "EXIT", "REPLAY"}
InSection == {"section", "fast", "slow"}
InCall == {"synchronize", "func", "wait", "prepare", "check", "sleep", "entered"}

SyncTypeOK ==
  /\ gp_state \in GpStates
  /\ gp_count \in Nat
  /\ gp_wait \subseteq Updaters
  /\ cb_queued \in BOOLEAN
  /\ cb_waits \subseteq Readers
  /\ gp_waits \in [Updaters -> SUBSET Readers]
  /\ rpc \in [Readers -> InSection \cup {"out"}]
  /\ upc \in [Updaters -> InCall \cup {"out"}]
  /\ phase \in {"live", "dtor", "dead"}
  /\ barrier \in BOOLEAN
  /\ unsynced \subseteq Readers

Section == {r \in Readers : rpc[r] \in InSection}

\* After rcu_sync_init(), and possibly rcu_sync_enter_start(), whose enter has
\* no exit.
SyncInit ==
  /\ \/ gp_state = "IDLE" /\ gp_count = 0
     \/ gp_state = "PASSED" /\ gp_count = 1
  /\ gp_wait = {}
  /\ cb_queued = FALSE
  /\ cb_waits = {}
  /\ gp_waits = [u \in Updaters |-> {}]
  /\ rpc = [r \in Readers |-> "out"]
  /\ upc = [u \in Updaters |-> "out"]
  /\ phase = "live"
  /\ barrier = FALSE
  /\ unsynced = {}

UpdaterGoto(u, l) == upc' = [upc EXCEPT ![u] = l]

-----------------------------------------------------------------------------
(* Readers, in an RCU section with preemption disabled.                     *)

SectionBegin(r) ==
  /\ phase = "live"
  /\ rpc[r] = "out"
  /\ rpc' = [rpc EXCEPT ![r] = "section"]
  /\ UNCHANGED <<rssVars, rcuVars, upc, phase, barrier, unsynced>>

rcu_sync_is_idle == gp_state = "IDLE"

ReadIdle(r) ==
  /\ rpc[r] = "section"
  /\ rpc' = [rpc EXCEPT ![r] = IF rcu_sync_is_idle THEN "fast" ELSE "slow"]
  /\ UNCHANGED <<rssVars, rcuVars, upc, phase, barrier, unsynced>>

\* The grace periods that waited for the section no longer do.
SectionEnd(r) ==
  /\ rpc[r] \in {"fast", "slow"}
  /\ rpc' = [rpc EXCEPT ![r] = "out"]
  /\ cb_waits' = cb_waits \ {r}
  /\ gp_waits' = [u \in Updaters |-> gp_waits[u] \ {r}]
  /\ unsynced' = unsynced \ {r}
  /\ UNCHANGED <<rssVars, cb_queued, upc, phase, barrier>>

-----------------------------------------------------------------------------
(* The callback.                                                            *)

\* rcu_sync_call()
rcu_sync_call == cb_queued' = TRUE /\ cb_waits' = Section

not_requeued == cb_queued' = FALSE /\ cb_waits' = {}
requeued == rcu_sync_call

somebody_entered == gp_count > 0

nobody_woken == UNCHANGED gp_wait
wake_up_locked == gp_wait' = {}

\* rcu_sync_func(), with queued telling whether cb_head is queued when it is
\* called.  wake_up_locked() wakes all who wait and takes them off the queue.
rcu_sync_func(queued) ==
  \/ /\ somebody_entered
     /\ gp_state' = "PASSED"
     /\ wake_up_locked
     /\ cb_queued' = queued
     /\ UNCHANGED cb_waits
  \/ /\ ~somebody_entered
     /\ gp_state = "REPLAY"
     /\ gp_state' = "EXIT"
     /\ requeued
     /\ UNCHANGED gp_wait
  \/ /\ ~somebody_entered
     /\ gp_state # "REPLAY"
     /\ gp_state' = "IDLE"
     /\ cb_queued' = queued
     /\ UNCHANGED <<gp_wait, cb_waits>>

\* RCU takes cb_head off its list and then invokes it.
Callback ==
  /\ cb_queued
  /\ cb_waits = {}
  /\ rcu_sync_func(FALSE)
  /\ barrier' = FALSE
  /\ UNCHANGED <<gp_count, gp_waits, rpc, upc, phase, unsynced>>

-----------------------------------------------------------------------------
(* rcu_sync_enter()                                                         *)

count_enter == gp_count' = gp_count + 1

Enter(u) ==
  /\ phase = "live"
  /\ upc[u] = "out"
  /\ count_enter
  /\ \/ /\ gp_state = "IDLE"
        /\ gp_state' = "ENTER"
        /\ gp_waits' = [gp_waits EXCEPT ![u] = Section]
        /\ UpdaterGoto(u, "synchronize")
     \/ /\ gp_state # "IDLE"
        /\ UpdaterGoto(u, "wait")
        /\ UNCHANGED <<gp_state, gp_waits>>
  /\ UNCHANGED <<gp_wait, cb_queued, cb_waits, rpc, phase, barrier, unsynced>>

\* synchronize_rcu() returns.
Synchronized(u) ==
  /\ upc[u] = "synchronize"
  /\ gp_waits[u] = {}
  /\ UpdaterGoto(u, "func")
  /\ UNCHANGED <<rssVars, rcuVars, rpc, phase, barrier, unsynced>>

\* The updater calls rcu_sync_func() itself.
EnterFunc(u) ==
  /\ upc[u] = "func"
  /\ rcu_sync_func(cb_queued)
  /\ UpdaterGoto(u, "entered")
  /\ UNCHANGED <<gp_count, gp_waits, rpc, phase, barrier, unsynced>>

\* wait_event(rsp->gp_wait, rsp->gp_state >= GP_PASSED): test, then queue and
\* set the task state, test again, sleep.
passed_or_entering == gp_state # "IDLE"
passed == gp_state \in {"PASSED", "EXIT", "REPLAY"}

WaitEvent(u) ==
  /\ upc[u] \in {"wait", "check"}
  /\ \/ /\ passed
        /\ gp_wait' = gp_wait \ {u}
        /\ UpdaterGoto(u, "entered")
     \/ /\ ~passed
        /\ UpdaterGoto(u, IF upc[u] = "wait" THEN "prepare" ELSE "sleep")
        /\ UNCHANGED gp_wait
  /\ UNCHANGED <<gp_state, gp_count, rcuVars, rpc, phase, barrier, unsynced>>

\* prepare_to_wait_event()
PrepareToWait(u) ==
  /\ upc[u] = "prepare"
  /\ gp_wait' = gp_wait \cup {u}
  /\ UpdaterGoto(u, "check")
  /\ UNCHANGED <<gp_state, gp_count, rcuVars, rpc, phase, barrier, unsynced>>

\* schedule() returns once a wakeup took the updater off the queue.
WokenUp(u) ==
  /\ upc[u] = "sleep"
  /\ u \notin gp_wait
  /\ UpdaterGoto(u, "prepare")
  /\ UNCHANGED <<rssVars, rcuVars, rpc, phase, barrier, unsynced>>

-----------------------------------------------------------------------------
(* rcu_sync_exit() and rcu_sync_dtor()                                      *)

exit_in_progress_ignored == gp_state # "PASSED" /\ UNCHANGED <<gp_state, cb_queued, cb_waits>>
exit_again ==
  \/ gp_state = "EXIT" /\ gp_state' = "REPLAY" /\ UNCHANGED <<cb_queued, cb_waits>>
  \/ gp_state \notin {"PASSED", "EXIT"} /\ UNCHANGED <<gp_state, cb_queued, cb_waits>>

Exit(u) ==
  /\ upc[u] = "entered"
  /\ gp_count' = gp_count - 1
  /\ \/ /\ gp_count = 1
        /\ \/ gp_state = "PASSED" /\ gp_state' = "EXIT" /\ rcu_sync_call
           \/ exit_again
        /\ unsynced' = Section
     \/ /\ gp_count # 1
        /\ UNCHANGED <<gp_state, cb_queued, cb_waits, unsynced>>
  /\ UpdaterGoto(u, "out")
  /\ UNCHANGED <<gp_wait, gp_waits, rpc, phase, barrier>>

\* Nobody uses the object any more, and every enter was matched by an exit.
leave_replay == UNCHANGED gp_state
cancel_replay ==
  gp_state' = IF gp_state = "REPLAY" THEN "EXIT" ELSE gp_state

Dtor ==
  /\ phase = "live"
  /\ gp_count = 0
  /\ \A u \in Updaters : upc[u] = "out"
  /\ \A r \in Readers : rpc[r] = "out"
  /\ cancel_replay
  /\ phase' = IF gp_state = "IDLE" THEN "dead" ELSE "dtor"
  /\ barrier' = cb_queued
  /\ UNCHANGED <<gp_count, gp_wait, rcuVars, rpc, upc, unsynced>>

\* rcu_barrier() waits for the callbacks that were queued when it was called.
Barrier ==
  /\ phase = "dtor"
  /\ ~barrier
  /\ phase' = "dead"
  /\ UNCHANGED <<rssVars, rcuVars, rpc, upc, barrier, unsynced>>

\* The memory is used for a new object.
Reinit ==
  /\ phase = "dead"
  /\ phase' = "live"
  /\ gp_state' = "IDLE"
  /\ gp_count' = 0
  /\ UNCHANGED <<gp_wait, rcuVars, rpc, upc, barrier, unsynced>>

-----------------------------------------------------------------------------

EnterStep(u) ==
  Synchronized(u) \/ EnterFunc(u) \/ WaitEvent(u) \/ PrepareToWait(u) \/ WokenUp(u)
SectionStep(r) == ReadIdle(r) \/ SectionEnd(r)

SyncNext ==
  \/ \E r \in Readers : SectionBegin(r) \/ SectionStep(r)
  \/ \E u \in Updaters : Enter(u) \/ EnterStep(u) \/ Exit(u)
  \/ Callback \/ Dtor \/ Barrier \/ Reinit

\* Updaters inside a call run on, sections end and so grace periods do, and RCU
\* invokes its callbacks.
SyncFairness ==
  /\ \A r \in Readers : WF_syncVars(SectionStep(r))
  /\ \A u \in Updaters : WF_syncVars(EnterStep(u))
  /\ WF_syncVars(Callback)

SyncSpec == SyncInit /\ [][SyncNext]_syncVars
SyncFairSpec == SyncSpec /\ SyncFairness

-----------------------------------------------------------------------------
(* Properties                                                               *)

\* "After this function returns, all subsequent calls to rcu_sync_is_idle()
\* will return false": between rcu_sync_enter() and rcu_sync_exit() no reader
\* is on its fast path or can still get there.
SlowWhileEntered ==
  \A u \in Updaters :
    upc[u] = "entered" =>
      /\ ~rcu_sync_is_idle
      /\ \A r \in Readers : rpc[r] # "fast"

\* The WARN_ON_ONCE()s of the file: rcu_sync_func() finds neither GP_IDLE nor
\* GP_PASSED, rcu_sync_enter() no count in GP_IDLE, rcu_sync_exit() neither
\* GP_IDLE nor a zero count, rcu_sync_dtor() no GP_PASSED without a count.
NoWarning ==
  /\ cb_queued \/ (\E u \in Updaters : upc[u] \in {"synchronize", "func"})
       => gp_state \notin {"IDLE", "PASSED"}
  /\ gp_state = "IDLE" => gp_count = 0
  /\ gp_state = "PASSED" => gp_count > 0
  /\ (\E u \in Updaters : upc[u] = "entered") => gp_count > 0

\* cb_head is queued exactly in GP_EXIT and GP_REPLAY, so that it is never
\* queued a second time while it is queued, nor left queued by a dead object.
CallbackMatchesState ==
  /\ cb_queued <=> gp_state \in {"EXIT", "REPLAY"}
  /\ phase = "dead" => ~cb_queued /\ gp_state = "IDLE"

\* Readers go back to the fast path "at least a GP after the last
\* rcu_sync_exit()": no section that was running then, and may have missed the
\* update, is still running.
FastAfterGrace ==
  [][gp_state # "IDLE" /\ gp_state' = "IDLE" => unsynced = {}]_syncVars

\* rcu_sync_enter() returns: a waiter is woken when the one grace period that
\* all of them wait for has passed.
EnterReturns ==
  \A u \in Updaters : upc[u] \notin {"out", "entered"} ~> upc[u] = "entered"

\* When updaters stay away the fast path comes back, unless the object was set
\* up never to use it.
FastPathReturns ==
  gp_count = 0 /\ <>[](\A u \in Updaters : upc[u] = "out") => <>[](gp_state = "IDLE")
=============================================================================
