------------------------------ MODULE OsqLock ------------------------------
(***************************************************************************)
(* The cancellable MCS lock of the optimistic spinners,                    *)
(* kernel/locking/osq_lock.c.                                              *)
(*                                                                         *)
(* Every access to lock->tail and to a field of another CPU's node is one  *)
(* action.  Nodes are static per-CPU storage with preemption disabled, so  *)
(* a CPU is in one call at a time, and its node is reused by its next one. *)
(***************************************************************************)
CONSTANTS
  CPUs,  \* the CPUs, and so the nodes
  None   \* OSQ_UNLOCKED_VAL, and the NULL node

ASSUME OsqAssumption == None \notin CPUs

VARIABLES
  tail,    \* lock->tail
  next,    \* node->next
  prev,    \* node->prev
  locked,  \* node->locked
  pc,      \* where each CPU is
  lprev,   \* the local variable prev of osq_lock() and osq_wait_next()
  lnext    \* the local variable next

vars == <<tail, next, prev, locked, pc, lprev, lnext>>

PCs == {"out", "xchg", "link", "wait", "A", "A_locked", "A_prev",
        "next_tail", "next_xchg", "C_prev", "C_next", "held", "unlock", "grant"}

TypeOK ==
  /\ tail \in CPUs \cup {None}
  /\ next \in [CPUs -> CPUs \cup {None}]
  /\ prev \in [CPUs -> CPUs \cup {None}]
  /\ locked \in [CPUs -> BOOLEAN]
  /\ pc \in [CPUs -> PCs]
  /\ lprev \in [CPUs -> CPUs \cup {None}]
  /\ lnext \in [CPUs -> CPUs \cup {None}]
  \* What is about to be dereferenced is not NULL.
  /\ \A c \in CPUs :
       /\ pc[c] \in {"link", "A", "C_prev", "C_next"} => lprev[c] # None
       /\ pc[c] \in {"C_prev", "C_next", "grant"} => lnext[c] # None

Init ==
  /\ tail = None
  /\ next = [c \in CPUs |-> None]
  /\ prev = [c \in CPUs |-> None]
  /\ locked = [c \in CPUs |-> FALSE]
  /\ pc = [c \in CPUs |-> "out"]
  /\ lprev = [c \in CPUs |-> None]
  /\ lnext = [c \in CPUs |-> None]

Goto(c, l) == pc' = [pc EXCEPT ![c] = l]

\* The call is over; its locals are dead.
Return(c, l) ==
  /\ Goto(c, l)
  /\ lprev' = [lprev EXCEPT ![c] = None]
  /\ lnext' = [lnext EXCEPT ![c] = None]

-----------------------------------------------------------------------------
(* osq_lock()                                                               *)

\* The fields a call starts with.
stale_locked(c) == locked' = locked
init_locked(c) == locked' = [locked EXCEPT ![c] = FALSE]

InitNode(c) ==
  /\ pc[c] = "out"
  /\ init_locked(c)
  /\ next' = [next EXCEPT ![c] = None]
  /\ Goto(c, "xchg")
  /\ UNCHANGED <<tail, prev, lprev, lnext>>

\* atomic_xchg(&lock->tail, curr); nobody sees node->prev before the link.
XchgTail(c) ==
  /\ pc[c] = "xchg"
  /\ tail' = c
  /\ \/ /\ tail = None
        /\ Return(c, "held")
        /\ UNCHANGED prev
     \/ /\ tail # None
        /\ lprev' = [lprev EXCEPT ![c] = tail]
        /\ prev' = [prev EXCEPT ![c] = tail]
        /\ Goto(c, "link")
        /\ UNCHANGED lnext
  /\ UNCHANGED <<next, locked>>

Link(c) ==
  /\ pc[c] = "link"
  /\ next' = [next EXCEPT ![lprev[c]] = c]
  /\ Goto(c, "wait")
  /\ UNCHANGED <<tail, prev, locked, lprev, lnext>>

\* The wait ends with the lock, or at any time because of need_resched() or
\* vcpu_is_preempted().
Wait(c) ==
  /\ pc[c] = "wait"
  /\ \/ locked[c] /\ Return(c, "held")
     \/ ~locked[c] /\ Goto(c, "A") /\ UNCHANGED <<lprev, lnext>>
  /\ UNCHANGED <<tail, next, prev, locked>>

-----------------------------------------------------------------------------
(* Unqueueing.                                                              *)

\* Step A: undo prev->next = node.
left_in_prev(c) == UNCHANGED next
undo_link(c) == next' = [next EXCEPT ![lprev[c]] = None]

StepA(c) ==
  /\ pc[c] = "A"
  /\ \/ /\ next[lprev[c]] = c
        /\ undo_link(c)
        /\ Goto(c, "next_tail")
     \/ /\ next[lprev[c]] # c
        /\ Goto(c, "A_locked")
        /\ UNCHANGED next
  /\ UNCHANGED <<tail, prev, locked, lprev, lnext>>

\* The cmpxchg failed: an unlock may have passed the lock,
StepALocked(c) ==
  /\ pc[c] = "A_locked"
  /\ \/ locked[c] /\ Return(c, "held")
     \/ ~locked[c] /\ Goto(c, "A_prev") /\ UNCHANGED <<lprev, lnext>>
  /\ UNCHANGED <<tail, next, prev, locked>>

\* or the previous node is unqueueing and gives this one a new prev.
StepAPrev(c) ==
  /\ pc[c] = "A_prev"
  /\ lprev' = [lprev EXCEPT ![c] = prev[c]]
  /\ Goto(c, "A")
  /\ UNCHANGED <<tail, next, prev, locked, lnext>>

\* osq_wait_next(), step B of unqueueing and the end of osq_unlock(): move the
\* tail back if this node is the last,
WaitNextTail(c) ==
  /\ pc[c] = "next_tail"
  /\ \/ /\ tail = c
        /\ tail' = lprev[c]
        /\ Return(c, "out")
     \/ /\ tail # c
        /\ Goto(c, "next_xchg")
        /\ UNCHANGED <<tail, lprev, lnext>>
  /\ UNCHANGED <<next, prev, locked>>

\* or take node->next away, so that the next node cannot complete its step A.
has_next(c) == next[c] # None

next_left_in(c) == UNCHANGED next
take_next(c) == next' = [next EXCEPT ![c] = None]

WaitNextXchg(c) ==
  /\ pc[c] = "next_xchg"
  /\ \/ /\ has_next(c)
        /\ lnext' = [lnext EXCEPT ![c] = next[c]]
        /\ take_next(c)
        /\ Goto(c, IF lprev[c] = None THEN "grant" ELSE "C_prev")
     \/ /\ ~has_next(c)
        /\ Goto(c, "next_tail")
        /\ UNCHANGED <<next, lnext>>
  /\ UNCHANGED <<tail, prev, locked, lprev>>

\* Step C: unlink, first next->prev and then prev->next.
StepCPrev(c) ==
  /\ pc[c] = "C_prev"
  /\ prev' = [prev EXCEPT ![lnext[c]] = lprev[c]]
  /\ Goto(c, "C_next")
  /\ UNCHANGED <<tail, next, locked, lprev, lnext>>

forget_relink(c) == UNCHANGED next
relink(c) == next' = [next EXCEPT ![lprev[c]] = lnext[c]]

StepCNext(c) ==
  /\ pc[c] = "C_next"
  /\ relink(c)
  /\ Return(c, "out")
  /\ UNCHANGED <<tail, prev, locked>>

-----------------------------------------------------------------------------
(* osq_unlock()                                                             *)

\* The cmpxchg of the fast path.
last_in_queue(c) == tail = c

Unlock(c) ==
  /\ pc[c] = "held"
  /\ \/ last_in_queue(c) /\ tail' = None /\ Goto(c, "out")
     \/ ~last_in_queue(c) /\ Goto(c, "unlock") /\ UNCHANGED tail
  /\ UNCHANGED <<next, prev, locked, lprev, lnext>>

UnlockXchg(c) ==
  /\ pc[c] = "unlock"
  /\ lnext' = [lnext EXCEPT ![c] = next[c]]
  /\ take_next(c)
  /\ Goto(c, IF has_next(c) THEN "grant" ELSE "next_tail")
  /\ UNCHANGED <<tail, prev, locked, lprev>>

Grant(c) ==
  /\ pc[c] = "grant"
  /\ locked' = [locked EXCEPT ![lnext[c]] = TRUE]
  /\ Return(c, "out")
  /\ UNCHANGED <<tail, next, prev>>

-----------------------------------------------------------------------------

\* The steps of a CPU inside a call.
Step(c) ==
  \/ XchgTail(c) \/ Link(c)
  \/ (Wait(c) /\ locked[c])
  \/ StepA(c) \/ StepALocked(c) \/ StepAPrev(c)
  \/ WaitNextTail(c) \/ WaitNextXchg(c) \/ StepCPrev(c) \/ StepCNext(c)
  \/ UnlockXchg(c) \/ Grant(c)

Next == \E c \in CPUs : InitNode(c) \/ Wait(c) \/ Unlock(c) \/ Step(c)

\* A CPU that spins goes on, and the holder unlocks; need_resched() may never
\* come, so nobody is obliged to cancel.
Fairness == \A c \in CPUs : WF_vars(Step(c)) /\ WF_vars(Unlock(c))

Spec == Init /\ [][Next]_vars
FairSpec == Spec /\ Fairness

-----------------------------------------------------------------------------
(* Properties                                                               *)

Queued == {"link", "wait", "A", "A_locked", "A_prev", "next_tail", "next_xchg",
           "C_prev", "C_next", "held", "unlock", "grant"}

\* A successful osq_lock() excludes every other one, however many waiters
\* unqueued themselves at the same time.
Lock == INSTANCE AbstractLock WITH
  Tasks <- CPUs, holders <- {c \in CPUs : pc[c] = "held"}
LockSpec == Lock!Spec

\* "@prev is stable because its still waiting for a new @prev->next pointer,
\* @next is stable because our @node->next pointer is NULL": whoever writes to
\* another CPU's node, in linking behind it, in step C or in passing the lock on,
\* writes to one that is still in the queue, not to one that left and may be in
\* use again.  The cmpxchg of step A may meet such a node: it then does nothing.
NeighboursStable ==
  \A c \in CPUs :
    /\ pc[c] \in {"link", "C_prev", "C_next"} => pc[lprev[c]] \in Queued
    /\ pc[c] \in {"C_prev", "C_next", "grant"} =>
         pc[lnext[c]] \in {"wait", "A", "A_locked", "A_prev"}

\* A forward link is never ahead of its backward link: a node that finds itself
\* in prev->next has the prev to move the tail back to.
LinkedBothWays ==
  \A c, d \in CPUs : next[c] = d /\ pc[c] \in Queued => prev[d] = c

\* Once new calls stop arriving, every osq_lock() returns, with the lock or
\* without it, and so does every osq_unlock(): cancelling neighbours never wait
\* for each other.  While CPUs keep queueing and cancelling behind it, a CPU in
\* osq_wait_next() may see neither its tail nor its next for as long as they do.
CallsReturn ==
  <>[](\A c \in CPUs : pc[c] # "xchg")
    => \A c \in CPUs : pc[c] \in Queued ~> pc[c] \in {"out", "held"}
=============================================================================
