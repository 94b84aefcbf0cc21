----------------------------- MODULE QSpinLock -----------------------------
(***************************************************************************)
(* The queued spinlock: kernel/locking/qspinlock.c (the native path, with  *)
(* an 8-bit pending field) and include/asm-generic/qspinlock.h.            *)
(*                                                                         *)
(* Every access to the lock word and to an MCS node is one action.  Who    *)
(* locks is a context: a CPU at a nesting level (task, softirq, hardirq,   *)
(* nmi).  A context that interrupts another runs to its unlock before the  *)
(* lower one continues, and both take their nodes from the CPU's qnodes[]. *)
(***************************************************************************)
EXTENDS Naturals

CONSTANTS
  CPUs,
  Levels,     \* nesting levels: an initial segment of 1, 2, ...
  Locks,
  LockLevel,  \* the highest level each lock is used from
  MAX_NODES,  \* nodes per CPU
  Outer,      \* how many nodes contexts below these levels may occupy, queued
              \* on other locks while the contexts of this model run
  None        \* the NULL node, and the empty tail

ASSUME QSpinAssumption ==
  /\ Levels \subseteq Nat
  /\ MAX_NODES \in Nat \ {0}
  /\ None \notin CPUs \X (0 .. MAX_NODES - 1)
  /\ Outer \subseteq 0 .. MAX_NODES
  /\ LockLevel \in [Locks -> Levels]

Contexts == CPUs \X Levels
Nodes == CPUs \X (0 .. MAX_NODES - 1)

VARIABLES
  val,         \* lock->val of each lock
  next,        \* node->next
  mcs_locked,  \* node->locked
  count,       \* qnodes[0].mcs.count of each CPU
  pc,          \* where each context is
  lock,        \* the lock it is called with
  idx,         \* the local variable idx
  lprev,       \* the local variable prev
  lnext        \* the local variable next

vars == <<val, next, mcs_locked, count, pc, lock, idx, lprev, lnext>>

PCs == {"idle", "handover", "set_pending", "undo", "wait_owner", "take_over",
        "queue", "no_node", "init", "retry", "xchg", "link", "mcs_wait",
        "read_next", "head", "claim", "set_locked", "wait_next", "pass",
        "release", "held"}

Word(l, p, t) == [locked |-> l, pending |-> p, tail |-> t]
Unlocked == Word(FALSE, FALSE, None)

Node(x) == <<x[1], idx[x]>>

WordType == [locked : BOOLEAN, pending : BOOLEAN, tail : Nodes \cup {None}]

VarTypes ==
  /\ val \in [Locks -> WordType]
  /\ next \in [Nodes -> Nodes \cup {None}]
  /\ mcs_locked \in [Nodes -> BOOLEAN]
  /\ count \in [CPUs -> Nat]
  /\ pc \in [Contexts -> PCs]
  /\ lock \in [Contexts -> Locks \cup {None}]
  /\ idx \in [Contexts -> Nat \cup {None}]
  /\ lprev \in [Contexts -> Nodes \cup {None}]
  /\ lnext \in [Contexts -> Nodes \cup {None}]

TypeOK ==
  /\ VarTypes
  \* What is about to be dereferenced is not NULL.
  /\ \A x \in Contexts :
       /\ pc[x] = "pass" => lnext[x] # None
       /\ pc[x] = "link" => lprev[x] # None

Init ==
  /\ val = [l \in Locks |-> Unlocked]
  /\ next = [n \in Nodes |-> None]
  /\ mcs_locked = [n \in Nodes |-> FALSE]
  /\ count \in [CPUs -> Outer]
  /\ pc = [x \in Contexts |-> "idle"]
  /\ lock = [x \in Contexts |-> None]
  /\ idx = [x \in Contexts |-> None]
  /\ lprev = [x \in Contexts |-> None]
  /\ lnext = [x \in Contexts |-> None]

-----------------------------------------------------------------------------
(* Interrupt nesting.                                                       *)

\* Only the highest active level of a CPU runs.
Running(x) == \A j \in Levels : j > x[2] => pc[<<x[1], j>>] = "idle"

\* A context may use lock l if it is of a level that does, and whoever it
\* interrupts did not disable its level: a lock used from level j is taken by
\* lower levels with j disabled (spin_lock_irqsave() and its relatives).
MayUse(x, l) ==
  /\ x[2] <= LockLevel[l]
  /\ \A i \in Levels :
       i < x[2] /\ pc[<<x[1], i>>] # "idle" => LockLevel[lock[<<x[1], i>>]] < x[2]

Goto(x, l) == pc' = [pc EXCEPT ![x] = l]
At(x, l) == pc[x] = l /\ Running(x)
Locals == <<lock, idx, lprev, lnext>>

\* Anything but the locked byte.
Contended(v) == v.pending \/ v.tail # None

\* The code word is left to the pending setter or to the queue.
AfterRead(x, v) == Goto(x, IF Contended(v) THEN "queue" ELSE "set_pending")

-----------------------------------------------------------------------------
(* queued_spin_lock(), queued_spin_trylock() and queued_spin_unlock()       *)

SpinLock(x, l) ==
  /\ At(x, "idle")
  /\ MayUse(x, l)
  /\ lock' = [lock EXCEPT ![x] = l]
  /\ \/ /\ val[l] = Unlocked
        /\ val' = [val EXCEPT ![l].locked = TRUE]
        /\ Goto(x, "held")
     \/ /\ val[l] # Unlocked
        /\ IF val[l] = Word(FALSE, TRUE, None)
             THEN Goto(x, "handover") ELSE AfterRead(x, val[l])
        /\ UNCHANGED val
  /\ UNCHANGED <<next, mcs_locked, count, idx, lprev, lnext>>

\* A failed trylock changes nothing.
Trylock(x, l) ==
  /\ At(x, "idle")
  /\ MayUse(x, l)
  /\ val[l] = Unlocked
  /\ val' = [val EXCEPT ![l].locked = TRUE]
  /\ lock' = [lock EXCEPT ![x] = l]
  /\ Goto(x, "held")
  /\ UNCHANGED <<next, mcs_locked, count, idx, lprev, lnext>>

\* A store to the locked byte alone.
SpinUnlock(x) ==
  /\ At(x, "held")
  /\ val' = [val EXCEPT ![lock[x]].locked = FALSE]
  /\ lock' = [lock EXCEPT ![x] = None]
  /\ Goto(x, "idle")
  /\ UNCHANGED <<next, mcs_locked, count, idx, lprev, lnext>>

-----------------------------------------------------------------------------
(* queued_spin_lock_slowpath(): the pending bit.                            *)

\* Wait for a hand-over 0,1,0 -> 0,0,1, but not for long: the loop may also
\* give up while the word still is _Q_PENDING_VAL.
Handover(x) ==
  /\ At(x, "handover")
  /\ AfterRead(x, val[lock[x]])
  /\ UNCHANGED <<val, next, mcs_locked, count, Locals>>

\* "Undo PENDING if we set it."
undo_always(v) == TRUE
set_by_us(v) == ~v.pending

SetPending(x) ==
  /\ At(x, "set_pending")
  /\ val' = [val EXCEPT ![lock[x]].pending = TRUE]
  /\ LET v == val[lock[x]] IN
       Goto(x, CASE Contended(v) /\ set_by_us(v) -> "undo"
                 [] Contended(v) /\ ~set_by_us(v) -> "queue"
                 [] ~Contended(v) /\ v.locked -> "wait_owner"
                 [] OTHER -> "take_over")
  /\ UNCHANGED <<next, mcs_locked, count, Locals>>

\* clear_pending()
UndoPending(x) ==
  /\ At(x, "undo")
  /\ val' = [val EXCEPT ![lock[x]].pending = FALSE]
  /\ Goto(x, "queue")
  /\ UNCHANGED <<next, mcs_locked, count, Locals>>

WaitOwner(x) ==
  /\ At(x, "wait_owner")
  /\ ~val[lock[x]].locked
  /\ Goto(x, "take_over")
  /\ UNCHANGED <<val, next, mcs_locked, count, Locals>>

\* clear_pending_set_locked() stores both bytes.
clear_pending_set_locked(v) == [v EXCEPT !.pending = FALSE, !.locked = TRUE]

TakeOver(x) ==
  /\ At(x, "take_over")
  /\ val' = [val EXCEPT ![lock[x]] = clear_pending_set_locked(@)]
  /\ Goto(x, "held")
  /\ UNCHANGED <<next, mcs_locked, count, Locals>>

-----------------------------------------------------------------------------
(* queued_spin_lock_slowpath(): the MCS queue.                              *)

\* idx = node->count++; without a node left, spin on the lock itself.
node_zero(x) == 0
free_index(x) == count[x[1]]

no_node_left(i) == i >= MAX_NODES

GrabNode(x) ==
  /\ At(x, "queue")
  /\ idx' = [idx EXCEPT ![x] = free_index(x)]
  /\ count' = [count EXCEPT ![x[1]] = @ + 1]
  /\ Goto(x, IF no_node_left(free_index(x)) THEN "no_node" ELSE "init")
  /\ UNCHANGED <<val, next, mcs_locked, lock, lprev, lnext>>

NoNode(x) ==
  /\ At(x, "no_node")
  /\ val[lock[x]] = Unlocked
  /\ val' = [val EXCEPT ![lock[x]].locked = TRUE]
  /\ Goto(x, "release")
  /\ UNCHANGED <<next, mcs_locked, count, Locals>>

InitNode(x) ==
  /\ At(x, "init")
  /\ mcs_locked' = [mcs_locked EXCEPT ![Node(x)] = FALSE]
  /\ next' = [next EXCEPT ![Node(x)] = None]
  /\ Goto(x, "retry")
  /\ UNCHANGED <<val, count, Locals>>

\* The trylock once more, before queueing.
Retry(x) ==
  /\ At(x, "retry")
  /\ \/ /\ val[lock[x]] = Unlocked
        /\ val' = [val EXCEPT ![lock[x]].locked = TRUE]
        /\ Goto(x, "release")
     \/ /\ val[lock[x]] # Unlocked
        /\ Goto(x, "xchg")
        /\ UNCHANGED val
  /\ UNCHANGED <<next, mcs_locked, count, Locals>>

\* No tail is told from the tail 0:0 by the CPU number plus one.
queue_was_empty(t) == t = None

XchgTail(x) ==
  /\ At(x, "xchg")
  /\ val' = [val EXCEPT ![lock[x]].tail = Node(x)]
  /\ IF queue_was_empty(val[lock[x]].tail)
       THEN Goto(x, "head") /\ UNCHANGED lprev
       ELSE Goto(x, "link") /\ lprev' = [lprev EXCEPT ![x] = val[lock[x]].tail]
  /\ UNCHANGED <<next, mcs_locked, count, lock, idx, lnext>>

Link(x) ==
  /\ At(x, "link")
  /\ next' = [next EXCEPT ![lprev[x]] = Node(x)]
  /\ lprev' = [lprev EXCEPT ![x] = None]
  /\ Goto(x, "mcs_wait")
  /\ UNCHANGED <<val, mcs_locked, count, lock, idx, lnext>>

McsWait(x) ==
  /\ At(x, "mcs_wait")
  /\ mcs_locked[Node(x)]
  /\ Goto(x, "read_next")
  /\ UNCHANGED <<val, next, mcs_locked, count, Locals>>

\* The optimistic load of node->next.
ReadNext(x) ==
  /\ At(x, "read_next")
  /\ lnext' = [lnext EXCEPT ![x] = next[Node(x)]]
  /\ Goto(x, "head")
  /\ UNCHANGED <<val, next, mcs_locked, count, lock, idx, lprev>>

\* The queue head waits for the owner and for the pending waiter.
owner_gone(v) == ~v.locked
owner_and_pending_gone(v) == ~v.locked /\ ~v.pending

WaitHead(x) ==
  /\ At(x, "head")
  /\ LET v == val[lock[x]] IN
       /\ owner_and_pending_gone(v)
       /\ Goto(x, IF v.tail = Node(x) THEN "claim" ELSE "set_locked")
  /\ UNCHANGED <<val, next, mcs_locked, count, Locals>>

\* The cmpxchg n,0,0 -> 0,0,1 fails if PENDING or another tail came in.
sole_if_unlocked(v, n) == owner_and_pending_gone(v)
sole_in_queue(v, n) == v = Word(FALSE, FALSE, n)

claimed(v) == Word(TRUE, FALSE, None)

Claim(x) ==
  /\ At(x, "claim")
  /\ \/ /\ sole_in_queue(val[lock[x]], Node(x))
        /\ val' = [val EXCEPT ![lock[x]] = claimed(@)]
        /\ Goto(x, "release")
     \/ /\ ~sole_in_queue(val[lock[x]], Node(x))
        /\ Goto(x, "set_locked")
        /\ UNCHANGED val
  /\ UNCHANGED <<next, mcs_locked, count, Locals>>

next_is_known(x) == lnext[x] # None

SetLocked(x) ==
  /\ At(x, "set_locked")
  /\ val' = [val EXCEPT ![lock[x]].locked = TRUE]
  /\ Goto(x, IF next_is_known(x) THEN "pass" ELSE "wait_next")
  /\ UNCHANGED <<next, mcs_locked, count, Locals>>

WaitNext(x) ==
  /\ At(x, "wait_next")
  /\ next[Node(x)] # None
  /\ lnext' = [lnext EXCEPT ![x] = next[Node(x)]]
  /\ Goto(x, "pass")
  /\ UNCHANGED <<val, next, mcs_locked, count, lock, idx, lprev>>

\* arch_mcs_spin_unlock_contended()
PassHead(x) ==
  /\ At(x, "pass")
  /\ mcs_locked' = [mcs_locked EXCEPT ![lnext[x]] = TRUE]
  /\ lnext' = [lnext EXCEPT ![x] = None]
  /\ Goto(x, "release")
  /\ UNCHANGED <<val, next, count, lock, idx, lprev>>

Release(x) ==
  /\ At(x, "release")
  /\ count' = [count EXCEPT ![x[1]] = @ - 1]
  /\ idx' = [idx EXCEPT ![x] = None]
  /\ Goto(x, "held")
  /\ UNCHANGED <<val, next, mcs_locked, lock, lprev, lnext>>

-----------------------------------------------------------------------------

\* The steps of a context inside queued_spin_lock_slowpath().
Step(x) ==
  \/ Handover(x) \/ SetPending(x) \/ UndoPending(x) \/ WaitOwner(x) \/ TakeOver(x)
  \/ GrabNode(x) \/ NoNode(x) \/ InitNode(x) \/ Retry(x) \/ XchgTail(x) \/ Link(x)
  \/ McsWait(x) \/ ReadNext(x) \/ WaitHead(x) \/ Claim(x) \/ SetLocked(x)
  \/ WaitNext(x) \/ PassHead(x) \/ Release(x)

Next ==
  \E x \in Contexts :
    \/ \E l \in Locks : SpinLock(x, l) \/ Trylock(x, l)
    \/ Step(x)
    \/ SpinUnlock(x)

\* CPUs run, and holders unlock.
Fairness == \A x \in Contexts : WF_vars(Step(x)) /\ WF_vars(SpinUnlock(x))

Spec == Init /\ [][Next]_vars
FairSpec == Spec /\ Fairness

-----------------------------------------------------------------------------
(* Properties                                                               *)

\* From the access that takes the lock to the unlock.
Holding == {"wait_next", "pass", "release", "held"}

\* Its node is published and not yet out of the queue.
InQueue == {"link", "mcs_wait", "read_next", "head", "claim", "set_locked",
            "wait_next", "pass"}

QueuedOn(n, l) ==
  \E x \in Contexts : lock[x] = l /\ pc[x] \in InQueue /\ Node(x) = n

\* Each queued spinlock is an exclusive lock: fast path, pending waiter, queue
\* head, retry and the fallback without a node never overlap.
Holders(l) == {x \in Contexts : lock[x] = l /\ pc[x] \in Holding}
Lock(l) == INSTANCE AbstractLock WITH Tasks <- Contexts, holders <- Holders(l)
LockSpec ==
  /\ \A l \in Locks : Lock(l)!Init
  /\ [][\A l \in Locks : [Lock(l)!Next]_(Holders(l))]_vars

\* The pending bit is set exactly while one context owns it, as the pending
\* waiter or about to undo it: it is neither cleared under its owner nor left
\* behind, where nobody would clear it.
PendingOwned ==
  \A l \in Locks :
    LET owners == {x \in Contexts : /\ lock[x] = l
                                    /\ pc[x] \in {"undo", "wait_owner", "take_over"}}
    IN IF val[l].pending THEN \E x \in owners : owners = {x} ELSE owners = {}

\* The nodes that a lock word, a predecessor or a successor names belong to
\* contexts queued on the same lock, and the one that is passed the head is
\* waiting for it: a node that an interrupt nested below or a later call has
\* reused is never written to.  A context that queues has a node of qnodes[].
NodesLive ==
  /\ \A x \in Contexts :
       pc[x] \in InQueue \cup {"init", "retry", "xchg"} => Node(x) \in Nodes
  /\ \A l \in Locks : val[l].tail # None => QueuedOn(val[l].tail, l)
  /\ \A x \in Contexts :
       /\ pc[x] = "link" => QueuedOn(lprev[x], lock[x])
       /\ pc[x] = "pass" =>
            \E y \in Contexts : /\ lock[y] = lock[x] /\ Node(y) = lnext[x]
                                /\ pc[y] = "mcs_wait" /\ ~mcs_locked[Node(y)]

\* Every spin_lock() with a node of its own returns with the lock: no context
\* starves in the queue or behind a pending bit, and a head that set_locked()
\* without a next gets one.
NotStarved ==
  \A x \in Contexts : pc[x] \notin {"idle", "held", "no_node"} ~> pc[x] \in {"held", "no_node"}
=============================================================================
