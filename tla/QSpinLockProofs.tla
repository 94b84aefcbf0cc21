-------------------------- MODULE QSpinLockProofs --------------------------
(***************************************************************************)
(* What MC_QSpinLock and MC_QSpinLockNested check on small instances, for  *)
(* any CPUs, nesting levels, locks and number of nodes per CPU.            *)
(***************************************************************************)
EXTENDS QSpinLock, TLAPS

-----------------------------------------------------------------------------
(* The inductive invariant.                                                 *)

\* Owners of the pending bit.
PendingPC == {"undo", "wait_owner", "take_over"}

\* With a node that is not published yet; with a node; with a count taken.
Preparing == {"init", "retry", "xchg"}
HasNode == Preparing \cup InQueue
HasIndex == HasNode \cup {"no_node", "release"}

\* At the head of the queue, from the store of the predecessor to its own.
HeadPC == {"read_next", "head", "claim", "set_locked", "wait_next", "pass"}
AtHead(x) == \/ pc[x] \in HeadPC
             \/ pc[x] = "mcs_wait" /\ mcs_locked[Node(x)]

\* Whoever is inside was called with a lock.
Called == \A x \in Contexts : pc[x] # "idle" => lock[x] \in Locks

\* Indices are below the count of their CPU and grow with the nesting level.
Indices ==
  \A x \in Contexts : pc[x] \in HasIndex =>
    /\ idx[x] \in Nat
    /\ idx[x] < count[x[1]]
    /\ pc[x] \in HasNode => idx[x] < MAX_NODES
    /\ \A y \in Contexts :
         x[1] = y[1] /\ x[2] < y[2] /\ pc[y] \in HasIndex => idx[x] < idx[y]

\* Nobody writes to a node before it is published, nor passes the head to it
\* before it is linked.
Fresh ==
  \A x \in Contexts :
    /\ pc[x] \in {"retry", "xchg"} => next[Node(x)] = None
    /\ pc[x] \in {"retry", "xchg", "link"} => ~mcs_locked[Node(x)]

\* The pending bit and its one owner.
Pending ==
  /\ \A l \in Locks : val[l].pending =>
       \E x \in Contexts : lock[x] = l /\ pc[x] \in PendingPC
  /\ \A x \in Contexts : pc[x] \in PendingPC => val[lock[x]].pending
  /\ \A x, y \in Contexts :
       pc[x] \in PendingPC /\ pc[y] \in PendingPC /\ lock[x] = lock[y] => x = y

\* The locked byte and the one holder.
Locked ==
  /\ \A l \in Locks : val[l].locked =>
       \E x \in Contexts : lock[x] = l /\ pc[x] \in Holding
  /\ \A x \in Contexts : pc[x] \in Holding => val[lock[x]].locked
  /\ \A x, y \in Contexts :
       pc[x] \in Holding /\ pc[y] \in Holding /\ lock[x] = lock[y] => x = y

\* Whoever stores to the locked byte without looking has it clear, and pending
\* waiter and queue head do not meet there.
Turn ==
  /\ \A x \in Contexts :
       pc[x] \in {"take_over", "claim", "set_locked"} => ~val[lock[x]].locked
  /\ \A x, y \in Contexts :
       pc[x] \in {"claim", "set_locked"} /\ pc[y] \in {"wait_owner", "take_over"}
         => lock[x] # lock[y]

\* A queue has one head, and none when the tail is empty.
OneHead ==
  /\ \A x \in Contexts : AtHead(x) => val[lock[x]].tail # None
  /\ \A x, y \in Contexts : AtHead(x) /\ AtHead(y) /\ lock[x] = lock[y] => x = y

\* The tail is the node of a context in that queue, with nobody behind.
TailQueued ==
  \A l \in Locks : val[l].tail # None =>
    /\ QueuedOn(val[l].tail, l)
    /\ next[val[l].tail] = None

\* A node's next is the node of a context that waits for the head, and nobody
\* else's next.
Successors ==
  /\ \A x \in Contexts : pc[x] \in InQueue /\ next[Node(x)] # None =>
       \E y \in Contexts :
         /\ lock[y] = lock[x] /\ Node(y) = next[Node(x)]
         /\ pc[y] = "mcs_wait" /\ ~mcs_locked[Node(y)]
  /\ \A x, y \in Contexts :
       /\ pc[x] \in InQueue /\ pc[y] \in InQueue
       /\ next[Node(x)] # None /\ next[Node(x)] = next[Node(y)]
       => x = y

\* Between the exchange of the tail and the store to prev->next, prev stays in
\* the queue, is not its last and has no other to come behind it.
Linkers ==
  /\ \A y \in Contexts : pc[y] = "link" =>
       /\ QueuedOn(lprev[y], lock[y])
       /\ next[lprev[y]] = None
       /\ val[lock[y]].tail # lprev[y]
  /\ \A x, y \in Contexts :
       pc[x] = "link" /\ pc[y] = "link" /\ lprev[x] = lprev[y] => x = y

\* The local next is NULL or what node->next still is.
Known ==
  \A x \in Contexts :
    /\ pc[x] = "pass" => lnext[x] # None
    /\ lnext[x] # None =>
         pc[x] \in {"head", "claim", "set_locked", "pass"} /\ lnext[x] = next[Node(x)]

IInv ==
  /\ VarTypes /\ Called /\ Indices /\ Fresh /\ Pending /\ Locked /\ Turn
  /\ OneHead /\ TailQueued /\ Successors /\ Linkers /\ Known

-----------------------------------------------------------------------------
(* Nodes.                                                                   *)

\* A context is a CPU and a level of its own.
LEMMA ContextPair ==
  ASSUME NEW x \in Contexts
  PROVE  x[1] \in CPUs /\ x[2] \in Levels /\ x[2] \in Nat /\ x = <<x[1], x[2]>>
<1>1. PICK c \in CPUs, i \in Levels : x = <<c, i>>
  BY DEF Contexts
<1> QED
  BY <1>1, QSpinAssumption

\* A store to the locked byte, to the pending byte or to both leaves a word.
LEMMA WordStores ==
  ASSUME NEW v \in WordType
  PROVE  /\ \A b \in BOOLEAN : [v EXCEPT !.locked = b] \in WordType
         /\ \A b \in BOOLEAN : [v EXCEPT !.pending = b] \in WordType
         /\ clear_pending_set_locked(v) \in WordType
BY DEF WordType, clear_pending_set_locked

\* encode_tail() stores the CPU number plus one, so no node reads as the empty tail.
LEMMA NoneIsNoNode == None \notin Nodes
BY QSpinAssumption DEF Nodes

\* Contexts that use a node use different ones: those of a CPU nest, and an
\* interrupt takes its index above all that it interrupts.
LEMMA NodesApart ==
  ASSUME VarTypes, Indices
  PROVE  /\ \A x \in Contexts : pc[x] \in HasNode => Node(x) \in Nodes
         /\ \A x, y \in Contexts :
              pc[x] \in HasNode /\ pc[y] \in HasNode /\ Node(x) = Node(y) => x = y
<1>1. ASSUME NEW x \in Contexts, pc[x] \in HasNode PROVE Node(x) \in Nodes
  BY <1>1, ContextPair, QSpinAssumption DEF Indices, HasIndex, Node, Nodes
<1>2. ASSUME NEW x \in Contexts, NEW y \in Contexts, pc[x] \in HasNode, pc[y] \in HasNode,
             Node(x) = Node(y)
      PROVE  x = y
  <2>1. x[1] = y[1] /\ idx[x] = idx[y]
    BY <1>2 DEF Node
  <2>2. ~(x[2] < y[2])
    BY <1>2, <2>1 DEF Indices, HasIndex
  <2>3. ~(y[2] < x[2])
    BY <1>2, <2>1 DEF Indices, HasIndex
  <2> QED
    BY <2>1, <2>2, <2>3, ContextPair
<1> QED
  BY <1>1, <1>2

-----------------------------------------------------------------------------
(* One lemma per operation or outcome: a step per part of the invariant.    *)

\* A lock that nobody holds, waits for or queues on is taken at once.
LEMMA TrylockStep ==
  ASSUME IInv, NEW x \in Contexts, NEW l \in Locks, Trylock(x, l)
  PROVE  IInv'
<1> USE DEF IInv
<1>effect. /\ pc[x] = "idle"
           /\ val[l].locked = FALSE
           /\ val[l].pending = FALSE
           /\ val[l].tail = None
           /\ pc' = [pc EXCEPT ![x] = "held"]
           /\ lock' = [lock EXCEPT ![x] = l]
           /\ UNCHANGED <<next, mcs_locked, count, idx, lprev, lnext>>
           /\ \A m \in Locks : m # l => val'[m] = val[m]
           /\ val'[l].locked = TRUE
           /\ val'[l].pending = val[l].pending
           /\ val'[l].tail = val[l].tail
  BY DEF Trylock, At, Goto, Unlocked, Word, VarTypes
<1>same. \A z \in Contexts : Node(z)' = Node(z)
  BY <1>effect DEF Node
<1>apart. /\ \A z \in Contexts : pc[z] \in HasNode => Node(z) \in Nodes /\ Node(z) # None
          /\ \A y, z \in Contexts :
               pc[y] \in HasNode /\ pc[z] \in HasNode /\ Node(y) = Node(z) => y = z
  BY NodesApart, NoneIsNoNode
<1>1. VarTypes'
  <2>1. val' \in [Locks -> WordType]
    <3>1. [val[l] EXCEPT !.locked = TRUE] \in WordType
      BY WordStores DEF VarTypes
    <3> QED
      BY <3>1 DEF Trylock, VarTypes
  <2>2. pc' \in [Contexts -> PCs]
    BY <1>effect DEF VarTypes, PCs
  <2> QED
    BY <1>effect, <2>1, <2>2 DEF VarTypes
<1>2. Called'
  BY <1>effect DEF Called, VarTypes, Holding
<1>3. Indices'
  BY <1>effect DEF Indices, VarTypes, Preparing, HasNode, HasIndex, InQueue
<1>4. Fresh'
  BY <1>effect, <1>same DEF Fresh, VarTypes, HeadPC, InQueue, Holding
<1>5. Pending'
  BY <1>effect DEF Pending, Called, PendingPC, Preparing, HasNode
<1>6. Locked'
  <2>2. \A z \in Contexts : /\ pc'[z] \in Holding <=> z = x \/ pc[z] \in Holding
                            /\ lock'[z] = IF z = x THEN l ELSE lock[z]
    BY <1>effect DEF VarTypes, Holding
  <2>3. pc[x] \notin Holding
    BY <1>effect DEF Holding
  <2>4. \A z \in Contexts : pc[z] \in Holding => lock[z] \in Locks
    BY DEF Called, Holding
  <2> QED
    BY <1>effect, <2>2, <2>3, <2>4 DEF Locked
<1>7. Turn'
  BY <1>effect DEF Turn, Called, Pending, OneHead, AtHead, PendingPC, HasNode, HeadPC, InQueue
<1>8. OneHead'
  <2>1. \A m \in Locks : val'[m].tail = val[m].tail
    BY <1>effect
  <2>2. \A z \in Contexts : AtHead(z)' => AtHead(z) /\ lock'[z] = lock[z] /\ lock[z] \in Locks
    BY <1>effect, <1>same DEF AtHead, HeadPC, Called
  <2> QED
    BY <2>1, <2>2 DEF OneHead
<1>9. TailQueued'
  <2>1. \A m \in Locks : val'[m].tail = val[m].tail
    BY <1>effect
  <2>2. ASSUME NEW n, NEW m \in Locks, QueuedOn(n, m) PROVE QueuedOn(n, m)'
    BY <1>effect, <1>same, <2>2 DEF QueuedOn, InQueue
  <2> QED
    BY <1>effect, <2>1, <2>2 DEF TailQueued
<1>10. Successors'
  BY <1>effect, <1>same DEF Successors, InQueue
<1>11. Linkers'
  BY <1>effect, <1>same DEF Linkers, Called, Fresh, QueuedOn, InQueue, Holding
<1>12. Known'
  BY <1>effect, <1>same, <1>apart DEF Known, HeadPC, InQueue, Holding
<1> QED
  BY <1>1, <1>2, <1>3, <1>4, <1>5, <1>6, <1>7, <1>8, <1>9, <1>10, <1>11, <1>12

\* queued_spin_lock() enters the slow path.
LEMMA SpinLockWaitsStep ==
  ASSUME IInv, NEW x \in Contexts, NEW l \in Locks, SpinLock(x, l), val[l] # Unlocked
  PROVE  IInv'
<1> USE DEF IInv
<1>effect. /\ pc[x] = "idle"
           /\ pc'[x] \in {"handover", "queue", "set_pending"}
           /\ pc' = [pc EXCEPT ![x] = pc'[x]]
           /\ lock' = [lock EXCEPT ![x] = l]
           /\ UNCHANGED <<val, next, mcs_locked, count, idx, lprev, lnext>>
  BY DEF SpinLock, At, Goto, AfterRead, Word, VarTypes
<1>same. \A z \in Contexts : Node(z)' = Node(z)
  BY <1>effect DEF Node
<1>apart. /\ \A z \in Contexts : pc[z] \in HasNode => Node(z) \in Nodes /\ Node(z) # None
          /\ \A y, z \in Contexts :
               pc[y] \in HasNode /\ pc[z] \in HasNode /\ Node(y) = Node(z) => y = z
  BY NodesApart, NoneIsNoNode
<1>1. VarTypes'
  <2>2. pc' \in [Contexts -> PCs]
    BY <1>effect DEF VarTypes, PCs
  <2> QED
    BY <1>effect, <2>2 DEF VarTypes
<1>2. Called'
  BY <1>effect, <1>same, <1>apart DEF Called, VarTypes, PendingPC, Preparing, HasNode, HasIndex,
     HeadPC, InQueue, Holding
<1>3. Indices'
  BY <1>effect DEF Indices, VarTypes, Preparing, HasNode, HasIndex, InQueue
<1>4. Fresh'
  BY <1>effect, <1>same DEF Fresh, QueuedOn, VarTypes, Preparing, HasNode, HeadPC, InQueue,
     Holding
<1>5. Pending'
  BY <1>effect DEF Pending, VarTypes, PendingPC
<1>6. Locked'
  BY <1>effect DEF Locked, VarTypes, HeadPC, Holding
<1>7. Turn'
  BY <1>effect, <1>same DEF Turn, Called, VarTypes
<1>8. OneHead'
  BY <1>effect, <1>same DEF OneHead, Called, AtHead, VarTypes, HasIndex, HeadPC
<1>9. TailQueued'
  BY <1>effect, <1>same DEF TailQueued, Fresh, QueuedOn, VarTypes, HasIndex, HeadPC, InQueue
<1>10. Successors'
  <2>1. \A z \in Contexts : /\ pc[z] \in InQueue <=> pc'[z] \in InQueue
                            /\ pc[z] \in InQueue => lock'[z] = lock[z]
                            /\ pc[z] = "mcs_wait" => pc'[z] = "mcs_wait"
    BY <1>effect DEF VarTypes, InQueue
  <2>2. UNCHANGED <<next, mcs_locked>>
    BY <1>effect
  <2>3. "mcs_wait" \in InQueue
    BY DEF InQueue
  <2> QED
    BY <1>same, <2>1, <2>2, <2>3 DEF Successors
<1>11. Linkers'
  BY <1>effect, <1>same DEF Linkers, QueuedOn, VarTypes, InQueue
<1>12. Known'
  BY <1>effect, <1>same DEF Known, VarTypes, PendingPC, HasIndex, HeadPC, InQueue, Holding
<1> QED
  BY <1>1, <1>2, <1>3, <1>4, <1>5, <1>6, <1>7, <1>8, <1>9, <1>10, <1>11, <1>12

\* The owner clears the locked byte alone.
LEMMA SpinUnlockStep ==
  ASSUME IInv, NEW x \in Contexts, SpinUnlock(x)
  PROVE  IInv'
<1> USE DEF IInv
<1>same. \A z \in Contexts : Node(z)' = Node(z)
  BY DEF Node, SpinUnlock, At, Goto
<1>apart. /\ \A z \in Contexts : pc[z] \in HasNode => Node(z) \in Nodes /\ Node(z) # None
          /\ \A y, z \in Contexts :
               pc[y] \in HasNode /\ pc[z] \in HasNode /\ Node(y) = Node(z) => y = z
  BY NodesApart, NoneIsNoNode
<1>1. VarTypes'
  <2>1. lock[x] \in Locks
    BY DEF SpinUnlock, At, Goto, Called
  <2>2. val' \in [Locks -> WordType]
    <3>1. [val[lock[x]] EXCEPT !.locked = FALSE] \in WordType
      BY <2>1, WordStores DEF VarTypes
    <3> QED
      BY <2>1, <3>1 DEF SpinUnlock, VarTypes
  <2>3. pc' \in [Contexts -> PCs]
    BY DEF SpinUnlock, At, Goto, VarTypes, PCs
  <2> QED
    BY <2>2, <2>3 DEF SpinUnlock, At, Goto, VarTypes
<1>2. Called'
  BY DEF SpinUnlock, Goto, Called, VarTypes
<1>3. Indices'
  BY DEF SpinUnlock, At, Goto, Indices, Preparing, HasNode, HasIndex, InQueue
<1>4. Fresh'
  BY <1>same DEF SpinUnlock, Goto, Fresh, Linkers, VarTypes, PendingPC, InQueue, Holding
<1>5. Pending'
  BY DEF SpinUnlock, At, Goto, Pending, VarTypes, PendingPC, Preparing
<1>6. Locked'
  BY DEF SpinUnlock, At, Goto, Locked, VarTypes, PendingPC, Preparing, HasNode, InQueue, Holding
<1>7. Turn'
  BY DEF SpinUnlock, Goto, Turn, Called, WordType, Pending, VarTypes
<1>8. OneHead'
  BY <1>same DEF SpinUnlock, At, Goto, OneHead, AtHead, HasIndex, HeadPC
<1>9. TailQueued'
  BY <1>same DEF SpinUnlock, At, Goto, TailQueued, Called, QueuedOn, OneHead, HasIndex, HeadPC,
     InQueue, Holding
<1>10. Successors'
  BY <1>same, <1>apart DEF SpinUnlock, At, Goto, Successors, InQueue
<1>11. Linkers'
  BY <1>same, <1>apart DEF SpinUnlock, At, Goto, Linkers, Called, QueuedOn, InQueue
<1>12. Known'
  BY <1>same, <1>apart DEF SpinUnlock, At, Goto, Known, HeadPC, InQueue, Holding
<1> QED
  BY <1>1, <1>2, <1>3, <1>4, <1>5, <1>6, <1>7, <1>8, <1>9, <1>10, <1>11, <1>12

\* The bounded wait for a hand-over ends.
LEMMA HandoverStep ==
  ASSUME IInv, NEW x \in Contexts, Handover(x)
  PROVE  IInv'
<1> USE DEF IInv
<1>same. \A z \in Contexts : Node(z)' = Node(z)
  BY DEF Node, Handover, Locals
<1>apart. /\ \A z \in Contexts : pc[z] \in HasNode => Node(z) \in Nodes /\ Node(z) # None
          /\ \A y, z \in Contexts :
               pc[y] \in HasNode /\ pc[z] \in HasNode /\ Node(y) = Node(z) => y = z
  BY NodesApart, NoneIsNoNode
<1>1. VarTypes'
  BY <1>same, <1>apart DEF Handover, At, Goto, AfterRead, Locals, VarTypes, WordType, PCs,
     PendingPC, Preparing, HasNode, HasIndex, HeadPC, InQueue, Holding
<1>2. Called'
  BY <1>same, <1>apart DEF Handover, At, Goto, AfterRead, Locals, Called, VarTypes, PendingPC,
     Preparing, HasNode, HasIndex, HeadPC, InQueue, Holding
<1>3. Indices'
  BY DEF Handover, At, Goto, AfterRead, Locals, Indices, Preparing, HasNode, HasIndex, InQueue
<1>4. Fresh'
  BY <1>same DEF Handover, Goto, AfterRead, Fresh, Known, QueuedOn, VarTypes, PendingPC,
     HasIndex, HeadPC, InQueue, Holding
<1>5. Pending'
  BY DEF Handover, At, Goto, AfterRead, Locals, Pending, VarTypes, PendingPC
<1>6. Locked'
  BY DEF Handover, At, Goto, AfterRead, Locals, Locked, PendingPC, HasIndex, HeadPC, InQueue,
     Holding
<1>7. Turn'
  BY DEF Handover, Goto, AfterRead, Locals, Turn, WordType
<1>8. OneHead'
  BY <1>same DEF Handover, Goto, AfterRead, Locals, OneHead, AtHead, HeadPC
<1>9. TailQueued'
  BY <1>same DEF Handover, At, Goto, AfterRead, Locals, TailQueued, Fresh, QueuedOn, OneHead,
     HasIndex, InQueue
<1>10. Successors'
  BY <1>same, <1>apart DEF Handover, At, Goto, AfterRead, Locals, Successors, InQueue
<1>11. Linkers'
  BY <1>same, <1>apart DEF Handover, At, Goto, AfterRead, Locals, Linkers, Called, QueuedOn,
     InQueue
<1>12. Known'
  BY <1>same, <1>apart DEF Handover, At, Goto, AfterRead, Locals, Known, HeadPC, InQueue,
     Holding
<1> QED
  BY <1>1, <1>2, <1>3, <1>4, <1>5, <1>6, <1>7, <1>8, <1>9, <1>10, <1>11, <1>12

\* Only who finds neither pending nor a tail becomes the pending waiter; another
\* either undoes its bit or leaves it to the owner.
LEMMA SetPendingStep ==
  ASSUME IInv, NEW x \in Contexts, SetPending(x)
  PROVE  IInv'
<1> USE DEF IInv
<1>same. \A z \in Contexts : Node(z)' = Node(z)
  BY DEF Node, SetPending, Locals
<1>apart. /\ \A z \in Contexts : pc[z] \in HasNode => Node(z) \in Nodes /\ Node(z) # None
          /\ \A y, z \in Contexts :
               pc[y] \in HasNode /\ pc[z] \in HasNode /\ Node(y) = Node(z) => y = z
  BY NodesApart, NoneIsNoNode
<1>1. VarTypes'
  <2>1. lock[x] \in Locks
    BY DEF SetPending, At, Called
  <2>2. val' \in [Locks -> WordType]
    <3>1. [val[lock[x]] EXCEPT !.pending = TRUE] \in WordType
      BY <2>1, WordStores DEF VarTypes
    <3> QED
      BY <2>1, <3>1 DEF SetPending, VarTypes
  <2>3. pc' \in [Contexts -> PCs]
    BY DEF SetPending, At, Goto, Contended, set_by_us, Locals, VarTypes, PCs
  <2> QED
    BY <2>2, <2>3 DEF SetPending, At, Contended, Locals, VarTypes
<1>2. Called'
  BY DEF SetPending, At, Goto, Locals, Called, Preparing, HasNode, HasIndex
<1>3. Indices'
  BY DEF SetPending, At, Goto, Locals, Indices, Preparing, HasNode, HasIndex, InQueue
<1>4. Fresh'
  BY <1>same DEF SetPending, Goto, Fresh, Known, PendingPC, HasIndex, HeadPC, InQueue, Holding
<1>5. Pending'
  BY <1>same DEF SetPending, At, Goto, Contended, set_by_us, Locals, Pending, Called, VarTypes,
     PendingPC, Preparing
<1>6. Locked'
  BY DEF SetPending, At, Goto, Locals, Locked, Called, WordType, Turn, VarTypes, PendingPC,
     Preparing, HasNode, HasIndex, InQueue, Holding
<1>7. Turn'
  BY <1>same DEF SetPending, At, Goto, Contended, Locals, Turn, OneHead, AtHead, HeadPC
<1>8. OneHead'
  BY <1>same DEF SetPending, Goto, Contended, Locals, OneHead, AtHead, Successors, WordType,
     HeadPC
<1>9. TailQueued'
  BY <1>same DEF SetPending, At, Goto, Locals, TailQueued, Fresh, QueuedOn, InQueue, Holding
<1>10. Successors'
  BY <1>same, <1>apart DEF SetPending, At, Goto, Locals, Successors, QueuedOn, InQueue
<1>11. Linkers'
  BY <1>same DEF SetPending, At, Goto, Contended, set_by_us, Locals, Linkers, Called, QueuedOn,
     HasIndex, InQueue, Holding
<1>12. Known'
  BY <1>same, <1>apart DEF SetPending, At, Goto, Contended, Locals, Known, Holding
<1> QED
  BY <1>1, <1>2, <1>3, <1>4, <1>5, <1>6, <1>7, <1>8, <1>9, <1>10, <1>11, <1>12

\* The context that set the bit in vain clears its own.
LEMMA UndoPendingStep ==
  ASSUME IInv, NEW x \in Contexts, UndoPending(x)
  PROVE  IInv'
<1> USE DEF IInv
<1>effect. /\ lock[x] \in Locks
           /\ pc[x] = "undo"
           /\ pc' = [pc EXCEPT ![x] = "queue"]
           /\ UNCHANGED <<next, mcs_locked, count, lock, idx, lprev, lnext>>
           /\ \A m \in Locks : m # lock[x] => val'[m] = val[m]
           /\ val'[lock[x]].locked = val[lock[x]].locked
           /\ val'[lock[x]].pending = FALSE
           /\ val'[lock[x]].tail = val[lock[x]].tail
  BY DEF UndoPending, At, Goto, Locals, Called, VarTypes
<1>same. \A z \in Contexts : Node(z)' = Node(z)
  BY <1>effect DEF Node
<1>apart. /\ \A z \in Contexts : pc[z] \in HasNode => Node(z) \in Nodes /\ Node(z) # None
          /\ \A y, z \in Contexts :
               pc[y] \in HasNode /\ pc[z] \in HasNode /\ Node(y) = Node(z) => y = z
  BY NodesApart, NoneIsNoNode
<1>1. VarTypes'
  <2>1. val' \in [Locks -> WordType]
    <3>1. [val[lock[x]] EXCEPT !.pending = FALSE] \in WordType
      BY <1>effect, WordStores DEF VarTypes
    <3> QED
      BY <1>effect, <3>1 DEF UndoPending, VarTypes
  <2>2. pc' \in [Contexts -> PCs]
    BY <1>effect DEF VarTypes, PCs
  <2> QED
    BY <1>effect, <2>1, <2>2 DEF VarTypes
<1>2. Called'
  BY <1>effect DEF Called, Holding
<1>3. Indices'
  BY <1>effect DEF Indices, Preparing, HasNode, HasIndex, InQueue
<1>4. Fresh'
  BY <1>effect, <1>same DEF Fresh, QueuedOn, HasIndex, HeadPC, InQueue, Holding
<1>5. Pending'
  BY <1>effect, <1>same, <1>apart DEF Pending, Called, WordType, VarTypes, PendingPC
<1>6. Locked'
  BY <1>effect DEF Locked, Called, Holding
<1>7. Turn'
  BY <1>effect DEF Turn, Called
<1>8. OneHead'
  BY <1>effect, <1>same DEF OneHead, Called, AtHead, HasIndex, HeadPC
<1>9. TailQueued'
  BY <1>effect, <1>same DEF TailQueued, Fresh, QueuedOn, HasIndex, HeadPC, InQueue
<1>10. Successors'
  BY <1>effect, <1>same, <1>apart DEF Successors, InQueue
<1>11. Linkers'
  BY <1>effect, <1>same, <1>apart DEF Linkers, Called, QueuedOn, InQueue
<1>12. Known'
  BY <1>effect, <1>same, <1>apart DEF Known, HeadPC, InQueue, Holding
<1> QED
  BY <1>1, <1>2, <1>3, <1>4, <1>5, <1>6, <1>7, <1>8, <1>9, <1>10, <1>11, <1>12

\* The pending waiter sees the owner gone.
LEMMA WaitOwnerStep ==
  ASSUME IInv, NEW x \in Contexts, WaitOwner(x)
  PROVE  IInv'
<1> USE DEF IInv
<1>same. \A z \in Contexts : Node(z)' = Node(z)
  BY DEF Node, WaitOwner, Locals
<1>apart. /\ \A z \in Contexts : pc[z] \in HasNode => Node(z) \in Nodes /\ Node(z) # None
          /\ \A y, z \in Contexts :
               pc[y] \in HasNode /\ pc[z] \in HasNode /\ Node(y) = Node(z) => y = z
  BY NodesApart, NoneIsNoNode
<1>1. VarTypes'
  BY DEF WaitOwner, Goto, Locals, VarTypes, PCs
<1>2. Called'
  BY <1>apart DEF WaitOwner, At, Goto, Locals, Called, VarTypes
<1>3. Indices'
  BY DEF WaitOwner, Goto, Locals, Indices, Preparing, HasNode, HasIndex, HeadPC, InQueue,
     Holding
<1>4. Fresh'
  BY <1>same DEF WaitOwner, Goto, Fresh, Successors, Linkers, QueuedOn, VarTypes, HeadPC,
     InQueue, Holding
<1>5. Pending'
  BY DEF WaitOwner, At, Goto, Locals, Pending, VarTypes, PendingPC
<1>6. Locked'
  BY DEF WaitOwner, Goto, Locals, Locked, VarTypes, PendingPC, HasIndex, HeadPC, InQueue,
     Holding
<1>7. Turn'
  BY <1>apart DEF WaitOwner, At, Goto, Locals, Turn
<1>8. OneHead'
  BY <1>same DEF WaitOwner, At, Goto, Locals, OneHead, AtHead, HeadPC
<1>9. TailQueued'
  BY <1>same DEF WaitOwner, At, Goto, Locals, TailQueued, Called, QueuedOn, OneHead, HasIndex,
     InQueue
<1>10. Successors'
  BY <1>same, <1>apart DEF WaitOwner, At, Goto, Locals, Successors, InQueue
<1>11. Linkers'
  BY <1>same DEF WaitOwner, At, Goto, Locals, Linkers, QueuedOn, InQueue, Holding
<1>12. Known'
  BY <1>same, <1>apart DEF WaitOwner, At, Goto, Locals, Known, HasIndex, InQueue, Holding
<1> QED
  BY <1>1, <1>2, <1>3, <1>4, <1>5, <1>6, <1>7, <1>8, <1>9, <1>10, <1>11, <1>12

\* The pending waiter trades its bit for the locked byte.
LEMMA TakeOverStep ==
  ASSUME IInv, NEW x \in Contexts, TakeOver(x)
  PROVE  IInv'
<1> USE DEF IInv
<1>same. \A z \in Contexts : Node(z)' = Node(z)
  BY DEF Node, TakeOver, Locals
<1>apart. /\ \A z \in Contexts : pc[z] \in HasNode => Node(z) \in Nodes /\ Node(z) # None
          /\ \A y, z \in Contexts :
               pc[y] \in HasNode /\ pc[z] \in HasNode /\ Node(y) = Node(z) => y = z
  BY NodesApart, NoneIsNoNode
<1>1. VarTypes'
  <2>1. lock[x] \in Locks
    BY DEF TakeOver, At, Called
  <2>2. val' \in [Locks -> WordType]
    <3>1. clear_pending_set_locked(val[lock[x]]) \in WordType
      BY <2>1, WordStores DEF VarTypes
    <3> QED
      BY <2>1, <3>1 DEF TakeOver, VarTypes
  <2>3. pc' \in [Contexts -> PCs]
    BY DEF TakeOver, At, Goto, clear_pending_set_locked, Locals, VarTypes, PCs
  <2> QED
    BY <2>2, <2>3 DEF TakeOver, Locals, VarTypes
<1>2. Called'
  BY DEF TakeOver, At, Goto, Locals, Called
<1>3. Indices'
  BY DEF TakeOver, Goto, clear_pending_set_locked, Locals, Indices, Preparing, HasNode,
     HasIndex, InQueue
<1>4. Fresh'
  BY <1>same DEF TakeOver, Goto, Fresh, Known, QueuedOn, PendingPC, HasIndex, HeadPC, InQueue,
     Holding
<1>5. Pending'
  BY DEF TakeOver, At, Goto, clear_pending_set_locked, Locals, Pending, VarTypes, PendingPC
<1>6. Locked'
  BY DEF TakeOver, At, Goto, clear_pending_set_locked, Locals, Locked, Called, Turn, VarTypes,
     PendingPC, HasIndex, HeadPC, InQueue, Holding
<1>7. Turn'
  BY DEF TakeOver, At, Goto, clear_pending_set_locked, Locals, Turn, Called, WordType, Pending,
     Locked, AtHead, VarTypes, PendingPC
<1>8. OneHead'
  BY <1>same, <1>apart DEF TakeOver, Goto, clear_pending_set_locked, Locals, OneHead, Called,
     AtHead, VarTypes, PendingPC, HeadPC
<1>9. TailQueued'
  BY <1>same, <1>apart DEF TakeOver, At, Goto, clear_pending_set_locked, Locals, TailQueued,
     QueuedOn, HasIndex, HeadPC, InQueue, Holding
<1>10. Successors'
  BY <1>same, <1>apart DEF TakeOver, At, Goto, clear_pending_set_locked, Locals, Successors,
     InQueue
<1>11. Linkers'
  BY <1>same, <1>apart DEF TakeOver, At, Goto, clear_pending_set_locked, Locals, Linkers,
     Called, QueuedOn, InQueue
<1>12. Known'
  BY <1>same, <1>apart DEF TakeOver, At, Goto, Locals, Known, HeadPC, InQueue, Holding
<1> QED
  BY <1>1, <1>2, <1>3, <1>4, <1>5, <1>6, <1>7, <1>8, <1>9, <1>10, <1>11, <1>12

\* The index comes from the count of the CPU: nobody below has it.
LEMMA GrabNodeStep ==
  ASSUME IInv, NEW x \in Contexts, GrabNode(x)
  PROVE  IInv'
<1> USE DEF IInv
<1>same. \A z \in Contexts : z # x => Node(z)' = Node(z)
  BY DEF Node, GrabNode
<1>apart. /\ \A z \in Contexts : pc[z] \in HasNode => Node(z) \in Nodes /\ Node(z) # None
          /\ \A y, z \in Contexts :
               pc[y] \in HasNode /\ pc[z] \in HasNode /\ Node(y) = Node(z) => y = z
  BY NodesApart, NoneIsNoNode
<1>1. VarTypes'
  <2>1. x[1] \in CPUs /\ count[x[1]] \in Nat
    BY ContextPair DEF VarTypes
  <2>2. idx' \in [Contexts -> Nat \cup {None}]
    BY <2>1 DEF GrabNode, free_index, VarTypes
  <2>3. count' \in [CPUs -> Nat]
    BY <2>1 DEF GrabNode, VarTypes
  <2>4. pc' \in [Contexts -> PCs]
    BY DEF GrabNode, Goto, VarTypes, PCs
  <2> QED
    BY <2>2, <2>3, <2>4 DEF GrabNode, VarTypes
<1>2. Called'
  BY DEF GrabNode, At, Goto, Called
<1>3. Indices'
  <2>1. x[1] \in CPUs /\ count[x[1]] \in Nat
    BY ContextPair DEF VarTypes
  <2>2. \A z \in Contexts : z # x => pc'[z] = pc[z] /\ idx'[z] = idx[z]
    BY DEF GrabNode, Goto, VarTypes
  <2>3. /\ pc[x] = "queue" /\ idx'[x] = count[x[1]]
        /\ pc'[x] \in HasNode => idx'[x] < MAX_NODES
    BY <2>1, QSpinAssumption DEF GrabNode, At, Goto, VarTypes, free_index, no_node_left,
       HasNode, Preparing, InQueue
  <2>4. \A c \in CPUs : /\ c # x[1] => count'[c] = count[c]
                        /\ c = x[1] => count'[c] = count[c] + 1
    BY <2>1 DEF GrabNode, VarTypes
  <2>5. \A z \in Contexts : z[1] = x[1] /\ x[2] < z[2] => pc[z] = "idle"
    BY ContextPair DEF GrabNode, At, Running
  <2>6. \A z \in Contexts : z[1] \in CPUs /\ count[z[1]] \in Nat /\ z[2] \in Nat
    BY ContextPair DEF VarTypes
  <2>7. ASSUME NEW z \in Contexts, pc'[z] \in HasIndex
        PROVE  /\ idx'[z] \in Nat
               /\ idx'[z] < count'[z[1]]
               /\ pc'[z] \in HasNode => idx'[z] < MAX_NODES
    <3>1. CASE z = x
      BY <2>1, <2>3, <2>4, <3>1
    <3>2. CASE z # x
      <4>1. /\ idx'[z] = idx[z] /\ pc'[z] = pc[z] /\ idx[z] \in Nat /\ idx[z] < count[z[1]]
            /\ pc[z] \in HasNode => idx[z] < MAX_NODES
        BY <2>2, <2>7, <3>2 DEF Indices
      <4> QED
        BY <2>4, <2>6, <4>1
    <3> QED
      BY <3>1, <3>2
  <2>8. ASSUME NEW y \in Contexts, NEW z \in Contexts, pc'[y] \in HasIndex, pc'[z] \in HasIndex,
               y[1] = z[1], y[2] < z[2]
        PROVE  idx'[y] < idx'[z]
    <3>1. CASE y = x
      BY <2>2, <2>5, <2>6, <2>8, <3>1 DEF HasIndex, HasNode, Preparing, InQueue
    <3>2. CASE y # x /\ z = x
      <4>1. pc[y] \in HasIndex /\ idx'[y] = idx[y]
        BY <2>2, <2>8, <3>2
      <4> QED
        BY <2>3, <2>8, <3>2, <4>1 DEF Indices
    <3>3. CASE y # x /\ z # x
      BY <2>2, <2>8, <3>3 DEF Indices
    <3> QED
      BY <3>1, <3>2, <3>3
  <2> QED
    BY <2>7, <2>8 DEF Indices
<1>4. Fresh'
  BY <1>same DEF GrabNode, At, Goto, Fresh
<1>5. Pending'
  BY DEF GrabNode, At, Goto, Pending, WordType, PendingPC, Preparing, HasNode
<1>6. Locked'
  BY DEF GrabNode, At, Goto, Locked, Called, WordType, Turn, HasIndex, Holding
<1>7. Turn'
  BY <1>same DEF GrabNode, Goto, Turn, WordType
<1>8. OneHead'
  BY <1>same DEF GrabNode, At, Goto, OneHead, AtHead, HeadPC
<1>9. TailQueued'
  BY <1>same DEF GrabNode, At, Goto, no_node_left, TailQueued, Called, Fresh, QueuedOn,
     HasIndex, InQueue
<1>10. Successors'
  BY <1>same DEF GrabNode, At, Goto, free_index, Successors, InQueue
<1>11. Linkers'
  BY <1>same, <1>apart DEF GrabNode, At, Goto, no_node_left, Linkers, Called, QueuedOn, InQueue
<1>12. Known'
  BY <1>same DEF GrabNode, At, Goto, free_index, Known, HeadPC, InQueue, Holding
<1> QED
  BY <1>1, <1>2, <1>3, <1>4, <1>5, <1>6, <1>7, <1>8, <1>9, <1>10, <1>11, <1>12

\* Without a node, the lock is taken only from the unlocked word.
LEMMA NoNodeStep ==
  ASSUME IInv, NEW x \in Contexts, NoNode(x)
  PROVE  IInv'
<1> USE DEF IInv
<1>same. \A z \in Contexts : Node(z)' = Node(z)
  BY DEF Node, NoNode, Locals
<1>apart. /\ \A z \in Contexts : pc[z] \in HasNode => Node(z) \in Nodes /\ Node(z) # None
          /\ \A y, z \in Contexts :
               pc[y] \in HasNode /\ pc[z] \in HasNode /\ Node(y) = Node(z) => y = z
  BY NodesApart, NoneIsNoNode
<1>1. VarTypes'
  BY <1>same, <1>apart DEF NoNode, At, Goto, Unlocked, Word, Locals, VarTypes, WordType, PCs,
     PendingPC, Preparing, HasNode, HasIndex, HeadPC, InQueue, Holding
<1>2. Called'
  BY <1>same, <1>apart DEF NoNode, At, Goto, Unlocked, Word, Locals, Called, VarTypes,
     PendingPC, Preparing, HasNode, HasIndex, HeadPC, InQueue, Holding
<1>3. Indices'
  BY DEF NoNode, At, Goto, Locals, Indices, Preparing, HasNode, HasIndex, InQueue
<1>4. Fresh'
  BY <1>same DEF NoNode, Goto, Fresh, Known, VarTypes, PendingPC, HasIndex, HeadPC, InQueue,
     Holding
<1>5. Pending'
  BY DEF NoNode, At, Goto, Locals, Pending, VarTypes, PendingPC, Preparing
<1>6. Locked'
  BY DEF NoNode, At, Goto, Unlocked, Word, Locals, Locked, Called, VarTypes, PendingPC,
     HasIndex, HeadPC, Holding
<1>7. Turn'
  BY DEF NoNode, Goto, Unlocked, Word, Locals, Turn, WordType, Pending, Locked, OneHead, AtHead,
     VarTypes, PendingPC, Preparing, HasNode, HeadPC
<1>8. OneHead'
  BY <1>same DEF NoNode, At, Goto, Unlocked, Word, Locals, OneHead, Called, AtHead, Fresh,
     Known, WordType, HeadPC
<1>9. TailQueued'
  BY <1>same DEF NoNode, At, Goto, Word, Locals, TailQueued, QueuedOn, OneHead, InQueue, Holding
<1>10. Successors'
  BY <1>same, <1>apart DEF NoNode, At, Goto, Locals, Successors, QueuedOn, InQueue
<1>11. Linkers'
  BY <1>same DEF NoNode, At, Goto, Unlocked, Word, Locals, Linkers, Called, QueuedOn, HasIndex,
     InQueue, Holding
<1>12. Known'
  BY <1>same, <1>apart DEF NoNode, At, Goto, Unlocked, Locals, Known, Holding
<1> QED
  BY <1>1, <1>2, <1>3, <1>4, <1>5, <1>6, <1>7, <1>8, <1>9, <1>10, <1>11, <1>12

\* The node is private until the tail is exchanged.
LEMMA InitNodeStep ==
  ASSUME IInv, NEW x \in Contexts, InitNode(x)
  PROVE  IInv'
<1> USE DEF IInv
<1>same. \A z \in Contexts : Node(z)' = Node(z)
  BY DEF Node, InitNode, Locals
<1>apart. /\ \A z \in Contexts : pc[z] \in HasNode => Node(z) \in Nodes /\ Node(z) # None
          /\ \A y, z \in Contexts :
               pc[y] \in HasNode /\ pc[z] \in HasNode /\ Node(y) = Node(z) => y = z
  BY NodesApart, NoneIsNoNode
<1>1. VarTypes'
  BY <1>apart DEF InitNode, At, Goto, Locals, VarTypes, PCs, Preparing, HasNode
<1>2. Called'
  BY <1>same, <1>apart DEF InitNode, At, Goto, Locals, Called, VarTypes, Preparing, HasNode
<1>3. Indices'
  BY DEF InitNode, At, Goto, Locals, Indices, VarTypes, PendingPC, Preparing, HasNode, HasIndex
<1>4. Fresh'
  BY <1>same, <1>apart DEF InitNode, At, Goto, Fresh, VarTypes, PendingPC, Preparing, HasNode,
     HasIndex, Holding
<1>5. Pending'
  BY <1>same DEF InitNode, At, Goto, Locals, Pending, WordType, VarTypes, PendingPC
<1>6. Locked'
  BY DEF InitNode, At, Goto, Locals, Locked, WordType, Turn, VarTypes, PendingPC, HasIndex,
     Holding
<1>7. Turn'
  BY <1>apart DEF InitNode, Goto, Locals, Turn
<1>8. OneHead'
  BY <1>same DEF InitNode, Goto, Locals, OneHead, AtHead, HeadPC
<1>9. TailQueued'
  BY <1>same DEF InitNode, At, Goto, Locals, TailQueued, Called, QueuedOn, OneHead, HasIndex,
     InQueue
<1>10. Successors'
  BY <1>same, <1>apart DEF InitNode, At, Goto, Locals, Successors, InQueue
<1>11. Linkers'
  BY <1>same DEF InitNode, At, Goto, Locals, Linkers, QueuedOn, InQueue, Holding
<1>12. Known'
  BY <1>same, <1>apart DEF InitNode, At, Goto, Locals, Known, VarTypes, PendingPC, Preparing,
     HasNode, HeadPC, InQueue
<1> QED
  BY <1>1, <1>2, <1>3, <1>4, <1>5, <1>6, <1>7, <1>8, <1>9, <1>10, <1>11, <1>12

\* The lock became free before the tail was exchanged.
LEMMA RetryTakesStep ==
  ASSUME IInv, NEW x \in Contexts, Retry(x), val[lock[x]] = Unlocked
  PROVE  IInv'
<1> USE DEF IInv
<1>code. /\ pc[x] = "retry" /\ lock[x] \in Locks
         /\ val' = [val EXCEPT ![lock[x]].locked = TRUE]
         /\ pc' = [pc EXCEPT ![x] = "release"]
         /\ UNCHANGED <<next, mcs_locked, count, lock, idx, lprev, lnext>>
         /\ val[lock[x]] = [locked |-> FALSE, pending |-> FALSE, tail |-> None]
  BY DEF Retry, At, Goto, Unlocked, Word, Locals, Called
<1>effect. /\ lock[x] \in Locks
           /\ pc[x] = "retry"
           /\ val[lock[x]].locked = FALSE
           /\ val[lock[x]].pending = FALSE
           /\ val[lock[x]].tail = None
           /\ pc' = [pc EXCEPT ![x] = "release"]
           /\ UNCHANGED <<next, mcs_locked, count, lock, idx, lprev, lnext>>
           /\ \A m \in Locks : m # lock[x] => val'[m] = val[m]
           /\ val'[lock[x]].locked = TRUE
           /\ val'[lock[x]].pending = val[lock[x]].pending
           /\ val'[lock[x]].tail = val[lock[x]].tail
  BY <1>code DEF VarTypes, WordType
<1>same. \A z \in Contexts : Node(z)' = Node(z)
  BY <1>effect DEF Node
<1>apart. /\ \A z \in Contexts : pc[z] \in HasNode => Node(z) \in Nodes /\ Node(z) # None
          /\ \A y, z \in Contexts :
               pc[y] \in HasNode /\ pc[z] \in HasNode /\ Node(y) = Node(z) => y = z
  BY NodesApart, NoneIsNoNode
<1>1. VarTypes'
  <2>1. val' \in [Locks -> WordType]
    BY <1>code DEF VarTypes, WordType
  <2>2. pc' \in [Contexts -> PCs]
    BY <1>effect DEF VarTypes, PCs
  <2> QED
    BY <1>effect, <2>1, <2>2 DEF VarTypes
<1>2. Called'
  BY <1>effect DEF Called, Holding
<1>3. Indices'
  BY <1>effect, <1>same DEF Indices, Preparing, HasNode, HasIndex
<1>4. Fresh'
  BY <1>effect, <1>same DEF Fresh, PendingPC, InQueue, Holding
<1>5. Pending'
  BY <1>effect, <1>apart DEF Pending, Called, PendingPC, Holding
<1>6. Locked'
  BY <1>effect, <1>same, <1>apart DEF Locked, Called, WordType, Turn, VarTypes, HasIndex,
     Holding
<1>7. Turn'
  <2>1. \A z \in Contexts : pc[z] \in {"take_over", "claim", "set_locked"} => lock[z] # lock[x]
    BY <1>effect DEF Pending, PendingPC, OneHead, AtHead, HeadPC
  <2> QED
    BY <1>effect, <2>1 DEF Turn, Called
<1>8. OneHead'
  BY <1>effect, <1>same DEF OneHead, Called, AtHead, HeadPC
<1>9. TailQueued'
  BY <1>effect, <1>same DEF TailQueued, QueuedOn, HeadPC, InQueue, Holding
<1>10. Successors'
  BY <1>effect, <1>same DEF Successors, Called, Fresh
<1>11. Linkers'
  BY <1>effect, <1>same DEF Linkers, Called, QueuedOn, HasIndex, HeadPC, InQueue, Holding
<1>12. Known'
  BY <1>effect, <1>same DEF Known, HeadPC, InQueue, Holding
<1> QED
  BY <1>1, <1>2, <1>3, <1>4, <1>5, <1>6, <1>7, <1>8, <1>9, <1>10, <1>11, <1>12

\* The lock is still taken.
LEMMA RetryFailsStep ==
  ASSUME IInv, NEW x \in Contexts, Retry(x), val[lock[x]] # Unlocked
  PROVE  IInv'
<1> USE DEF IInv
<1>effect. /\ lock[x] \in Locks
           /\ pc[x] = "retry"
           /\ pc' = [pc EXCEPT ![x] = "xchg"]
           /\ UNCHANGED val
           /\ UNCHANGED <<next, mcs_locked, count, lock, idx, lprev, lnext>>
  BY DEF Retry, At, Goto, Locals, Called
<1>same. \A z \in Contexts : Node(z)' = Node(z)
  BY <1>effect DEF Node
<1>apart. /\ \A z \in Contexts : pc[z] \in HasNode => Node(z) \in Nodes /\ Node(z) # None
          /\ \A y, z \in Contexts :
               pc[y] \in HasNode /\ pc[z] \in HasNode /\ Node(y) = Node(z) => y = z
  BY NodesApart, NoneIsNoNode
<1>1. VarTypes'
  <2>2. pc' \in [Contexts -> PCs]
    BY <1>effect DEF VarTypes, PCs
  <2> QED
    BY <1>effect, <2>2 DEF VarTypes
<1>2. Called'
  BY <1>effect DEF Called, Holding
<1>3. Indices'
  BY <1>effect, <1>same DEF Indices, Preparing, HasNode, HasIndex
<1>4. Fresh'
  BY <1>effect, <1>same DEF Fresh, PendingPC, InQueue, Holding
<1>5. Pending'
  BY <1>effect DEF Pending, VarTypes, PendingPC
<1>6. Locked'
  BY <1>effect DEF Locked, HeadPC, Holding
<1>7. Turn'
  BY <1>effect DEF Turn, WordType
<1>8. OneHead'
  BY <1>effect, <1>same DEF OneHead, AtHead, HasIndex, HeadPC
<1>9. TailQueued'
  BY <1>effect, <1>same DEF TailQueued, Fresh, QueuedOn, HasIndex, InQueue
<1>10. Successors'
  BY <1>effect, <1>same, <1>apart DEF Successors, InQueue
<1>11. Linkers'
  BY <1>effect, <1>same, <1>apart DEF Linkers, Called, QueuedOn, InQueue
<1>12. Known'
  BY <1>effect, <1>same, <1>apart DEF Known, HeadPC, InQueue, Holding
<1> QED
  BY <1>1, <1>2, <1>3, <1>4, <1>5, <1>6, <1>7, <1>8, <1>9, <1>10, <1>11, <1>12

\* The first in the queue is its head.
LEMMA XchgTailFirstStep ==
  ASSUME IInv, NEW x \in Contexts, XchgTail(x), val[lock[x]].tail = None
  PROVE  IInv'
<1> USE DEF IInv
<1>effect. /\ lock[x] \in Locks
           /\ pc[x] = "xchg"
           /\ pc' = [pc EXCEPT ![x] = "head"]
           /\ UNCHANGED <<next, mcs_locked, count, lock, idx, lprev, lnext>>
           /\ \A m \in Locks : m # lock[x] => val'[m] = val[m]
           /\ val'[lock[x]].locked = val[lock[x]].locked
           /\ val'[lock[x]].pending = val[lock[x]].pending
           /\ val'[lock[x]].tail = Node(x)
  BY DEF XchgTail, At, Goto, queue_was_empty, Called, VarTypes
<1>same. \A z \in Contexts : Node(z)' = Node(z)
  BY <1>effect DEF Node
<1>apart. /\ \A z \in Contexts : pc[z] \in HasNode => Node(z) \in Nodes /\ Node(z) # None
          /\ \A y, z \in Contexts :
               pc[y] \in HasNode /\ pc[z] \in HasNode /\ Node(y) = Node(z) => y = z
  BY NodesApart, NoneIsNoNode
<1>1. VarTypes'
  <2>1. val' \in [Locks -> WordType]
    BY <1>effect, <1>apart DEF XchgTail, VarTypes, WordType, HasNode, Preparing
  <2>2. pc' \in [Contexts -> PCs]
    BY <1>effect DEF VarTypes, PCs
  <2> QED
    BY <1>effect, <2>1, <2>2 DEF VarTypes
<1>2. Called'
  BY <1>effect DEF Called, Holding
<1>3. Indices'
  BY <1>effect, <1>same DEF Indices, Preparing, HasNode, HasIndex
<1>4. Fresh'
  BY <1>effect, <1>same DEF Fresh, PendingPC, InQueue, Holding
<1>5. Pending'
  BY <1>effect, <1>same, <1>apart DEF Pending, Called, PendingPC, Preparing, HasNode, HasIndex,
     HeadPC, InQueue, Holding
<1>6. Locked'
  BY <1>effect DEF Locked, Called, Holding
<1>7. Turn'
  BY <1>effect DEF Turn, Called
<1>8. OneHead'
  BY <1>effect, <1>same, <1>apart DEF OneHead, Called, AtHead, Preparing, HasNode, HeadPC
<1>9. TailQueued'
  BY <1>effect, <1>same DEF TailQueued, Fresh, QueuedOn, OneHead, VarTypes, PendingPC,
     Preparing, HasNode, HasIndex, HeadPC, InQueue
<1>10. Successors'
  BY <1>effect, <1>same, <1>apart DEF Successors, Called, Fresh, InQueue
<1>11. Linkers'
  BY <1>effect, <1>same, <1>apart DEF Linkers, Called, QueuedOn, Preparing, HasNode, InQueue
<1>12. Known'
  BY <1>effect, <1>same, <1>apart DEF Known, VarTypes, PendingPC, HeadPC, InQueue, Holding
<1> QED
  BY <1>1, <1>2, <1>3, <1>4, <1>5, <1>6, <1>7, <1>8, <1>9, <1>10, <1>11, <1>12

\* Each later one has the old tail to itself: nobody else links behind it.
LEMMA XchgTailBehindStep ==
  ASSUME IInv, NEW x \in Contexts, XchgTail(x), val[lock[x]].tail # None
  PROVE  IInv'
<1> USE DEF IInv
<1>effect. /\ lock[x] \in Locks
           /\ pc[x] = "xchg"
           /\ pc' = [pc EXCEPT ![x] = "link"]
           /\ lprev' = [lprev EXCEPT ![x] = val[lock[x]].tail]
           /\ UNCHANGED <<next, mcs_locked, count, lock, idx, lnext>>
           /\ \A m \in Locks : m # lock[x] => val'[m] = val[m]
           /\ val'[lock[x]].locked = val[lock[x]].locked
           /\ val'[lock[x]].pending = val[lock[x]].pending
           /\ val'[lock[x]].tail = Node(x)
  BY DEF XchgTail, At, Goto, queue_was_empty, Called, VarTypes
<1>same. \A z \in Contexts : Node(z)' = Node(z)
  BY <1>effect DEF Node
<1>apart. /\ \A z \in Contexts : pc[z] \in HasNode => Node(z) \in Nodes /\ Node(z) # None
          /\ \A y, z \in Contexts :
               pc[y] \in HasNode /\ pc[z] \in HasNode /\ Node(y) = Node(z) => y = z
  BY NodesApart, NoneIsNoNode
<1>1. VarTypes'
  <2>1. val' \in [Locks -> WordType]
    BY <1>effect, <1>apart DEF XchgTail, VarTypes, WordType, HasNode, Preparing
  <2>2. pc' \in [Contexts -> PCs]
    BY <1>effect DEF VarTypes, PCs
  <2>3. lprev' \in [Contexts -> Nodes \cup {None}]
    BY <1>effect DEF VarTypes, WordType
  <2> QED
    BY <1>effect, <2>1, <2>2, <2>3 DEF VarTypes
<1>2. Called'
  BY <1>effect DEF Called, Holding
<1>3. Indices'
  BY <1>effect DEF Indices, Preparing, HasNode, HasIndex
<1>4. Fresh'
  BY <1>effect, <1>same DEF Fresh, PendingPC, InQueue, Holding
<1>5. Pending'
  BY <1>effect, <1>same, <1>apart DEF Pending, Called, PendingPC, HasNode, HasIndex, HeadPC,
     InQueue, Holding
<1>6. Locked'
  BY <1>effect DEF Locked, Called, Holding
<1>7. Turn'
  BY <1>effect DEF Turn, Called
<1>8. OneHead'
  BY <1>effect, <1>same, <1>apart DEF OneHead, Called, AtHead, Preparing, HasNode, HeadPC
<1>9. TailQueued'
  BY <1>effect, <1>same DEF TailQueued, Fresh, QueuedOn, OneHead, VarTypes, PendingPC,
     Preparing, HasNode, HasIndex, HeadPC, InQueue
<1>10. Successors'
  BY <1>effect, <1>same, <1>apart DEF Successors, Called, Fresh, InQueue
<1>11. Linkers'
  <2>1. pc[x] # "link" /\ pc'[x] = "link" /\ lprev'[x] = val[lock[x]].tail
    BY <1>effect DEF VarTypes
  <2>2. \A z \in Contexts : z # x => pc'[z] = pc[z] /\ lprev'[z] = lprev[z]
    BY <1>effect
  <2>3. ASSUME NEW n, NEW m \in Locks, QueuedOn(n, m) PROVE QueuedOn(n, m)' /\ n # Node(x)
    BY <1>effect, <1>same, <1>apart, <2>3 DEF QueuedOn, InQueue, HasNode, Preparing
  <2>4. \A y \in Contexts : pc[y] = "link" => lprev[y] # val[lock[x]].tail
    <3>1. ASSUME NEW y \in Contexts, pc[y] = "link", lprev[y] = val[lock[x]].tail PROVE FALSE
      <4>1. QueuedOn(lprev[y], lock[y]) /\ QueuedOn(lprev[y], lock[x])
        BY <1>effect, <3>1 DEF Linkers, TailQueued
      <4>2. lock[x] = lock[y]
        BY <4>1, <1>apart DEF QueuedOn, HasNode
      <4> QED
        BY <3>1, <4>2 DEF Linkers
    <3> QED
      BY <3>1
  <2>5. ASSUME NEW y \in Contexts, pc'[y] = "link"
        PROVE  /\ QueuedOn(lprev[y], lock[y])'
               /\ next'[lprev'[y]] = None
               /\ val'[lock'[y]].tail # lprev'[y]
    <3>1. CASE y = x
      BY <1>effect, <2>1, <2>3, <3>1 DEF TailQueued
    <3>2. CASE y # x
      <4>1. /\ lock[y] \in Locks /\ QueuedOn(lprev[y], lock[y])
            /\ next[lprev[y]] = None /\ val[lock[y]].tail # lprev[y]
        BY <2>2, <2>5, <3>2 DEF Linkers, Called
      <4> QED
        BY <1>effect, <2>2, <2>3, <3>2, <4>1
    <3> QED
      BY <3>1, <3>2
  <2>6. ASSUME NEW y \in Contexts, NEW z \in Contexts, pc'[y] = "link", pc'[z] = "link",
               lprev'[y] = lprev'[z]
        PROVE  y = z
    BY <2>1, <2>2, <2>4, <2>6 DEF Linkers
  <2> QED
    BY <2>5, <2>6 DEF Linkers
<1>12. Known'
  BY <1>effect, <1>same DEF Known
<1> QED
  BY <1>1, <1>2, <1>3, <1>4, <1>5, <1>6, <1>7, <1>8, <1>9, <1>10, <1>11, <1>12

\* The predecessor still is in the queue, without a successor.
LEMMA LinkStep ==
  ASSUME IInv, NEW x \in Contexts, Link(x)
  PROVE  IInv'
<1> USE DEF IInv
<1>same. \A z \in Contexts : Node(z)' = Node(z)
  BY DEF Node, Link, At, Goto
<1>apart. /\ \A z \in Contexts : pc[z] \in HasNode => Node(z) \in Nodes /\ Node(z) # None
          /\ \A y, z \in Contexts :
               pc[y] \in HasNode /\ pc[z] \in HasNode /\ Node(y) = Node(z) => y = z
  BY NodesApart, NoneIsNoNode
<1>1. VarTypes'
  BY <1>same, <1>apart DEF Link, At, Goto, VarTypes, WordType, PCs, PendingPC, Preparing,
     HasNode, HasIndex, HeadPC, InQueue, Holding
<1>2. Called'
  BY <1>same, <1>apart DEF Link, At, Goto, Called, VarTypes, PendingPC, Preparing, HasNode,
     HasIndex, HeadPC, InQueue, Holding
<1>3. Indices'
  BY DEF Link, At, Goto, Indices, HasNode, HasIndex, InQueue
<1>4. Fresh'
  BY <1>same, <1>apart DEF Link, At, Goto, Fresh, Linkers, QueuedOn, Preparing, HasNode,
     HasIndex, HeadPC, InQueue, Holding
<1>5. Pending'
  BY <1>same, <1>apart DEF Link, At, Goto, Pending, PendingPC, HasIndex, InQueue, Holding
<1>6. Locked'
  BY DEF Link, At, Goto, Locked, Called, WordType, Preparing, Holding
<1>7. Turn'
  BY <1>same DEF Link, Goto, Turn, Holding
<1>8. OneHead'
  BY <1>same DEF Link, At, Goto, OneHead, Called, AtHead, Fresh, Known, HeadPC
<1>9. TailQueued'
  BY <1>same, <1>apart DEF Link, At, Goto, TailQueued, QueuedOn, Linkers, VarTypes, PendingPC,
     Preparing, HasNode, InQueue, Holding
<1>10. Successors'
  BY <1>same, <1>apart DEF Link, At, Goto, Successors, Fresh, QueuedOn, Linkers, OneHead,
     VarTypes, Preparing, HasNode, InQueue
<1>11. Linkers'
  BY <1>same, <1>apart DEF Link, At, Goto, Linkers, Fresh, QueuedOn, VarTypes, HasNode, InQueue
<1>12. Known'
  BY <1>same DEF Link, At, Goto, Known, Linkers, Successors, HeadPC, InQueue, Holding
<1> QED
  BY <1>1, <1>2, <1>3, <1>4, <1>5, <1>6, <1>7, <1>8, <1>9, <1>10, <1>11, <1>12

\* Who was passed the head leaves its wait.
LEMMA McsWaitStep ==
  ASSUME IInv, NEW x \in Contexts, McsWait(x)
  PROVE  IInv'
<1> USE DEF IInv
<1>same. \A z \in Contexts : Node(z)' = Node(z)
  BY DEF Node, McsWait, Locals
<1>apart. /\ \A z \in Contexts : pc[z] \in HasNode => Node(z) \in Nodes /\ Node(z) # None
          /\ \A y, z \in Contexts :
               pc[y] \in HasNode /\ pc[z] \in HasNode /\ Node(y) = Node(z) => y = z
  BY NodesApart, NoneIsNoNode
<1>1. VarTypes'
  BY DEF McsWait, Goto, Locals, VarTypes, PCs
<1>2. Called'
  BY <1>apart DEF McsWait, At, Goto, Locals, Called, VarTypes
<1>3. Indices'
  BY DEF McsWait, At, Goto, Locals, Indices, HasNode, HasIndex, HeadPC, InQueue, Holding
<1>4. Fresh'
  BY <1>same DEF McsWait, Goto, Fresh, Successors, Known, Linkers, QueuedOn, VarTypes, InQueue,
     Holding
<1>5. Pending'
  BY DEF McsWait, At, Goto, Locals, Pending, VarTypes, PendingPC
<1>6. Locked'
  BY DEF McsWait, At, Goto, Locals, Locked, VarTypes, PendingPC, HasIndex, HeadPC, InQueue,
     Holding
<1>7. Turn'
  BY <1>apart DEF McsWait, Goto, Locals, Turn
<1>8. OneHead'
  BY <1>same, <1>apart DEF McsWait, At, Goto, Locals, OneHead, Called, AtHead
<1>9. TailQueued'
  BY <1>same DEF McsWait, Goto, Locals, TailQueued, QueuedOn, HasIndex, HeadPC, InQueue, Holding
<1>10. Successors'
  BY <1>same, <1>apart DEF McsWait, At, Goto, Locals, Successors, InQueue
<1>11. Linkers'
  BY <1>same DEF McsWait, At, Goto, Locals, Linkers, QueuedOn, InQueue, Holding
<1>12. Known'
  BY <1>same, <1>apart DEF McsWait, At, Goto, Locals, Known, HasIndex, InQueue, Holding
<1> QED
  BY <1>1, <1>2, <1>3, <1>4, <1>5, <1>6, <1>7, <1>8, <1>9, <1>10, <1>11, <1>12

\* The optimistic load keeps what the successor published.
LEMMA ReadNextStep ==
  ASSUME IInv, NEW x \in Contexts, ReadNext(x)
  PROVE  IInv'
<1> USE DEF IInv
<1>same. \A z \in Contexts : Node(z)' = Node(z)
  BY DEF Node, ReadNext, At, Goto
<1>apart. /\ \A z \in Contexts : pc[z] \in HasNode => Node(z) \in Nodes /\ Node(z) # None
          /\ \A y, z \in Contexts :
               pc[y] \in HasNode /\ pc[z] \in HasNode /\ Node(y) = Node(z) => y = z
  BY NodesApart, NoneIsNoNode
<1>1. VarTypes'
  BY <1>apart DEF ReadNext, At, Goto, VarTypes, PCs, HasNode, InQueue
<1>2. Called'
  BY <1>same, <1>apart DEF ReadNext, At, Goto, Called, Preparing, HasNode
<1>3. Indices'
  BY DEF ReadNext, At, Goto, Indices, HasNode, HasIndex, InQueue
<1>4. Fresh'
  BY <1>same DEF ReadNext, Goto, Fresh, VarTypes, PendingPC, HasIndex, HeadPC, Holding
<1>5. Pending'
  BY DEF ReadNext, At, Goto, Pending, VarTypes, PendingPC, Preparing
<1>6. Locked'
  BY DEF ReadNext, At, Goto, Locked, PendingPC, Preparing, HasNode, InQueue, Holding
<1>7. Turn'
  BY <1>same DEF ReadNext, Goto, Turn, Holding
<1>8. OneHead'
  BY <1>same DEF ReadNext, At, Goto, OneHead, AtHead, HeadPC
<1>9. TailQueued'
  BY <1>same DEF ReadNext, Goto, TailQueued, Called, QueuedOn, OneHead, HasIndex, HeadPC,
     InQueue, Holding
<1>10. Successors'
  BY <1>same, <1>apart DEF ReadNext, At, Goto, Successors, InQueue
<1>11. Linkers'
  BY <1>same, <1>apart DEF ReadNext, At, Goto, Linkers, Called, QueuedOn, InQueue
<1>12. Known'
  BY <1>same DEF ReadNext, Goto, Known, VarTypes, HasIndex, HeadPC, Holding
<1> QED
  BY <1>1, <1>2, <1>3, <1>4, <1>5, <1>6, <1>7, <1>8, <1>9, <1>10, <1>11, <1>12

\* The head sees owner and pending waiter gone.
LEMMA WaitHeadStep ==
  ASSUME IInv, NEW x \in Contexts, WaitHead(x)
  PROVE  IInv'
<1> USE DEF IInv
<1>same. \A z \in Contexts : Node(z)' = Node(z)
  BY DEF Node, WaitHead, Locals
<1>apart. /\ \A z \in Contexts : pc[z] \in HasNode => Node(z) \in Nodes /\ Node(z) # None
          /\ \A y, z \in Contexts :
               pc[y] \in HasNode /\ pc[z] \in HasNode /\ Node(y) = Node(z) => y = z
  BY NodesApart, NoneIsNoNode
<1>1. VarTypes'
  BY DEF WaitHead, Goto, Locals, VarTypes, PCs
<1>2. Called'
  BY <1>same DEF WaitHead, At, Goto, owner_and_pending_gone, Locals, Called
<1>3. Indices'
  BY DEF WaitHead, At, Goto, Locals, Indices, HasNode, HasIndex, HeadPC, InQueue
<1>4. Fresh'
  BY <1>same DEF WaitHead, Goto, Fresh, Successors, Known, QueuedOn, VarTypes, InQueue, Holding
<1>5. Pending'
  BY DEF WaitHead, At, Goto, Locals, Pending, VarTypes, PendingPC
<1>6. Locked'
  BY DEF WaitHead, At, Goto, Locals, Locked, PendingPC, HasIndex, HeadPC, Holding
<1>7. Turn'
  BY DEF WaitHead, At, Goto, owner_and_pending_gone, Locals, Turn, Called, Pending, PendingPC
<1>8. OneHead'
  BY <1>same DEF WaitHead, At, Goto, owner_and_pending_gone, Locals, OneHead, AtHead, Fresh,
     HeadPC
<1>9. TailQueued'
  BY <1>same, <1>apart DEF WaitHead, Goto, Locals, TailQueued, QueuedOn, HasIndex, HeadPC,
     InQueue, Holding
<1>10. Successors'
  BY <1>same DEF WaitHead, At, Goto, owner_and_pending_gone, Locals, Successors, InQueue
<1>11. Linkers'
  BY <1>same, <1>apart DEF WaitHead, At, Goto, owner_and_pending_gone, Locals, Linkers, Called,
     QueuedOn, InQueue
<1>12. Known'
  BY <1>same DEF WaitHead, At, Goto, Locals, Known, HeadPC, InQueue, Holding
<1> QED
  BY <1>1, <1>2, <1>3, <1>4, <1>5, <1>6, <1>7, <1>8, <1>9, <1>10, <1>11, <1>12

\* The last in the queue empties it: nobody has queued behind.
LEMMA ClaimTakesStep ==
  ASSUME IInv, NEW x \in Contexts, Claim(x), sole_in_queue(val[lock[x]], Node(x))
  PROVE  IInv'
<1> USE DEF IInv
<1>code. /\ pc[x] = "claim" /\ lock[x] \in Locks
         /\ val' = [val EXCEPT ![lock[x]] = [locked |-> TRUE, pending |-> FALSE, tail |-> None]]
         /\ pc' = [pc EXCEPT ![x] = "release"]
         /\ UNCHANGED <<next, mcs_locked, count, lock, idx, lprev, lnext>>
         /\ val[lock[x]] = [locked |-> FALSE, pending |-> FALSE, tail |-> Node(x)]
  BY DEF Claim, At, Goto, sole_in_queue, claimed, Word, Locals, Called
<1>effect. /\ lock[x] \in Locks
           /\ pc[x] = "claim"
           /\ val[lock[x]].locked = FALSE
           /\ val[lock[x]].pending = FALSE
           /\ val[lock[x]].tail = Node(x)
           /\ pc' = [pc EXCEPT ![x] = "release"]
           /\ UNCHANGED <<next, mcs_locked, count, lock, idx, lprev, lnext>>
           /\ \A m \in Locks : m # lock[x] => val'[m] = val[m]
           /\ val'[lock[x]].locked = TRUE
           /\ val'[lock[x]].pending = FALSE
           /\ val'[lock[x]].tail = None
  BY <1>code DEF VarTypes, WordType
<1>same. \A z \in Contexts : Node(z)' = Node(z)
  BY <1>effect DEF Node
<1>apart. /\ \A z \in Contexts : pc[z] \in HasNode => Node(z) \in Nodes /\ Node(z) # None
          /\ \A y, z \in Contexts :
               pc[y] \in HasNode /\ pc[z] \in HasNode /\ Node(y) = Node(z) => y = z
  BY NodesApart, NoneIsNoNode
<1>1. VarTypes'
  <2>1. val' \in [Locks -> WordType]
    BY <1>code DEF VarTypes, WordType
  <2>2. pc' \in [Contexts -> PCs]
    BY <1>effect DEF VarTypes, PCs
  <2> QED
    BY <1>effect, <2>1, <2>2 DEF VarTypes
<1>2. Called'
  BY <1>effect DEF Called, Holding
<1>3. Indices'
  BY <1>effect DEF Indices, HasNode, HasIndex, InQueue
<1>4. Fresh'
  BY <1>effect, <1>same DEF Fresh, QueuedOn, HasIndex, InQueue, Holding
<1>5. Pending'
  BY <1>effect DEF Pending, Called, PendingPC, Preparing, HasNode
<1>6. Locked'
  BY <1>effect DEF Locked, Called, VarTypes, PendingPC, HasIndex, HeadPC, Holding
<1>7. Turn'
  BY <1>effect DEF Turn, Called, WordType, OneHead, AtHead, VarTypes, HeadPC
<1>8. OneHead'
  BY <1>effect, <1>same, <1>apart DEF OneHead, Called, AtHead, Successors, VarTypes, HeadPC
<1>9. TailQueued'
  BY <1>effect, <1>same, <1>apart DEF TailQueued, QueuedOn, OneHead, HasIndex, HeadPC
<1>10. Successors'
  BY <1>effect, <1>same DEF Successors, InQueue, Holding
<1>11. Linkers'
  <2>1. ASSUME NEW y \in Contexts, pc'[y] = "link"
        PROVE  /\ QueuedOn(lprev[y], lock[y])'
               /\ next'[lprev'[y]] = None
               /\ val'[lock'[y]].tail # lprev'[y]
    <3>1. /\ pc[y] = "link" /\ y # x /\ lock[y] \in Locks /\ QueuedOn(lprev[y], lock[y])
          /\ next[lprev[y]] = None /\ val[lock[y]].tail # lprev[y]
      BY <1>effect, <2>1 DEF Linkers, Called
    <3>2. PICK z \in Contexts : lock[z] = lock[y] /\ pc[z] \in InQueue /\ Node(z) = lprev[y]
      BY <3>1 DEF QueuedOn
    <3>3. z # x /\ lprev[y] # None
      BY <1>effect, <1>apart, <3>1, <3>2 DEF HasNode
    <3>4. QueuedOn(lprev[y], lock[y])'
      BY <1>effect, <1>same, <3>2, <3>3 DEF QueuedOn
    <3> QED
      BY <1>effect, <3>1, <3>3, <3>4
  <2>2. \A z \in Contexts : pc'[z] = "link" => pc[z] = "link" /\ lprev'[z] = lprev[z]
    BY <1>effect DEF VarTypes
  <2> QED
    BY <2>1, <2>2 DEF Linkers
<1>12. Known'
  <2>1. lnext[x] = None
    BY <1>effect, <1>apart DEF Known, TailQueued, InQueue, HasNode
  <2> QED
    BY <1>effect, <1>same, <2>1 DEF Known, VarTypes
<1> QED
  BY <1>1, <1>2, <1>3, <1>4, <1>5, <1>6, <1>7, <1>8, <1>9, <1>10, <1>11, <1>12

\* Another tail or a pending bit came in.
LEMMA ClaimFailsStep ==
  ASSUME IInv, NEW x \in Contexts, Claim(x), ~sole_in_queue(val[lock[x]], Node(x))
  PROVE  IInv'
<1> USE DEF IInv
<1>effect. /\ lock[x] \in Locks
           /\ pc[x] = "claim"
           /\ pc' = [pc EXCEPT ![x] = "set_locked"]
           /\ UNCHANGED val
           /\ UNCHANGED <<next, mcs_locked, count, lock, idx, lprev, lnext>>
  BY DEF Claim, At, Goto, Word, Locals, Called
<1>same. \A z \in Contexts : Node(z)' = Node(z)
  BY <1>effect DEF Node
<1>apart. /\ \A z \in Contexts : pc[z] \in HasNode => Node(z) \in Nodes /\ Node(z) # None
          /\ \A y, z \in Contexts :
               pc[y] \in HasNode /\ pc[z] \in HasNode /\ Node(y) = Node(z) => y = z
  BY NodesApart, NoneIsNoNode
<1>1. VarTypes'
  <2>2. pc' \in [Contexts -> PCs]
    BY <1>effect DEF VarTypes, PCs
  <2> QED
    BY <1>effect, <2>2 DEF VarTypes
<1>2. Called'
  BY <1>effect DEF Called, Holding
<1>3. Indices'
  BY <1>effect DEF Indices, HasNode, HasIndex, InQueue
<1>4. Fresh'
  BY <1>effect, <1>same DEF Fresh, QueuedOn, HasIndex, InQueue, Holding
<1>5. Pending'
  BY <1>effect DEF Pending, VarTypes, PendingPC
<1>6. Locked'
  BY <1>effect DEF Locked, HeadPC, Holding
<1>7. Turn'
  BY <1>effect DEF Turn, WordType
<1>8. OneHead'
  BY <1>effect, <1>same DEF OneHead, AtHead, HasIndex, HeadPC
<1>9. TailQueued'
  BY <1>effect, <1>same DEF TailQueued, Fresh, QueuedOn, HasIndex, InQueue
<1>10. Successors'
  BY <1>effect, <1>same, <1>apart DEF Successors, InQueue
<1>11. Linkers'
  BY <1>effect, <1>same, <1>apart DEF Linkers, Called, QueuedOn, InQueue
<1>12. Known'
  BY <1>effect, <1>same, <1>apart DEF Known, HeadPC, InQueue, Holding
<1> QED
  BY <1>1, <1>2, <1>3, <1>4, <1>5, <1>6, <1>7, <1>8, <1>9, <1>10, <1>11, <1>12

\* The head takes the lock that no pending waiter can take.
LEMMA SetLockedStep ==
  ASSUME IInv, NEW x \in Contexts, SetLocked(x)
  PROVE  IInv'
<1> USE DEF IInv
<1>same. \A z \in Contexts : Node(z)' = Node(z)
  BY DEF Node, SetLocked, Locals
<1>apart. /\ \A z \in Contexts : pc[z] \in HasNode => Node(z) \in Nodes /\ Node(z) # None
          /\ \A y, z \in Contexts :
               pc[y] \in HasNode /\ pc[z] \in HasNode /\ Node(y) = Node(z) => y = z
  BY NodesApart, NoneIsNoNode
<1>1. VarTypes'
  <2>1. lock[x] \in Locks
    BY DEF SetLocked, At, Called
  <2>2. val' \in [Locks -> WordType]
    <3>1. [val[lock[x]] EXCEPT !.locked = TRUE] \in WordType
      BY <2>1, WordStores DEF VarTypes
    <3> QED
      BY <2>1, <3>1 DEF SetLocked, VarTypes
  <2>3. pc' \in [Contexts -> PCs]
    BY DEF SetLocked, At, Goto, next_is_known, Locals, VarTypes, PCs
  <2> QED
    BY <2>2, <2>3 DEF SetLocked, Locals, VarTypes
<1>2. Called'
  BY DEF SetLocked, At, Goto, Locals, Called
<1>3. Indices'
  BY DEF SetLocked, At, Goto, next_is_known, Locals, Indices, HasNode, HasIndex, InQueue
<1>4. Fresh'
  BY <1>same DEF SetLocked, Goto, Fresh, Known, Linkers, QueuedOn, PendingPC, HasIndex, InQueue,
     Holding
<1>5. Pending'
  BY DEF SetLocked, At, Goto, Locals, Pending, VarTypes, PendingPC
<1>6. Locked'
  BY DEF SetLocked, At, Goto, Locals, Locked, Called, Turn, VarTypes, PendingPC, HasIndex,
     HeadPC, Holding
<1>7. Turn'
  BY DEF SetLocked, At, Goto, Locals, Turn, Called, WordType, Locked, OneHead, AtHead, VarTypes,
     PendingPC, Preparing, HeadPC
<1>8. OneHead'
  BY <1>same DEF SetLocked, At, Goto, Locals, OneHead, Called, AtHead, Successors, HeadPC
<1>9. TailQueued'
  BY <1>same, <1>apart DEF SetLocked, Goto, Locals, TailQueued, QueuedOn, HasIndex, HeadPC,
     InQueue, Holding
<1>10. Successors'
  BY <1>same DEF SetLocked, At, Goto, next_is_known, Locals, Successors, InQueue
<1>11. Linkers'
  BY <1>same, <1>apart DEF SetLocked, At, Goto, next_is_known, Locals, Linkers, Called,
     QueuedOn, InQueue
<1>12. Known'
  BY <1>same DEF SetLocked, At, Goto, next_is_known, Locals, Known, HeadPC, InQueue, Holding
<1> QED
  BY <1>1, <1>2, <1>3, <1>4, <1>5, <1>6, <1>7, <1>8, <1>9, <1>10, <1>11, <1>12

\* The successor has linked itself.
LEMMA WaitNextStep ==
  ASSUME IInv, NEW x \in Contexts, WaitNext(x)
  PROVE  IInv'
<1> USE DEF IInv
<1>same. \A z \in Contexts : Node(z)' = Node(z)
  BY DEF Node, WaitNext, At, Goto
<1>apart. /\ \A z \in Contexts : pc[z] \in HasNode => Node(z) \in Nodes /\ Node(z) # None
          /\ \A y, z \in Contexts :
               pc[y] \in HasNode /\ pc[z] \in HasNode /\ Node(y) = Node(z) => y = z
  BY NodesApart, NoneIsNoNode
<1>1. VarTypes'
  BY <1>apart DEF WaitNext, At, Goto, VarTypes, PCs, HasNode, InQueue
<1>2. Called'
  BY <1>same, <1>apart DEF WaitNext, At, Goto, Called, Preparing, HasNode
<1>3. Indices'
  BY DEF WaitNext, At, Goto, Indices, HasNode, HasIndex, InQueue
<1>4. Fresh'
  BY <1>same DEF WaitNext, Goto, Fresh, VarTypes, PendingPC, HasIndex, HeadPC, Holding
<1>5. Pending'
  BY DEF WaitNext, At, Goto, Pending, VarTypes, PendingPC, Preparing
<1>6. Locked'
  BY DEF WaitNext, At, Goto, Locked, PendingPC, Preparing, HasNode, InQueue, Holding
<1>7. Turn'
  BY <1>same DEF WaitNext, Goto, Turn, Holding
<1>8. OneHead'
  BY <1>same DEF WaitNext, At, Goto, OneHead, AtHead, HeadPC
<1>9. TailQueued'
  BY <1>same DEF WaitNext, Goto, TailQueued, Called, QueuedOn, OneHead, HasIndex, HeadPC,
     Holding
<1>10. Successors'
  BY <1>same, <1>apart DEF WaitNext, At, Goto, Successors, InQueue
<1>11. Linkers'
  BY <1>same, <1>apart DEF WaitNext, At, Goto, Linkers, Called, QueuedOn, InQueue
<1>12. Known'
  BY <1>same, <1>apart DEF WaitNext, Goto, Known, VarTypes, PendingPC, Preparing, HasNode
<1> QED
  BY <1>1, <1>2, <1>3, <1>4, <1>5, <1>6, <1>7, <1>8, <1>9, <1>10, <1>11, <1>12

\* The head goes to a successor that still waits for it.
LEMMA PassHeadStep ==
  ASSUME IInv, NEW x \in Contexts, PassHead(x)
  PROVE  IInv'
<1> USE DEF IInv
<1>same. \A z \in Contexts : Node(z)' = Node(z)
  BY DEF Node, PassHead, At, Goto
<1>apart. /\ \A z \in Contexts : pc[z] \in HasNode => Node(z) \in Nodes /\ Node(z) # None
          /\ \A y, z \in Contexts :
               pc[y] \in HasNode /\ pc[z] \in HasNode /\ Node(y) = Node(z) => y = z
  BY NodesApart, NoneIsNoNode
<1>1. VarTypes'
  BY <1>same, <1>apart DEF PassHead, At, Goto, VarTypes, WordType, PCs, PendingPC, Preparing,
     HasNode, HasIndex, HeadPC, InQueue, Holding
<1>2. Called'
  BY <1>same, <1>apart DEF PassHead, At, Goto, Called, VarTypes, PendingPC, Preparing, HasNode,
     HasIndex, HeadPC, InQueue, Holding
<1>3. Indices'
  BY DEF PassHead, At, Goto, Indices, HasNode, HasIndex, InQueue
<1>4. Fresh'
  BY <1>same, <1>apart DEF PassHead, Goto, Fresh, Successors, Known, Preparing, HasNode,
     HasIndex, HeadPC, InQueue, Holding
<1>5. Pending'
  BY DEF PassHead, At, Goto, Pending, PendingPC, HasIndex, InQueue, Holding
<1>6. Locked'
  BY DEF PassHead, At, Goto, Locked, Called, WordType, Preparing, Holding
<1>7. Turn'
  BY <1>same DEF PassHead, Goto, Turn, Holding
<1>8. OneHead'
  BY <1>same, <1>apart DEF PassHead, Goto, OneHead, AtHead, Known, Successors, VarTypes,
     HasNode, HasIndex, HeadPC, InQueue, Holding
<1>9. TailQueued'
  BY <1>same DEF PassHead, At, Goto, TailQueued, Called, QueuedOn, OneHead, Known, WordType,
     VarTypes, Preparing, HeadPC, Holding
<1>10. Successors'
  BY <1>same DEF PassHead, At, Goto, Successors, Known, VarTypes, InQueue
<1>11. Linkers'
  BY <1>same, <1>apart DEF PassHead, At, Goto, Linkers, Called, QueuedOn, Known, VarTypes,
     InQueue
<1>12. Known'
  BY <1>same DEF PassHead, Goto, Known, VarTypes, PendingPC, Preparing, HasNode
<1> QED
  BY <1>1, <1>2, <1>3, <1>4, <1>5, <1>6, <1>7, <1>8, <1>9, <1>10, <1>11, <1>12

\* The count drops below the index of the context, above those it interrupted.
LEMMA ReleaseStep ==
  ASSUME IInv, NEW x \in Contexts, Release(x)
  PROVE  IInv'
<1> USE DEF IInv
<1>same. \A z \in Contexts : z # x => Node(z)' = Node(z)
  BY DEF Node, Release
<1>apart. /\ \A z \in Contexts : pc[z] \in HasNode => Node(z) \in Nodes /\ Node(z) # None
          /\ \A y, z \in Contexts :
               pc[y] \in HasNode /\ pc[z] \in HasNode /\ Node(y) = Node(z) => y = z
  BY NodesApart, NoneIsNoNode
<1>1. VarTypes'
  <2>1. x[1] \in CPUs /\ count[x[1]] \in Nat /\ idx[x] \in Nat /\ idx[x] < count[x[1]]
    BY ContextPair DEF VarTypes, Indices, HasIndex, Release, At
  <2>2. idx' \in [Contexts -> Nat \cup {None}]
    BY DEF Release, VarTypes
  <2>3. count' \in [CPUs -> Nat]
    BY <2>1 DEF Release, VarTypes
  <2>4. pc' \in [Contexts -> PCs]
    BY DEF Release, Goto, VarTypes, PCs
  <2> QED
    BY <2>2, <2>3, <2>4 DEF Release, VarTypes
<1>2. Called'
  BY DEF Release, At, Goto, Called
<1>3. Indices'
  <2>1. pc[x] = "release" /\ pc[x] \in HasIndex /\ pc'[x] \notin HasIndex
    BY DEF Release, At, Goto, VarTypes, HasIndex, HasNode, Preparing, InQueue
  <2>2. \A z \in Contexts : z # x => pc'[z] = pc[z] /\ idx'[z] = idx[z]
    BY DEF Release, Goto, VarTypes
  <2>3. \A z \in Contexts : z[1] \in CPUs /\ count[z[1]] \in Nat /\ z[2] \in Nat /\ z = <<z[1], z[2]>>
    BY ContextPair DEF VarTypes
  <2>4. \A c \in CPUs : /\ c # x[1] => count'[c] = count[c]
                        /\ c = x[1] => count'[c] = count[c] - 1
    BY <2>3 DEF Release, VarTypes
  <2>5. \A z \in Contexts : z[1] = x[1] /\ x[2] < z[2] => pc[z] = "idle"
    BY ContextPair DEF Release, At, Running
  <2>6. ASSUME NEW z \in Contexts, pc'[z] \in HasIndex PROVE idx'[z] < count'[z[1]]
    <3>1. z # x /\ pc[z] \in HasIndex /\ idx'[z] = idx[z]
      BY <2>1, <2>2, <2>6
    <3>2. idx[z] \in Nat /\ idx[z] < count[z[1]]
      BY <3>1 DEF Indices
    <3>3. CASE z[1] # x[1]
      BY <2>3, <2>4, <3>1, <3>2, <3>3
    <3>4. CASE z[1] = x[1]
      <4>1. z[2] # x[2] /\ ~(x[2] < z[2])
        BY <2>3, <2>5, <3>1, <3>4 DEF HasIndex, HasNode, Preparing, InQueue
      <4>2. idx[z] < idx[x] /\ idx[x] \in Nat /\ idx[x] < count[x[1]]
        BY <2>1, <2>3, <3>1, <3>4, <4>1 DEF Indices
      <4> QED
        BY <2>3, <2>4, <3>1, <3>2, <3>4, <4>2
    <3> QED
      BY <3>3, <3>4
  <2> QED
    BY <2>1, <2>2, <2>6 DEF Indices
<1>4. Fresh'
  BY <1>same DEF Release, At, Goto, Fresh
<1>5. Pending'
  BY DEF Release, At, Goto, Pending, VarTypes, PendingPC, Preparing, HasNode
<1>6. Locked'
  BY DEF Release, At, Goto, Locked, Called, VarTypes, PendingPC, Preparing, Holding
<1>7. Turn'
  BY <1>same DEF Release, Goto, Turn, Holding
<1>8. OneHead'
  BY <1>same DEF Release, At, Goto, OneHead, AtHead, HeadPC
<1>9. TailQueued'
  BY <1>same DEF Release, At, Goto, TailQueued, Called, QueuedOn, OneHead, HasIndex, HeadPC,
     InQueue, Holding
<1>10. Successors'
  BY <1>same, <1>apart DEF Release, At, Goto, Successors, InQueue
<1>11. Linkers'
  BY <1>same, <1>apart DEF Release, At, Goto, Linkers, Called, QueuedOn, InQueue
<1>12. Known'
  BY <1>same, <1>apart DEF Release, At, Goto, Known, HeadPC, InQueue, Holding
<1> QED
  BY <1>1, <1>2, <1>3, <1>4, <1>5, <1>6, <1>7, <1>8, <1>9, <1>10, <1>11, <1>12

\* The fast path is a trylock, what is left the slow path.
LEMMA SpinLockStep ==
  ASSUME IInv, NEW x \in Contexts, NEW l \in Locks, SpinLock(x, l)
  PROVE  IInv'
<1>1. CASE val[l] = Unlocked
  <2>1. Trylock(x, l)
    BY <1>1 DEF SpinLock, Trylock
  <2> QED
    BY <2>1, TrylockStep
<1>2. CASE val[l] # Unlocked
  BY <1>2, SpinLockWaitsStep
<1> QED
  BY <1>1, <1>2

\* Both outcomes of the last trylock before queueing.
LEMMA RetryStep ==
  ASSUME IInv, NEW x \in Contexts, Retry(x)
  PROVE  IInv'
BY RetryTakesStep, RetryFailsStep

\* With and without a predecessor.
LEMMA XchgTailStep ==
  ASSUME IInv, NEW x \in Contexts, XchgTail(x)
  PROVE  IInv'
BY XchgTailFirstStep, XchgTailBehindStep

\* Both outcomes of the cmpxchg of the queue head.
LEMMA ClaimStep ==
  ASSUME IInv, NEW x \in Contexts, Claim(x)
  PROVE  IInv'
BY ClaimTakesStep, ClaimFailsStep

\* Every step of queued_spin_lock_slowpath() keeps the invariant.
LEMMA SlowpathStep ==
  ASSUME IInv, NEW x \in Contexts, Step(x)
  PROVE  IInv'
<1>1. CASE Handover(x)
  BY <1>1, HandoverStep
<1>2. CASE SetPending(x)
  BY <1>2, SetPendingStep
<1>3. CASE UndoPending(x)
  BY <1>3, UndoPendingStep
<1>4. CASE WaitOwner(x)
  BY <1>4, WaitOwnerStep
<1>5. CASE TakeOver(x)
  BY <1>5, TakeOverStep
<1>6. CASE GrabNode(x)
  BY <1>6, GrabNodeStep
<1>7. CASE NoNode(x)
  BY <1>7, NoNodeStep
<1>8. CASE InitNode(x)
  BY <1>8, InitNodeStep
<1>9. CASE Retry(x)
  BY <1>9, RetryStep
<1>10. CASE XchgTail(x)
  BY <1>10, XchgTailStep
<1>11. CASE Link(x)
  BY <1>11, LinkStep
<1>12. CASE McsWait(x)
  BY <1>12, McsWaitStep
<1>13. CASE ReadNext(x)
  BY <1>13, ReadNextStep
<1>14. CASE WaitHead(x)
  BY <1>14, WaitHeadStep
<1>15. CASE Claim(x)
  BY <1>15, ClaimStep
<1>16. CASE SetLocked(x)
  BY <1>16, SetLockedStep
<1>17. CASE WaitNext(x)
  BY <1>17, WaitNextStep
<1>18. CASE PassHead(x)
  BY <1>18, PassHeadStep
<1>19. CASE Release(x)
  BY <1>19, ReleaseStep
<1> QED
  BY <1>1, <1>2, <1>3, <1>4, <1>5, <1>6, <1>7, <1>8, <1>9, <1>10, <1>11, <1>12, <1>13, <1>14,
     <1>15, <1>16, <1>17, <1>18, <1>19 DEF Step

-----------------------------------------------------------------------------
(* The invariant holds, and what follows from it.                           *)

\* Locks start unlocked, contexts outside; Outer nodes may be in use below.
LEMMA InitInv == Init => IInv
<1> SUFFICES ASSUME Init PROVE IInv
  OBVIOUS
<1>1. VarTypes
  <2>1. Unlocked \in WordType
    BY DEF Unlocked, Word, WordType
  <2>2. Outer \subseteq Nat
    BY QSpinAssumption
  <2> QED
    BY <2>1, <2>2 DEF Init, VarTypes, PCs
<1>2. \A x \in Contexts : pc[x] = "idle" /\ lnext[x] = None
  BY DEF Init
<1>3. \A l \in Locks : ~val[l].pending /\ ~val[l].locked /\ val[l].tail = None
  BY DEF Init, Unlocked, Word
<1>4. Called /\ Indices /\ Fresh /\ Pending /\ Locked /\ Turn /\ Known
  BY <1>2, <1>3 DEF Called, Indices, Fresh, Pending, Locked, Turn, Known, HasIndex, HasNode,
     Preparing, InQueue, PendingPC, Holding
<1>5. OneHead /\ TailQueued /\ Successors /\ Linkers
  BY <1>2, <1>3 DEF OneHead, AtHead, HeadPC, TailQueued, Successors, Linkers, InQueue
<1> QED
  BY <1>1, <1>4, <1>5 DEF IInv

\* Every step keeps the invariant.
LEMMA NextInv == IInv /\ [Next]_vars => IInv'
<1>1. ASSUME IInv, Next PROVE IInv'
  <2>1. PICK x \in Contexts : \/ \E l \in Locks : SpinLock(x, l) \/ Trylock(x, l)
                              \/ Step(x)
                              \/ SpinUnlock(x)
    BY <1>1 DEF Next
  <2> QED
    BY <1>1, <2>1, SpinLockStep, TrylockStep, SlowpathStep, SpinUnlockStep
<1>2. ASSUME IInv, UNCHANGED vars PROVE IInv'
  <2>1. /\ \A x \in Contexts : Node(x)' = Node(x) /\ AtHead(x)' = AtHead(x)
        /\ \A n, l : QueuedOn(n, l)' = QueuedOn(n, l)
    BY <1>2 DEF vars, Node, AtHead, QueuedOn
  <2> QED
    BY <1>2, <2>1 DEF vars, IInv, VarTypes, Called, Indices, Fresh, Pending, Locked, Turn,
       OneHead, TailQueued,
       Successors, Linkers, Known
<1> QED
  BY <1>1, <1>2

\* The invariant holds for any CPUs, nesting levels, locks and number of nodes.
THEOREM AlwaysIInv == Spec => []IInv
BY InitInv, NextInv, PTL DEF Spec

\* The slow path dereferences no NULL node.
THEOREM TypeCorrect == Spec => []TypeOK
<1>1. IInv => TypeOK
  <2> SUFFICES ASSUME IInv PROVE TypeOK
    OBVIOUS
  <2>1. ASSUME NEW x \in Contexts, pc[x] = "link" PROVE lprev[x] # None
    BY <2>1, NodesApart, NoneIsNoNode DEF IInv, Linkers, QueuedOn, HasNode
  <2> QED
    BY <2>1 DEF IInv, Known, TypeOK
<1> QED
  BY <1>1, AlwaysIInv, PTL

\* The pending bit has one owner while it is set, and nobody after: it is
\* neither cleared under its owner nor left behind.
THEOREM PendingIsOwned == Spec => []PendingOwned
<1>1. IInv => PendingOwned
  <2> SUFFICES ASSUME IInv, NEW l \in Locks
               PROVE  LET owners == {x \in Contexts : /\ lock[x] = l
                                                      /\ pc[x] \in PendingPC}
                      IN  IF val[l].pending THEN \E x \in owners : owners = {x} ELSE owners = {}
    BY DEF PendingOwned, PendingPC
  <2> QED
    BY DEF IInv, Pending
<1> QED
  BY <1>1, AlwaysIInv, PTL

\* A node that a lock word, a predecessor or a successor names is in use for
\* that lock: no write reaches one that was reused by a nested or later call.
THEOREM NodesAreLive == Spec => []NodesLive
<1>1. IInv => NodesLive
  <2> SUFFICES ASSUME IInv PROVE NodesLive
    OBVIOUS
  <2>1. \A x \in Contexts : pc[x] \in InQueue \cup {"init", "retry", "xchg"} => Node(x) \in Nodes
    BY NodesApart DEF IInv, HasNode, Preparing
  <2>2. ASSUME NEW x \in Contexts, pc[x] = "pass"
        PROVE  \E y \in Contexts : /\ lock[y] = lock[x] /\ Node(y) = lnext[x]
                                   /\ pc[y] = "mcs_wait" /\ ~mcs_locked[Node(y)]
    BY <2>2 DEF IInv, Known, Successors, InQueue
  <2> QED
    BY <2>1, <2>2 DEF IInv, TailQueued, Linkers, NodesLive
<1> QED
  BY <1>1, AlwaysIInv, PTL

-----------------------------------------------------------------------------
(* Each lock implements AbstractLock.                                       *)

\* A step that leaves the holders of every lock alone.
LEMMA HoldersKept ==
  ASSUME NEW x \in Contexts, VarTypes,
         \A z \in Contexts : z # x => pc'[z] = pc[z] /\ lock'[z] = lock[z],
         \/ pc[x] \notin Holding /\ pc'[x] \notin Holding
         \/ pc[x] \in Holding /\ pc'[x] \in Holding /\ lock'[x] = lock[x],
         NEW m \in Locks
  PROVE  [Lock(m)!Next]_(Holders(m))
<1>1. Holders(m)' = Holders(m)
  BY DEF Holders
<1> QED
  BY <1>1

\* Whoever takes a lock finds its locked byte clear, and so no holder.
LEMMA HoldersGain ==
  ASSUME NEW x \in Contexts, IInv,
         \A z \in Contexts : z # x => pc'[z] = pc[z] /\ lock'[z] = lock[z],
         pc[x] \notin Holding, pc'[x] \in Holding, lock'[x] \in Locks, ~val[lock'[x]].locked,
         NEW m \in Locks
  PROVE  [Lock(m)!Next]_(Holders(m))
<1>1. CASE m = lock'[x]
  <2>1. Holders(m) = {}
    BY <1>1 DEF Holders, IInv, Locked
  <2>2. Holders(m)' = {x}
    BY <1>1, <2>1 DEF Holders
  <2> QED
    BY <2>1, <2>2 DEF Lock!Next, Lock!Acquire
<1>2. CASE m # lock'[x]
  <2>1. Holders(m)' = Holders(m)
    BY <1>2 DEF Holders
  <2> QED
    BY <2>1
<1> QED
  BY <1>1, <1>2

\* The unlocker is the only holder.
LEMMA HoldersLose ==
  ASSUME NEW x \in Contexts, IInv, SpinUnlock(x), NEW m \in Locks
  PROVE  [Lock(m)!Next]_(Holders(m))
<1>1. /\ pc[x] \in Holding /\ pc'[x] \notin Holding
      /\ \A z \in Contexts : z # x => pc'[z] = pc[z] /\ lock'[z] = lock[z]
  BY DEF SpinUnlock, At, Goto, Holding, IInv, VarTypes
<1>2. CASE m = lock[x]
  <2>1. Holders(m) = {x}
    BY <1>1, <1>2 DEF Holders, IInv, Locked
  <2>2. Holders(m)' = {}
    BY <1>1, <2>1 DEF Holders
  <2> QED
    BY <2>1, <2>2 DEF Lock!Next, Lock!Release
<1>3. CASE m # lock[x]
  <2>1. Holders(m)' = Holders(m)
    BY <1>1, <1>3 DEF Holders
  <2> QED
    BY <2>1
<1> QED
  BY <1>2, <1>3

\* Each step of the slow path acquires a free lock or changes no holder.
LEMMA StepRefines ==
  ASSUME IInv, NEW x \in Contexts, Step(x), NEW m \in Locks
  PROVE  [Lock(m)!Next]_(Holders(m))
<1>1. VarTypes /\ (pc[x] # "idle" => lock[x] \in Locks)
  BY DEF IInv, Called
<1>2. CASE Handover(x)
  BY <1>1, <1>2, HoldersKept DEF Handover, At, Goto, AfterRead, Locals, Holding
<1>3. CASE SetPending(x)
  BY <1>1, <1>3, HoldersKept DEF SetPending, At, Goto, Contended, set_by_us, Locals, Holding,
     VarTypes
<1>4. CASE UndoPending(x)
  BY <1>1, <1>4, HoldersKept DEF UndoPending, At, Goto, Locals, Holding, VarTypes
<1>5. CASE WaitOwner(x)
  BY <1>1, <1>5, HoldersKept DEF WaitOwner, At, Goto, Locals, Holding
<1>6. CASE TakeOver(x)
  <2>1. /\ pc[x] = "take_over" /\ pc' = [pc EXCEPT ![x] = "held"] /\ lock' = lock
    BY <1>6 DEF TakeOver, At, Goto, Locals
  <2>2. ~val[lock[x]].locked
    BY <2>1 DEF IInv, Turn
  <2> QED
    BY <1>1, <2>1, <2>2, HoldersGain DEF Holding, VarTypes
<1>7. CASE GrabNode(x)
  BY <1>1, <1>7, HoldersKept DEF GrabNode, At, Goto, Holding, VarTypes
<1>8. CASE NoNode(x)
  <2>1. /\ pc[x] = "no_node" /\ pc' = [pc EXCEPT ![x] = "release"] /\ lock' = lock
        /\ ~val[lock[x]].locked
    BY <1>8 DEF NoNode, At, Goto, Locals, Unlocked, Word
  <2> QED
    BY <1>1, <2>1, HoldersGain DEF Holding, VarTypes
<1>9. CASE InitNode(x)
  BY <1>1, <1>9, HoldersKept DEF InitNode, At, Goto, Locals, Holding, VarTypes
<1>10. CASE Retry(x)
  <2>1. CASE val[lock[x]] = Unlocked
    <3>1. /\ pc[x] = "retry" /\ pc' = [pc EXCEPT ![x] = "release"] /\ lock' = lock
          /\ ~val[lock[x]].locked
      BY <1>10, <2>1 DEF Retry, At, Goto, Locals, Unlocked, Word
    <3> QED
      BY <1>1, <3>1, HoldersGain DEF Holding, VarTypes
  <2>2. CASE val[lock[x]] # Unlocked
    BY <1>1, <1>10, <2>2, HoldersKept DEF Retry, At, Goto, Locals, Holding, VarTypes
  <2> QED
    BY <2>1, <2>2
<1>11. CASE XchgTail(x)
  BY <1>1, <1>11, HoldersKept DEF XchgTail, At, Goto, Holding, VarTypes
<1>12. CASE Link(x)
  BY <1>1, <1>12, HoldersKept DEF Link, At, Goto, Holding, VarTypes
<1>13. CASE McsWait(x)
  BY <1>1, <1>13, HoldersKept DEF McsWait, At, Goto, Locals, Holding, VarTypes
<1>14. CASE ReadNext(x)
  BY <1>1, <1>14, HoldersKept DEF ReadNext, At, Goto, Holding, VarTypes
<1>15. CASE WaitHead(x)
  BY <1>1, <1>15, HoldersKept DEF WaitHead, At, Goto, Locals, Holding, VarTypes
<1>16. CASE Claim(x)
  <2>1. CASE sole_in_queue(val[lock[x]], Node(x))
    <3>1. /\ pc[x] = "claim" /\ pc' = [pc EXCEPT ![x] = "release"] /\ lock' = lock
          /\ ~val[lock[x]].locked
      BY <1>16, <2>1 DEF Claim, At, Goto, Locals, sole_in_queue, Word
    <3> QED
      BY <1>1, <3>1, HoldersGain DEF Holding, VarTypes
  <2>2. CASE ~sole_in_queue(val[lock[x]], Node(x))
    BY <1>1, <1>16, <2>2, HoldersKept DEF Claim, At, Goto, Locals, Holding, VarTypes
  <2> QED
    BY <2>1, <2>2
<1>17. CASE SetLocked(x)
  <2>1. /\ pc[x] = "set_locked" /\ pc'[x] \in {"pass", "wait_next"} /\ lock' = lock
        /\ \A z \in Contexts : z # x => pc'[z] = pc[z]
    BY <1>1, <1>17 DEF SetLocked, At, Goto, Locals, VarTypes
  <2>2. ~val[lock[x]].locked
    BY <2>1 DEF IInv, Turn
  <2> QED
    BY <1>1, <2>1, <2>2, HoldersGain DEF Holding
<1>18. CASE WaitNext(x)
  BY <1>1, <1>18, HoldersKept DEF WaitNext, At, Goto, Holding, VarTypes
<1>19. CASE PassHead(x)
  BY <1>1, <1>19, HoldersKept DEF PassHead, At, Goto, Holding
<1>20. CASE Release(x)
  BY <1>1, <1>20, HoldersKept DEF Release, At, Goto, Holding
<1> QED
  BY <1>2, <1>3, <1>4, <1>5, <1>6, <1>7, <1>8, <1>9, <1>10, <1>11, <1>12, <1>13, <1>14, <1>15,
     <1>16, <1>17, <1>18, <1>19, <1>20 DEF Step

\* Each queued spinlock is an exclusive lock, whichever of its five paths a
\* context takes it by.
THEOREM ImplementsLock == Spec => LockSpec
<1>1. Init => \A l \in Locks : Lock(l)!Init
  BY DEF Init, Lock!Init, Holders, Holding
<1>2. IInv /\ [Next]_vars => [\A l \in Locks : [Lock(l)!Next]_(Holders(l))]_vars
  <2> SUFFICES ASSUME IInv, Next, NEW m \in Locks PROVE [Lock(m)!Next]_(Holders(m))
    OBVIOUS
  <2>1. PICK x \in Contexts : \/ \E l \in Locks : SpinLock(x, l) \/ Trylock(x, l)
                              \/ Step(x)
                              \/ SpinUnlock(x)
    BY DEF Next
  <2>2. ASSUME NEW l \in Locks, Trylock(x, l) PROVE [Lock(m)!Next]_(Holders(m))
    <3>1. /\ pc[x] = "idle" /\ pc' = [pc EXCEPT ![x] = "held"] /\ lock' = [lock EXCEPT ![x] = l]
          /\ ~val[l].locked
      BY <2>2 DEF Trylock, At, Goto, Unlocked, Word
    <3> QED
      BY <3>1, HoldersGain DEF Holding, IInv, VarTypes
  <2>3. ASSUME NEW l \in Locks, SpinLock(x, l) PROVE [Lock(m)!Next]_(Holders(m))
    <3>1. CASE val[l] = Unlocked
      BY <2>2, <2>3, <3>1 DEF SpinLock, Trylock
    <3>2. CASE val[l] # Unlocked
      BY <2>3, <3>2, HoldersKept DEF SpinLock, At, AfterRead, Goto, Holding, IInv, VarTypes
    <3> QED
      BY <3>1, <3>2
  <2> QED
    BY <2>1, <2>2, <2>3, StepRefines, HoldersLose
<1> QED
  BY <1>1, <1>2, AlwaysIInv, PTL DEF Spec, LockSpec
=============================================================================
