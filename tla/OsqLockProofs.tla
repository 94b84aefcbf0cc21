--------------------------- MODULE OsqLockProofs ---------------------------
(***************************************************************************)
(* What MC_OsqLock checks for three CPUs, for any set of them.             *)
(***************************************************************************)
EXTENDS OsqLock, TLAPS

-----------------------------------------------------------------------------
(* The inductive invariant.                                                 *)

Waiting == {"wait", "A", "A_locked", "A_prev"}

\* Between step A and the end of step C of unqueueing.
Cancelling(c) ==
  \/ pc[c] \in {"C_prev", "C_next"}
  \/ pc[c] \in {"next_tail", "next_xchg"} /\ lprev[c] # None

\* Behind another node.  From step C's first half on, @next has taken the place
\* of the node that unqueues.
InLine(c) ==
  \/ pc[c] = "link"
  \/ pc[c] \in Waiting /\ ~locked[c]
  \/ Cancelling(c) /\ pc[c] # "C_next"

\* Has the lock, or was granted it, or is about to pass it on.
Head(c) ==
  \/ pc[c] \in {"held", "unlock", "grant"}
  \/ pc[c] \in {"next_tail", "next_xchg"} /\ lprev[c] = None
  \/ pc[c] \in Waiting /\ locked[c]

\* What a CPU knows of its own node.
Locals ==
  \A c \in CPUs :
    /\ pc[c] \in {"out", "xchg", "held", "unlock", "grant"} => lprev[c] = None
    /\ pc[c] \in {"out", "xchg"} => next[c] = None
    /\ pc[c] = "link" => lprev[c] = prev[c]
    /\ pc[c] \in {"xchg", "link"} \/ Cancelling(c) => ~locked[c]
    /\ pc[c] = "link" \/ pc[c] \in Waiting \/ Cancelling(c) => prev[c] # None
    /\ pc[c] \in {"A_locked", "A_prev", "wait"} => lprev[c] # None

\* A forward link leads to a waiter that was not granted the lock and links back.
Links ==
  \A c, d \in CPUs :
    next[c] = d => pc[c] \in Queued /\ prev[d] = c /\ pc[d] \in Waiting /\ ~locked[d]

\* "@next is stable because our @node->next pointer is NULL".
NextStable ==
  \A c \in CPUs : pc[c] \in {"C_prev", "C_next", "grant"} =>
    /\ next[c] = None
    /\ pc[lnext[c]] \in Waiting /\ ~locked[lnext[c]]
    /\ prev[lnext[c]] = IF pc[c] = "C_next" THEN lprev[c] ELSE c

\* "@prev is stable because its still waiting for a new @prev->next pointer".
PrevStable ==
  \A c \in CPUs : Cancelling(c) =>
    /\ next[lprev[c]] = None
    /\ pc[c] # "C_next" => prev[c] = lprev[c]
    /\ pc[lprev[c]] \in Queued \ {"C_prev", "C_next", "grant"}

\* A node is in line behind one that is still queued, alone, and the tail is
\* not in front of it.
Line ==
  /\ \A e \in CPUs : InLine(e) => pc[prev[e]] \in Queued \ {"C_next"} /\ tail # prev[e]
  /\ \A e, f \in CPUs : InLine(e) /\ InLine(f) /\ prev[e] = prev[f] => e = f
  /\ tail # None => pc[tail] \in Queued \ {"C_next"}

\* No node is moved forward by two neighbours at once.
OneRelink ==
  \A c, e \in CPUs : pc[c] = "C_next" /\ pc[e] = "C_next" /\ lnext[c] = lnext[e] => c = e

\* The lock has one owner, and none while the queue is empty.
OneHead ==
  /\ \A c, d \in CPUs : Head(c) /\ Head(d) => c = d
  /\ tail = None => \A c \in CPUs : ~Head(c)

IInv ==
  /\ TypeOK /\ Locals /\ Links
  /\ NextStable /\ PrevStable
  /\ Line /\ OneRelink /\ OneHead

\* The empty queue satisfies the invariant.
LEMMA InitInv == Init => IInv
<1> SUFFICES ASSUME Init PROVE IInv
  OBVIOUS
<1> USE OsqAssumption DEF Init, Waiting, Queued, Cancelling, InLine, Head
<1>1. TypeOK
  BY DEF TypeOK, PCs
<1>2. Locals /\ Links /\ NextStable /\ PrevStable
  BY DEF Locals, Links, NextStable, PrevStable
<1>3. Line /\ OneRelink /\ OneHead
  BY DEF Line, OneRelink, OneHead
<1>4. QED
  BY <1>1, <1>2, <1>3 DEF IInv

\* A call starts with a node nobody refers to.
LEMMA InitNodeInv ==
  ASSUME IInv, NEW c \in CPUs, InitNode(c)
  PROVE  IInv'
<1> USE OsqAssumption DEF InitNode, init_locked, Goto
<1> USE DEF Waiting, Queued, Cancelling, InLine, Head
<1>1. TypeOK'
  BY DEF IInv, TypeOK, Locals, PCs
<1>2. Locals'
  BY DEF IInv, TypeOK, Locals, PCs
<1>3. Links'
  BY DEF IInv, Links, PCs
<1>4. NextStable'
  BY DEF IInv, Locals, NextStable, PrevStable
<1>5. PrevStable'
  BY DEF IInv, NextStable, PrevStable
<1>6. Line'
  BY DEF IInv, NextStable, Line, OneRelink
<1>7. OneRelink'
  BY DEF IInv, Line, OneRelink
<1>8. OneHead'
  BY DEF IInv, TypeOK, OneRelink, OneHead
<1>9. QED
  BY <1>1, <1>2, <1>3, <1>4, <1>5, <1>6, <1>7, <1>8 DEF IInv

\* The exchange of the tail takes the place behind the last node, or the lock.
LEMMA XchgTailInv ==
  ASSUME IInv, NEW c \in CPUs, XchgTail(c)
  PROVE  IInv'
<1> USE OsqAssumption DEF XchgTail, Return, Goto
<1> USE DEF Waiting, Queued, Cancelling, InLine, Head
<1>1. TypeOK'
  BY DEF IInv, TypeOK, Locals, PCs
<1>2. Locals'
  BY DEF IInv, TypeOK, Locals, PCs
<1>3. Links'
  BY DEF IInv, TypeOK, Links, PCs
<1>4. NextStable'
  BY DEF IInv, TypeOK, Locals, Links, NextStable, PrevStable
<1>5. PrevStable'
  BY DEF IInv, TypeOK, NextStable, PrevStable
<1>6. Line'
  <2>1. CASE tail = None
    BY <2>1 DEF IInv, TypeOK, Locals, Line
  <2>2. CASE tail # None
    BY <2>2 DEF IInv, TypeOK, Locals, Line, PrevStable, NextStable
  <2>3. QED
    BY <2>1, <2>2
<1>7. OneRelink'
  BY DEF IInv, TypeOK, Locals, Links, NextStable, PrevStable, Line, OneRelink, OneHead, PCs
<1>8. OneHead'
  BY DEF IInv, TypeOK, OneRelink, OneHead, PCs
<1>9. QED
  BY <1>1, <1>2, <1>3, <1>4, <1>5, <1>6, <1>7, <1>8 DEF IInv

\* prev->next = node.
LEMMA LinkInv ==
  ASSUME IInv, NEW c \in CPUs, Link(c)
  PROVE  IInv'
<1> USE OsqAssumption DEF Link, Goto
<1> USE DEF Waiting, Queued, Cancelling, InLine, Head
<1>1. TypeOK'
  BY DEF IInv, TypeOK, Locals, PCs
<1>2. Locals'
  BY DEF IInv, Locals, Line, PCs
<1>3. Links'
  BY DEF IInv, TypeOK, Locals, Links, Line, PCs
<1>4. NextStable'
  BY DEF IInv, TypeOK, Locals, Links, NextStable, PrevStable, Line, PCs
<1>5. PrevStable'
  BY DEF IInv, TypeOK, Locals, NextStable, PrevStable, Line, PCs
<1>6. Line'
  BY DEF IInv, TypeOK, Locals, NextStable, PrevStable, Line, PCs
<1>7. OneRelink'
  BY DEF IInv, Line, OneRelink, PCs
<1>8. OneHead'
  BY DEF IInv, Locals, OneRelink, OneHead
<1>9. QED
  BY <1>1, <1>2, <1>3, <1>4, <1>5, <1>6, <1>7, <1>8 DEF IInv

\* The wait ends with the lock or with the decision to unqueue.
LEMMA WaitInv ==
  ASSUME IInv, NEW c \in CPUs, Wait(c)
  PROVE  IInv'
<1> USE OsqAssumption DEF Wait, Return, Goto
<1> USE DEF Waiting, Queued, Cancelling, InLine, Head
<1>1. TypeOK'
  BY DEF IInv, TypeOK, Locals, PCs
<1>2. Locals'
  BY DEF IInv, TypeOK, Locals, PCs
<1>3. Links'
  BY DEF IInv, TypeOK, Links, PCs
<1>4. NextStable'
  BY DEF IInv, TypeOK, Locals, Links, NextStable, PrevStable
<1>5. PrevStable'
  BY DEF IInv, TypeOK, NextStable, PrevStable
<1>6. Line'
  BY DEF IInv, TypeOK, Locals, NextStable, PrevStable, Line, OneRelink, PCs
<1>7. OneRelink'
  BY DEF IInv, TypeOK, Line, OneRelink, PCs
<1>8. OneHead'
  BY DEF IInv, TypeOK, OneRelink, OneHead
<1>9. QED
  BY <1>1, <1>2, <1>3, <1>4, <1>5, <1>6, <1>7, <1>8 DEF IInv

\* Step A.
LEMMA StepAInv ==
  ASSUME IInv, NEW c \in CPUs, StepA(c)
  PROVE  IInv'
<1> USE OsqAssumption DEF StepA, undo_link, Goto
<1> USE DEF Waiting, Queued, Cancelling, InLine, Head
<1>1. TypeOK'
  BY DEF IInv, TypeOK, Locals, PCs
<1>2. Locals'
  BY DEF IInv, TypeOK, Locals, Links, PCs
<1>3. Links'
  BY DEF IInv, TypeOK, Links, PCs
<1>4. NextStable'
  BY DEF IInv, TypeOK, Locals, Links, NextStable, PrevStable
<1>5. PrevStable'
  BY DEF IInv, TypeOK, Links, NextStable, PrevStable
<1>6. Line'
  BY DEF IInv, TypeOK, Locals, Links, PrevStable, Line, OneRelink, PCs
<1>7. OneRelink'
  BY DEF IInv, TypeOK, Line, OneRelink, PCs
<1>8. OneHead'
  BY DEF IInv, TypeOK, OneRelink, OneHead
<1>9. QED
  BY <1>1, <1>2, <1>3, <1>4, <1>5, <1>6, <1>7, <1>8 DEF IInv

\* The second look at node->locked.
LEMMA StepALockedInv ==
  ASSUME IInv, NEW c \in CPUs, StepALocked(c)
  PROVE  IInv'
<1> USE OsqAssumption DEF StepALocked, Return, Goto
<1> USE DEF Waiting, Queued, Cancelling, InLine, Head
<1>1. TypeOK'
  BY DEF IInv, TypeOK, Locals, PCs
<1>2. Locals'
  BY DEF IInv, TypeOK, Locals, PCs
<1>3. Links'
  BY DEF IInv, TypeOK, Links, PCs
<1>4. NextStable'
  BY DEF IInv, TypeOK, Locals, Links, NextStable, PrevStable
<1>5. PrevStable'
  BY DEF IInv, TypeOK, NextStable, PrevStable
<1>6. Line'
  <2>1. \A e \in CPUs : InLine(e)' => InLine(e) /\ prev[e] \in CPUs
    BY DEF IInv, TypeOK, Locals
  <2>2. \A e \in CPUs : pc[e] \in Queued \ {"C_next"} => pc'[e] \in Queued \ {"C_next"}
    BY DEF IInv, TypeOK
  <2>3. tail \in CPUs \cup {None} /\ UNCHANGED <<tail, prev>>
    BY DEF IInv, TypeOK
  <2> HIDE DEF InLine, Cancelling, Waiting, Queued
  <2>4. QED
    BY <2>1, <2>2, <2>3 DEF IInv, Line
<1>7. OneRelink'
  BY DEF IInv, TypeOK, Locals, Line, OneRelink, PCs
<1>8. OneHead'
  BY DEF IInv, TypeOK, OneRelink, OneHead, PCs
<1>9. QED
  BY <1>1, <1>2, <1>3, <1>4, <1>5, <1>6, <1>7, <1>8 DEF IInv

\* The second look at node->prev.
LEMMA StepAPrevInv ==
  ASSUME IInv, NEW c \in CPUs, StepAPrev(c)
  PROVE  IInv'
<1> USE OsqAssumption DEF StepAPrev, Goto
<1> USE DEF Waiting, Queued, Cancelling, InLine, Head
<1>1. TypeOK'
  BY DEF IInv, TypeOK, Locals, PCs
<1>2. Locals'
  BY DEF IInv, TypeOK, Locals, Links, NextStable, PrevStable, Line, OneRelink, OneHead, PCs
<1>3. Links'
  BY DEF IInv, Links, OneHead, PCs
<1>4. NextStable'
  BY DEF IInv, Locals, NextStable, PrevStable
<1>5. PrevStable'
  BY DEF IInv, NextStable, PrevStable
<1>6. Line'
  BY DEF IInv, NextStable, Line, OneRelink
<1>7. OneRelink'
  BY DEF IInv, Line, OneRelink
<1>8. OneHead'
  BY DEF IInv, TypeOK, OneRelink, OneHead
<1>9. QED
  BY <1>1, <1>2, <1>3, <1>4, <1>5, <1>6, <1>7, <1>8 DEF IInv

\* The last node moves the tail back.
LEMMA WaitNextTailInv ==
  ASSUME IInv, NEW c \in CPUs, WaitNextTail(c)
  PROVE  IInv'
<1> USE OsqAssumption DEF WaitNextTail, Return, Goto
<1> USE DEF Waiting, Queued, Cancelling, InLine, Head
<1>1. TypeOK'
  BY DEF IInv, TypeOK, Locals, PCs
<1>2. Locals'
  BY DEF IInv, TypeOK, Locals, Links, Line, PCs
<1>3. Links'
  BY DEF IInv, TypeOK, Links, Line, PCs
<1>4. NextStable'
  BY DEF IInv, TypeOK, NextStable, Locals, PrevStable
<1>5. PrevStable'
  BY DEF IInv, TypeOK, NextStable, PrevStable, Line, OneRelink, PCs
<1>6. Line'
  BY DEF IInv, TypeOK, Locals, NextStable, PrevStable, Line, PCs
<1>7. OneRelink'
  BY DEF IInv, TypeOK, Locals, PrevStable, Line, OneRelink, PCs
<1>8. OneHead'
  BY DEF IInv, TypeOK, OneRelink, OneHead, PCs
<1>9. QED
  BY <1>1, <1>2, <1>3, <1>4, <1>5, <1>6, <1>7, <1>8 DEF IInv

\* osq_wait_next() takes node->next away.
LEMMA WaitNextXchgInv ==
  ASSUME IInv, NEW c \in CPUs, WaitNextXchg(c)
  PROVE  IInv'
<1> USE OsqAssumption DEF WaitNextXchg, take_next, has_next, Goto
<1> USE DEF Waiting, Queued, Cancelling, InLine, Head
<1>1. TypeOK'
  BY DEF IInv, TypeOK, Locals, PCs
<1>2. Locals'
  BY DEF IInv, TypeOK, Locals, PCs
<1>3. Links'
  BY DEF IInv, TypeOK, Links, PCs
<1>4. NextStable'
  BY DEF IInv, TypeOK, Locals, Links, NextStable, PrevStable
<1>5. PrevStable'
  BY DEF IInv, TypeOK, Links, NextStable, PrevStable
<1>6. Line'
  BY DEF IInv, TypeOK, Locals, Links, Line, OneRelink, PCs
<1>7. OneRelink'
  BY DEF IInv, TypeOK, Line, OneRelink, PCs
<1>8. OneHead'
  BY DEF IInv, TypeOK, OneRelink, OneHead
<1>9. QED
  BY <1>1, <1>2, <1>3, <1>4, <1>5, <1>6, <1>7, <1>8 DEF IInv

\* next->prev = prev.
LEMMA StepCPrevInv ==
  ASSUME IInv, NEW c \in CPUs, StepCPrev(c)
  PROVE  IInv'
<1> USE OsqAssumption DEF StepCPrev, Goto
<1> USE DEF Waiting, Queued, Cancelling, InLine, Head
<1>1. TypeOK'
  BY DEF IInv, TypeOK, Locals, PCs
<1>2. Locals'
  BY DEF IInv, TypeOK, Locals, Links, NextStable, PrevStable, Line, OneRelink, OneHead, PCs
<1>3. Links'
  BY DEF IInv, TypeOK, Locals, Links, NextStable, PrevStable, Line, OneRelink, OneHead, PCs
<1>4. NextStable'
  BY DEF IInv, TypeOK, Locals, Links, NextStable, PrevStable, Line, OneRelink, OneHead, PCs
<1>5. PrevStable'
  BY DEF IInv, TypeOK, NextStable, PrevStable, OneHead, PCs
<1>6. Line'
  BY DEF IInv, TypeOK, NextStable, PrevStable, Line, OneRelink
<1>7. OneRelink'
  BY DEF IInv, TypeOK, NextStable, PrevStable, Line, OneRelink
<1>8. OneHead'
  BY DEF IInv, NextStable, PrevStable, OneRelink, OneHead
<1>9. QED
  BY <1>1, <1>2, <1>3, <1>4, <1>5, <1>6, <1>7, <1>8 DEF IInv

\* prev->next = next.
LEMMA StepCNextInv ==
  ASSUME IInv, NEW c \in CPUs, StepCNext(c)
  PROVE  IInv'
<1> USE OsqAssumption DEF StepCNext, relink, Return, Goto
<1> USE DEF Waiting, Queued, Cancelling, InLine, Head
<1>1. TypeOK'
  BY DEF IInv, TypeOK, Locals, PCs
<1>2. Locals'
  BY DEF IInv, TypeOK, Locals, NextStable, PrevStable, PCs
<1>3. Links'
  BY DEF IInv, Locals, Links, NextStable, PrevStable, PCs
<1>4. NextStable'
  BY DEF IInv, TypeOK, Links, NextStable, PrevStable
<1>5. PrevStable'
  BY DEF IInv, TypeOK, NextStable, PrevStable, Line, OneRelink
<1>6. Line'
  BY DEF IInv, TypeOK, NextStable, PrevStable, Line, OneRelink
<1>7. OneRelink'
  BY DEF IInv, TypeOK, Line, OneRelink
<1>8. OneHead'
  BY DEF IInv, TypeOK, OneRelink, OneHead
<1>9. QED
  BY <1>1, <1>2, <1>3, <1>4, <1>5, <1>6, <1>7, <1>8 DEF IInv

\* The fast path of osq_unlock().
LEMMA UnlockInv ==
  ASSUME IInv, NEW c \in CPUs, Unlock(c)
  PROVE  IInv'
<1> USE OsqAssumption DEF Unlock, last_in_queue, Goto
<1> USE DEF Waiting, Queued, Cancelling, InLine, Head
<1>1. TypeOK'
  BY DEF IInv, TypeOK, Locals, PCs
<1>2. Locals'
  BY DEF IInv, TypeOK, Locals, Links, Line, PCs
<1>3. Links'
  BY DEF IInv, TypeOK, Links, Line, PCs
<1>4. NextStable'
  BY DEF IInv, TypeOK, Locals, Links, NextStable, PrevStable, Line, PCs
<1>5. PrevStable'
  BY DEF IInv, TypeOK, NextStable, PrevStable, Line, PCs
<1>6. Line'
  BY DEF IInv, TypeOK, Locals, Links, NextStable, PrevStable, Line, PCs
<1>7. OneRelink'
  BY DEF IInv, TypeOK, Line, OneRelink, PCs
<1>8. OneHead'
  BY DEF IInv, TypeOK, OneRelink, OneHead
<1>9. QED
  BY <1>1, <1>2, <1>3, <1>4, <1>5, <1>6, <1>7, <1>8 DEF IInv

\* The exchange of node->next in osq_unlock().
LEMMA UnlockXchgInv ==
  ASSUME IInv, NEW c \in CPUs, UnlockXchg(c)
  PROVE  IInv'
<1> USE OsqAssumption DEF UnlockXchg, take_next, has_next, Goto
<1> USE DEF Waiting, Queued, Cancelling, InLine, Head
<1>1. TypeOK'
  BY DEF IInv, TypeOK, Locals, PCs
<1>2. Locals'
  BY DEF IInv, Locals, PCs
<1>3. Links'
  BY DEF IInv, Links, PCs
<1>4. NextStable'
  BY DEF IInv, TypeOK, Locals, Links, NextStable, PrevStable
<1>5. PrevStable'
  BY DEF IInv, TypeOK, Locals, Links, NextStable, PrevStable
<1>6. Line'
  BY DEF IInv, Locals, NextStable, Line, OneRelink, PCs
<1>7. OneRelink'
  BY DEF IInv, Line, OneRelink, PCs
<1>8. OneHead'
  BY DEF IInv, TypeOK, OneRelink, OneHead
<1>9. QED
  BY <1>1, <1>2, <1>3, <1>4, <1>5, <1>6, <1>7, <1>8 DEF IInv

\* next->locked = 1.
LEMMA GrantInv ==
  ASSUME IInv, NEW c \in CPUs, Grant(c)
  PROVE  IInv'
<1> USE OsqAssumption DEF Grant, Return, Goto
<1> USE DEF Waiting, Queued, Cancelling, InLine, Head
<1>1. TypeOK'
  BY DEF IInv, TypeOK, Locals, PCs
<1>2. Locals'
  BY DEF IInv, Locals, NextStable, PCs
<1>3. Links'
  BY DEF IInv, Locals, Links, NextStable, PCs
<1>4. NextStable'
  BY DEF IInv, TypeOK, Links, NextStable, PrevStable
<1>5. PrevStable'
  BY DEF IInv, NextStable, PrevStable
<1>6. Line'
  BY DEF IInv, TypeOK, NextStable, Line, OneRelink
<1>7. OneRelink'
  BY DEF IInv, TypeOK, NextStable, Line, OneRelink
<1>8. OneHead'
  BY DEF IInv, TypeOK, OneRelink, OneHead
<1>9. QED
  BY <1>1, <1>2, <1>3, <1>4, <1>5, <1>6, <1>7, <1>8 DEF IInv

-----------------------------------------------------------------------------
(* The theorems.                                                            *)

\* Every step of osq_lock() and osq_unlock() keeps the invariant.
LEMMA NextInv == IInv /\ [Next]_vars => IInv'
<1> SUFFICES ASSUME IInv, [Next]_vars PROVE IInv'
  OBVIOUS
<1>1. CASE UNCHANGED vars
  BY <1>1 DEF vars, IInv, TypeOK, Locals, Links, NextStable, PrevStable, Line, OneRelink,
     OneHead, Cancelling, InLine, Head
<1>2. ASSUME NEW c \in CPUs, InitNode(c) \/ Wait(c) \/ Unlock(c) \/ Step(c) PROVE IInv'
  BY <1>2, InitNodeInv, WaitInv, UnlockInv, XchgTailInv, LinkInv, StepAInv, StepALockedInv,
     StepAPrevInv, WaitNextTailInv, WaitNextXchgInv, StepCPrevInv, StepCNextInv,
     UnlockXchgInv, GrantInv DEF Step
<1>3. QED
  BY <1>1, <1>2 DEF Next

\* The invariant holds however many CPUs lock, cancel and unlock.
THEOREM AlwaysIInv == Spec => []IInv
BY InitInv, NextInv, PTL DEF Spec

\* No step of osq_lock.c dereferences a NULL node.
THEOREM TypeCorrect == Spec => []TypeOK
<1>1. IInv => TypeOK
  BY DEF IInv
<1>2. QED
  BY <1>1, AlwaysIInv, PTL

\* Linking, step C and the passing of the lock write to neighbours that cannot leave
\* the queue meanwhile.
THEOREM NeighboursAreStable == Spec => []NeighboursStable
<1>1. IInv => NeighboursStable
  BY DEF IInv, TypeOK, Locals, NextStable, PrevStable, Line, NeighboursStable, InLine,
     Cancelling, Waiting, Queued
<1>2. QED
  BY <1>1, AlwaysIInv, PTL

\* A forward link is never ahead of its backward link.
THEOREM LinksAgree == Spec => []LinkedBothWays
<1>1. IInv => LinkedBothWays
  BY DEF IInv, Links, LinkedBothWays
<1>2. QED
  BY <1>1, AlwaysIInv, PTL

\* The image of the refinement.
Holders == {c \in CPUs : pc[c] = "held"}

\* The queue implements an exclusive lock: osq_lock() succeeds only for a CPU
\* that took an empty queue or was granted the lock, while nobody else holds it.
THEOREM ImplementsLock == Spec => LockSpec
<1>1. Init => Lock!Init
  BY DEF Init, Lock!Init
<1>2. ASSUME IInv, [Next]_vars PROVE [Lock!Next]_Holders
  <2> USE <1>2 DEF IInv, TypeOK, Holders
  <2>take. ASSUME NEW c \in CPUs, XchgTail(c) \/ Wait(c) \/ StepALocked(c), pc'[c] = "held"
           PROVE  Lock!Next
    <3>1. \A d \in CPUs : pc[d] # "held"
      BY <2>take DEF XchgTail, Wait, StepALocked, Goto, OneHead, Head, Waiting
    <3>2. Holders = {} /\ Holders' = {c}
      BY <2>take, <3>1 DEF XchgTail, Wait, StepALocked, Return, Goto
    <3>3. QED
      BY <3>2 DEF Lock!Next, Lock!Acquire
  <2>release. ASSUME NEW c \in CPUs, Unlock(c) PROVE Lock!Next
    <3>1. Holders = {c} /\ Holders' = {}
      BY <2>release DEF Unlock, Goto, OneHead, Head
    <3>2. QED
      BY <3>1 DEF Lock!Next, Lock!Release
  <2>on. ASSUME NEW c \in CPUs, XchgTail(c) \/ Wait(c) \/ StepALocked(c), pc'[c] # "held"
         PROVE  UNCHANGED Holders
    BY <2>on DEF XchgTail, Wait, StepALocked, Return, Goto
  <2>apart. ASSUME NEW c \in CPUs,
                   \/ InitNode(c) \/ Link(c) \/ StepA(c) \/ StepAPrev(c)
                   \/ WaitNextTail(c) \/ WaitNextXchg(c) \/ StepCPrev(c) \/ StepCNext(c)
                   \/ UnlockXchg(c) \/ Grant(c)
            PROVE  UNCHANGED Holders
    BY <2>apart DEF InitNode, Link, StepA, StepAPrev, WaitNextTail, WaitNextXchg, StepCPrev,
       StepCNext, UnlockXchg, Grant, Return, Goto
  <2>stutter. ASSUME UNCHANGED vars PROVE UNCHANGED Holders
    BY <2>stutter DEF vars
  <2> QED
    BY <2>take, <2>release, <2>on, <2>apart, <2>stutter DEF Next, Step
<1>3. QED
  BY <1>1, <1>2, AlwaysIInv, PTL DEF Spec, LockSpec, Lock!Spec, Holders
=============================================================================
