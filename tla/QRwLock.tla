------------------------------ MODULE QRwLock ------------------------------
(***************************************************************************)
(* The queued reader-writer lock: kernel/locking/qrwlock.c and             *)
(* include/asm-generic/qrwlock.h.                                          *)
(*                                                                         *)
(* Every access to lock->cnts is one action.  wait_lock is a queued        *)
(* spinlock (module QSpinLock): exclusive and free of starvation.          *)
(* Interrupts only read; a writer disables them on its CPU from before     *)
(* write_lock() to after write_unlock() (write_lock_irq() and relatives),  *)
(* a reader does not.                                                      *)
(***************************************************************************)
EXTENDS Naturals, FiniteSets

CONSTANTS
  Tasks,  \* one task per CPU
  Irqs,   \* interrupt contexts
  Host,   \* the task on whose CPU an interrupt context runs
  None

ASSUME QRwAssumption ==
  /\ IsFiniteSet(Tasks) /\ IsFiniteSet(Irqs)
  /\ Tasks \cap Irqs = {}
  /\ None \notin Tasks
  /\ Host \in [Irqs -> Tasks]

Contexts == Tasks \cup Irqs

VARIABLES
  cnts,       \* lock->cnts: readers, times _QW_WAITING was added, _QW_LOCKED
  wait_lock,  \* the holder of lock->wait_lock
  pc          \* where each context is

vars == <<cnts, wait_lock, pc>>

\* Where a context is counted in cnts.readers, and where it writes.
Counted == {"r_held", "irq_wait", "r_sub", "r_wait", "r_pass", "rt_sub"}
ReadSide == Counted \cup {"r_queue", "r_add", "rt_add"}
Waiting == {"w_wait", "w_cmpxchg"}
WriteSide == Waiting \cup {"w_queue", "w_try", "w_set", "w_pass", "w_held"}

TypeOK ==
  /\ cnts \in [readers : Nat, waiting : Nat, locked : BOOLEAN]
  /\ wait_lock \in Tasks \cup {None}
  /\ pc \in [Contexts -> ReadSide \cup WriteSide \cup {"idle"}]
  /\ \A x \in Irqs : pc[x] \in {"idle", "r_held", "irq_wait", "rt_add", "rt_sub"}

Cnts(r, w, l) == [readers |-> r, waiting |-> w, locked |-> l]

Init ==
  /\ cnts = Cnts(0, 0, FALSE)
  /\ wait_lock = None
  /\ pc = [x \in Contexts |-> "idle"]

-----------------------------------------------------------------------------

\* An interrupt runs to its end before the task it interrupted goes on, and
\* comes only while the task has interrupts enabled.
Running(x) ==
  IF x \in Irqs THEN pc[Host[x]] \notin WriteSide
  ELSE \A i \in Irqs : Host[i] = x => pc[i] = "idle"

At(x, l) == pc[x] = l /\ Running(x)
Goto(x, l) == pc' = [pc EXCEPT ![x] = l]

\* cnts & _QW_WMASK
writer_present(c) == c.locked \/ c.waiting > 0

AddReader == cnts' = [cnts EXCEPT !.readers = @ + 1]
SubReader == cnts' = [cnts EXCEPT !.readers = @ - 1]

-----------------------------------------------------------------------------
(* Readers                                                                  *)

\* Readers in interrupt context do not queue.
in_interrupt(x) == x \in Irqs

ReadLock(x) ==
  /\ At(x, "idle")
  /\ AddReader
  /\ Goto(x, CASE ~writer_present(cnts) -> "r_held"
               [] writer_present(cnts) /\ in_interrupt(x) -> "irq_wait"
               [] OTHER -> "r_sub")
  /\ UNCHANGED wait_lock

wait_for_waiting_too(c) == ~writer_present(c)
writer_released(c) == ~c.locked

IrqWait(x) ==
  /\ At(x, "irq_wait")
  /\ writer_released(cnts)
  /\ Goto(x, "r_held")
  /\ UNCHANGED <<cnts, wait_lock>>

\* A reader does not count while it waits for wait_lock.
keep_reader == cnts' = cnts
drop_reader == SubReader

ReadSub(x) ==
  /\ At(x, "r_sub")
  /\ drop_reader
  /\ Goto(x, "r_queue")
  /\ UNCHANGED wait_lock

ReadQueue(x) ==
  /\ At(x, "r_queue")
  /\ wait_lock = None
  /\ wait_lock' = x
  /\ Goto(x, "r_add")
  /\ UNCHANGED cnts

ReadAdd(x) ==
  /\ At(x, "r_add")
  /\ AddReader
  /\ Goto(x, "r_wait")
  /\ UNCHANGED wait_lock

ReadWait(x) ==
  /\ At(x, "r_wait")
  /\ writer_released(cnts)
  /\ Goto(x, "r_pass")
  /\ UNCHANGED <<cnts, wait_lock>>

ReadPass(x) ==
  /\ At(x, "r_pass")
  /\ wait_lock' = None
  /\ Goto(x, "r_held")
  /\ UNCHANGED cnts

\* queued_read_trylock(): look, add, look again, and subtract.
ReadTrylock(x) ==
  /\ At(x, "idle")
  /\ ~writer_present(cnts)
  /\ Goto(x, "rt_add")
  /\ UNCHANGED <<cnts, wait_lock>>

ReadTrylockAdd(x) ==
  /\ At(x, "rt_add")
  /\ AddReader
  /\ Goto(x, IF writer_present(cnts) THEN "rt_sub" ELSE "r_held")
  /\ UNCHANGED wait_lock

ReadTrylockSub(x) ==
  /\ At(x, "rt_sub")
  /\ SubReader
  /\ Goto(x, "idle")
  /\ UNCHANGED wait_lock

ReadUnlock(x) ==
  /\ At(x, "r_held")
  /\ SubReader
  /\ Goto(x, "idle")
  /\ UNCHANGED wait_lock

-----------------------------------------------------------------------------
(* Writers                                                                  *)

WriteTrylock(x) ==
  /\ At(x, "idle")
  /\ cnts = Cnts(0, 0, FALSE)
  /\ cnts' = Cnts(0, 0, TRUE)
  /\ Goto(x, "w_held")
  /\ UNCHANGED wait_lock

\* A failed trylock changes nothing; write_lock() goes on to the slowpath.
WriteLock(x) ==
  \/ WriteTrylock(x)
  \/ /\ At(x, "idle")
     /\ cnts # Cnts(0, 0, FALSE)
     /\ Goto(x, "w_queue")
     /\ UNCHANGED <<cnts, wait_lock>>

WriteQueue(x) ==
  /\ At(x, "w_queue")
  /\ wait_lock = None
  /\ wait_lock' = x
  /\ Goto(x, "w_try")
  /\ UNCHANGED cnts

WriteTry(x) ==
  /\ At(x, "w_try")
  /\ \/ cnts = Cnts(0, 0, FALSE) /\ cnts' = Cnts(0, 0, TRUE) /\ Goto(x, "w_pass")
     \/ cnts # Cnts(0, 0, FALSE) /\ Goto(x, "w_set") /\ UNCHANGED cnts
  /\ UNCHANGED wait_lock

\* atomic_add(_QW_WAITING, &lock->cnts)
announce == cnts' = [cnts EXCEPT !.waiting = @ + 1]

WriteSet(x) ==
  /\ At(x, "w_set")
  /\ announce
  /\ Goto(x, "w_wait")
  /\ UNCHANGED wait_lock

\* VAL == _QW_WAITING
no_writer_left(c) == ~c.locked
only_waiting(c) == c = Cnts(0, 1, FALSE)

WriteWait(x) ==
  /\ At(x, "w_wait")
  /\ only_waiting(cnts)
  /\ Goto(x, "w_cmpxchg")
  /\ UNCHANGED <<cnts, wait_lock>>

WriteCmpxchg(x) ==
  /\ At(x, "w_cmpxchg")
  /\ \/ only_waiting(cnts) /\ cnts' = Cnts(0, 0, TRUE) /\ Goto(x, "w_pass")
     \/ ~only_waiting(cnts) /\ Goto(x, "w_wait") /\ UNCHANGED cnts
  /\ UNCHANGED wait_lock

WritePass(x) ==
  /\ At(x, "w_pass")
  /\ wait_lock' = None
  /\ Goto(x, "w_held")
  /\ UNCHANGED cnts

\* A store to the wlocked byte alone: readers and a waiting writer stay.
clear_word(c) == Cnts(0, 0, FALSE)
clear_wlocked(c) == [c EXCEPT !.locked = FALSE]

WriteUnlock(x) ==
  /\ At(x, "w_held")
  /\ cnts' = clear_wlocked(cnts)
  /\ Goto(x, "idle")
  /\ UNCHANGED wait_lock

-----------------------------------------------------------------------------

\* The steps of a lock call that has begun.
ReadStep(x) ==
  \/ IrqWait(x) \/ ReadSub(x) \/ ReadAdd(x) \/ ReadWait(x) \/ ReadPass(x)
  \/ ReadTrylockAdd(x) \/ ReadTrylockSub(x)
WriteStep(t) ==
  \/ WriteTry(t) \/ WriteSet(t) \/ WriteWait(t) \/ WriteCmpxchg(t) \/ WritePass(t)
Unlock(x) == ReadUnlock(x) \/ WriteUnlock(x)

Next ==
  \/ \E x \in Contexts : ReadLock(x) \/ ReadTrylock(x) \/ ReadStep(x) \/ ReadUnlock(x)
  \/ \E t \in Tasks :
       \/ WriteTrylock(t) \/ WriteLock(t) \/ WriteStep(t) \/ WriteUnlock(t)
       \/ ReadQueue(t) \/ WriteQueue(t)

\* CPUs run and holders unlock; wait_lock is a queued spinlock, so a context
\* that waits for it is served when it is free over and over again.
Fairness ==
  /\ \A x \in Contexts : WF_vars(ReadStep(x)) /\ WF_vars(Unlock(x))
  /\ \A t \in Tasks : WF_vars(WriteStep(t)) /\ SF_vars(ReadQueue(t) \/ WriteQueue(t))

Spec == Init /\ [][Next]_vars
FairSpec == Spec /\ Fairness

-----------------------------------------------------------------------------
(* Properties                                                               *)

\* Readers in interrupts that bypass the queue, trylocks that add and subtract,
\* and writers that steal or queue together keep the promise of a
\* reader-writer lock.
RwLock == INSTANCE AbstractRwLock WITH
  Tasks <- Contexts,
  readers <- {x \in Contexts : pc[x] \in {"r_pass", "r_held"}},
  writers <- {x \in Contexts : pc[x] \in {"w_pass", "w_held"}}
LockSpec == RwLock!Spec

\* The reader count is the number of readers that stand in it: every path,
\* also a trylock that failed and a reader that queued, gives back what it
\* added, and no writer wipes it out.
ReadersCounted ==
  cnts.readers = Cardinality({x \in Contexts : pc[x] \in Counted})

\* _QW_WAITING was added by the one writer that waits at the head of the queue;
\* added twice it would overflow into the reader count.  The locked byte is set
\* exactly while a writer has the lock.
WriterFlags ==
  /\ cnts.waiting = IF \E t \in Tasks : pc[t] \in Waiting THEN 1 ELSE 0
  /\ \A t \in Tasks : pc[t] \in Waiting => wait_lock = t
  /\ cnts.locked <=> \E t \in Tasks : pc[t] \in {"w_pass", "w_held"}

\* Whatever path readers and writers take, every part of the lock word is
\* exactly what its owners have put there.
CntsExact == ReadersCounted /\ WriterFlags

\* A read_lock() in an interrupt returns, though the task below may hold the
\* lock for reading and a writer wait for it.
IrqReadersServed == \A i \in Irqs : pc[i] = "irq_wait" ~> pc[i] = "r_held"

\* A task that queues gets the lock, reader or writer, unless interrupts keep
\* on reading: a writer that waits is passed by readers in interrupts only.
TasksServed ==
  <>[](\A i \in Irqs : pc[i] = "idle") =>
    \A t \in Tasks :
      /\ pc[t] \in {"r_sub", "r_queue"} ~> pc[t] = "r_held"
      /\ pc[t] = "w_queue" ~> pc[t] = "w_held"
=============================================================================
