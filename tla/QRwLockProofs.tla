--------------------------- MODULE QRwLockProofs ---------------------------
(***************************************************************************)
(* What MC_QRwLock checks for four tasks and two interrupts, for any       *)
(* finite number of them and any assignment of interrupts to CPUs.         *)
(***************************************************************************)
EXTENDS QRwLock, FiniteSetTheorems, TLAPS

Readers == {x \in Contexts : pc[x] \in {"r_pass", "r_held"}}
Writers == {x \in Contexts : pc[x] \in {"w_pass", "w_held"}}
CountedSet == {x \in Contexts : pc[x] \in Counted}

\* The sections under wait_lock.
UnderWaitLock ==
  {"r_add", "r_wait", "r_pass", "w_try", "w_set", "w_wait", "w_cmpxchg", "w_pass"}
WaitLockHeld == \A t \in Tasks : pc[t] \in UnderWaitLock => wait_lock = t

\* Two writers never have the lock, and no reader beside one.
Exclusion ==
  /\ \A t, u \in Contexts :
       pc[t] \in {"w_pass", "w_held"} /\ pc[u] \in {"w_pass", "w_held"} => t = u
  /\ cnts.locked => Readers = {}

\* The inductive invariant: the word is exact, so what a compare-and-exchange
\* finds in it is true of every context.
IInv ==
  /\ TypeOK
  /\ WaitLockHeld
  /\ ReadersCounted
  /\ WriterFlags
  /\ Exclusion

\* The contexts counted in the word can be counted.
LEMMA CountedFinite == IsFiniteSet(CountedSet) /\ Cardinality(CountedSet) \in Nat
<1>1. IsFiniteSet(Contexts)
  BY QRwAssumption, FS_Union DEF Contexts
<1>2. CountedSet \subseteq Contexts
  BY DEF CountedSet
<1>3. QED
  BY <1>1, <1>2, FS_Subset, FS_CardinalityType

\* How a move of one context changes the number of the counted ones.
LEMMA CountedMove ==
  ASSUME NEW x \in Contexts, NEW l, TypeOK, pc' = [pc EXCEPT ![x] = l]
  PROVE  /\ pc[x] \in Counted /\ l \in Counted =>
              Cardinality(CountedSet') = Cardinality(CountedSet)
         /\ pc[x] \notin Counted /\ l \notin Counted =>
              Cardinality(CountedSet') = Cardinality(CountedSet)
         /\ pc[x] \notin Counted /\ l \in Counted =>
              Cardinality(CountedSet') = Cardinality(CountedSet) + 1
         /\ pc[x] \in Counted /\ l \notin Counted =>
              Cardinality(CountedSet') = Cardinality(CountedSet) - 1
<1>1. /\ pc[x] \in Counted <=> x \in CountedSet
      /\ l \in Counted => CountedSet' = CountedSet \cup {x}
      /\ l \notin Counted => CountedSet' = CountedSet \ {x}
  BY DEF CountedSet, TypeOK
<1>2. IsFiniteSet(CountedSet)
  BY CountedFinite
<1>3. x \notin CountedSet => Cardinality(CountedSet \cup {x}) = Cardinality(CountedSet) + 1
  BY <1>2, FS_AddElement
<1>4. x \in CountedSet => Cardinality(CountedSet \ {x}) = Cardinality(CountedSet) - 1
  BY <1>2, FS_RemoveElement
<1>5. /\ x \in CountedSet => CountedSet \cup {x} = CountedSet
      /\ x \notin CountedSet => CountedSet \ {x} = CountedSet
  OBVIOUS
<1>6. QED
  BY <1>1, <1>3, <1>4, <1>5

\* A context that enters or leaves the count is added to it or taken off.
LEMMA CountedMore ==
  ASSUME NEW x \in Contexts, NEW l \in Counted, TypeOK, ReadersCounted,
         pc[x] \notin Counted, pc' = [pc EXCEPT ![x] = l],
         cnts'.readers = cnts.readers + 1
  PROVE  ReadersCounted'
BY CountedMove DEF ReadersCounted, CountedSet

\* A context that leaves the count.
LEMMA CountedLess ==
  ASSUME NEW x \in Contexts, NEW l, TypeOK, ReadersCounted,
         pc[x] \in Counted, l \notin Counted, pc' = [pc EXCEPT ![x] = l],
         cnts'.readers = cnts.readers - 1
  PROVE  ReadersCounted'
BY CountedMove DEF ReadersCounted, CountedSet

\* A move that changes nothing about the count.
LEMMA CountedSame ==
  ASSUME NEW x \in Contexts, NEW l, TypeOK, ReadersCounted,
         pc[x] \in Counted <=> l \in Counted, pc' = [pc EXCEPT ![x] = l],
         cnts'.readers = cnts.readers
  PROVE  ReadersCounted'
BY CountedMove DEF ReadersCounted, CountedSet

\* Who is counted may be taken off.
LEMMA CanLeave ==
  ASSUME NEW x \in Contexts, TypeOK, ReadersCounted, pc[x] \in Counted
  PROVE  cnts.readers - 1 \in Nat
<1>1. CountedSet # {}
  BY DEF CountedSet
<1>2. Cardinality(CountedSet) # 0
  BY <1>1, CountedFinite, FS_EmptySet
<1>3. QED
  BY <1>2, CountedFinite DEF ReadersCounted, CountedSet, TypeOK

\* Nobody counts while the reader count is zero.
LEMMA NoneCounted ==
  ASSUME ReadersCounted, cnts.readers = 0
  PROVE  CountedSet = {} /\ Readers = {}
<1>1. Cardinality(CountedSet) = 0
  BY DEF ReadersCounted, CountedSet
<1>2. CountedSet = {}
  BY <1>1, CountedFinite, FS_EmptySet
<1>3. QED
  BY <1>2 DEF CountedSet, Readers, Counted

\* The initial word, 0, is exact.
LEMMA InitInv == Init => IInv
<1> SUFFICES ASSUME Init PROVE IInv
  OBVIOUS
<1> USE DEF Init, Cnts
<1>1. TypeOK
  BY DEF TypeOK, Contexts
<1>2. CountedSet = {}
  BY DEF CountedSet, Counted
<1>3. ReadersCounted
  BY <1>2, FS_EmptySet DEF ReadersCounted, CountedSet
<1>4. WaitLockHeld /\ WriterFlags /\ Exclusion
  BY DEF WaitLockHeld, UnderWaitLock, WriterFlags, Waiting, Exclusion, Readers, Contexts
<1>5. QED
  BY <1>1, <1>3, <1>4 DEF IInv

\* The steps of readers keep the invariant.
LEMMA ReadInv ==
  ASSUME IInv, NEW x \in Contexts,
         ReadLock(x) \/ ReadTrylock(x) \/ ReadStep(x) \/ ReadUnlock(x)
  PROVE  IInv'
<1> USE QRwAssumption DEF IInv
<1>1. CASE ReadLock(x)
  <2>1. TypeOK'
    BY <1>1 DEF ReadLock, At, Goto, AddReader, writer_present, in_interrupt, TypeOK, Contexts, ReadSide, WriteSide, Waiting, Counted
  <2>2. ReadersCounted'
    <3>1. PICK l : /\ pc' = [pc EXCEPT ![x] = l]
                   /\ pc[x] \notin Counted /\ l \in Counted
                   /\ cnts'.readers = cnts.readers + 1
      BY <1>1 DEF ReadLock, At, Goto, AddReader, writer_present, in_interrupt, Counted, TypeOK
    <3>2. QED
      BY <3>1, CountedMore
  <2>3. WaitLockHeld'
    BY <1>1 DEF ReadLock, At, Goto, AddReader, writer_present, in_interrupt, WaitLockHeld, UnderWaitLock, TypeOK, Contexts
  <2>4. WriterFlags'
    BY <1>1 DEF ReadLock, At, Goto, AddReader, writer_present, in_interrupt, WriterFlags, Waiting, WaitLockHeld, UnderWaitLock, TypeOK, Contexts
  <2>5. Exclusion'
    BY <1>1 DEF ReadLock, At, Goto, AddReader, writer_present, in_interrupt, Exclusion, Readers, WriterFlags, TypeOK, Contexts
  <2>6. QED
    BY <2>1, <2>2, <2>3, <2>4, <2>5
<1>2. CASE ReadTrylock(x)
  <2>1. TypeOK'
    BY <1>2 DEF ReadTrylock, At, Goto, writer_present, TypeOK, Contexts, ReadSide, WriteSide, Waiting, Counted
  <2>2. ReadersCounted'
    <3>1. /\ pc' = [pc EXCEPT ![x] = "rt_add"]
          /\ (pc[x] \in Counted <=> "rt_add" \in Counted)
          /\ cnts'.readers = cnts.readers
      BY <1>2 DEF ReadTrylock, At, Goto, writer_present, Counted, TypeOK
    <3>2. QED
      BY <3>1, CountedSame
  <2>3. WaitLockHeld'
    BY <1>2 DEF ReadTrylock, At, Goto, writer_present, WaitLockHeld, UnderWaitLock, TypeOK, Contexts
  <2>4. WriterFlags'
    BY <1>2 DEF ReadTrylock, At, Goto, writer_present, WriterFlags, Waiting, WaitLockHeld, UnderWaitLock, TypeOK, Contexts
  <2>5. Exclusion'
    BY <1>2 DEF ReadTrylock, At, Goto, writer_present, Exclusion, Readers, WriterFlags, TypeOK, Contexts
  <2>6. QED
    BY <2>1, <2>2, <2>3, <2>4, <2>5
<1>3. CASE IrqWait(x)
  <2>1. TypeOK'
    BY <1>3 DEF IrqWait, At, Goto, writer_released, TypeOK, Contexts, ReadSide, WriteSide, Waiting, Counted
  <2>2. ReadersCounted'
    <3>1. /\ pc' = [pc EXCEPT ![x] = "r_held"]
          /\ (pc[x] \in Counted <=> "r_held" \in Counted)
          /\ cnts'.readers = cnts.readers
      BY <1>3 DEF IrqWait, At, Goto, writer_released, Counted, TypeOK
    <3>2. QED
      BY <3>1, CountedSame
  <2>3. WaitLockHeld'
    BY <1>3 DEF IrqWait, At, Goto, writer_released, WaitLockHeld, UnderWaitLock, TypeOK, Contexts
  <2>4. WriterFlags'
    BY <1>3 DEF IrqWait, At, Goto, writer_released, WriterFlags, Waiting, WaitLockHeld, UnderWaitLock, TypeOK, Contexts
  <2>5. Exclusion'
    BY <1>3 DEF IrqWait, At, Goto, writer_released, Exclusion, Readers, WriterFlags, TypeOK, Contexts
  <2>6. QED
    BY <2>1, <2>2, <2>3, <2>4, <2>5
<1>4. CASE ReadSub(x)
  <2>1. TypeOK'
    BY CanLeave, <1>4 DEF ReadSub, At, Goto, drop_reader, SubReader, TypeOK, Contexts, ReadSide, WriteSide, Waiting, Counted
  <2>2. ReadersCounted'
    <3>1. /\ pc' = [pc EXCEPT ![x] = "r_queue"]
          /\ pc[x] \in Counted /\ "r_queue" \notin Counted
          /\ cnts'.readers = cnts.readers - 1
      BY <1>4 DEF ReadSub, At, Goto, drop_reader, SubReader, Counted, TypeOK
    <3>2. QED
      BY <3>1, CountedLess
  <2>3. WaitLockHeld'
    BY <1>4 DEF ReadSub, At, Goto, drop_reader, SubReader, WaitLockHeld, UnderWaitLock, TypeOK, Contexts
  <2>4. WriterFlags'
    BY <1>4 DEF ReadSub, At, Goto, drop_reader, SubReader, WriterFlags, Waiting, WaitLockHeld, UnderWaitLock, TypeOK, Contexts
  <2>5. Exclusion'
    BY <1>4 DEF ReadSub, At, Goto, drop_reader, SubReader, Exclusion, Readers, WriterFlags, TypeOK, Contexts
  <2>6. QED
    BY <2>1, <2>2, <2>3, <2>4, <2>5
<1>5. CASE ReadAdd(x)
  <2>1. TypeOK'
    BY <1>5 DEF ReadAdd, At, Goto, AddReader, TypeOK, Contexts, ReadSide, WriteSide, Waiting, Counted
  <2>2. ReadersCounted'
    <3>1. /\ pc' = [pc EXCEPT ![x] = "r_wait"]
          /\ pc[x] \notin Counted /\ "r_wait" \in Counted
          /\ cnts'.readers = cnts.readers + 1
      BY <1>5 DEF ReadAdd, At, Goto, AddReader, Counted, TypeOK
    <3>2. QED
      BY <3>1, CountedMore
  <2>3. WaitLockHeld'
    BY <1>5 DEF ReadAdd, At, Goto, AddReader, WaitLockHeld, UnderWaitLock, TypeOK, Contexts
  <2>4. WriterFlags'
    BY <1>5 DEF ReadAdd, At, Goto, AddReader, WriterFlags, Waiting, WaitLockHeld, UnderWaitLock, TypeOK, Contexts
  <2>5. Exclusion'
    BY <1>5 DEF ReadAdd, At, Goto, AddReader, Exclusion, Readers, WriterFlags, TypeOK, Contexts
  <2>6. QED
    BY <2>1, <2>2, <2>3, <2>4, <2>5
<1>6. CASE ReadWait(x)
  <2>1. TypeOK'
    BY <1>6 DEF ReadWait, At, Goto, writer_released, TypeOK, Contexts, ReadSide, WriteSide, Waiting, Counted
  <2>2. ReadersCounted'
    <3>1. /\ pc' = [pc EXCEPT ![x] = "r_pass"]
          /\ (pc[x] \in Counted <=> "r_pass" \in Counted)
          /\ cnts'.readers = cnts.readers
      BY <1>6 DEF ReadWait, At, Goto, writer_released, Counted, TypeOK
    <3>2. QED
      BY <3>1, CountedSame
  <2>3. WaitLockHeld'
    BY <1>6 DEF ReadWait, At, Goto, writer_released, WaitLockHeld, UnderWaitLock, TypeOK, Contexts
  <2>4. WriterFlags'
    BY <1>6 DEF ReadWait, At, Goto, writer_released, WriterFlags, Waiting, WaitLockHeld, UnderWaitLock, TypeOK, Contexts
  <2>5. Exclusion'
    BY <1>6 DEF ReadWait, At, Goto, writer_released, Exclusion, Readers, WriterFlags, TypeOK, Contexts
  <2>6. QED
    BY <2>1, <2>2, <2>3, <2>4, <2>5
<1>7. CASE ReadPass(x)
  <2>1. TypeOK'
    BY <1>7 DEF ReadPass, At, Goto, TypeOK, Contexts, ReadSide, WriteSide, Waiting, Counted
  <2>2. ReadersCounted'
    <3>1. /\ pc' = [pc EXCEPT ![x] = "r_held"]
          /\ (pc[x] \in Counted <=> "r_held" \in Counted)
          /\ cnts'.readers = cnts.readers
      BY <1>7 DEF ReadPass, At, Goto, Counted, TypeOK
    <3>2. QED
      BY <3>1, CountedSame
  <2>3. WaitLockHeld'
    BY <1>7 DEF ReadPass, At, Goto, WaitLockHeld, UnderWaitLock, TypeOK, Contexts
  <2>4. WriterFlags'
    BY <1>7 DEF ReadPass, At, Goto, WriterFlags, Waiting, WaitLockHeld, UnderWaitLock, TypeOK, Contexts
  <2>5. Exclusion'
    BY <1>7 DEF ReadPass, At, Goto, Exclusion, Readers, WriterFlags, TypeOK, Contexts
  <2>6. QED
    BY <2>1, <2>2, <2>3, <2>4, <2>5
<1>8. CASE ReadTrylockAdd(x)
  <2>1. TypeOK'
    BY <1>8 DEF ReadTrylockAdd, At, Goto, AddReader, writer_present, TypeOK, Contexts, ReadSide, WriteSide, Waiting, Counted
  <2>2. ReadersCounted'
    <3>1. PICK l : /\ pc' = [pc EXCEPT ![x] = l]
                   /\ pc[x] \notin Counted /\ l \in Counted
                   /\ cnts'.readers = cnts.readers + 1
      BY <1>8 DEF ReadTrylockAdd, At, Goto, AddReader, writer_present, Counted, TypeOK
    <3>2. QED
      BY <3>1, CountedMore
  <2>3. WaitLockHeld'
    BY <1>8 DEF ReadTrylockAdd, At, Goto, AddReader, writer_present, WaitLockHeld, UnderWaitLock, TypeOK, Contexts
  <2>4. WriterFlags'
    BY <1>8 DEF ReadTrylockAdd, At, Goto, AddReader, writer_present, WriterFlags, Waiting, WaitLockHeld, UnderWaitLock, TypeOK, Contexts
  <2>5. Exclusion'
    BY <1>8 DEF ReadTrylockAdd, At, Goto, AddReader, writer_present, Exclusion, Readers, WriterFlags, TypeOK, Contexts
  <2>6. QED
    BY <2>1, <2>2, <2>3, <2>4, <2>5
<1>9. CASE ReadTrylockSub(x)
  <2>1. TypeOK'
    BY CanLeave, <1>9 DEF ReadTrylockSub, At, Goto, SubReader, TypeOK, Contexts, ReadSide, WriteSide, Waiting, Counted
  <2>2. ReadersCounted'
    <3>1. /\ pc' = [pc EXCEPT ![x] = "idle"]
          /\ pc[x] \in Counted /\ "idle" \notin Counted
          /\ cnts'.readers = cnts.readers - 1
      BY <1>9 DEF ReadTrylockSub, At, Goto, SubReader, Counted, TypeOK
    <3>2. QED
      BY <3>1, CountedLess
  <2>3. WaitLockHeld'
    BY <1>9 DEF ReadTrylockSub, At, Goto, SubReader, WaitLockHeld, UnderWaitLock, TypeOK, Contexts
  <2>4. WriterFlags'
    BY <1>9 DEF ReadTrylockSub, At, Goto, SubReader, WriterFlags, Waiting, WaitLockHeld, UnderWaitLock, TypeOK, Contexts
  <2>5. Exclusion'
    BY <1>9 DEF ReadTrylockSub, At, Goto, SubReader, Exclusion, Readers, WriterFlags, TypeOK, Contexts
  <2>6. QED
    BY <2>1, <2>2, <2>3, <2>4, <2>5
<1>10. CASE ReadUnlock(x)
  <2>1. TypeOK'
    BY CanLeave, <1>10 DEF ReadUnlock, At, Goto, SubReader, TypeOK, Contexts, ReadSide, WriteSide, Waiting, Counted
  <2>2. ReadersCounted'
    <3>1. /\ pc' = [pc EXCEPT ![x] = "idle"]
          /\ pc[x] \in Counted /\ "idle" \notin Counted
          /\ cnts'.readers = cnts.readers - 1
      BY <1>10 DEF ReadUnlock, At, Goto, SubReader, Counted, TypeOK
    <3>2. QED
      BY <3>1, CountedLess
  <2>3. WaitLockHeld'
    BY <1>10 DEF ReadUnlock, At, Goto, SubReader, WaitLockHeld, UnderWaitLock, TypeOK, Contexts
  <2>4. WriterFlags'
    BY <1>10 DEF ReadUnlock, At, Goto, SubReader, WriterFlags, Waiting, WaitLockHeld, UnderWaitLock, TypeOK, Contexts
  <2>5. Exclusion'
    BY <1>10 DEF ReadUnlock, At, Goto, SubReader, Exclusion, Readers, WriterFlags, TypeOK, Contexts
  <2>6. QED
    BY <2>1, <2>2, <2>3, <2>4, <2>5
<1>11. QED
  BY <1>1, <1>2, <1>3, <1>4, <1>5, <1>6, <1>7, <1>8, <1>9, <1>10 DEF ReadStep

\* The steps of tasks alone, writers and readers that queue, keep the invariant.
LEMMA WriteInv ==
  ASSUME IInv, NEW t \in Tasks,
         \/ WriteTrylock(t) \/ WriteLock(t) \/ WriteStep(t) \/ WriteUnlock(t)
         \/ ReadQueue(t) \/ WriteQueue(t)
  PROVE  IInv'
<1> USE QRwAssumption DEF IInv
<1>0. t \in Contexts
  BY DEF Contexts
<1>1. CASE ReadQueue(t)
  <2>1. TypeOK'
    BY <1>0, <1>1 DEF ReadQueue, At, Goto, TypeOK, Contexts, ReadSide, WriteSide, Waiting, Counted
  <2>2. ReadersCounted'
    <3>1. /\ pc' = [pc EXCEPT ![t] = "r_add"]
          /\ (pc[t] \in Counted <=> "r_add" \in Counted)
          /\ cnts'.readers = cnts.readers
      BY <1>1 DEF ReadQueue, At, Goto, Counted, TypeOK
    <3>2. QED
      BY <1>0, <3>1, CountedSame
  <2>3. WaitLockHeld'
    BY <1>0, <1>1 DEF ReadQueue, At, Goto, WaitLockHeld, UnderWaitLock, TypeOK, Contexts
  <2>4. WriterFlags'
    BY <1>0, <1>1 DEF ReadQueue, At, Goto, WriterFlags, Waiting, WaitLockHeld, UnderWaitLock, TypeOK, Contexts
  <2>5. Exclusion'
    BY <1>0, <1>1 DEF ReadQueue, At, Goto, Exclusion, Readers, WriterFlags, TypeOK, Contexts
  <2>6. QED
    BY <2>1, <2>2, <2>3, <2>4, <2>5
<1>2. CASE WriteTrylock(t)
  <2>1. TypeOK'
    BY <1>0, <1>2 DEF WriteTrylock, At, Goto, Cnts, TypeOK, Contexts, ReadSide, WriteSide, Waiting, Counted
  <2>2. ReadersCounted'
    <3>1. /\ pc' = [pc EXCEPT ![t] = "w_held"]
          /\ (pc[t] \in Counted <=> "w_held" \in Counted)
          /\ cnts'.readers = cnts.readers
      BY <1>2 DEF WriteTrylock, At, Goto, Cnts, Counted, TypeOK
    <3>2. QED
      BY <1>0, <3>1, CountedSame
  <2>3. WaitLockHeld'
    BY <1>0, <1>2 DEF WriteTrylock, At, Goto, Cnts, WaitLockHeld, UnderWaitLock, TypeOK, Contexts
  <2>4. WriterFlags'
    BY <1>0, <1>2 DEF WriteTrylock, At, Goto, Cnts, WriterFlags, Waiting, WaitLockHeld, UnderWaitLock, TypeOK, Contexts
  <2>5. Exclusion'
    BY <1>0, NoneCounted, <1>2 DEF WriteTrylock, At, Goto, Cnts, Exclusion, Readers, WriterFlags, TypeOK, Contexts
  <2>6. QED
    BY <2>1, <2>2, <2>3, <2>4, <2>5
<1>3. CASE WriteLock(t)
  <2>1. TypeOK'
    <3>1. CASE cnts = Cnts(0, 0, FALSE)
      <4>1. pc' = [pc EXCEPT ![t] = "w_held"] /\ cnts' = Cnts(0, 0, TRUE) /\ UNCHANGED wait_lock
        BY <1>3, <3>1 DEF WriteLock, WriteTrylock, Goto
      <4>2. QED
        BY <1>0, <4>1 DEF Cnts, TypeOK, Contexts, ReadSide, WriteSide, Waiting, Counted
    <3>2. CASE ~(cnts = Cnts(0, 0, FALSE))
      <4>1. pc' = [pc EXCEPT ![t] = "w_queue"] /\ UNCHANGED <<cnts, wait_lock>>
        BY <1>3, <3>2 DEF WriteLock, WriteTrylock, Goto
      <4>2. QED
        BY <1>0, <4>1 DEF TypeOK, Contexts, ReadSide, WriteSide, Waiting, Counted
    <3>3. QED
      BY <3>1, <3>2
  <2>2. ReadersCounted'
    <3>1. PICK l : /\ pc' = [pc EXCEPT ![t] = l]
                   /\ (pc[t] \in Counted <=> l \in Counted)
                   /\ cnts'.readers = cnts.readers
      BY <1>3 DEF WriteLock, At, Goto, WriteTrylock, Cnts, Counted, TypeOK
    <3>2. QED
      BY <1>0, <3>1, CountedSame
  <2>3. WaitLockHeld'
    BY <1>0, <1>3 DEF WriteLock, At, Goto, WriteTrylock, Cnts, WaitLockHeld, UnderWaitLock, TypeOK, Contexts
  <2>4. WriterFlags'
    BY <1>0, <1>3 DEF WriteLock, At, Goto, WriteTrylock, Cnts, WriterFlags, Waiting, WaitLockHeld, UnderWaitLock, TypeOK, Contexts
  <2>5. Exclusion'
    BY <1>0, NoneCounted, <1>3 DEF WriteLock, At, Goto, WriteTrylock, Cnts, Exclusion, Readers, WriterFlags, TypeOK, Contexts
  <2>6. QED
    BY <2>1, <2>2, <2>3, <2>4, <2>5
<1>4. CASE WriteQueue(t)
  <2>1. TypeOK'
    BY <1>0, <1>4 DEF WriteQueue, At, Goto, TypeOK, Contexts, ReadSide, WriteSide, Waiting, Counted
  <2>2. ReadersCounted'
    <3>1. /\ pc' = [pc EXCEPT ![t] = "w_try"]
          /\ (pc[t] \in Counted <=> "w_try" \in Counted)
          /\ cnts'.readers = cnts.readers
      BY <1>4 DEF WriteQueue, At, Goto, Counted, TypeOK
    <3>2. QED
      BY <1>0, <3>1, CountedSame
  <2>3. WaitLockHeld'
    BY <1>0, <1>4 DEF WriteQueue, At, Goto, WaitLockHeld, UnderWaitLock, TypeOK, Contexts
  <2>4. WriterFlags'
    BY <1>0, <1>4 DEF WriteQueue, At, Goto, WriterFlags, Waiting, WaitLockHeld, UnderWaitLock, TypeOK, Contexts
  <2>5. Exclusion'
    BY <1>0, <1>4 DEF WriteQueue, At, Goto, Exclusion, Readers, WriterFlags, TypeOK, Contexts
  <2>6. QED
    BY <2>1, <2>2, <2>3, <2>4, <2>5
<1>5. CASE WriteTry(t)
  <2>1. TypeOK'
    <3>1. CASE cnts = Cnts(0, 0, FALSE)
      <4>1. pc' = [pc EXCEPT ![t] = "w_pass"] /\ cnts' = Cnts(0, 0, TRUE) /\ UNCHANGED wait_lock
        BY <1>5, <3>1 DEF WriteTry, Goto
      <4>2. QED
        BY <1>0, <4>1 DEF Cnts, TypeOK, Contexts, ReadSide, WriteSide, Waiting, Counted
    <3>2. CASE ~(cnts = Cnts(0, 0, FALSE))
      <4>1. pc' = [pc EXCEPT ![t] = "w_set"] /\ UNCHANGED <<cnts, wait_lock>>
        BY <1>5, <3>2 DEF WriteTry, Goto
      <4>2. QED
        BY <1>0, <4>1 DEF TypeOK, Contexts, ReadSide, WriteSide, Waiting, Counted
    <3>3. QED
      BY <3>1, <3>2
  <2>2. ReadersCounted'
    <3>1. PICK l : /\ pc' = [pc EXCEPT ![t] = l]
                   /\ (pc[t] \in Counted <=> l \in Counted)
                   /\ cnts'.readers = cnts.readers
      BY <1>5 DEF WriteTry, At, Goto, Cnts, Counted, TypeOK
    <3>2. QED
      BY <1>0, <3>1, CountedSame
  <2>3. WaitLockHeld'
    BY <1>0, <1>5 DEF WriteTry, At, Goto, Cnts, WaitLockHeld, UnderWaitLock, TypeOK, Contexts
  <2>4. WriterFlags'
    BY <1>0, <1>5 DEF WriteTry, At, Goto, Cnts, WriterFlags, Waiting, WaitLockHeld, UnderWaitLock, TypeOK, Contexts
  <2>5. Exclusion'
    BY <1>0, NoneCounted, <1>5 DEF WriteTry, At, Goto, Cnts, Exclusion, Readers, WriterFlags, TypeOK, Contexts
  <2>6. QED
    BY <2>1, <2>2, <2>3, <2>4, <2>5
<1>6. CASE WriteSet(t)
  <2>1. TypeOK'
    BY <1>0, <1>6 DEF WriteSet, At, Goto, announce, TypeOK, Contexts, ReadSide, WriteSide, Waiting, Counted
  <2>2. ReadersCounted'
    <3>1. /\ pc' = [pc EXCEPT ![t] = "w_wait"]
          /\ (pc[t] \in Counted <=> "w_wait" \in Counted)
          /\ cnts'.readers = cnts.readers
      BY <1>6 DEF WriteSet, At, Goto, announce, Counted, TypeOK
    <3>2. QED
      BY <1>0, <3>1, CountedSame
  <2>3. WaitLockHeld'
    BY <1>0, <1>6 DEF WriteSet, At, Goto, announce, WaitLockHeld, UnderWaitLock, TypeOK, Contexts
  <2>4. WriterFlags'
    BY <1>0, <1>6 DEF WriteSet, At, Goto, announce, WriterFlags, Waiting, WaitLockHeld, UnderWaitLock, TypeOK, Contexts
  <2>5. Exclusion'
    BY <1>0, <1>6 DEF WriteSet, At, Goto, announce, Exclusion, Readers, WriterFlags, TypeOK, Contexts
  <2>6. QED
    BY <2>1, <2>2, <2>3, <2>4, <2>5
<1>7. CASE WriteWait(t)
  <2>1. TypeOK'
    BY <1>0, <1>7 DEF WriteWait, At, Goto, only_waiting, Cnts, TypeOK, Contexts, ReadSide, WriteSide, Waiting, Counted
  <2>2. ReadersCounted'
    <3>1. /\ pc' = [pc EXCEPT ![t] = "w_cmpxchg"]
          /\ (pc[t] \in Counted <=> "w_cmpxchg" \in Counted)
          /\ cnts'.readers = cnts.readers
      BY <1>7 DEF WriteWait, At, Goto, only_waiting, Cnts, Counted, TypeOK
    <3>2. QED
      BY <1>0, <3>1, CountedSame
  <2>3. WaitLockHeld'
    BY <1>0, <1>7 DEF WriteWait, At, Goto, only_waiting, Cnts, WaitLockHeld, UnderWaitLock, TypeOK, Contexts
  <2>4. WriterFlags'
    BY <1>0, <1>7 DEF WriteWait, At, Goto, only_waiting, Cnts, WriterFlags, Waiting, WaitLockHeld, UnderWaitLock, TypeOK, Contexts
  <2>5. Exclusion'
    BY <1>0, <1>7 DEF WriteWait, At, Goto, only_waiting, Cnts, Exclusion, Readers, WriterFlags, TypeOK, Contexts
  <2>6. QED
    BY <2>1, <2>2, <2>3, <2>4, <2>5
<1>8. CASE WriteCmpxchg(t)
  <2>1. TypeOK'
    <3>1. CASE only_waiting(cnts)
      <4>1. pc' = [pc EXCEPT ![t] = "w_pass"] /\ cnts' = Cnts(0, 0, TRUE) /\ UNCHANGED wait_lock
        BY <1>8, <3>1 DEF WriteCmpxchg, Goto
      <4>2. QED
        BY <1>0, <4>1 DEF Cnts, TypeOK, Contexts, ReadSide, WriteSide, Waiting, Counted
    <3>2. CASE ~(only_waiting(cnts))
      <4>1. pc' = [pc EXCEPT ![t] = "w_wait"] /\ UNCHANGED <<cnts, wait_lock>>
        BY <1>8, <3>2 DEF WriteCmpxchg, Goto
      <4>2. QED
        BY <1>0, <4>1 DEF TypeOK, Contexts, ReadSide, WriteSide, Waiting, Counted
    <3>3. QED
      BY <3>1, <3>2
  <2>2. ReadersCounted'
    <3>1. PICK l : /\ pc' = [pc EXCEPT ![t] = l]
                   /\ (pc[t] \in Counted <=> l \in Counted)
                   /\ cnts'.readers = cnts.readers
      BY <1>8 DEF WriteCmpxchg, At, Goto, only_waiting, Cnts, Counted, TypeOK
    <3>2. QED
      BY <1>0, <3>1, CountedSame
  <2>3. WaitLockHeld'
    BY <1>0, <1>8 DEF WriteCmpxchg, At, Goto, only_waiting, Cnts, WaitLockHeld, UnderWaitLock, TypeOK, Contexts
  <2>4. WriterFlags'
    BY <1>0, <1>8 DEF WriteCmpxchg, At, Goto, only_waiting, Cnts, WriterFlags, Waiting, WaitLockHeld, UnderWaitLock, TypeOK, Contexts
  <2>5. Exclusion'
    BY <1>0, NoneCounted, <1>8 DEF WriteCmpxchg, At, Goto, only_waiting, Cnts, Exclusion, Readers, WriterFlags, TypeOK, Contexts
  <2>6. QED
    BY <2>1, <2>2, <2>3, <2>4, <2>5
<1>9. CASE WritePass(t)
  <2>1. TypeOK'
    BY <1>0, <1>9 DEF WritePass, At, Goto, TypeOK, Contexts, ReadSide, WriteSide, Waiting, Counted
  <2>2. ReadersCounted'
    <3>1. /\ pc' = [pc EXCEPT ![t] = "w_held"]
          /\ (pc[t] \in Counted <=> "w_held" \in Counted)
          /\ cnts'.readers = cnts.readers
      BY <1>9 DEF WritePass, At, Goto, Counted, TypeOK
    <3>2. QED
      BY <1>0, <3>1, CountedSame
  <2>3. WaitLockHeld'
    BY <1>0, <1>9 DEF WritePass, At, Goto, WaitLockHeld, UnderWaitLock, TypeOK, Contexts
  <2>4. WriterFlags'
    BY <1>0, <1>9 DEF WritePass, At, Goto, WriterFlags, Waiting, WaitLockHeld, UnderWaitLock, TypeOK, Contexts
  <2>5. Exclusion'
    BY <1>0, <1>9 DEF WritePass, At, Goto, Exclusion, Readers, WriterFlags, TypeOK, Contexts
  <2>6. QED
    BY <2>1, <2>2, <2>3, <2>4, <2>5
<1>10. CASE WriteUnlock(t)
  <2>1. TypeOK'
    BY <1>0, <1>10 DEF WriteUnlock, At, Goto, clear_wlocked, TypeOK, Contexts, ReadSide, WriteSide, Waiting, Counted
  <2>2. ReadersCounted'
    <3>1. /\ pc' = [pc EXCEPT ![t] = "idle"]
          /\ (pc[t] \in Counted <=> "idle" \in Counted)
          /\ cnts'.readers = cnts.readers
      BY <1>10 DEF WriteUnlock, At, Goto, clear_wlocked, Counted, TypeOK
    <3>2. QED
      BY <1>0, <3>1, CountedSame
  <2>3. WaitLockHeld'
    BY <1>0, <1>10 DEF WriteUnlock, At, Goto, clear_wlocked, WaitLockHeld, UnderWaitLock, TypeOK, Contexts
  <2>4. WriterFlags'
    BY <1>0, <1>10 DEF WriteUnlock, At, Goto, clear_wlocked, WriterFlags, Waiting, WaitLockHeld, UnderWaitLock, Exclusion, TypeOK, Contexts
  <2>5. Exclusion'
    BY <1>0, <1>10 DEF WriteUnlock, At, Goto, clear_wlocked, Exclusion, Readers, WriterFlags, TypeOK, Contexts
  <2>6. QED
    BY <2>1, <2>2, <2>3, <2>4, <2>5
<1>11. QED
  BY <1>1, <1>2, <1>3, <1>4, <1>5, <1>6, <1>7, <1>8, <1>9, <1>10 DEF WriteStep

\* Every step keeps the invariant.
LEMMA NextInv == IInv /\ [Next]_vars => IInv'
<1> SUFFICES ASSUME IInv, [Next]_vars PROVE IInv'
  OBVIOUS
<1>1. CASE UNCHANGED vars
  BY <1>1 DEF vars, IInv, TypeOK, WaitLockHeld, ReadersCounted, WriterFlags, Exclusion, Readers
<1>2. CASE Next
  BY <1>2, ReadInv, WriteInv DEF Next
<1>3. QED
  BY <1>1, <1>2

\* The invariant holds in every behaviour.
THEOREM Invariance == Spec => []IInv
BY InitInv, NextInv, PTL DEF Spec

\* The lock word is exact in every behaviour: no path of queued_read_lock(),
\* queued_read_trylock() or queued_write_unlock() leaves a reader count behind
\* or wipes one out, _QW_WAITING belongs to the one writer at the head of the
\* queue and _QW_LOCKED to the one writer that has the lock.
THEOREM WordExact == Spec => []CntsExact
BY Invariance, PTL DEF IInv, CntsExact

\* Every step of the detailed lock is a step of a reader-writer lock or leaves
\* its holders alone.
LEMMA StepImplements ==
  IInv /\ [Next]_vars => [RwLock!Next]_<<Readers, Writers>>
<1> SUFFICES ASSUME IInv, [Next]_vars PROVE [RwLock!Next]_<<Readers, Writers>>
  OBVIOUS
<1> USE QRwAssumption DEF IInv, Readers, Writers
<1>1. CASE UNCHANGED vars
  BY <1>1 DEF vars
<1>2. ASSUME NEW x \in Contexts, ReadLock(x) \/ ReadTrylock(x) \/ ReadStep(x) \/ ReadUnlock(x)
      PROVE  [RwLock!Next]_<<Readers, Writers>>
  <2>1. CASE ReadLock(x)
    BY <1>2, <2>1 DEF ReadLock, At, Goto, AddReader, writer_present, in_interrupt, WriterFlags, TypeOK, Contexts, RwLock!Next, RwLock!AcquireRead
  <2>2. CASE ReadTrylock(x)
    BY <1>2, <2>2 DEF ReadTrylock, At, Goto, TypeOK
  <2>3. CASE IrqWait(x)
    BY <1>2, <2>3 DEF IrqWait, At, Goto, writer_released, WriterFlags, TypeOK, Contexts, RwLock!Next, RwLock!AcquireRead
  <2>4. CASE ReadSub(x)
    BY <1>2, <2>4 DEF ReadSub, At, Goto, TypeOK
  <2>5. CASE ReadAdd(x)
    BY <1>2, <2>5 DEF ReadAdd, At, Goto, TypeOK
  <2>6. CASE ReadWait(x)
    BY <1>2, <2>6 DEF ReadWait, At, Goto, writer_released, WriterFlags, TypeOK, Contexts, RwLock!Next, RwLock!AcquireRead
  <2>7. CASE ReadPass(x)
    BY <1>2, <2>7 DEF ReadPass, At, Goto, TypeOK
  <2>8. CASE ReadTrylockAdd(x)
    BY <1>2, <2>8 DEF ReadTrylockAdd, At, Goto, writer_present, WriterFlags, TypeOK, Contexts, RwLock!Next, RwLock!AcquireRead
  <2>9. CASE ReadTrylockSub(x)
    BY <1>2, <2>9 DEF ReadTrylockSub, At, Goto, TypeOK
  <2>10. CASE ReadUnlock(x)
    BY <1>2, <2>10 DEF ReadUnlock, At, Goto, TypeOK, RwLock!Next, RwLock!ReleaseRead
  <2>11. QED
    BY <1>2, <2>1, <2>2, <2>3, <2>4, <2>5, <2>6, <2>7, <2>8, <2>9, <2>10 DEF ReadStep
<1>3. ASSUME NEW t \in Tasks,
             \/ WriteTrylock(t) \/ WriteLock(t) \/ WriteStep(t) \/ WriteUnlock(t)
             \/ ReadQueue(t) \/ WriteQueue(t)
      PROVE  [RwLock!Next]_<<Readers, Writers>>
  <2>0. t \in Contexts
    BY DEF Contexts
  <2>1. CASE ReadQueue(t)
    BY <2>0, <2>1 DEF ReadQueue, At, Goto, TypeOK
  <2>2. CASE WriteTrylock(t)
    BY <2>0, <2>2, NoneCounted DEF WriteTrylock, At, Goto, Cnts, WriterFlags, TypeOK, Contexts, RwLock!Next, RwLock!AcquireWrite
  <2>3. CASE WriteLock(t)
    BY <2>0, <2>3, NoneCounted DEF WriteLock, At, Goto, WriteTrylock, Cnts, WriterFlags, TypeOK, Contexts, RwLock!Next, RwLock!AcquireWrite
  <2>4. CASE WriteQueue(t)
    BY <2>0, <2>4 DEF WriteQueue, At, Goto, TypeOK
  <2>5. CASE WriteTry(t)
    BY <2>0, <2>5, NoneCounted DEF WriteTry, At, Goto, Cnts, WriterFlags, TypeOK, Contexts, RwLock!Next, RwLock!AcquireWrite
  <2>6. CASE WriteSet(t)
    BY <2>0, <2>6 DEF WriteSet, At, Goto, TypeOK
  <2>7. CASE WriteWait(t)
    BY <2>0, <2>7 DEF WriteWait, At, Goto, TypeOK
  <2>8. CASE WriteCmpxchg(t)
    BY <2>0, <2>8, NoneCounted DEF WriteCmpxchg, At, Goto, only_waiting, Cnts, WriterFlags, TypeOK, Contexts, RwLock!Next, RwLock!AcquireWrite
  <2>9. CASE WritePass(t)
    BY <2>0, <2>9 DEF WritePass, At, Goto, TypeOK
  <2>10. CASE WriteUnlock(t)
    BY <2>0, <2>10 DEF WriteUnlock, At, Goto, Exclusion, TypeOK, RwLock!Next, RwLock!ReleaseWrite
  <2>11. QED
    BY <1>3, <2>1, <2>2, <2>3, <2>4, <2>5, <2>6, <2>7, <2>8, <2>9, <2>10 DEF WriteStep
<1>4. QED
  BY <1>1, <1>2, <1>3 DEF Next

\* The queued reader-writer lock implements the abstract one, with any number
\* of tasks and interrupts.
THEOREM ImplementsRwLock == Spec => LockSpec
<1>1. Init => RwLock!Init
  BY DEF Init, RwLock!Init
<1>2. IInv /\ [Next]_vars => [RwLock!Next]_<<{x \in Contexts : pc[x] \in {"r_pass", "r_held"}},
                                             {x \in Contexts : pc[x] \in {"w_pass", "w_held"}}>>
  BY StepImplements DEF Readers, Writers
<1>3. QED
  BY <1>1, <1>2, Invariance, PTL DEF Spec, LockSpec, RwLock!Spec
=============================================================================
