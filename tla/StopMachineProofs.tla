------------------------- MODULE StopMachineProofs -------------------------
(***************************************************************************)
(* Stopping CPUs for any finite number of CPUs and any tasks that call:    *)
(* the works, done and msdata of a call are used while it lasts and no     *)
(* longer, and multi_cpu_stop() keeps its CPUs in lockstep.                *)
(***************************************************************************)
EXTENDS StopMachine, FiniteSetTheorems, WellFoundedInduction, TLAPS

-----------------------------------------------------------------------------
(* The lists the works are queued on                                        *)

\* Queueing an element that is not linked links it too.
LEMMA ListAddTail ==
  ASSUME NEW S, NEW s \in Seq(S), NoDup(s), NEW e \in S, e \notin Linked(s)
  PROVE  /\ list_add_tail(s, e) \in Seq(S)
         /\ NoDup(list_add_tail(s, e))
         /\ Linked(list_add_tail(s, e)) = Linked(s) \cup {e}
<1>1. /\ list_add_tail(s, e) \in Seq(S)
      /\ Len(list_add_tail(s, e)) = Len(s) + 1
      /\ \A i \in 1..Len(s) : list_add_tail(s, e)[i] = s[i]
      /\ list_add_tail(s, e)[Len(s) + 1] = e
  BY DEF list_add_tail
<1>2. NoDup(list_add_tail(s, e))
  BY <1>1 DEF NoDup, Linked
<1>3. Linked(list_add_tail(s, e)) = Linked(s) \cup {e}
  BY <1>1 DEF Linked
<1>4. QED
  BY <1>1, <1>2, <1>3

\* The first entry of a list that is not empty is linked, and queueing another
\* element at the tail leaves it the first.
LEMMA ListFirst ==
  ASSUME NEW S, NEW s \in Seq(S), s # <<>>
  PROVE  /\ list_first_entry(s) \in Linked(s)
         /\ list_first_entry(s) \in S
         /\ \A e \in S : list_first_entry(list_add_tail(s, e)) = list_first_entry(s)
<1>1. 1 \in DOMAIN s /\ Head(s) = s[1] /\ s[1] \in S
  OBVIOUS
<1>2. list_first_entry(s) \in Linked(s) /\ list_first_entry(s) \in S
  BY <1>1 DEF list_first_entry, Linked
<1>3. ASSUME NEW e \in S
      PROVE  list_first_entry(list_add_tail(s, e)) = list_first_entry(s)
  BY <1>1 DEF list_first_entry, list_add_tail
<1>4. QED
  BY <1>2, <1>3

\* Unlinking the first element.
LEMMA ListTail ==
  ASSUME NEW S, NEW s \in Seq(S), NoDup(s), s # <<>>
  PROVE  /\ Tail(s) \in Seq(S)
         /\ NoDup(Tail(s))
         /\ Linked(Tail(s)) = Linked(s) \ {Head(s)}
<1>1. /\ Tail(s) \in Seq(S) /\ Len(Tail(s)) = Len(s) - 1 /\ Len(s) \in Nat /\ Len(s) > 0
      /\ \A i \in 1..(Len(s) - 1) : Tail(s)[i] = s[i + 1]
      /\ Head(s) = s[1]
  OBVIOUS
<1>2. NoDup(Tail(s))
  BY <1>1 DEF NoDup
<1>3. ASSUME NEW x \in Linked(Tail(s)) PROVE x \in Linked(s) \ {Head(s)}
  <2>1. PICK i \in 1..(Len(s) - 1) : Tail(s)[i] = x
    BY <1>1, <1>3 DEF Linked
  <2>2. i + 1 \in DOMAIN s /\ 1 \in DOMAIN s /\ i + 1 # 1 /\ s[i + 1] = x
    BY <1>1, <2>1
  <2>3. x \in Linked(s)
    BY <2>2 DEF Linked
  <2>4. s[i + 1] # s[1]
    BY <2>2 DEF NoDup
  <2>5. QED
    BY <1>1, <2>2, <2>3, <2>4
<1>4. ASSUME NEW x \in Linked(s) \ {Head(s)} PROVE x \in Linked(Tail(s))
  <2>1. PICK j \in 1..Len(s) : s[j] = x
    BY <1>4 DEF Linked
  <2>2. j - 1 \in 1..(Len(s) - 1) /\ Tail(s)[j - 1] = x
    BY <1>1, <1>4, <2>1
  <2>3. DOMAIN Tail(s) = 1..(Len(s) - 1)
    BY <1>1
  <2>4. QED
    BY <2>2, <2>3 DEF Linked
<1>5. QED
  BY <1>1, <1>2, <1>3, <1>4

\* Queueing keeps a list a list.
LEMMA ListTypes ==
  ASSUME NEW S, NEW s \in Seq(S), NEW e \in S
  PROVE  list_add_tail(s, e) \in Seq(S)
BY DEF list_add_tail

-----------------------------------------------------------------------------
(* The inductive invariant                                                  *)

\* The calls that wait for their works, and those that run multi_cpu_stop().
WaitingOps == {"one", "two", "all"}
MultiOps == {"two", "all"}

\* Where the caller is, and on which CPUs it has yet to queue a work.
CallShape(t) ==
  /\ call[t].op = "none" <=> pc[t] = "out"
  /\ left[t] \subseteq call[t].cpus
  /\ call[t].op \in {"one", "nowait"} =>
       /\ pc[t] \in {"queue", "wake", "wait", "sleep"}
       /\ \E c \in CPUs : call[t].cpus = {c}
  /\ call[t].op = "two" =>
       pc[t] \in {"two_lock", "two_queue", "two_spin", "wake", "wait", "sleep"}
  /\ call[t].op = "all" =>
       pc[t] \in {"mutex", "begin", "queue", "wake", "wait", "sleep"}
  /\ pc[t] \in {"mutex", "begin", "two_lock", "two_queue", "two_spin"} =>
       left[t] = call[t].cpus
  /\ pc[t] = "queue" /\ call[t].op # "all" => left[t] = call[t].cpus
  /\ pc[t] = "wake" /\ call[t].op # "all" => left[t] = {}
  /\ pc[t] \in {"wait", "sleep"} => left[t] = {} /\ call[t].op # "nowait"

\* stop_machine() has the mutex while it queues and waits, and no CPU comes up
\* meanwhile: all CPUs it counted are enabled.
Exclusive ==
  /\ \A t \in Tasks : call[t].op = "all" =>
       /\ pc[t] # "mutex" => mutex = t
       /\ hotplug = None
       /\ call[t].cpus = online
  /\ Boot \subseteq online
  /\ \A c \in online : enabled[c] \/ hotplug = c

\* The call of t has queued a work of this kind on the CPU.
Serves(t, op, c) == call[t].op = op /\ c \in call[t].cpus /\ c \notin left[t]

\* A queued work belongs to a call that waits for it, on a CPU that it stops, and
\* is not the one under way; one that nobody waits for is queued once.
QueuedWorks ==
  /\ \A c \in CPUs : NoDup(works[c]) /\ fetched[c] \notin Linked(works[c])
  /\ \A c \in CPUs, t \in Tasks, op \in {"one", "two"} : Work(op, t) \in ToExecute(c) =>
       Serves(t, op, c) /\ cur[c] # Work(op, t)
  /\ \A c \in CPUs, t \in Tasks : Work("nowait", t) \in ToExecute(c) =>
       ~(call[t].op = "nowait" /\ pc[t] = "queue")
  /\ \A c \in CPUs : StaticWork \in ToExecute(c) =>
       /\ stop_work[c] \in Tasks
       /\ Serves(stop_work[c], "all", c)
       /\ cur[c].op # "all"

\* What a stopper executes.
CurrentWork ==
  \A c \in CPUs :
    /\ spc[c] \in Idle <=> cur[c] = NoWork
    /\ spc[c] = "read" <=> fetched[c] # NoWork
    /\ spc[c] = "fn" => cur[c].op \in {"one", "nowait"}
    /\ spc[c] \in MultiPC => cur[c].op \in MultiOps
    /\ cur[c].op \in WaitingOps =>
         Serves(cur[c].task, cur[c].op, c) /\ completion[cur[c].task].done = 0

\* nr_todo counts the works that have not signalled, the event comes after the
\* last of them, and one stopper brings it.
Todo ==
  /\ \A t \in Tasks : call[t].op \in WaitingOps =>
       /\ nr_todo[t] = Cardinality(Pending(t)) + Cardinality(left[t])
       /\ completion[t].done # 0 => nr_todo[t] = 0
  /\ \A c \in CPUs : spc[c] = "complete" =>
       /\ cur[c].op \in WaitingOps
       /\ nr_todo[cur[c].task] = 0
       /\ \A d \in CPUs : spc[d] = "complete" /\ cur[d].task = cur[c].task => d = c

\* CPUs that have not come to multi_cpu_stop() for t yet, CPUs that are there, and
\* CPUs that have not acknowledged the state.
ToCome(t, c) == c \in left[t] \/ Enqueued(t, c)
InMulti(t, c) == Executing(t, c) /\ spc[c] \in MultiPC
ToAck(t) ==
  {c \in CPUs :
     \/ ToCome(t, c)
     \/ /\ InMulti(t, c)
        /\ spc[c] \in {"run", "ack"} \/ (spc[c] = "multi" /\ curstate[c] # msdata[t].state)}
Setting(t) == {c \in CPUs : InMulti(t, c) /\ spc[c] \in {"set_1", "set_2"}}

\* The local curstate of a stopper.
LocalState ==
  \A c \in CPUs :
    /\ spc[c] \notin MultiPC \cup {"ret"} => curstate[c] = NONE
    /\ spc[c] = "run" => curstate[c] = RUN
    /\ spc[c] = "multi" => curstate[c] # EXIT

\* Which CPUs are in multi_cpu_stop() in each state: all from DISABLE_IRQ to RUN,
\* none is still to come afterwards, and nobody is two states behind.
Together(t) ==
  /\ msdata[t].state # NONE
  /\ msdata[t].state = PREPARE =>
       \A c \in call[t].cpus : ToCome(t, c) \/ InMulti(t, c)
  /\ msdata[t].state \in {DISABLE_IRQ, RUN} => \A c \in call[t].cpus : InMulti(t, c)
  /\ msdata[t].state # PREPARE => \A c \in CPUs : ~ToCome(t, c)
  /\ \A c \in CPUs : InMulti(t, c) =>
       /\ msdata[t].state <= EXIT
       /\ curstate[c] \in {msdata[t].state - 1, msdata[t].state}
       /\ spc[c] # "multi" => curstate[c] = msdata[t].state

\* thread_ack counts the CPUs that have not acknowledged the state, until the last
\* one has: that one alone resets the counter and moves on.
Acks(t) ==
  /\ Setting(t) = {} /\ msdata[t].state <= EXIT =>
       ToAck(t) # {} /\ msdata[t].ack = Cardinality(ToAck(t))
  /\ \A c \in Setting(t) :
       /\ ToAck(t) = {}
       /\ \A d \in Setting(t) : d = c
       /\ spc[c] = "set_1" => msdata[t].ack = 0
       /\ spc[c] = "set_2" => msdata[t].ack = Cardinality(call[t].cpus)

MultiInv == \A t \in Tasks : call[t].op \in MultiOps => Together(t) /\ Acks(t)

IInv ==
  /\ TypeOK
  /\ \A t \in Tasks : CallShape(t)
  /\ Exclusive
  /\ QueuedWorks
  /\ CurrentWork
  /\ Todo
  /\ LocalState
  /\ MultiInv

-----------------------------------------------------------------------------
(* Facts about works and CPUs                                               *)

\* The smallest of some CPUs is one of them.
LEMMA MinOf ==
  ASSUME NEW S, S \subseteq CPUs, S # {}
  PROVE  Min(S) \in S
<1> DEFINE R == {ss \in Nat \X Nat : ss[1] < ss[2]}
<1>1. IsWellFoundedOn(R, Nat)
  BY NatLessThanWellFounded DEF OpToRel
<1>2. \A x, y \in Nat : ~(<<y, x>> \in R) => x <= y
  OBVIOUS
<1>3. S \subseteq Nat
  BY StopMachineAssumption
<1> HIDE DEF R
<1>4. PICK x \in S : \A y \in S : ~(<<y, x>> \in R)
  BY <1>1, <1>3, WFMin
<1>5. \A y \in S : x <= y
  BY <1>2, <1>3, <1>4
<1>6. QED
  BY <1>5 DEF Min

\* Works are told apart by their operation and their task.
LEMMA WorkEq ==
  ASSUME NEW a, NEW b, NEW x, NEW y
  PROVE  /\ Work(a, x) = Work(b, y) <=> a = b /\ x = y
         /\ Work(a, x).op = a /\ Work(a, x).task = x
BY DEF Work

\* A set of CPUs can be counted.
LEMMA CpusFinite ==
  ASSUME NEW S, S \subseteq CPUs
  PROVE  IsFiniteSet(S) /\ Cardinality(S) \in Nat
BY StopMachineAssumption, FS_Subset, FS_CardinalityType

\* What a stopper has before it for a task are works.
LEMMA InWorks ==
  ASSUME TypeOK, NEW c \in CPUs, NEW t \in Tasks, NEW op, Work(op, t) \in ToExecute(c)
  PROVE  Work(op, t) \in Works
<1>1. Work(op, t) # NoWork
  BY WorkEq, StopMachineAssumption DEF NoWork
<1>2. Linked(works[c]) \subseteq Works /\ fetched[c] \in Works \cup {NoWork}
  BY DEF TypeOK, QueueTypes, StopperTypes, Linked
<1>3. QED
  BY <1>1, <1>2 DEF ToExecute

\* What is queued and executed for a call that waits is on CPUs that it stops and
\* has queued works on, and not both queued and executed.
LEMMA Owned ==
  ASSUME TypeOK, QueuedWorks, CurrentWork, NEW t \in Tasks, call[t].op \in WaitingOps,
         NEW c \in CPUs
  PROVE  /\ Enqueued(t, c) => Serves(t, call[t].op, c) /\ ~Executing(t, c)
         /\ Executing(t, c) => Serves(t, call[t].op, c)
<1>1. ASSUME Work(call[t].op, t) \in ToExecute(c)
      PROVE  Serves(t, call[t].op, c) /\ ~Executing(t, c)
  <2>1. Work(call[t].op, t) \in Works
    BY <1>1, InWorks
  <2>2. call[t].op \in {"one", "two"}
    BY <2>1, StopMachineAssumption DEF Works, WaitingOps, Work, StaticWork
  <2>3. QED
    BY <1>1, <2>2 DEF QueuedWorks, Executing
<1>2. ASSUME StaticWork \in ToExecute(c), stop_work[c] = t
      PROVE  Serves(t, call[t].op, c) /\ ~Executing(t, c)
  BY <1>2, WorkEq DEF QueuedWorks, Executing, Serves
<1>3. ASSUME Executing(t, c) PROVE Serves(t, call[t].op, c)
  BY <1>3, WorkEq DEF CurrentWork, Executing
<1>4. QED
  BY <1>1, <1>2, <1>3 DEF Enqueued

\* No work of a task that does not wait for one is queued or executed.
LEMMA NotOwned ==
  ASSUME QueuedWorks, CurrentWork, NEW t \in Tasks, call[t].op \notin WaitingOps, NEW c \in CPUs
  PROVE  /\ \A op \in {"one", "two"} : Work(op, t) \notin ToExecute(c)
         /\ ~(StaticWork \in ToExecute(c) /\ stop_work[c] = t)
         /\ cur[c].op \in WaitingOps => cur[c].task # t
<1>1. \A op \in {"one", "two"} : Work(op, t) \notin ToExecute(c)
  BY DEF QueuedWorks, WaitingOps, Serves
<1>2. ~(StaticWork \in ToExecute(c) /\ stop_work[c] = t)
  BY DEF QueuedWorks, WaitingOps, Serves
<1>3. cur[c].op \in WaitingOps => cur[c].task # t
  BY DEF CurrentWork, Serves
<1>4. QED
  BY <1>1, <1>2, <1>3

\* A work under way is the one of some task's call.
LEMMA CurIs ==
  ASSUME TypeOK, NEW c \in CPUs, cur[c].op # "none"
  PROVE  cur[c] = Work(cur[c].op, cur[c].task) /\ cur[c].task \in Tasks
BY DEF TypeOK, StopperTypes, Work, NoWork

\* What multi_cpu_stop() does for a call depends on the works, the stoppers that
\* execute them and the call's own data only.
LEMMA SameMulti ==
  ASSUME NEW t \in Tasks, Together(t), Acks(t),
         call'[t] = call[t], msdata'[t] = msdata[t],
         \A c \in CPUs : ToCome(t, c)' <=> ToCome(t, c),
         \A c \in CPUs : InMulti(t, c)' <=> InMulti(t, c),
         \A c \in CPUs : InMulti(t, c) => spc'[c] = spc[c] /\ curstate'[c] = curstate[c],
         call[t].cpus \subseteq CPUs
  PROVE  Together(t)' /\ Acks(t)'
<1>1. ToAck(t)' = ToAck(t)
  BY DEF ToAck
<1>2. Setting(t)' = Setting(t)
  BY DEF Setting
<1>3. Together(t)'
  BY DEF Together
<1>4. Acks(t)'
  BY <1>1, <1>2 DEF Acks, Setting
<1>5. QED
  BY <1>3, <1>4

\* A step that leaves works, calls and stoppers alone leaves multi_cpu_stop() alone.
LEMMA KeepMulti ==
  ASSUME IInv, UNCHANGED <<call, left, msdata, works, stop_work, spc, fetched, cur, curstate>>
  PROVE  MultiInv'
<1> SUFFICES ASSUME NEW u \in Tasks, call[u].op \in MultiOps PROVE Together(u)' /\ Acks(u)'
  BY DEF MultiInv
<1>1. Together(u) /\ Acks(u) /\ call[u].cpus \subseteq CPUs
  BY DEF IInv, MultiInv, TypeOK, CallerTypes
<1>2. \A c \in CPUs : (ToCome(u, c)' <=> ToCome(u, c)) /\ (InMulti(u, c)' <=> InMulti(u, c))
  BY DEF ToCome, InMulti, Enqueued, Executing, ToExecute
<1>3. QED
  BY <1>1, <1>2, SameMulti

\* cpu_stop_init() establishes the invariant.
LEMMA InitInv == Init => IInv
<1> SUFFICES ASSUME Init PROVE IInv
  OBVIOUS
<1> USE DEF Init
<1>1. TypeOK
  <2>1. SharedTypes
    <3>1. \A c \in CPUs : (c \in Boot) \in BOOLEAN
      OBVIOUS
    <3>2. enabled \in [CPUs -> BOOLEAN]
      BY <3>1, Zenon
    <3>3. QED
      BY <3>2, StopMachineAssumption DEF SharedTypes
  <2>2. QueueTypes
    BY DEF QueueTypes
  <2>3. CallerTypes
    BY DEF CallerTypes, NoCall, init_completion, NONE, EXIT, TaskStates
  <2>4. StopperTypes
    BY DEF StopperTypes, Idle, NONE, EXIT
  <2>5. QED
    BY <2>1, <2>2, <2>3, <2>4 DEF TypeOK
<1>2. \A t \in Tasks : CallShape(t)
  BY DEF CallShape, NoCall
<1>3. Exclusive
  BY StopMachineAssumption DEF Exclusive, NoCall
<1>4. QueuedWorks
  <2>1. \A c \in CPUs : ToExecute(c) = {NoWork} /\ NoDup(works[c]) /\ Linked(works[c]) = {}
    BY DEF Linked, NoDup, ToExecute
  <2>2. \A op : \A t \in Tasks : Work(op, t) # NoWork
    BY WorkEq, StopMachineAssumption DEF NoWork
  <2>3. StaticWork # NoWork
    BY WorkEq DEF NoWork, StaticWork
  <2>4. QED
    BY <2>1, <2>2, <2>3 DEF QueuedWorks
<1>5. CurrentWork
  BY WorkEq DEF CurrentWork, Idle, NoWork, MultiPC, WaitingOps
<1>6. Todo
  BY DEF Todo, NoCall, WaitingOps
<1>7. LocalState
  BY DEF LocalState, MultiPC
<1>8. MultiInv
  BY DEF MultiInv, NoCall, MultiOps
<1>9. QED
  BY <1>1, <1>2, <1>3, <1>4, <1>5, <1>6, <1>7, <1>8 DEF IInv

\* A step of a caller that moves on without touching a work or its call.
LEMMA PcStep ==
  ASSUME IInv, NEW t \in Tasks, NEW l, TypeOK', pc' = [pc EXCEPT ![t] = l],
         UNCHANGED <<call, left, works, stop_work, fetched, cur, spc, curstate, nr_todo, msdata>>,
         \A u \in Tasks : completion'[u].done = completion[u].done,
         CallShape(t)', Exclusive', call[t].op = "all" \/ l # "queue"
  PROVE  IInv'
<1>1. \A u \in Tasks : u # t => pc'[u] = pc[u]
  BY DEF IInv, TypeOK, CallerTypes
<1>2. \A u \in Tasks : CallShape(u)'
  BY <1>1 DEF IInv, CallShape
<1>3. QueuedWorks'
  <2>1. \A u \in Tasks : call[u].op = "nowait" /\ pc'[u] = "queue" => pc[u] = "queue"
    BY <1>1 DEF IInv, TypeOK, CallerTypes
  <2>2. QED
    BY <2>1 DEF IInv, QueuedWorks, Serves, ToExecute
<1>4. CurrentWork'
  BY DEF IInv, TypeOK, StopperTypes, CurrentWork, Serves, WaitingOps, NoWork, Work
<1>5. Todo'
  BY DEF IInv, Todo, Pending, Enqueued, Executing, ToExecute
<1>6. LocalState'
  BY DEF IInv, LocalState
<1>7. MultiInv'
  <2> SUFFICES ASSUME NEW u \in Tasks, call[u].op \in MultiOps PROVE Together(u)' /\ Acks(u)'
    BY DEF MultiInv
  <2>1. Together(u) /\ Acks(u) /\ call[u].cpus \subseteq CPUs
    BY DEF IInv, MultiInv, TypeOK, CallerTypes
  <2>2. \A c \in CPUs : (ToCome(u, c)' <=> ToCome(u, c)) /\ (InMulti(u, c)' <=> InMulti(u, c))
    BY DEF ToCome, InMulti, Enqueued, Executing, ToExecute
  <2>3. QED
    BY <2>1, <2>2, SameMulti
<1>8. QED
  BY <1>2, <1>3, <1>4, <1>5, <1>6, <1>7 DEF IInv

-----------------------------------------------------------------------------
(* Callers                                                                  *)

\* The mutex is free, so no other stop_machine() queues or waits.
LEMMA LockMutexInv ==
  ASSUME IInv, NEW t \in Tasks, LockMutex(t)
  PROVE  IInv'
<1> USE DEF LockMutex, Goto, serialized, stoppers
<1>1. TypeOK'
  <2>1. SharedTypes'
    BY DEF IInv, TypeOK, SharedTypes
  <2>2. CallerTypes'
    BY DEF IInv, TypeOK, CallerTypes, PreemptOff
  <2>3. StopperTypes' /\ QueueTypes'
    BY DEF IInv, TypeOK, StopperTypes, QueueTypes
  <2>4. QED
    BY <2>1, <2>2, <2>3 DEF TypeOK
<1>2. pc[t] = "mutex" /\ pc'[t] = "begin" /\ call[t].op = "all"
  BY DEF IInv, TypeOK, CallerTypes, CallShape
<1>3. CallShape(t)'
  BY <1>2 DEF IInv, CallShape
<1>4. Exclusive'
  BY <1>2, StopMachineAssumption DEF IInv, TypeOK, CallerTypes, Exclusive
<1>5. QED
  BY <1>1, <1>2, <1>3, <1>4, PcStep

\* stop_cpus_in_progress and stopper->lock are for progress; what is queued and
\* executed does not depend on them.
LEMMA MoveInv ==
  ASSUME IInv, NEW t \in Tasks, Begin(t) \/ TwoLock(t) \/ TwoSpin(t) \/ Sleep(t)
  PROVE  IInv'
<1> USE DEF Begin, TwoLock, TwoSpin, Sleep, Goto, stoppers
<1>1. PICK l \in {"queue", "two_queue", "two_lock", "wait"} : pc' = [pc EXCEPT ![t] = l]
  OBVIOUS
<1>2. TypeOK'
  <2>1. SharedTypes'
    <3>1. CASE Begin(t)
      BY <3>1 DEF IInv, TypeOK, SharedTypes
    <3>2. CASE TwoLock(t)
      BY <3>2 DEF IInv, TypeOK, SharedTypes
    <3>3. CASE TwoSpin(t) \/ Sleep(t)
      BY <3>3 DEF IInv, TypeOK, SharedTypes
    <3>4. QED
      BY <3>1, <3>2, <3>3
  <2>2. CallerTypes'
    BY <1>1 DEF IInv, TypeOK, CallerTypes, PreemptOff
  <2>3. StopperTypes' /\ QueueTypes'
    BY DEF IInv, TypeOK, StopperTypes, QueueTypes
  <2>4. QED
    BY <2>1, <2>2, <2>3 DEF TypeOK
<1>3. /\ pc'[t] = l
      /\ \/ pc[t] = "begin" /\ l = "queue"
         \/ pc[t] \in {"two_lock", "two_spin"} /\ l \in {"two_queue", "two_lock"}
         \/ pc[t] = "sleep" /\ l = "wait"
  BY <1>1 DEF IInv, TypeOK, CallerTypes
<1>4. CallShape(t) /\ call[t].op \in {"none", "one", "nowait", "two", "all"}
  BY DEF IInv, TypeOK, CallerTypes
<1>5. CallShape(t)' /\ (call[t].op = "all" \/ l # "queue")
  BY <1>3, <1>4 DEF CallShape
<1>6. Exclusive'
  BY <1>1, <1>3, <1>4 DEF IInv, TypeOK, CallerTypes, Exclusive, CallShape
<1>7. QED
  BY <1>1, <1>2, <1>5, <1>6, PcStep

\* A call returns when no work of it is queued or executed any more.
LEMMA ReturnInv ==
  ASSUME IInv, NEW t \in Tasks, TypeOK', Return(t), pc[t] # "mutex",
         left'[t] = {}, \A u \in Tasks : u # t => left'[u] = left[u],
         UNCHANGED <<online, hotplug, enabled, works, fetched, cur, spc, curstate>>,
         call[t].op \in WaitingOps => \A c \in CPUs : ~Enqueued(t, c) /\ ~Executing(t, c)
  PROVE  IInv'
<1>1. \A u \in Tasks : u # t =>
        /\ call'[u] = call[u] /\ pc'[u] = pc[u] /\ nr_todo'[u] = nr_todo[u]
        /\ completion'[u] = completion[u] /\ msdata'[u] = msdata[u]
  BY DEF IInv, TypeOK, CallerTypes, Return, Goto
<1>2. call'[t] = NoCall /\ pc'[t] = "out"
  BY DEF IInv, TypeOK, CallerTypes, Return, Goto
<1>3. ASSUME NEW c \in CPUs
      PROVE  /\ \A op \in {"one", "two"} : Work(op, t) \notin ToExecute(c)
             /\ StaticWork \in ToExecute(c) => stop_work[c] # t
             /\ cur[c].op \in WaitingOps => cur[c].task # t
  <2>1. CASE call[t].op \in WaitingOps
    <3>1. ~Enqueued(t, c) /\ ~Executing(t, c)
      BY <2>1
    <3>2. \A op \in {"one", "two"} : Work(op, t) \notin ToExecute(c)
      BY <3>1 DEF IInv, QueuedWorks, Serves, Enqueued
    <3>3. StaticWork \in ToExecute(c) => stop_work[c] # t
      BY <3>1 DEF Enqueued
    <3>4. cur[c].op \in WaitingOps => cur[c].task # t
      BY <3>1, CurIs DEF IInv, CurrentWork, Serves, Executing, WaitingOps
    <3>5. QED
      BY <3>2, <3>3, <3>4
  <2>2. CASE call[t].op \notin WaitingOps
    BY <2>2, NotOwned DEF IInv
  <2>3. QED
    BY <2>1, <2>2
<1>4. \A u \in Tasks : CallShape(u)'
  <2>1. CallShape(t)'
    BY <1>2 DEF CallShape, NoCall
  <2>2. ASSUME NEW u \in Tasks, u # t PROVE CallShape(u)'
    <3>1. CallShape(u) /\ call'[u] = call[u] /\ pc'[u] = pc[u] /\ left'[u] = left[u]
      BY <1>1, <2>2 DEF IInv
    <3>2. QED
      BY <3>1 DEF CallShape
  <2>3. QED
    BY <2>1, <2>2
<1>5. Exclusive'
  BY <1>1, <1>2 DEF IInv, Exclusive, Return, NoCall
<1>6. QueuedWorks'
  <2>1. \A c \in CPUs : ToExecute(c)' = ToExecute(c)
    BY DEF ToExecute
  <2>2. \A c \in CPUs : StaticWork \in ToExecute(c) => stop_work'[c] = stop_work[c]
    BY <1>3 DEF Return
  <2>3. QED
    BY <1>1, <1>2, <1>3, <2>1, <2>2 DEF IInv, QueuedWorks, Serves, NoCall
<1>7. CurrentWork'
  <2>1. \A c \in CPUs : cur[c].op \in WaitingOps => cur[c].task \in Tasks \ {t}
    BY <1>3, CurIs DEF IInv, WaitingOps
  <2>2. QED
    BY <1>1, <2>1 DEF IInv, CurrentWork, Serves
<1>8. \A u \in Tasks : u # t =>
        /\ Pending(u)' = Pending(u)
        /\ \A c \in CPUs : (ToCome(u, c)' <=> ToCome(u, c)) /\ (InMulti(u, c)' <=> InMulti(u, c))
  <2>1. \A u \in Tasks, c \in CPUs : u # t => (Enqueued(u, c)' <=> Enqueued(u, c))
    <3>1. \A u \in Tasks, c \in CPUs : u # t => (stop_work'[c] = u <=> stop_work[c] = u)
      BY StopMachineAssumption DEF Return
    <3>2. QED
      BY <1>1, <3>1 DEF Enqueued, ToExecute
  <2>2. QED
    BY <1>1, <2>1 DEF Pending, ToCome, InMulti, Executing
<1>9. Todo'
  <2>1. \A u \in Tasks : u # t /\ call[u].op \in WaitingOps =>
          /\ nr_todo'[u] = Cardinality(Pending(u)') + Cardinality(left'[u])
          /\ completion'[u].done # 0 => nr_todo'[u] = 0
    BY <1>1, <1>8 DEF IInv, Todo
  <2>2. \A c \in CPUs : spc[c] = "complete" =>
          /\ cur[c].op \in WaitingOps
          /\ nr_todo'[cur[c].task] = 0
          /\ \A d \in CPUs : spc[d] = "complete" /\ cur[d].task = cur[c].task => d = c
    BY <1>1, <1>3, CurIs DEF IInv, Todo, WaitingOps
  <2>3. QED
    BY <1>1, <1>2, <2>1, <2>2 DEF Todo, NoCall, WaitingOps
<1>10. LocalState'
  BY DEF IInv, LocalState
<1>11. MultiInv'
  <2> SUFFICES ASSUME NEW u \in Tasks, call'[u].op \in MultiOps PROVE Together(u)' /\ Acks(u)'
    BY DEF MultiInv
  <2>1. u # t
    BY <1>2 DEF NoCall, MultiOps
  <2>2. Together(u) /\ Acks(u) /\ call[u].cpus \subseteq CPUs
    BY <1>1, <2>1 DEF IInv, MultiInv, TypeOK, CallerTypes
  <2>3. QED
    BY <1>1, <1>8, <2>1, <2>2, SameMulti
<1>12. QED
  BY <1>4, <1>5, <1>6, <1>7, <1>9, <1>10, <1>11 DEF IInv

\* The states a stopper may be woken from.
LEMMA WakeTypes ==
  /\ \A s \in {TASK_RUNNING, TASK_INTERRUPTIBLE, TASK_PARKED} :
       /\ wake_up_process(s) \in {TASK_RUNNING, TASK_INTERRUPTIBLE, TASK_PARKED}
       /\ try_to_wake_up(s, TASK_PARKED) \in {TASK_RUNNING, TASK_INTERRUPTIBLE, TASK_PARKED}
  /\ \A s \in TaskStates : wake_up_process(s) \in TaskStates
BY DEF wake_up_process, try_to_wake_up, TaskStates

\* What the caller does once it has woken the stoppers.
LEMMA WakeUpQInv ==
  ASSUME IInv, NEW t \in Tasks, WakeUpQ(t)
  PROVE  IInv'
<1>1. pc[t] = "wake" /\ CallShape(t) /\ call[t].op \in {"none", "one", "nowait", "two", "all"}
  BY DEF WakeUpQ, IInv, TypeOK, CallerTypes
<1>2. /\ UNCHANGED <<online, hotplug, cpu, enabled, works, lock, left, state, spc,
                     fetched, cur, curstate>>
      /\ in_progress' \in BOOLEAN
  BY DEF WakeUpQ, IInv, TypeOK, SharedTypes
<1>3. CASE /\ wake_q' = [wake_q EXCEPT ![t] = @ \ {Min(wake_q[t])}]
           /\ sstate' = [sstate EXCEPT ![Min(wake_q[t])] = wake_up_process(@)]
           /\ UNCHANGED <<pc, call, nr_todo, completion, msdata, mutex, stop_work, in_progress>>
  <2>1. TypeOK'
    <3>1. SharedTypes' /\ QueueTypes'
      BY <1>2, <1>3 DEF IInv, TypeOK, SharedTypes, QueueTypes
    <3>2. CallerTypes'
      BY <1>2, <1>3 DEF IInv, TypeOK, CallerTypes
    <3>3. StopperTypes'
      BY <1>2, <1>3, WakeTypes DEF IInv, TypeOK, StopperTypes
    <3>4. QED
      BY <3>1, <3>2, <3>3 DEF TypeOK
  <2>2. CallShape(t)' /\ Exclusive'
    BY <1>2, <1>3 DEF IInv, CallShape, Exclusive
  <2>3. pc' = [pc EXCEPT ![t] = "wake"]
    BY <1>1, <1>3 DEF IInv, TypeOK, CallerTypes
  <2>4. QED
    BY <1>2, <1>3, <2>1, <2>2, <2>3, PcStep
<1>4. ASSUME NEW l \in {"queue", "wait"}, Goto(t, l),
             UNCHANGED <<call, nr_todo, completion, msdata, mutex, stop_work, wake_q, sstate>>,
             l = "queue" => left[t] # {},
             l = "wait" => left[t] = {} /\ call[t].op # "nowait"
      PROVE  IInv'
  <2>1. TypeOK'
    <3>1. SharedTypes' /\ QueueTypes'
      BY <1>2, <1>4 DEF IInv, TypeOK, SharedTypes, QueueTypes
    <3>2. CallerTypes'
      BY <1>2, <1>4 DEF IInv, TypeOK, CallerTypes, Goto, PreemptOff
    <3>3. StopperTypes'
      BY <1>2, <1>4 DEF IInv, TypeOK, StopperTypes
    <3>4. QED
      BY <3>1, <3>2, <3>3 DEF TypeOK
  <2>2. pc'[t] = l
    BY <1>4 DEF IInv, TypeOK, CallerTypes, Goto
  <2>3. CallShape(t)' /\ (call[t].op = "all" \/ l # "queue")
    BY <1>1, <1>2, <1>4, <2>2 DEF CallShape
  <2>4. Exclusive'
    BY <1>1, <1>2, <1>4 DEF IInv, TypeOK, CallerTypes, Exclusive, Goto
  <2>5. QED
    BY <1>2, <1>4, <2>1, <2>3, <2>4, PcStep DEF Goto
<1>5. ASSUME Return(t), left[t] = {}, call[t].op = "nowait", UNCHANGED <<wake_q, sstate>>
      PROVE  IInv'
  <2>1. TypeOK'
    <3>1. SharedTypes' /\ QueueTypes'
      BY <1>2, <1>5 DEF IInv, TypeOK, SharedTypes, QueueTypes, Return
    <3>2. CallerTypes'
      BY <1>2, <1>5 DEF IInv, TypeOK, CallerTypes, Return, Goto, NoCall, init_completion, NONE,
         EXIT
    <3>3. StopperTypes'
      BY <1>2, <1>5 DEF IInv, TypeOK, StopperTypes
    <3>4. QED
      BY <3>1, <3>2, <3>3 DEF TypeOK
  <2>2. QED
    BY <1>1, <1>2, <1>5, <2>1, ReturnInv DEF WaitingOps
<1>6. QED
  BY <1>3, <1>4, <1>5 DEF WakeUpQ

\* The event comes after the last work has signalled, so the caller returns when
\* no stopper uses its stack.
LEMMA WaitInv ==
  ASSUME IInv, NEW t \in Tasks, Wait(t)
  PROVE  IInv'
<1>1. /\ pc[t] = "wait" /\ CallShape(t) /\ call[t].op \in WaitingOps /\ left[t] = {}
      /\ completion[t] \in [done : Nat, wait : Seq(Tasks)]
  BY DEF Wait, IInv, TypeOK, CallerTypes, CallShape, WaitingOps
<1>2. UNCHANGED <<online, hotplug, cpu, enabled, works, lock, in_progress, left, wake_q,
                  spc, fetched, cur, curstate, sstate>>
  BY DEF Wait, stoppers
<1>3. SharedTypes' /\ QueueTypes' /\ StopperTypes'
  <2>1. mutex' \in Tasks \cup {None} /\ stop_work' \in [CPUs -> Tasks \cup {None}]
    BY DEF Wait, Return, IInv, TypeOK, SharedTypes
  <2>2. QED
    BY <1>2, <2>1 DEF IInv, TypeOK, SharedTypes, QueueTypes, StopperTypes
<1>4. CASE /\ event_pending(completion[t])
           /\ Return(t)
           /\ state' = [state EXCEPT ![t] = TASK_RUNNING]
  <2>1. CallerTypes'
    BY <1>2, <1>4 DEF IInv, TypeOK, CallerTypes, Return, Goto, NoCall, init_completion, NONE,
       EXIT,
       TaskStates
  <2>2. completion[t].done # 0 /\ nr_todo[t] = 0
    BY <1>1, <1>4 DEF event_pending, IInv, Todo
  <2>3. Pending(t) = {}
    <3>1. Pending(t) \subseteq CPUs
      BY DEF Pending
    <3>2. Cardinality(Pending(t)) \in Nat /\ Cardinality(left[t]) = 0 /\ IsFiniteSet(Pending(t))
      BY <1>1, <3>1, CpusFinite, FS_EmptySet
    <3>3. nr_todo[t] = Cardinality(Pending(t)) + Cardinality(left[t])
      BY <1>1 DEF IInv, Todo
    <3>4. Cardinality(Pending(t)) = 0
      BY <2>2, <3>2, <3>3
    <3>5. QED
      BY <3>2, <3>4, FS_EmptySet
  <2>4. \A c \in CPUs : ~Enqueued(t, c) /\ ~Executing(t, c)
    BY <1>1, <2>2, <2>3, WorkEq DEF Pending, Executing, IInv, CurrentWork
  <2>5. QED
    BY <1>1, <1>2, <1>3, <1>4, <2>1, <2>4, ReturnInv DEF TypeOK
<1>5. CASE /\ completion' = [completion EXCEPT ![t] = queued(@, t)]
           /\ state' = [state EXCEPT ![t] = TASK_UNINTERRUPTIBLE]
           /\ Goto(t, "sleep")
           /\ UNCHANGED <<call, nr_todo, msdata, mutex, stop_work>>
  <2>1. /\ queued(completion[t], t) \in [done : Nat, wait : Seq(Tasks)]
        /\ queued(completion[t], t).done = completion[t].done
    BY <1>1, ListTypes DEF queued
  <2>2. CallerTypes'
    BY <1>2, <1>5, <2>1 DEF IInv, TypeOK, CallerTypes, Goto, TaskStates, SleepStates
  <2>3. \A u \in Tasks : completion'[u].done = completion[u].done
    BY <1>5, <2>1 DEF IInv, TypeOK, CallerTypes
  <2>4. pc'[t] = "sleep"
    BY <1>5 DEF IInv, TypeOK, CallerTypes, Goto
  <2>5. CallShape(t)'
    BY <1>1, <1>2, <1>5, <2>4 DEF CallShape
  <2>6. Exclusive'
    BY <1>1, <1>2, <1>5 DEF IInv, TypeOK, CallerTypes, Exclusive, Goto
  <2>7. QED
    BY <1>2, <1>3, <1>5, <2>2, <2>3, <2>5, <2>6, PcStep DEF TypeOK, Goto
<1>6. QED
  BY <1>4, <1>5 DEF Wait

\* The state of a call that has queued more of its works: they are accounted for
\* where they are queued, and multi_cpu_stop() waits for them as before.
LEMMA QueuedInv ==
  ASSUME IInv, NEW t \in Tasks, NEW C, C \subseteq left[t], TypeOK',
         pc' = [pc EXCEPT ![t] = "wake"], call[t].op # "none", pc[t] # "mutex",
         call[t].op = "nowait" => pc[t] = "queue",
         call[t].op # "all" => C = left[t],
         left' = [left EXCEPT ![t] = @ \ C],
         \A c \in C : works'[c] = list_add_tail(works[c], work_of(t)),
         \A c \in CPUs \ C : works'[c] = works[c] /\ stop_work'[c] = stop_work[c],
         \A c \in C : stop_work'[c] = IF call[t].op = "all" THEN t ELSE stop_work[c],
         UNCHANGED <<online, hotplug, cpu, enabled, mutex, call, nr_todo, completion, msdata,
                     spc, fetched, cur, curstate>>
  PROVE  IInv'
<1>1. /\ C \subseteq CPUs /\ left'[t] = left[t] \ C /\ pc'[t] = "wake"
      /\ \A u \in Tasks : u # t => left'[u] = left[u] /\ pc'[u] = pc[u]
      /\ call[t].op \in {"one", "nowait", "two", "all"} /\ call[t].cpus \subseteq CPUs
      /\ work_of(t) \in Works
  BY DEF IInv, TypeOK, CallerTypes, work_of, Works, Work
<1>2. CallShape(t) /\ (\A c \in C : c \in call[t].cpus)
  BY DEF IInv, CallShape
<1>3. \A u \in Tasks : CallShape(u)'
  <2>1. CallShape(t)'
    BY <1>1, <1>2 DEF CallShape
  <2>2. ASSUME NEW u \in Tasks, u # t PROVE CallShape(u)'
    <3>1. CallShape(u) /\ left'[u] = left[u] /\ pc'[u] = pc[u]
      BY <1>1, <2>2 DEF IInv
    <3>2. QED
      BY <3>1 DEF CallShape
  <2>3. QED
    BY <2>1, <2>2
<1>4. Exclusive'
  BY <1>1 DEF IInv, Exclusive
<1>5. ASSUME NEW c \in C
      PROVE  /\ work_of(t) \notin ToExecute(c)
             /\ NoDup(works'[c]) /\ fetched[c] \notin Linked(works'[c])
             /\ ToExecute(c)' = ToExecute(c) \cup {work_of(t)}
  <2>1. work_of(t) \notin ToExecute(c)
    <3>1. c \in CPUs /\ c \in left[t]
      BY <1>1
    <3>2. CASE call[t].op = "all"
      <4>1. mutex = t
        BY <3>2 DEF IInv, Exclusive
      <4>2. ~(StaticWork \in ToExecute(c))
        <5> SUFFICES ASSUME StaticWork \in ToExecute(c) PROVE FALSE
          OBVIOUS
        <5>1. stop_work[c] \in Tasks /\ Serves(stop_work[c], "all", c)
          BY <3>1 DEF IInv, QueuedWorks
        <5>2. stop_work[c] # t
          BY <5>1, <3>1 DEF Serves
        <5>3. CallShape(stop_work[c]) /\ pc[stop_work[c]] # "mutex"
          BY <5>1 DEF IInv, CallShape, Serves
        <5>4. QED
          BY <4>1, <5>1, <5>2, <5>3 DEF IInv, Exclusive, Serves
      <4>3. QED
        BY <3>2, <4>2 DEF work_of
    <3>3. CASE call[t].op \in {"one", "two"}
      BY <3>1, <3>3 DEF IInv, QueuedWorks, Serves, work_of
    <3>4. CASE call[t].op = "nowait"
      BY <3>1, <3>4 DEF IInv, QueuedWorks, work_of
    <3>5. QED
      BY <1>1, <3>2, <3>3, <3>4
  <2>2. works[c] \in Seq(Works) /\ NoDup(works[c])
    BY <1>1 DEF IInv, TypeOK, QueueTypes, QueuedWorks
  <2>3. /\ work_of(t) \notin Linked(works[c]) /\ work_of(t) # fetched[c]
        /\ fetched[c] \notin Linked(works[c])
    BY <1>1, <2>1 DEF IInv, QueuedWorks, ToExecute
  <2>4. NoDup(works'[c]) /\ Linked(works'[c]) = Linked(works[c]) \cup {work_of(t)}
    BY <1>1, <2>2, <2>3, ListAddTail
  <2>5. QED
    BY <2>1, <2>3, <2>4 DEF ToExecute
<1>6. ASSUME NEW c \in C
      PROVE  /\ call[t].op \in WaitingOps => ~Executing(t, c)
             /\ call[t].op = "all" => cur[c].op # "all"
  <2>1. c \in CPUs /\ c \in left[t]
    BY <1>1
  <2>2. call[t].op \in WaitingOps => ~Executing(t, c)
    BY <2>1, Owned DEF IInv, Serves
  <2>3. ASSUME call[t].op = "all", cur[c].op = "all" PROVE FALSE
    <3>1. cur[c] = Work("all", cur[c].task) /\ cur[c].task \in Tasks /\ Serves(cur[c].task, "all", c)
      BY <2>1, <2>3, CurIs DEF IInv, CurrentWork, WaitingOps
    <3>2. cur[c].task # t
      BY <2>1, <3>1 DEF Serves
    <3>3. pc[cur[c].task] # "mutex"
      BY <3>1 DEF IInv, CallShape, Serves
    <3>4. QED
      BY <2>3, <3>1, <3>2, <3>3 DEF IInv, Exclusive, Serves
  <2>4. QED
    BY <2>2, <2>3
<1>7. ASSUME NEW u \in Tasks, call[u].op # "none", NEW c \in CPUs
      PROVE  Enqueued(u, c)' <=> Enqueued(u, c) \/ (u = t /\ c \in C)
  <2>1. CASE c \notin C
    BY <2>1 DEF Enqueued, ToExecute
  <2>2. CASE c \in C
    <3>1. ToExecute(c)' = ToExecute(c) \cup {work_of(t)} /\ work_of(t) \notin ToExecute(c)
      BY <1>5, <2>2
    <3>2. Work(call[u].op, u) # StaticWork /\ (Work(call[u].op, u) = Work(call[t].op, t) <=> u = t)
      BY WorkEq, StopMachineAssumption DEF StaticWork
    <3>3. CASE call[t].op = "all"
      <4>1. work_of(t) = StaticWork /\ stop_work'[c] = t
        BY <2>2, <3>3 DEF work_of
      <4>2. QED
        BY <2>2, <3>1, <3>2, <4>1 DEF Enqueued
    <3>4. CASE call[t].op # "all"
      <4>1. work_of(t) = Work(call[t].op, t) /\ stop_work'[c] = stop_work[c]
        BY <2>2, <3>4 DEF work_of
      <4>2. Work(call[t].op, t) # StaticWork
        BY WorkEq, StopMachineAssumption DEF StaticWork
      <4>3. QED
        BY <2>2, <3>1, <3>2, <4>1, <4>2 DEF Enqueued
    <3>5. QED
      BY <3>3, <3>4
  <2>3. QED
    BY <2>1, <2>2
<1>8. QueuedWorks'
  <2>1. \A c \in CPUs : NoDup(works'[c]) /\ fetched'[c] \notin Linked(works'[c])
    BY <1>5 DEF IInv, QueuedWorks
  <2> DEFINE Grows(c) == ToExecute(c)' = IF c \in C THEN ToExecute(c) \cup {work_of(t)} ELSE ToExecute(c)
  <2>0. \A c \in CPUs : Grows(c)
    BY <1>5 DEF ToExecute
  <2>2. ASSUME NEW c \in CPUs, NEW u \in Tasks, NEW op \in {"one", "two"},
               Work(op, u) \in ToExecute(c)'
        PROVE  Serves(u, op, c)' /\ cur'[c] # Work(op, u)
    <3>1. CASE Work(op, u) \in ToExecute(c)
      <4>1. Serves(u, op, c) /\ cur[c] # Work(op, u)
        BY <3>1 DEF IInv, QueuedWorks
      <4>2. QED
        BY <1>1, <4>1 DEF Serves
    <3>2. CASE Work(op, u) \notin ToExecute(c)
      <4>1. c \in C /\ Work(op, u) = work_of(t)
        BY <2>0, <2>2, <3>2
      <4>2. op = call[t].op /\ u = t
        BY <4>1, WorkEq, StopMachineAssumption DEF work_of, StaticWork
      <4>3. QED
        BY <1>1, <1>2, <1>6, <4>1, <4>2 DEF Serves, Executing, WaitingOps
    <3>3. QED
      BY <3>1, <3>2
  <2>3. ASSUME NEW c \in CPUs, NEW u \in Tasks, Work("nowait", u) \in ToExecute(c)'
        PROVE  ~(call'[u].op = "nowait" /\ pc'[u] = "queue")
    <3>1. CASE u = t
      BY <1>1, <3>1
    <3>2. CASE u # t
      <4>1. Work("nowait", u) # work_of(t)
        BY <3>2, WorkEq DEF work_of, StaticWork
      <4>2. Work("nowait", u) \in ToExecute(c)
        BY <2>0, <2>3, <4>1
      <4>3. QED
        BY <1>1, <3>2, <4>2 DEF IInv, QueuedWorks
    <3>3. QED
      BY <3>1, <3>2
  <2>4. ASSUME NEW c \in CPUs, StaticWork \in ToExecute(c)'
        PROVE  stop_work'[c] \in Tasks /\ Serves(stop_work[c], "all", c)' /\ cur'[c].op # "all"
    <3>1. CASE c \in C /\ call[t].op = "all"
      BY <1>1, <1>2, <1>6, <3>1 DEF Serves
    <3>2. CASE ~(c \in C /\ call[t].op = "all")
      <4>1. StaticWork \in ToExecute(c) /\ stop_work'[c] = stop_work[c]
        BY <2>0, <2>4, <3>2, WorkEq, StopMachineAssumption DEF work_of, StaticWork
      <4>2. stop_work[c] \in Tasks /\ Serves(stop_work[c], "all", c) /\ cur[c].op # "all"
        BY <4>1 DEF IInv, QueuedWorks
      <4>3. QED
        BY <1>1, <4>1, <4>2 DEF Serves
    <3>3. QED
      BY <3>1, <3>2
  <2>5. QED
    BY <2>1, <2>2, <2>3, <2>4 DEF QueuedWorks
<1>9. CurrentWork'
  <2>1. \A c \in CPUs : cur[c].op \in WaitingOps => Serves(cur[c].task, cur[c].op, c)'
    BY <1>1, CurIs DEF IInv, CurrentWork, Serves, WaitingOps
  <2>2. QED
    BY <2>1 DEF IInv, CurrentWork
<1>10. Todo'
  <2>1. ASSUME NEW u \in Tasks, call[u].op \in WaitingOps
        PROVE  nr_todo'[u] = Cardinality(Pending(u)') + Cardinality(left'[u])
    <3>1. nr_todo[u] = Cardinality(Pending(u)) + Cardinality(left[u])
      BY <2>1 DEF IInv, Todo
    <3>2. CASE u # t
      <4>1. Pending(u)' = Pending(u)
        BY <1>7, <2>1, <3>2 DEF Pending, Executing, WaitingOps
      <4>2. QED
        BY <1>1, <3>1, <3>2, <4>1
    <3>3. CASE u = t
      <4>1. Pending(t)' = Pending(t) \cup C
        BY <1>1, <1>7, <2>1, <3>3 DEF Pending, Executing, WaitingOps
      <4>2. Pending(t) \cap C = {} /\ left[t] \cap C = C
        BY <1>1, <2>1, <3>3, Owned DEF IInv, Pending, Serves
      <4>3. /\ IsFiniteSet(Pending(t)) /\ IsFiniteSet(C) /\ IsFiniteSet(left[t])
            /\ Cardinality(Pending(t)) \in Nat /\ Cardinality(C) \in Nat
            /\ Cardinality(left[t]) \in Nat
        BY <1>1, CpusFinite DEF Pending, IInv, TypeOK, CallerTypes
      <4>4. Cardinality(Pending(t) \cup C) = Cardinality(Pending(t)) + Cardinality(C)
        <5>1. /\ Cardinality(Pending(t) \cup C) =
                   Cardinality(Pending(t)) + Cardinality(C) - Cardinality(Pending(t) \cap C)
              /\ Cardinality(Pending(t) \cap C) = 0
          BY <4>2, <4>3, FS_Union, FS_EmptySet
        <5>2. QED
          BY <4>3, <5>1
      <4>5. Cardinality(left[t] \ C) = Cardinality(left[t]) - Cardinality(C)
        BY <4>2, <4>3, FS_Difference
      <4>6. /\ nr_todo[t] = Cardinality(Pending(t)) + Cardinality(left[t])
            /\ Cardinality(Pending(t)') = Cardinality(Pending(t)) + Cardinality(C)
            /\ Cardinality(left'[t]) = Cardinality(left[t]) - Cardinality(C)
        BY <1>1, <3>1, <3>3, <4>1, <4>4, <4>5
      <4>7. nr_todo[t] = Cardinality(Pending(t)') + Cardinality(left'[t])
        BY <4>3, <4>6
      <4>8. QED
        BY <3>3, <4>7
    <3>4. QED
      BY <3>2, <3>3
  <2>2. QED
    BY <2>1 DEF IInv, Todo
<1>11. LocalState'
  BY DEF IInv, LocalState
<1>12. MultiInv'
  <2> SUFFICES ASSUME NEW u \in Tasks, call[u].op \in MultiOps PROVE Together(u)' /\ Acks(u)'
    BY DEF MultiInv
  <2>1. Together(u) /\ Acks(u) /\ call[u].cpus \subseteq CPUs
    BY DEF IInv, MultiInv, TypeOK, CallerTypes
  <2>2. \A c \in CPUs : ToCome(u, c)' <=> ToCome(u, c)
    BY <1>1, <1>7 DEF ToCome, MultiOps
  <2>3. \A c \in CPUs : InMulti(u, c)' <=> InMulti(u, c)
    BY DEF InMulti, Executing
  <2>4. QED
    BY <2>1, <2>2, <2>3, SameMulti
<1>13. QED
  BY <1>3, <1>4, <1>8, <1>9, <1>10, <1>11, <1>12 DEF IInv

\* Nothing is queued or executed for a call that has not queued a work yet.
LEMMA NothingQueued ==
  ASSUME IInv, NEW t \in Tasks, left[t] = call[t].cpus, call[t].op \in WaitingOps, NEW c \in CPUs
  PROVE  ~Enqueued(t, c) /\ ~Executing(t, c)
BY Owned DEF IInv, Serves

\* A work is queued, or the call fails because the CPU is not up.
LEMMA QueueWorkInv ==
  ASSUME IInv, NEW t \in Tasks, QueueWork(t)
  PROVE  IInv'
<1> DEFINE c == Min(left[t])
<1>1. /\ pc[t] = "queue" /\ left[t] # {} /\ CallShape(t)
      /\ call[t].op \in {"one", "nowait", "two", "all"} /\ left[t] \subseteq CPUs
      /\ call[t].cpus \subseteq CPUs
  BY DEF QueueWork, IInv, TypeOK, CallerTypes, CallShape
<1>2. c \in left[t] /\ c \in CPUs
  BY <1>1, MinOf
<1> HIDE DEF c
<1>3. call[t].op # "two" /\ (call[t].op # "all" => left[t] = {c} /\ left[t] = call[t].cpus)
  BY <1>1, <1>2 DEF CallShape
<1>4. /\ left' = [left EXCEPT ![t] = @ \ {c}]
      /\ UNCHANGED <<online, hotplug, cpu, enabled, lock, in_progress, state, spc,
                     fetched, cur, curstate, sstate>>
  BY DEF QueueWork, c, stoppers
<1>5. CASE /\ works' = [works EXCEPT ![c] = list_add_tail(@, work_of(t))]
           /\ stop_work' = IF call[t].op = "all" THEN [stop_work EXCEPT ![c] = t] ELSE stop_work
           /\ wake_q' = [wake_q EXCEPT ![t] = wake_q_add(t, {c})]
           /\ Goto(t, "wake")
           /\ UNCHANGED <<call, nr_todo, completion, msdata, mutex>>
  <2>1. TypeOK'
    <3>1. SharedTypes'
      BY <1>4, <1>5 DEF IInv, TypeOK, SharedTypes
    <3>2. QueueTypes'
      <4>1. work_of(t) \in Works
        BY <1>1, <1>3 DEF work_of, Works, Work
      <4>2. works[c] \in Seq(Works)
        BY <1>2 DEF IInv, TypeOK, QueueTypes
      <4>3. list_add_tail(works[c], work_of(t)) \in Seq(Works)
        BY <4>1, <4>2, ListTypes
      <4>4. QED
        BY <1>5, <4>3 DEF IInv, TypeOK, QueueTypes
    <3>3. CallerTypes'
      BY <1>2, <1>4, <1>5 DEF IInv, TypeOK, CallerTypes, Goto, PreemptOff, wake_q_add
    <3>4. StopperTypes'
      BY <1>4, <1>5 DEF IInv, TypeOK, StopperTypes
    <3>5. QED
      BY <3>1, <3>2, <3>3, <3>4 DEF TypeOK
  <2>2. /\ works'[c] = list_add_tail(works[c], work_of(t))
        /\ stop_work'[c] = IF call[t].op = "all" THEN t ELSE stop_work[c]
        /\ \A d \in CPUs \ {c} : works'[d] = works[d] /\ stop_work'[d] = stop_work[d]
    BY <1>2, <1>4, <1>5 DEF IInv, TypeOK, QueueTypes, SharedTypes
  <2> DEFINE C == {c}
  <2>3. /\ C \subseteq left[t] /\ (call[t].op # "all" => C = left[t])
        /\ left' = [left EXCEPT ![t] = @ \ C]
        /\ \A d \in C : works'[d] = list_add_tail(works[d], work_of(t))
        /\ \A d \in C : stop_work'[d] = IF call[t].op = "all" THEN t ELSE stop_work[d]
        /\ \A d \in CPUs \ C : works'[d] = works[d] /\ stop_work'[d] = stop_work[d]
    BY <1>2, <1>3, <1>4, <2>2
  <2>4. /\ pc' = [pc EXCEPT ![t] = "wake"] /\ pc[t] # "mutex" /\ call[t].op # "none"
        /\ call[t].op = "nowait" => pc[t] = "queue"
        /\ UNCHANGED <<online, hotplug, cpu, enabled, mutex, call, nr_todo, completion, msdata,
                       spc, fetched, cur, curstate>>
    BY <1>1, <1>4, <1>5 DEF Goto
  <2> HIDE DEF C
  <2>5. QED
    BY <2>1, <2>3, <2>4, QueuedInv
<1>6. CASE call[t].op # "all" /\ Return(t) /\ UNCHANGED <<works, wake_q>>
  <2>1. call[t].op # "all"
    BY <1>6
  <2>2. TypeOK'
    <3>1. SharedTypes' /\ QueueTypes'
      BY <1>4, <1>6, <2>1 DEF IInv, TypeOK, SharedTypes, QueueTypes, Return
    <3>2. CallerTypes'
      BY <1>4, <1>6 DEF IInv, TypeOK, CallerTypes, Return, Goto, NoCall, init_completion, NONE,
         EXIT
    <3>3. StopperTypes'
      BY <1>4, <1>6 DEF IInv, TypeOK, StopperTypes
    <3>4. QED
      BY <3>1, <3>2, <3>3 DEF TypeOK
  <2>3. left'[t] = {} /\ \A u \in Tasks : u # t => left'[u] = left[u]
    BY <1>3, <1>4, <2>1 DEF IInv, TypeOK, CallerTypes
  <2>4. call[t].op \in WaitingOps => \A d \in CPUs : ~Enqueued(t, d) /\ ~Executing(t, d)
    BY <1>3, <2>1, NothingQueued
  <2>5. QED
    BY <1>1, <1>4, <1>6, <2>1, <2>2, <2>3, <2>4, ReturnInv
<1>7. QED
  BY <1>5, <1>6 DEF QueueWork, c

\* Both works are queued, or none.
LEMMA TwoQueueInv ==
  ASSUME IInv, NEW t \in Tasks, TwoQueue(t)
  PROVE  IInv'
<1>1. /\ pc[t] = "two_queue" /\ CallShape(t) /\ call[t].op = "two" /\ left[t] = call[t].cpus
      /\ call[t].cpus \subseteq CPUs
  BY DEF TwoQueue, IInv, TypeOK, CallerTypes, CallShape
<1>2. /\ lock' = [lock EXCEPT ![lock_order(t)] = None]
      /\ UNCHANGED <<online, hotplug, cpu, enabled, in_progress, state, spc,
                     fetched, cur, curstate, sstate>>
  BY DEF TwoQueue, stoppers
<1>3. lock' \in [CPUs -> Tasks \cup {None}] /\ StopperTypes'
  BY <1>2 DEF IInv, TypeOK, SharedTypes, StopperTypes
<1>4. CASE Return(t) /\ left' = [left EXCEPT ![t] = {}] /\ UNCHANGED <<works, wake_q>>
  <2>1. SharedTypes' /\ QueueTypes'
    BY <1>1, <1>2, <1>3, <1>4 DEF IInv, TypeOK, SharedTypes, QueueTypes, Return
  <2>2. CallerTypes'
    BY <1>2, <1>4 DEF IInv, TypeOK, CallerTypes, Return, Goto, NoCall, init_completion, NONE,
       EXIT
  <2>3. left'[t] = {} /\ \A u \in Tasks : u # t => left'[u] = left[u]
    BY <1>4 DEF IInv, TypeOK, CallerTypes
  <2>4. \A d \in CPUs : ~Enqueued(t, d) /\ ~Executing(t, d)
    BY <1>1, NothingQueued DEF WaitingOps
  <2>5. QED
    BY <1>1, <1>2, <1>3, <1>4, <2>1, <2>2, <2>3, <2>4, ReturnInv DEF TypeOK
<1>5. CASE /\ Goto(t, "two_spin")
           /\ UNCHANGED <<works, wake_q, call, left, nr_todo, completion, msdata, mutex, stop_work>>
  <2>1. SharedTypes' /\ QueueTypes'
    BY <1>2, <1>3, <1>5 DEF IInv, TypeOK, SharedTypes, QueueTypes
  <2>2. CallerTypes'
    BY <1>2, <1>5 DEF IInv, TypeOK, CallerTypes, Goto
  <2>3. CallShape(t)'
    BY <1>1, <1>2, <1>5 DEF CallShape, Goto, IInv, TypeOK, CallerTypes
  <2>4. Exclusive'
    BY <1>1, <1>2, <1>5 DEF IInv, TypeOK, CallerTypes, Exclusive, Goto
  <2>5. QED
    BY <1>2, <1>3, <1>5, <2>1, <2>2, <2>3, <2>4, PcStep DEF TypeOK, Goto
<1>6. CASE /\ works' = [c \in CPUs |-> IF c \in call[t].cpus THEN list_add_tail(works[c], work_of(t))
                                                            ELSE works[c]]
           /\ wake_q' = [wake_q EXCEPT ![t] = wake_q_add(t, call[t].cpus)]
           /\ left' = [left EXCEPT ![t] = {}]
           /\ Goto(t, "wake")
           /\ UNCHANGED <<call, nr_todo, completion, msdata, mutex, stop_work>>
  <2>1. SharedTypes'
    BY <1>2, <1>3, <1>6 DEF IInv, TypeOK, SharedTypes
  <2>2. QueueTypes'
    <3>1. work_of(t) \in Works
      BY <1>1 DEF work_of, Works, Work
    <3>2. \A c \in CPUs : works[c] \in Seq(Works) /\ list_add_tail(works[c], work_of(t)) \in Seq(Works)
      BY <3>1, ListTypes DEF IInv, TypeOK, QueueTypes
    <3>3. QED
      BY <1>6, <3>2 DEF QueueTypes
  <2>3. CallerTypes'
    BY <1>1, <1>2, <1>6 DEF IInv, TypeOK, CallerTypes, Goto, PreemptOff, wake_q_add
  <2>4. left' = [left EXCEPT ![t] = @ \ call[t].cpus]
    BY <1>1, <1>6
  <2>5. QED
    BY <1>1, <1>2, <1>3, <1>6, <2>1, <2>2, <2>3, <2>4, QueuedInv DEF TypeOK, Goto
<1>7. QED
  BY <1>4, <1>5, <1>6 DEF TwoQueue

\* A new call: nothing of an earlier one is left.
LEMMA CallInv ==
  ASSUME IInv, NEW t \in Tasks, Call(t)
  PROVE  IInv'
<1>1. PICK op \in {"one", "nowait", "two", "all"}, cs \in SUBSET CPUs :
        \E active \in SUBSET cs : StopCpus(t, op, cs, active)
  BY DEF Call
<1>2. PICK active \in SUBSET cs : StopCpus(t, op, cs, active)
  BY <1>1
<1> DEFINE l == CASE op = "two" -> "two_lock" [] op = "all" -> "mutex" [] OTHER -> "queue"
<1>3. /\ pc[t] = "out"
      /\ op = "all" => cs = online /\ hotplug = None
      /\ op = "nowait" => \A c \in CPUs : Work("nowait", t) \notin ToExecute(c)
      /\ call' = [call EXCEPT ![t] = [op |-> op, cpus |-> cs, active |-> active]]
      /\ left' = [left EXCEPT ![t] = cs]
      /\ nr_todo' = [nr_todo EXCEPT ![t] = IF op = "nowait" THEN 0 ELSE Cardinality(cs)]
      /\ completion' = [completion EXCEPT ![t] = init_completion]
      /\ msdata' = [msdata EXCEPT ![t] = IF op \in {"two", "all"}
                                         THEN [state |-> PREPARE, ack |-> Cardinality(cs)]
                                         ELSE [state |-> NONE, ack |-> 0]]
      /\ pc' = [pc EXCEPT ![t] = l]
      /\ UNCHANGED <<online, hotplug, cpu, enabled, works, lock, stop_work, in_progress, mutex,
                     wake_q, state, spc, fetched, cur, curstate, sstate>>
  BY <1>2 DEF StopCpus, works_todo, num_threads, Goto, stoppers
<1>4. /\ IsFiniteSet(cs) /\ Cardinality(cs) \in Nat /\ cs # {}
      /\ op \in {"one", "nowait"} => \E c \in CPUs : cs = {c}
  <2>1. IsFiniteSet(cs) /\ Cardinality(cs) \in Nat
    BY CpusFinite
  <2>2. op \in {"one", "nowait"} => \E c \in CPUs : cs = {c}
    <3>1. op \in {"one", "nowait"} => Cardinality(cs) = 1
      BY <1>2 DEF StopCpus
    <3>2. QED
      BY <2>1, <3>1, FS_Singleton
  <2>3. op = "two" => cs # {}
    <3>1. op = "two" => Cardinality(cs) = 2
      BY <1>2 DEF StopCpus
    <3>2. QED
      BY <3>1, FS_EmptySet
  <2>4. op = "all" => cs # {}
    BY <1>3, StopMachineAssumption DEF IInv, Exclusive
  <2>5. QED
    BY <2>1, <2>2, <2>3, <2>4
<1>5. /\ l \in {"two_lock", "mutex", "queue"}
      /\ op = "two" => l = "two_lock"
      /\ op = "all" => l = "mutex"
      /\ op \in {"one", "nowait"} => l = "queue"
  OBVIOUS
<1> HIDE DEF l
<1>6. TypeOK'
  <2>1. SharedTypes' /\ QueueTypes' /\ StopperTypes'
    BY <1>3 DEF IInv, TypeOK, SharedTypes, QueueTypes, StopperTypes
  <2>2. CallerTypes'
    BY <1>3, <1>4, <1>5
    DEF IInv, TypeOK, CallerTypes, PreemptOff, init_completion, NONE, PREPARE, EXIT
  <2>3. QED
    BY <2>1, <2>2 DEF TypeOK
<1>7. /\ call[t].op = "none" /\ call[t].op \notin WaitingOps
      /\ pc'[t] = l /\ call'[t].op = op /\ call'[t].cpus = cs /\ left'[t] = cs
      /\ completion'[t].done = 0
      /\ op # "nowait" => nr_todo'[t] = Cardinality(cs)
      /\ op \in MultiOps => msdata'[t].state = PREPARE /\ msdata'[t].ack = Cardinality(cs)
      /\ \A u \in Tasks : u # t =>
           /\ call'[u] = call[u] /\ pc'[u] = pc[u] /\ left'[u] = left[u]
           /\ nr_todo'[u] = nr_todo[u] /\ completion'[u] = completion[u] /\ msdata'[u] = msdata[u]
  BY <1>3 DEF IInv, TypeOK, CallerTypes, CallShape, WaitingOps, MultiOps, init_completion
<1>8. \A u \in Tasks : CallShape(u)'
  <2>1. CallShape(t)'
    BY <1>4, <1>5, <1>7 DEF CallShape
  <2>2. ASSUME NEW u \in Tasks, u # t PROVE CallShape(u)'
    <3>1. CallShape(u) /\ call'[u] = call[u] /\ pc'[u] = pc[u] /\ left'[u] = left[u]
      BY <1>7, <2>2 DEF IInv
    <3>2. QED
      BY <3>1 DEF CallShape
  <2>3. QED
    BY <2>1, <2>2
<1>9. Exclusive'
  BY <1>3, <1>5, <1>7 DEF IInv, Exclusive
<1>10. ASSUME NEW c \in CPUs
       PROVE  /\ \A o \in {"one", "two"} : Work(o, t) \notin ToExecute(c)
              /\ ~(StaticWork \in ToExecute(c) /\ stop_work[c] = t)
              /\ cur[c].op \in WaitingOps => cur[c].task \in Tasks \ {t}
              /\ op \in WaitingOps => ~Enqueued(t, c)' /\ ~Executing(t, c)'
  <2>1. /\ \A o \in {"one", "two"} : Work(o, t) \notin ToExecute(c)
        /\ ~(StaticWork \in ToExecute(c) /\ stop_work[c] = t)
        /\ cur[c].op \in WaitingOps => cur[c].task # t
    BY <1>7, NotOwned DEF IInv
  <2>2. Work("all", t) \notin ToExecute(c)
    <3>1. Work("all", t) \notin Works
      BY StopMachineAssumption DEF Works, Work, StaticWork
    <3>2. QED
      BY <3>1, InWorks DEF IInv
  <2>3. op \in WaitingOps => ~Enqueued(t, c)' /\ ~Executing(t, c)'
    BY <1>3, <1>7, <2>1, <2>2, WorkEq DEF Enqueued, Executing, WaitingOps, ToExecute
  <2>4. cur[c].op \in WaitingOps => cur[c].task \in Tasks
    BY CurIs DEF IInv, WaitingOps
  <2>5. QED
    BY <2>1, <2>3, <2>4
<1>11. QueuedWorks'
  BY <1>3, <1>7, <1>10 DEF IInv, QueuedWorks, Serves, ToExecute
<1>12. CurrentWork'
  BY <1>3, <1>7, <1>10 DEF IInv, CurrentWork, Serves
<1>13. \A u \in Tasks : u # t =>
         /\ Pending(u)' = Pending(u)
         /\ \A c \in CPUs : (ToCome(u, c)' <=> ToCome(u, c)) /\ (InMulti(u, c)' <=> InMulti(u, c))
  BY <1>3, <1>7 DEF Pending, ToCome, InMulti, Enqueued, Executing, ToExecute
<1>14. Todo'
  <2>1. \A u \in Tasks : u # t /\ call[u].op \in WaitingOps =>
          /\ nr_todo'[u] = Cardinality(Pending(u)') + Cardinality(left'[u])
          /\ completion'[u].done # 0 => nr_todo'[u] = 0
    BY <1>7, <1>13 DEF IInv, Todo
  <2>2. op \in WaitingOps => nr_todo'[t] = Cardinality(Pending(t)') + Cardinality(left'[t])
    <3>1. op \in WaitingOps => Pending(t)' = {}
      BY <1>10 DEF Pending
    <3>2. op \in WaitingOps => Cardinality(Pending(t)') = 0
      BY <3>1, FS_EmptySet
    <3>3. op \in WaitingOps => nr_todo'[t] = Cardinality(cs) /\ left'[t] = cs
      BY <1>7 DEF WaitingOps
    <3>4. QED
      BY <1>4, <3>2, <3>3
  <2>3. \A c \in CPUs : spc[c] = "complete" =>
          /\ cur[c].op \in WaitingOps
          /\ nr_todo'[cur[c].task] = 0
          /\ \A d \in CPUs : spc[d] = "complete" /\ cur[d].task = cur[c].task => d = c
    BY <1>7, <1>10 DEF IInv, Todo
  <2>4. QED
    BY <1>3, <1>7, <2>1, <2>2, <2>3 DEF Todo
<1>15. LocalState'
  BY <1>3 DEF IInv, LocalState
<1>16. MultiInv'
  <2>1. ASSUME NEW u \in Tasks, u # t, call'[u].op \in MultiOps PROVE Together(u)' /\ Acks(u)'
    <3>1. Together(u) /\ Acks(u) /\ call[u].cpus \subseteq CPUs
      BY <1>7, <2>1 DEF IInv, MultiInv, TypeOK, CallerTypes
    <3>2. QED
      BY <1>3, <1>7, <1>13, <2>1, <3>1, SameMulti
  <2>2. ASSUME op \in MultiOps PROVE Together(t)' /\ Acks(t)'
    <3>1. /\ msdata'[t].state = PREPARE /\ msdata'[t].ack = Cardinality(cs)
          /\ \A c \in CPUs : (ToCome(t, c)' <=> c \in cs) /\ ~InMulti(t, c)'
      BY <1>7, <1>10, <2>2 DEF ToCome, InMulti, WaitingOps, MultiOps
    <3>2. ToAck(t)' = cs /\ Setting(t)' = {}
      BY <3>1 DEF ToAck, Setting
    <3>3. Together(t)'
      BY <1>7, <3>1 DEF Together, NONE, PREPARE, DISABLE_IRQ, RUN
    <3>4. Acks(t)'
      BY <1>4, <3>1, <3>2 DEF Acks
    <3>5. QED
      BY <3>3, <3>4
  <2>3. QED
    BY <1>7, <2>1, <2>2 DEF MultiInv
<1>17. QED
  BY <1>6, <1>8, <1>9, <1>11, <1>12, <1>14, <1>15, <1>16 DEF IInv

-----------------------------------------------------------------------------
(* Stopper threads                                                          *)

\* A stopper moves on with the work it has, or without one; what it does to
\* multi_cpu_stop() is shown apart.
LEMMA SpcStep ==
  ASSUME IInv, NEW c \in CPUs, NEW l, TypeOK', MultiInv', spc' = [spc EXCEPT ![c] = l],
         UNCHANGED <<online, hotplug, cpu, enabled, mutex, pc, call, left, nr_todo, completion,
                     works, stop_work, fetched, cur>>,
         \A d \in CPUs : d # c => curstate'[d] = curstate[d],
         spc[c] # "complete", l # "complete", spc[c] # "read", l # "read", l \in Idle <=> spc[c] \in Idle,
         l = "fn" => cur[c].op \in {"one", "nowait"},
         l \in MultiPC => cur[c].op \in MultiOps,
         l \notin MultiPC \cup {"ret"} => curstate'[c] = NONE,
         l = "run" => curstate'[c] = RUN,
         l = "multi" => curstate'[c] # EXIT
  PROVE  IInv'
<1>1. spc'[c] = l /\ \A d \in CPUs : d # c => spc'[d] = spc[d]
  BY DEF IInv, TypeOK, StopperTypes
<1>2. \A u \in Tasks : CallShape(u)'
  BY DEF IInv, CallShape
<1>3. Exclusive' /\ QueuedWorks'
  BY DEF IInv, Exclusive, QueuedWorks, Serves, ToExecute
<1>4. CurrentWork'
  <2> SUFFICES ASSUME NEW d \in CPUs
               PROVE  /\ spc'[d] \in Idle <=> cur[d] = NoWork
                      /\ spc'[d] = "read" <=> fetched[d] # NoWork
                      /\ spc'[d] = "fn" => cur[d].op \in {"one", "nowait"}
                      /\ spc'[d] \in MultiPC => cur[d].op \in MultiOps
                      /\ cur[d].op \in WaitingOps =>
                           Serves(cur[d].task, cur[d].op, d) /\ completion[cur[d].task].done = 0
    BY DEF CurrentWork, Serves
  <2>1. CASE d = c
    BY <1>1, <2>1 DEF IInv, CurrentWork
  <2>2. CASE d # c
    BY <1>1, <2>2 DEF IInv, CurrentWork
  <2>3. QED
    BY <2>1, <2>2
<1>5. Todo'
  <2>1. \A d \in CPUs : spc'[d] = "complete" <=> spc[d] = "complete"
    BY <1>1
  <2>2. \A u \in Tasks : Pending(u)' = Pending(u)
    BY <2>1 DEF Pending, Enqueued, Executing, ToExecute
  <2>3. QED
    BY <2>1, <2>2 DEF IInv, Todo
<1>6. LocalState'
  BY <1>1 DEF IInv, LocalState
<1>7. QED
  BY <1>2, <1>3, <1>4, <1>5, <1>6 DEF IInv

\* A stopper that is not in multi_cpu_stop() changes nothing for those who are.
LEMMA OutsideMulti ==
  ASSUME IInv, NEW c \in CPUs, NEW l, spc[c] \notin MultiPC, l \notin MultiPC,
         spc' = [spc EXCEPT ![c] = l],
         UNCHANGED <<call, left, msdata, works, stop_work, fetched, cur, curstate>>
  PROVE  MultiInv'
<1> SUFFICES ASSUME NEW u \in Tasks, call[u].op \in MultiOps PROVE Together(u)' /\ Acks(u)'
  BY DEF MultiInv
<1>1. Together(u) /\ Acks(u) /\ call[u].cpus \subseteq CPUs
  BY DEF IInv, MultiInv, TypeOK, CallerTypes
<1>2. spc'[c] = l /\ \A d \in CPUs : d # c => spc'[d] = spc[d]
  BY DEF IInv, TypeOK, StopperTypes
<1>3. \A d \in CPUs : ToCome(u, d)' <=> ToCome(u, d)
  BY DEF ToCome, Enqueued, ToExecute
<1>4. \A d \in CPUs : /\ InMulti(u, d)' <=> InMulti(u, d)
                      /\ InMulti(u, d) => spc'[d] = spc[d]
  BY <1>2 DEF InMulti, Executing
<1>5. QED
  BY <1>1, <1>3, <1>4, SameMulti

\* The stopper starts, sets its state, looks at its queue and goes to sleep.
LEMMA IdleInv ==
  ASSUME IInv, NEW c \in CPUs,
         Start(c) \/ Loop(c) \/ Check(c) \/ (GetWork(c) /\ list_empty(works[c]))
  PROVE  IInv'
<1>1. PICK l \in Idle \ {"read"} : spc' = [spc EXCEPT ![c] = l]
  BY DEF Start, Loop, Check, GetWork, StopperGoto, Idle
<1>2. /\ spc[c] \in Idle \ {"read"}
      /\ UNCHANGED <<online, hotplug, cpu, enabled, works, lock, stop_work, in_progress, mutex,
                     pc, call, left, nr_todo, completion, msdata, wake_q, state, fetched, cur, curstate>>
  BY DEF Start, Loop, Check, GetWork, Idle, callers
<1>3. TypeOK'
  <2>1. SharedTypes' /\ QueueTypes'
    BY <1>2 DEF IInv, TypeOK, SharedTypes, QueueTypes
  <2>2. CallerTypes'
    BY <1>2 DEF IInv, TypeOK, CallerTypes
  <2>3. sstate' \in [CPUs -> {TASK_RUNNING, TASK_INTERRUPTIBLE, TASK_PARKED}]
    BY DEF Start, Loop, Check, GetWork, IInv, TypeOK, StopperTypes
  <2>4. StopperTypes'
    BY <1>1, <1>2, <2>3 DEF IInv, TypeOK, StopperTypes
  <2>5. QED
    BY <2>1, <2>2, <2>4 DEF TypeOK
<1>4. spc[c] \notin MultiPC /\ l \notin MultiPC /\ spc[c] # "complete" /\ l # "complete"
      /\ l \notin {"fn", "ret", "run", "multi"} /\ spc[c] # "ret"
  BY <1>1, <1>2 DEF Idle, MultiPC
<1>5. MultiInv'
  BY <1>1, <1>2, <1>4, OutsideMulti
<1>6. curstate'[c] = NONE
  BY <1>2, <1>4 DEF IInv, LocalState
<1>7. QED
  BY <1>1, <1>2, <1>3, <1>4, <1>5, <1>6, SpcStep

\* The function of stop_one_cpu() returns.
LEMMA RunFnInv ==
  ASSUME IInv, NEW c \in CPUs, RunFn(c)
  PROVE  IInv'
<1>1. /\ spc[c] = "fn" /\ spc' = [spc EXCEPT ![c] = "ret"]
      /\ UNCHANGED <<online, hotplug, cpu, enabled, works, lock, stop_work, in_progress, mutex,
                     pc, call, left, nr_todo, completion, msdata, wake_q, state, fetched, cur,
                     curstate, sstate>>
  BY DEF RunFn, StopperGoto, callers
<1>2. TypeOK'
  <2>1. SharedTypes' /\ QueueTypes'
    BY <1>1 DEF IInv, TypeOK, SharedTypes, QueueTypes
  <2>2. CallerTypes'
    BY <1>1 DEF IInv, TypeOK, CallerTypes
  <2>3. StopperTypes'
    BY <1>1 DEF IInv, TypeOK, StopperTypes
  <2>4. QED
    BY <2>1, <2>2, <2>3 DEF TypeOK
<1>3. MultiInv'
  BY <1>1, OutsideMulti DEF MultiPC
<1>4. QED
  BY <1>1, <1>2, <1>3, SpcStep DEF Idle, MultiPC

\* The call a stopper in multi_cpu_stop() works for.
LEMMA MultiOf ==
  ASSUME IInv, NEW c \in CPUs, spc[c] \in MultiPC
  PROVE  \E t \in Tasks :
           /\ t = cur[c].task /\ call[t].op \in MultiOps /\ InMulti(t, c) /\ ~ToCome(t, c)
           /\ c \in call[t].cpus /\ call[t].cpus \subseteq CPUs
           /\ Together(t) /\ Acks(t)
           /\ msdata[t].state \in PREPARE .. EXIT /\ msdata[t].ack \in Nat
           /\ \A u \in Tasks : u # t => ~Executing(u, c)
<1> DEFINE t == cur[c].task
<1>1. cur[c].op \in MultiOps /\ cur[c].op \in WaitingOps /\ cur[c].op # "none"
  BY DEF IInv, CurrentWork, MultiOps, WaitingOps
<1>2. cur[c] = Work(cur[c].op, t) /\ t \in Tasks
  BY <1>1, CurIs DEF IInv
<1>3. call[t].op = cur[c].op /\ c \in call[t].cpus
  BY <1>1, <1>2 DEF IInv, CurrentWork, Serves
<1>4. Together(t) /\ Acks(t) /\ InMulti(t, c) /\ call[t].cpus \subseteq CPUs
  BY <1>1, <1>2, <1>3 DEF IInv, MultiInv, InMulti, Executing, TypeOK, CallerTypes
<1>5. /\ msdata[t].state \in NONE .. EXIT + 1 /\ msdata[t].ack \in Nat
      /\ msdata[t].state <= EXIT /\ msdata[t].state # NONE
  BY <1>2, <1>4 DEF IInv, TypeOK, CallerTypes, Together
<1>6. msdata[t].state \in PREPARE .. EXIT
  BY <1>5 DEF NONE, PREPARE, EXIT
<1>7. \A u \in Tasks : u # t => ~Executing(u, c)
  BY <1>2, WorkEq DEF Executing
<1>8. ~ToCome(t, c)
  BY <1>1, <1>2, <1>3, <1>4, Owned DEF IInv, ToCome, InMulti, Serves
<1>9. QED
  BY <1>1, <1>2, <1>3, <1>4, <1>5, <1>6, <1>7, <1>8

\* A step inside multi_cpu_stop() is about the call it works for alone.
LEMMA InsideMulti ==
  ASSUME IInv, NEW c \in CPUs, NEW t \in Tasks, t = cur[c].task, spc[c] \in MultiPC,
         \A d \in CPUs : d # c => spc'[d] = spc[d] /\ curstate'[d] = curstate[d],
         \A u \in Tasks : u # t => msdata'[u] = msdata[u],
         UNCHANGED <<call, left, works, stop_work, fetched, cur>>
  PROVE  /\ Together(t)' /\ Acks(t)' => MultiInv'
         /\ \A d \in CPUs : ToCome(t, d)' <=> ToCome(t, d)
         /\ \A d \in CPUs : d # c => (InMulti(t, d)' <=> InMulti(t, d))
         /\ InMulti(t, c)' <=> spc'[c] \in MultiPC
<1>1. /\ call[t].op \in MultiOps /\ Executing(t, c)
      /\ \A u \in Tasks : u # t => ~Executing(u, c)
  BY MultiOf DEF InMulti
<1>2. \A d \in CPUs : d # c => spc'[d] = spc[d]
  OBVIOUS
<1>3. \A u \in Tasks, d \in CPUs : ToCome(u, d)' <=> ToCome(u, d)
  BY DEF ToCome, Enqueued, ToExecute
<1>4. \A u \in Tasks, d \in CPUs : d # c => (InMulti(u, d)' <=> InMulti(u, d))
  BY <1>2 DEF InMulti, Executing
<1>5. InMulti(t, c)' <=> spc'[c] \in MultiPC
  BY <1>1, <1>2 DEF InMulti, Executing
<1>6. ASSUME Together(t)', Acks(t)' PROVE MultiInv'
  <2> SUFFICES ASSUME NEW u \in Tasks, u # t, call[u].op \in MultiOps PROVE Together(u)' /\ Acks(u)'
    BY <1>6 DEF MultiInv
  <2>1. Together(u) /\ Acks(u) /\ call[u].cpus \subseteq CPUs
    BY DEF IInv, MultiInv, TypeOK, CallerTypes
  <2>2. ~InMulti(u, c) /\ ~InMulti(u, c)'
    BY <1>1 DEF InMulti, Executing
  <2>3. \A d \in CPUs : /\ InMulti(u, d)' <=> InMulti(u, d)
                        /\ InMulti(u, d) => spc'[d] = spc[d] /\ curstate'[d] = curstate[d]
    BY <1>2, <1>4, <2>2
  <2>4. QED
    BY <1>3, <2>1, <2>3, SameMulti
<1>7. QED
  BY <1>1, <1>2, <1>3, <1>4, <1>5, <1>6

\* A stopper sees the new state, runs the function in it and gets ready to
\* acknowledge it.
LEMMA MultiCpuStopInv ==
  ASSUME IInv, NEW c \in CPUs, MultiCpuStop(c) \/ RunMulti(c)
  PROVE  IInv'
<1>1. PICK l \in {"run", "ack"} :
        /\ spc' = [spc EXCEPT ![c] = l]
        /\ \/ /\ spc[c] = "multi" /\ msdata[cur[c].task].state # curstate[c]
              /\ l = "run" => msdata[cur[c].task].state = RUN
              /\ curstate' = [curstate EXCEPT ![c] = msdata[cur[c].task].state]
           \/ spc[c] = "run" /\ l = "ack" /\ curstate' = curstate
  BY DEF MultiCpuStop, RunMulti, StopperGoto
<1>2. UNCHANGED <<online, hotplug, cpu, enabled, works, lock, stop_work, in_progress, mutex,
                  pc, call, left, nr_todo, completion, msdata, wake_q, state, fetched, cur, sstate>>
  BY DEF MultiCpuStop, RunMulti, callers
<1>3. spc[c] \in MultiPC /\ spc[c] \in {"multi", "run"} /\ l \in MultiPC
  BY <1>1 DEF MultiPC
<1>4. PICK t \in Tasks :
        /\ t = cur[c].task /\ Together(t) /\ Acks(t) /\ InMulti(t, c)
        /\ msdata[t].state \in PREPARE .. EXIT /\ call[t].cpus \subseteq CPUs
  BY <1>3, MultiOf
<1>5. curstate'[c] = msdata[t].state /\ \A d \in CPUs : d # c => curstate'[d] = curstate[d]
  <2>1. spc[c] = "run" => curstate[c] = msdata[t].state
    BY <1>4 DEF Together
  <2>2. QED
    BY <1>1, <1>4, <2>1 DEF IInv, TypeOK, StopperTypes
<1>6. TypeOK'
  <2>1. SharedTypes' /\ QueueTypes'
    BY <1>2 DEF IInv, TypeOK, SharedTypes, QueueTypes
  <2>2. CallerTypes'
    BY <1>2 DEF IInv, TypeOK, CallerTypes
  <2>3. curstate' \in [CPUs -> NONE .. EXIT]
    BY <1>1, <1>4 DEF IInv, TypeOK, StopperTypes, NONE, PREPARE, EXIT
  <2>4. StopperTypes'
    BY <1>1, <1>2, <2>3 DEF IInv, TypeOK, StopperTypes, MultiPC
  <2>5. QED
    BY <2>1, <2>2, <2>4 DEF TypeOK
<1>7. /\ spc'[c] = l /\ \A d \in CPUs : d # c => spc'[d] = spc[d]
      /\ \A d \in CPUs : (ToCome(t, d)' <=> ToCome(t, d)) /\ (InMulti(t, d)' <=> InMulti(t, d))
      /\ Together(t)' /\ Acks(t)' => MultiInv'
  <2>1. spc'[c] = l /\ \A d \in CPUs : d # c => spc'[d] = spc[d]
    BY <1>1 DEF IInv, TypeOK, StopperTypes
  <2>2. QED
    BY <1>2, <1>3, <1>4, <1>5, <2>1, InsideMulti
<1>8. Together(t)'
  BY <1>2, <1>4, <1>5, <1>7 DEF Together
<1>9. Acks(t)'
  <2>1. ToAck(t)' = ToAck(t)
    <3>1. c \in ToAck(t) /\ c \in ToAck(t)'
      BY <1>1, <1>4, <1>7 DEF ToAck
    <3>2. \A d \in CPUs : d # c => (d \in ToAck(t)' <=> d \in ToAck(t))
      BY <1>2, <1>5, <1>7 DEF ToAck
    <3>3. QED
      BY <3>1, <3>2 DEF ToAck
  <2>2. Setting(t)' = Setting(t)
    BY <1>1, <1>3, <1>7 DEF Setting
  <2>3. \A d \in Setting(t) : d # c
    BY <1>3 DEF Setting
  <2>4. QED
    BY <1>2, <1>4, <1>7, <2>1, <2>2, <2>3 DEF Acks, Setting
<1>10. QED
  <2>1. l = "run" => curstate'[c] = RUN
    BY <1>1, <1>3, <1>4, <1>5
  <2>2. cur[c].op \in MultiOps
    BY <1>3 DEF IInv, CurrentWork
  <2>3. l \notin Idle /\ spc[c] \notin Idle /\ l \notin {"fn", "complete", "multi"} /\ spc[c] # "complete"
    BY <1>3 DEF Idle, MultiPC
  <2>4. QED
    BY <1>1, <1>2, <1>3, <1>5, <1>6, <1>7, <1>8, <1>9, <2>1, <2>2, <2>3, SpcStep

\* The last one to acknowledge a state is the one that moves on.
LEMMA AckStateInv ==
  ASSUME IInv, NEW c \in CPUs, AckState(c)
  PROVE  IInv'
<1>1. /\ spc[c] = "ack" /\ spc[c] \in MultiPC
      /\ UNCHANGED <<online, hotplug, cpu, enabled, works, lock, stop_work, in_progress, mutex, pc, call,
                     left, nr_todo, completion, wake_q, state, fetched, cur, curstate, sstate>>
  BY DEF AckState, MultiPC
<1>2. PICK t \in Tasks :
        /\ t = cur[c].task /\ call[t].op \in MultiOps /\ Together(t) /\ Acks(t)
        /\ InMulti(t, c) /\ ~ToCome(t, c)
        /\ msdata[t].state \in PREPARE .. EXIT /\ msdata[t].ack \in Nat
        /\ call[t].cpus \subseteq CPUs
  BY <1>1, MultiOf
<1>3. PICK l \in {"set_1", "multi", "ret"} :
        /\ spc' = [spc EXCEPT ![c] = l] /\ msdata' = [msdata EXCEPT ![t].ack = @ - 1]
        /\ l = "set_1" <=> msdata[t].ack = 1
        /\ l = "multi" => curstate[c] # EXIT
        /\ l = "ret" => curstate[c] = EXIT
  BY <1>2 DEF AckState, StopperGoto, AfterAck
<1>4. /\ curstate[c] = msdata[t].state
      /\ l = "set_1" <=> msdata[t].ack = 1
      /\ l = "multi" => msdata[t].state # EXIT
      /\ l = "ret" => msdata[t].state = EXIT
  BY <1>1, <1>2, <1>3 DEF Together
<1>5. /\ c \in ToAck(t) /\ Setting(t) = {} /\ msdata[t].ack = Cardinality(ToAck(t))
      /\ IsFiniteSet(ToAck(t)) /\ Cardinality(ToAck(t)) \in Nat
  <2>1. c \in ToAck(t)
    BY <1>1, <1>2 DEF ToAck
  <2>2. Setting(t) = {} /\ msdata[t].ack = Cardinality(ToAck(t))
    BY <1>2, <2>1 DEF Acks, PREPARE, EXIT
  <2>3. ToAck(t) \subseteq CPUs
    BY DEF ToAck
  <2>4. QED
    BY <2>1, <2>2, <2>3, CpusFinite
<1>6. /\ Cardinality(ToAck(t) \ {c}) = Cardinality(ToAck(t)) - 1
      /\ Cardinality(ToAck(t) \ {c}) \in Nat /\ IsFiniteSet(ToAck(t) \ {c})
  BY <1>5, FS_RemoveElement, FS_CardinalityType
<1>7. msdata'[t].state = msdata[t].state /\ msdata'[t].ack = Cardinality(ToAck(t) \ {c})
      /\ \A u \in Tasks : u # t => msdata'[u] = msdata[u]
  BY <1>2, <1>3, <1>5, <1>6 DEF IInv, TypeOK, CallerTypes
<1>8. TypeOK'
  <2>1. SharedTypes' /\ QueueTypes'
    BY <1>1 DEF IInv, TypeOK, SharedTypes, QueueTypes
  <2>2. msdata' \in [Tasks -> [state : NONE .. EXIT + 1, ack : Nat]]
    BY <1>3, <1>5, <1>6 DEF IInv, TypeOK, CallerTypes
  <2>3. CallerTypes'
    BY <1>1, <2>2 DEF IInv, TypeOK, CallerTypes
  <2>4. StopperTypes'
    BY <1>1, <1>3, <1>4 DEF IInv, TypeOK, StopperTypes, MultiPC
  <2>5. QED
    BY <2>1, <2>3, <2>4 DEF TypeOK
<1>9. /\ spc'[c] = l /\ \A d \in CPUs : d # c => spc'[d] = spc[d]
      /\ \A d \in CPUs : ToCome(t, d)' <=> ToCome(t, d)
      /\ \A d \in CPUs : d # c => (InMulti(t, d)' <=> InMulti(t, d))
      /\ InMulti(t, c)' <=> l \in MultiPC
      /\ Together(t)' /\ Acks(t)' => MultiInv'
  <2>1. spc'[c] = l /\ \A d \in CPUs : d # c => spc'[d] = spc[d]
    BY <1>3 DEF IInv, TypeOK, StopperTypes
  <2>2. \A u \in Tasks : u # t => msdata'[u] = msdata[u]
    BY <1>7
  <2>3. QED
    BY <1>1, <1>2, <2>1, <2>2, InsideMulti
<1>10. Together(t)'
  <2>1. msdata[t].state # EXIT => \A d \in CPUs : InMulti(t, d)' <=> InMulti(t, d)
    BY <1>2, <1>4, <1>9 DEF MultiPC
  <2>2. \A d \in CPUs : InMulti(t, d)' => InMulti(t, d)
    BY <1>2, <1>9
  <2>3. PREPARE # EXIT /\ DISABLE_IRQ # EXIT /\ RUN # EXIT
    BY DEF PREPARE, DISABLE_IRQ, RUN, EXIT
  <2>4. QED
    BY <1>1, <1>2, <1>4, <1>7, <1>9, <2>1, <2>2, <2>3 DEF Together
<1>11. ToAck(t)' = ToAck(t) \ {c}
  <2>1. c \notin ToAck(t)'
    BY <1>1, <1>2, <1>4, <1>7, <1>9 DEF ToAck
  <2>2. \A d \in CPUs : d # c => (d \in ToAck(t)' <=> d \in ToAck(t))
    BY <1>1, <1>7, <1>9 DEF ToAck
  <2>3. QED
    BY <2>1, <2>2 DEF ToAck
<1>12. Acks(t)'
  <2>1. CASE l = "set_1"
    <3>1. ToAck(t)' = {} /\ msdata'[t].ack = 0
      <4>1. Cardinality(ToAck(t) \ {c}) = 0
        BY <1>4, <1>5, <1>6, <2>1
      <4>2. QED
        BY <1>6, <1>7, <1>11, <4>1, FS_EmptySet
    <3>2. Setting(t)' = {c}
      BY <1>5, <1>9, <2>1 DEF Setting, MultiPC
    <3>3. QED
      BY <1>9, <2>1, <3>1, <3>2 DEF Acks
  <2>2. CASE l # "set_1"
    <3>1. ToAck(t)' # {}
      <4>1. Cardinality(ToAck(t) \ {c}) # 0
        BY <1>4, <1>5, <1>6, <2>2
      <4>2. QED
        BY <1>11, <4>1, FS_EmptySet
    <3>2. Setting(t)' = {}
      BY <1>4, <1>5, <1>9, <2>2 DEF Setting
    <3>3. QED
      BY <1>7, <1>11, <3>1, <3>2 DEF Acks
  <2>3. QED
    BY <2>1, <2>2
<1>13. QED
  <2>1. cur[c].op \in MultiOps
    BY <1>1 DEF IInv, CurrentWork
  <2>2. /\ l \notin Idle /\ spc[c] \notin Idle /\ l \notin {"fn", "run", "complete"}
        /\ spc[c] # "complete" /\ l \in MultiPC \cup {"ret"}
    BY <1>1, <1>4 DEF Idle, MultiPC
  <2>3. l = "multi" => curstate'[c] # EXIT
    BY <1>1, <1>4
  <2>4. QED
    BY <1>1, <1>3, <1>8, <1>9, <1>10, <1>12, <2>1, <2>2, <2>3, SpcStep

\* set_state(): the counter is reset, then the next state is published.  All have
\* acknowledged the old one, and in the state after the last nobody is left.
LEMMA SetStateInv ==
  ASSUME IInv, NEW c \in CPUs, SetState(c)
  PROVE  IInv'
<1>1. /\ spc[c] \in {"set_1", "set_2"} /\ spc[c] \in MultiPC
      /\ UNCHANGED <<online, hotplug, cpu, enabled, works, lock, stop_work, in_progress, mutex, pc, call,
                     left, nr_todo, completion, wake_q, state, fetched, cur, curstate, sstate>>
  BY DEF SetState, MultiPC
<1>2. PICK t \in Tasks :
        /\ t = cur[c].task /\ call[t].op \in MultiOps /\ Together(t) /\ Acks(t)
        /\ InMulti(t, c) /\ ~ToCome(t, c) /\ c \in call[t].cpus
        /\ msdata[t].state \in PREPARE .. EXIT /\ msdata[t].ack \in Nat
        /\ call[t].cpus \subseteq CPUs
  BY <1>1, MultiOf
<1>3. PICK l \in {"set_2", "multi", "ret"} :
        /\ spc' = [spc EXCEPT ![c] = l]
        /\ \/ /\ spc[c] = "set_1" /\ l = "set_2"
              /\ msdata' = [msdata EXCEPT ![t].ack = Cardinality(call[t].cpus)]
           \/ /\ spc[c] = "set_2" /\ l = (IF curstate[c] = EXIT THEN "ret" ELSE "multi")
              /\ msdata' = [msdata EXCEPT ![t].state = @ + 1]
  BY <1>2 DEF SetState, StopperGoto, AfterAck, num_threads
<1>4. /\ curstate[c] = msdata[t].state /\ ToAck(t) = {} /\ Setting(t) = {c}
      /\ spc[c] = "set_2" => msdata[t].ack = Cardinality(call[t].cpus)
      /\ Cardinality(call[t].cpus) \in Nat
  <2>1. c \in Setting(t)
    BY <1>1, <1>2 DEF Setting
  <2>2. QED
    BY <1>1, <1>2, <2>1, CpusFinite DEF Acks, Together
<1>5. \A d \in CPUs : InMulti(t, d) /\ d # c => spc[d] = "multi" /\ curstate[d] = msdata[t].state
  <2> SUFFICES ASSUME NEW d \in CPUs, InMulti(t, d), d # c
               PROVE  spc[d] = "multi" /\ curstate[d] = msdata[t].state
    OBVIOUS
  <2>1. d \notin ToAck(t) /\ d \notin Setting(t)
    BY <1>4
  <2>2. QED
    BY <2>1 DEF ToAck, Setting, InMulti, MultiPC
<1>6. \A d \in CPUs : ~ToCome(t, d)
  BY <1>4 DEF ToAck
<1>7. /\ \A u \in Tasks : u # t => msdata'[u] = msdata[u]
      /\ spc[c] = "set_1" => msdata'[t].state = msdata[t].state
      /\ spc[c] = "set_2" => msdata'[t].state = msdata[t].state + 1
      /\ msdata'[t].ack = Cardinality(call[t].cpus)
      /\ msdata' \in [Tasks -> [state : NONE .. EXIT + 1, ack : Nat]]
  <2>1. PICK n \in Nat : n = Cardinality(call[t].cpus)
    BY <1>4
  <2>2. msdata \in [Tasks -> [state : NONE .. EXIT + 1, ack : Nat]]
    BY DEF IInv, TypeOK, CallerTypes
  <2>3. msdata[t].state + 1 \in NONE .. EXIT + 1
    BY <1>2 DEF NONE, PREPARE, EXIT
  <2>4. CASE spc[c] = "set_1"
    <3>1. msdata' = [msdata EXCEPT ![t].ack = n]
      BY <1>3, <2>1, <2>4
    <3>2. QED
      BY <2>1, <2>2, <2>4, <3>1
  <2>5. CASE spc[c] = "set_2"
    <3>1. msdata' = [msdata EXCEPT ![t].state = @ + 1] /\ msdata[t].ack = n
      BY <1>3, <1>4, <2>1, <2>5
    <3>2. QED
      BY <2>1, <2>2, <2>3, <2>5, <3>1
  <2>6. QED
    BY <1>1, <2>4, <2>5
<1>8. TypeOK'
  <2>1. SharedTypes' /\ QueueTypes'
    BY <1>1 DEF IInv, TypeOK, SharedTypes, QueueTypes
  <2>2. CallerTypes'
    BY <1>1, <1>7 DEF IInv, TypeOK, CallerTypes
  <2>3. StopperTypes'
    BY <1>1, <1>3 DEF IInv, TypeOK, StopperTypes, MultiPC
  <2>4. QED
    BY <2>1, <2>2, <2>3 DEF TypeOK
<1>9. /\ spc'[c] = l /\ \A d \in CPUs : d # c => spc'[d] = spc[d]
      /\ \A d \in CPUs : ~ToCome(t, d)'
      /\ \A d \in CPUs : d # c => (InMulti(t, d)' <=> InMulti(t, d))
      /\ InMulti(t, c)' <=> l \in MultiPC
      /\ Together(t)' /\ Acks(t)' => MultiInv'
  <2>1. spc'[c] = l /\ \A d \in CPUs : d # c => spc'[d] = spc[d]
    BY <1>3 DEF IInv, TypeOK, StopperTypes
  <2>2. \A u \in Tasks : u # t => msdata'[u] = msdata[u]
    BY <1>7
  <2>3. QED
    BY <1>1, <1>2, <1>6, <2>1, <2>2, InsideMulti
<1>10. Together(t)' /\ Acks(t)'
  <2>1. CASE spc[c] = "set_1"
    <3>1. /\ l = "set_2" /\ msdata'[t].state = msdata[t].state
          /\ \A d \in CPUs : InMulti(t, d)' <=> InMulti(t, d)
      BY <1>2, <1>3, <1>7, <1>9, <2>1 DEF MultiPC
    <3>2. ToAck(t)' = {} /\ Setting(t)' = {c}
      BY <1>1, <1>2, <1>5, <1>9, <3>1 DEF ToAck, Setting
    <3>3. Together(t)'
      BY <1>1, <1>2, <1>4, <1>6, <1>9, <3>1 DEF Together
    <3>4. Acks(t)'
      BY <1>1, <1>7, <1>9, <2>1, <3>1, <3>2 DEF Acks
    <3>5. QED
      BY <3>3, <3>4
  <2>2. CASE spc[c] = "set_2" /\ msdata[t].state = EXIT
    <3>1. l = "ret" /\ msdata'[t].state = EXIT + 1
      BY <1>3, <1>4, <1>7, <2>2
    <3>2. \A d \in CPUs : ~InMulti(t, d)'
      BY <1>5, <1>9, <2>2, <3>1 DEF IInv, LocalState, MultiPC
    <3>3. Together(t)'
      BY <1>9, <3>1, <3>2 DEF Together, NONE, PREPARE, DISABLE_IRQ, RUN, EXIT
    <3>4. Setting(t)' = {}
      BY <3>2 DEF Setting
    <3>5. Acks(t)'
      BY <3>1, <3>4 DEF Acks, EXIT
    <3>6. QED
      BY <3>3, <3>5
  <2>3. CASE spc[c] = "set_2" /\ msdata[t].state # EXIT
    <3>1. /\ l = "multi" /\ msdata'[t].state = msdata[t].state + 1
          /\ msdata'[t].ack = Cardinality(call[t].cpus)
      BY <1>3, <1>4, <1>7, <2>3
    <3>2. \A d \in CPUs : InMulti(t, d)' <=> d \in call[t].cpus
      <4>1. \A d \in call[t].cpus : InMulti(t, d)
        BY <1>2, <1>6, <2>3 DEF Together, PREPARE, DISABLE_IRQ, RUN, EXIT
      <4>2. \A d \in CPUs : InMulti(t, d) => d \in call[t].cpus
        BY <1>2, Owned DEF IInv, InMulti, Serves, WaitingOps, MultiOps
      <4>3. QED
        BY <1>2, <1>9, <3>1, <4>1, <4>2 DEF MultiPC
    <3>3. \A d \in call[t].cpus : spc'[d] = "multi" /\ curstate'[d] = msdata[t].state
      BY <1>1, <1>2, <1>4, <1>5, <1>9, <3>1, <3>2
    <3>4. ToAck(t)' = call[t].cpus /\ Setting(t)' = {}
      BY <1>2, <1>9, <3>1, <3>2, <3>3 DEF ToAck, Setting, PREPARE, EXIT
    <3>5. Together(t)'
      BY <1>1, <1>2, <1>9, <2>3, <3>1, <3>2, <3>3
      DEF Together, NONE, PREPARE, DISABLE_IRQ, RUN, EXIT
    <3>6. Acks(t)'
      BY <1>2, <3>1, <3>4 DEF Acks
    <3>7. QED
      BY <3>5, <3>6
  <2>4. QED
    BY <1>1, <2>1, <2>2, <2>3
<1>11. QED
  <2>1. cur[c].op \in MultiOps
    BY <1>1 DEF IInv, CurrentWork
  <2>2. /\ l \notin Idle /\ spc[c] \notin Idle /\ l \notin {"fn", "run", "complete"}
        /\ spc[c] # "complete" /\ l \in MultiPC \cup {"ret"}
    BY <1>1 DEF Idle, MultiPC
  <2>3. l = "multi" => curstate'[c] # EXIT
    BY <1>1, <1>3
  <2>4. QED
    BY <1>1, <1>3, <1>8, <1>9, <1>10, <2>1, <2>2, <2>3, SpcStep

\* cpu_stopper_thread() takes a work off its queue; to those who wait for it, it is
\* still to be executed.
LEMMA GetWorkInv ==
  ASSUME IInv, NEW c \in CPUs, GetWork(c), ~list_empty(works[c])
  PROVE  IInv'
<1>1. /\ spc[c] = "get" /\ works[c] # <<>>
      /\ fetched' = [fetched EXCEPT ![c] = Head(works[c])]
      /\ works' = [works EXCEPT ![c] = Tail(@)]
      /\ spc' = [spc EXCEPT ![c] = "read"]
      /\ UNCHANGED <<online, hotplug, cpu, enabled, lock, stop_work, in_progress, mutex, pc, call,
                     left, nr_todo, completion, msdata, wake_q, state, cur, curstate, sstate>>
  BY DEF GetWork, list_empty, list_first_entry, StopperGoto, callers
<1>2. /\ works[c] \in Seq(Works) /\ NoDup(works[c]) /\ fetched[c] = NoWork /\ cur[c] = NoWork
      /\ Head(works[c]) \in Works /\ Head(works[c]) \in Linked(works[c])
  <2>1. works[c] \in Seq(Works) /\ NoDup(works[c]) /\ fetched[c] = NoWork /\ cur[c] = NoWork
    BY <1>1 DEF IInv, TypeOK, QueueTypes, QueuedWorks, CurrentWork, Idle
  <2>2. QED
    BY <1>1, <2>1, ListFirst DEF list_first_entry
<1>3. /\ spc'[c] = "read" /\ fetched'[c] = Head(works[c]) /\ works'[c] = Tail(works[c])
      /\ \A d \in CPUs : d # c => /\ spc'[d] = spc[d] /\ fetched'[d] = fetched[d]
                                  /\ works'[d] = works[d]
  BY <1>1 DEF IInv, TypeOK, StopperTypes, QueueTypes
<1>4. /\ works'[c] \in Seq(Works) /\ NoDup(works'[c])
      /\ Linked(works'[c]) = Linked(works[c]) \ {Head(works[c])}
  BY <1>1, <1>2, <1>3, ListTail
<1>5. \A d \in CPUs :
        ToExecute(d)' \subseteq ToExecute(d) /\ ToExecute(d) \subseteq ToExecute(d)' \cup {NoWork}
  BY <1>2, <1>3, <1>4 DEF ToExecute
<1>6. /\ \A op : \A t \in Tasks : Work(op, t) # NoWork
      /\ StaticWork # NoWork /\ NoWork \notin Works
  BY WorkEq, StopMachineAssumption DEF NoWork, StaticWork, Works, Work
<1>7. TypeOK'
  <2>1. SharedTypes'
    BY <1>1 DEF IInv, TypeOK, SharedTypes
  <2>2. QueueTypes'
    BY <1>1, <1>3, <1>4 DEF IInv, TypeOK, QueueTypes
  <2>3. CallerTypes'
    BY <1>1 DEF IInv, TypeOK, CallerTypes
  <2>4. StopperTypes'
    BY <1>1, <1>2 DEF IInv, TypeOK, StopperTypes, Idle
  <2>5. QED
    BY <2>1, <2>2, <2>3, <2>4 DEF TypeOK
<1>8. \A u \in Tasks, d \in CPUs : /\ Enqueued(u, d)' <=> Enqueued(u, d)
                                   /\ Executing(u, d)' <=> Executing(u, d)
  BY <1>1, <1>5, <1>6 DEF Enqueued, Executing
<1>9. (\A u \in Tasks : CallShape(u)') /\ Exclusive'
  BY <1>1 DEF IInv, CallShape, Exclusive
<1>10. QueuedWorks'
  <2>1. \A d \in CPUs : NoDup(works'[d]) /\ fetched'[d] \notin Linked(works'[d])
    BY <1>3, <1>4 DEF IInv, QueuedWorks
  <2>2. QED
    BY <1>1, <1>5, <2>1 DEF IInv, QueuedWorks, Serves
<1>11. CurrentWork'
  <2>1. \A d \in CPUs : /\ spc'[d] \in Idle <=> spc[d] \in Idle
                        /\ spc'[d] \in MultiPC <=> spc[d] \in MultiPC
                        /\ spc'[d] = "fn" <=> spc[d] = "fn"
                        /\ spc'[d] = "read" <=> fetched'[d] # NoWork
    BY <1>1, <1>2, <1>3, <1>6 DEF IInv, CurrentWork, Idle, MultiPC
  <2>2. QED
    BY <1>1, <2>1 DEF IInv, CurrentWork, Serves
<1>12. Todo'
  <2>1. \A d \in CPUs : spc'[d] = "complete" <=> spc[d] = "complete"
    BY <1>1, <1>3
  <2>2. \A u \in Tasks : Pending(u)' = Pending(u)
    BY <1>8, <2>1 DEF Pending
  <2>3. QED
    BY <1>1, <2>1, <2>2 DEF IInv, Todo
<1>13. LocalState'
  BY <1>1, <1>3 DEF IInv, LocalState, MultiPC
<1>14. MultiInv'
  <2> SUFFICES ASSUME NEW u \in Tasks, call[u].op \in MultiOps PROVE Together(u)' /\ Acks(u)'
    BY <1>1 DEF MultiInv
  <2>1. /\ Together(u) /\ Acks(u) /\ call[u].cpus \subseteq CPUs
        /\ call'[u] = call[u] /\ msdata'[u] = msdata[u] /\ left'[u] = left[u]
    BY <1>1 DEF IInv, MultiInv, TypeOK, CallerTypes
  <2>2. \A d \in CPUs : /\ ToCome(u, d)' <=> ToCome(u, d)
                        /\ InMulti(u, d)' <=> InMulti(u, d)
                        /\ InMulti(u, d) => spc'[d] = spc[d] /\ curstate'[d] = curstate[d]
    BY <1>1, <1>3, <1>8, <2>1 DEF ToCome, InMulti, MultiPC
  <2>3. QED
    BY <2>1, <2>2, SameMulti
<1>15. QED
  BY <1>7, <1>9, <1>10, <1>11, <1>12, <1>13, <1>14 DEF IInv

\* A stopper reads the work it has taken and executes it, for the call that it was
\* queued for: a static work is still the one of the stop_cpus() that queued it.
LEMMA ReadWorkInv ==
  ASSUME IInv, NEW c \in CPUs, ReadWork(c)
  PROVE  IInv'
<1>1. /\ spc[c] = "read"
      /\ UNCHANGED <<online, hotplug, cpu, enabled, works, lock, stop_work, in_progress, mutex, pc,
                     call, left, nr_todo, completion, msdata, wake_q, state, curstate, sstate>>
  BY DEF ReadWork, callers
<1>2. /\ works \in [CPUs -> Seq(Works)] /\ fetched[c] # NoWork
      /\ fetched \in [CPUs -> Works \cup {NoWork}]
      /\ cur \in [CPUs -> [op : {"one", "nowait", "two", "all"}, task : Tasks] \cup {NoWork}]
      /\ cur[c] = NoWork /\ fetched[c] \notin Linked(works[c])
  BY <1>1 DEF IInv, TypeOK, QueueTypes, StopperTypes, QueuedWorks, CurrentWork, Idle
<1>3. PICK w \in Works :
        /\ w = fetched[c] /\ w \in ToExecute(c)
        /\ fetched' = [fetched EXCEPT ![c] = NoWork]
        /\ cur' = [cur EXCEPT ![c] = IF w.op = "all" THEN Work(w.op, stop_work[c]) ELSE w]
        /\ spc' = [spc EXCEPT ![c] = IF w.op \in {"two", "all"} THEN "multi" ELSE "fn"]
  BY <1>2 DEF ReadWork, StopperGoto, ToExecute
<1>4. PICK op \in {"one", "nowait", "two", "all"}, t \in Tasks :
        /\ cur' = [cur EXCEPT ![c] = Work(op, t)]
        /\ op = w.op
        /\ op # "all" => w = Work(op, t)
        /\ op = "all" => w = StaticWork /\ stop_work[c] = t
  <2>1. CASE w = StaticWork
    <3>1. stop_work[c] \in Tasks
      BY <1>3, <2>1 DEF IInv, QueuedWorks
    <3>2. w.op = "all"
      BY <2>1, WorkEq DEF StaticWork
    <3>3. QED
      BY <1>3, <2>1, <3>1, <3>2
  <2>2. CASE w # StaticWork
    <3>1. /\ w.op \in {"one", "nowait", "two"} /\ w.task \in Tasks
          /\ w = Work(w.op, w.task)
      BY <2>2 DEF Works, Work
    <3>2. QED
      BY <1>3, <3>1
  <2>3. QED
    BY <2>1, <2>2
<1>5. PICK l \in {"multi", "fn"} :
        spc' = [spc EXCEPT ![c] = l] /\ (l = "multi" <=> op \in MultiOps)
  BY <1>3, <1>4 DEF MultiOps
<1>6. /\ fetched'[c] = NoWork /\ w \notin ToExecute(c)'
      /\ ToExecute(c) \ {w} \subseteq ToExecute(c)' /\ ToExecute(c)' \subseteq ToExecute(c) \cup {NoWork}
      /\ \A d \in CPUs : d # c => fetched'[d] = fetched[d] /\ ToExecute(d)' = ToExecute(d)
  <2>1. fetched'[c] = NoWork /\ \A d \in CPUs : d # c => fetched'[d] = fetched[d]
    BY <1>2, <1>3
  <2>2. QED
    BY <1>1, <1>2, <1>3, <2>1 DEF ToExecute
<1>7. /\ spc'[c] = l /\ cur'[c] = Work(op, t)
      /\ \A d \in CPUs : d # c => spc'[d] = spc[d] /\ cur'[d] = cur[d]
  BY <1>2, <1>4, <1>5 DEF IInv, TypeOK, StopperTypes
<1>8. TypeOK'
  <2>1. SharedTypes'
    BY <1>1 DEF IInv, TypeOK, SharedTypes
  <2>2. QueueTypes'
    BY <1>1, <1>2 DEF QueueTypes
  <2>3. CallerTypes'
    BY <1>1 DEF IInv, TypeOK, CallerTypes
  <2>4. cur' \in [CPUs -> [op : {"one", "nowait", "two", "all"}, task : Tasks] \cup {NoWork}]
    BY <1>2, <1>4 DEF Work
  <2>5. StopperTypes'
    BY <1>1, <1>2, <1>3, <1>5, <2>4 DEF IInv, TypeOK, StopperTypes, MultiPC
  <2>6. QED
    BY <2>1, <2>2, <2>3, <2>5 DEF TypeOK
<1>9. op \in WaitingOps => call[t].op = op /\ Serves(t, op, c) /\ Enqueued(t, c)
  BY <1>3, <1>4 DEF IInv, QueuedWorks, Serves, Enqueued, WaitingOps
<1>10. ASSUME NEW u \in Tasks, call[u].op \in WaitingOps, NEW d \in CPUs, d # c \/ u # t \/ op = "nowait"
       PROVE  (Enqueued(u, d)' <=> Enqueued(u, d)) /\ (Executing(u, d)' <=> Executing(u, d))
  <2>1. CASE d # c
    BY <1>1, <1>6, <1>7, <2>1 DEF Enqueued, Executing
  <2>2. CASE d = c
    <3>1. u # t \/ op = "nowait"
      BY <1>10, <2>2
    <3>2. Work(call[u].op, u) # w
      BY <1>4, <1>10, <3>1, WorkEq, StopMachineAssumption DEF WaitingOps, StaticWork
    <3>3. w = StaticWork => stop_work[c] # u
      BY <1>4, <3>1, WorkEq DEF StaticWork
    <3>4. ~Executing(u, c) /\ ~Executing(u, c)'
      BY <1>1, <1>2, <1>7, <1>10, <3>1, WorkEq DEF Executing, NoWork, WaitingOps
    <3>5. Enqueued(u, c)' <=> Enqueued(u, c)
      <4>1. Work(call[u].op, u) # NoWork /\ StaticWork # NoWork
        BY WorkEq, StopMachineAssumption DEF NoWork, StaticWork
      <4>2. QED
        BY <1>1, <1>6, <3>2, <3>3, <4>1 DEF Enqueued
    <3>6. QED
      BY <2>2, <3>4, <3>5
  <2>3. QED
    BY <2>1, <2>2
<1>11. ASSUME op \in WaitingOps
       PROVE  /\ Enqueued(t, c) /\ ~Executing(t, c)
              /\ ~Enqueued(t, c)' /\ Executing(t, c)'
  <2>1. call[t].op = op /\ Enqueued(t, c)
    BY <1>9, <1>11
  <2>2. ~Executing(t, c) /\ Executing(t, c)'
    BY <1>1, <1>2, <1>7, <1>11, <2>1, WorkEq DEF Executing, NoWork, WaitingOps
  <2>3. op # "all" /\ StaticWork \in ToExecute(c) => stop_work[c] # t
    BY <1>11, <2>1 DEF IInv, QueuedWorks, Serves
  <2>4. Work("all", t) \notin ToExecute(c)
    <3>1. Work("all", t) \notin Works
      BY StopMachineAssumption DEF Works, Work, StaticWork
    <3>2. QED
      BY <3>1, InWorks DEF IInv
  <2>5. ~Enqueued(t, c)'
    <3>1. Work(op, t) # NoWork /\ StaticWork # NoWork
      BY WorkEq, StopMachineAssumption DEF NoWork, StaticWork
    <3>2. QED
      BY <1>1, <1>4, <1>6, <1>11, <2>1, <2>3, <2>4, <3>1 DEF Enqueued
  <2>6. QED
    BY <2>1, <2>2, <2>5
<1>12. \A u \in Tasks : call[u].op \in WaitingOps => Pending(u)' = Pending(u)
  <2> SUFFICES ASSUME NEW u \in Tasks, call[u].op \in WaitingOps, NEW d \in CPUs
               PROVE  d \in Pending(u)' <=> d \in Pending(u)
    BY DEF Pending
  <2>1. CASE d # c \/ u # t \/ op = "nowait"
    BY <1>1, <1>5, <1>7, <1>10, <2>1 DEF Pending
  <2>2. CASE d = c /\ u = t /\ op # "nowait"
    BY <1>5, <1>7, <1>11, <2>2 DEF Pending, WaitingOps
  <2>3. QED
    BY <2>1, <2>2
<1>13. op \in WaitingOps => completion[t].done = 0
  <2>1. ASSUME op \in WaitingOps PROVE nr_todo[t] # 0
    <3>1. c \in Pending(t) /\ Pending(t) \subseteq CPUs /\ left[t] \subseteq CPUs
      BY <1>11, <2>1 DEF Pending, IInv, TypeOK, CallerTypes
    <3>2. /\ Cardinality(Pending(t)) # 0
          /\ Cardinality(Pending(t)) \in Nat /\ Cardinality(left[t]) \in Nat
      BY <3>1, CpusFinite, FS_EmptySet
    <3>3. nr_todo[t] = Cardinality(Pending(t)) + Cardinality(left[t])
      BY <1>9, <2>1 DEF IInv, Todo
    <3>4. QED
      BY <3>2, <3>3
  <2>2. QED
    BY <1>9, <2>1 DEF IInv, Todo
<1>14. (\A u \in Tasks : CallShape(u)') /\ Exclusive'
  BY <1>1 DEF IInv, CallShape, Exclusive
<1>15. QueuedWorks'
  <2>1. /\ \A d \in CPUs : NoDup(works'[d]) /\ fetched'[d] \notin Linked(works'[d])
        /\ \A d \in CPUs : ToExecute(d)' \subseteq ToExecute(d) \cup {NoWork}
    <3>1. NoWork \notin Works
      BY WorkEq DEF NoWork, StaticWork, Works, Work
    <3>2. NoWork \notin Linked(works[c])
      BY <1>2, <3>1 DEF Linked
    <3>3. QED
      BY <1>1, <1>6, <3>2 DEF IInv, QueuedWorks
  <2>2. (\A o : \A u \in Tasks : Work(o, u) # NoWork) /\ StaticWork # NoWork
    BY WorkEq, StopMachineAssumption DEF NoWork, StaticWork
  <2>3. \A d \in CPUs, u \in Tasks, o \in {"one", "two"} : Work(o, u) \in ToExecute(d)' =>
          Serves(u, o, d) /\ cur'[d] # Work(o, u)
    <3>1. \A d \in CPUs, u \in Tasks, o \in {"one", "two"} : Work(o, u) \in ToExecute(d)' =>
            Serves(u, o, d) /\ cur[d] # Work(o, u)
      BY <2>1, <2>2 DEF IInv, QueuedWorks
    <3>2. \A u \in Tasks, o \in {"one", "two"} : Work(o, u) \in ToExecute(c)' =>
            cur'[c] # Work(o, u)
      BY <1>4, <1>6, <1>7, WorkEq
    <3>3. QED
      BY <1>7, <3>1, <3>2
  <2>4. \A d \in CPUs : StaticWork \in ToExecute(d)' =>
          /\ stop_work[d] \in Tasks /\ Serves(stop_work[d], "all", d)
          /\ cur'[d].op # "all"
    <3>1. \A d \in CPUs : StaticWork \in ToExecute(d)' =>
            stop_work[d] \in Tasks /\ Serves(stop_work[d], "all", d) /\ cur[d].op # "all"
      BY <2>1, <2>2 DEF IInv, QueuedWorks
    <3>2. StaticWork \in ToExecute(c)' => cur'[c].op # "all"
      BY <1>4, <1>6, <1>7, WorkEq
    <3>3. QED
      BY <1>7, <3>1, <3>2
  <2>5. \A d \in CPUs, u \in Tasks : Work("nowait", u) \in ToExecute(d)' =>
          ~(call[u].op = "nowait" /\ pc[u] = "queue")
    BY <2>1, <2>2 DEF IInv, QueuedWorks
  <2>6. \A u \in Tasks, o \in {"one", "two", "all"}, d \in CPUs : Serves(u, o, d)' <=> Serves(u, o, d)
    BY <1>1 DEF Serves
  <2>7. QED
    BY <1>1, <2>1, <2>3, <2>4, <2>5, <2>6 DEF QueuedWorks
<1>16. CurrentWork'
  <2> SUFFICES ASSUME NEW d \in CPUs
               PROVE  /\ spc'[d] \in Idle <=> cur'[d] = NoWork
                      /\ spc'[d] = "read" <=> fetched'[d] # NoWork
                      /\ spc'[d] = "fn" => cur'[d].op \in {"one", "nowait"}
                      /\ spc'[d] \in MultiPC => cur'[d].op \in MultiOps
                      /\ cur'[d].op \in WaitingOps =>
                           Serves(cur'[d].task, cur'[d].op, d) /\ completion[cur'[d].task].done = 0
    BY <1>1 DEF CurrentWork, Serves
  <2>1. CASE d # c
    BY <1>6, <1>7, <2>1 DEF IInv, CurrentWork
  <2>2. CASE d = c
    <3>1. cur'[d].op = op /\ cur'[d].task = t /\ cur'[d] # NoWork /\ spc'[d] = l
      BY <1>4, <1>7, <2>2, WorkEq DEF NoWork
    <3>2. /\ l \notin Idle /\ l # "read"
          /\ l = "fn" => op \in {"one", "nowait"}
          /\ l \in MultiPC => op \in MultiOps
      BY <1>5 DEF Idle, MultiPC, MultiOps
    <3>3. QED
      BY <1>6, <1>9, <1>13, <2>2, <3>1, <3>2
  <2>3. QED
    BY <2>1, <2>2
<1>17. Todo'
  <2>1. \A d \in CPUs : spc'[d] = "complete" => spc[d] = "complete" /\ cur'[d] = cur[d]
    BY <1>5, <1>7
  <2>2. QED
    BY <1>1, <1>12, <2>1 DEF IInv, Todo
<1>18. LocalState'
  BY <1>1, <1>5, <1>7 DEF IInv, LocalState, MultiPC, NONE, EXIT
<1>19. MultiInv'
  <2> SUFFICES ASSUME NEW u \in Tasks, call[u].op \in MultiOps PROVE Together(u)' /\ Acks(u)'
    BY <1>1 DEF MultiInv
  <2>1. /\ Together(u) /\ Acks(u) /\ call[u].cpus \subseteq CPUs /\ call[u].op \in WaitingOps
        /\ call'[u] = call[u] /\ msdata'[u] = msdata[u] /\ left'[u] = left[u]
    BY <1>1 DEF IInv, MultiInv, TypeOK, CallerTypes, MultiOps, WaitingOps
  <2>2. /\ ~InMulti(u, c)
        /\ \A d \in CPUs : d # c =>
             /\ ToCome(u, d)' <=> ToCome(u, d)
             /\ InMulti(u, d)' <=> InMulti(u, d)
             /\ spc'[d] = spc[d] /\ curstate'[d] = curstate[d]
    BY <1>1, <1>7, <1>10, <2>1 DEF ToCome, InMulti, MultiPC
  <2>3. CASE u # t \/ op = "nowait"
    <3>1. (ToCome(u, c)' <=> ToCome(u, c)) /\ ~InMulti(u, c)'
      <4>1. (Enqueued(u, c)' <=> Enqueued(u, c)) /\ (Executing(u, c)' <=> Executing(u, c))
        BY <1>10, <2>1, <2>3
      <4>2. ~Executing(u, c)
        BY <1>2, <2>1, WorkEq DEF Executing, NoWork, WaitingOps
      <4>3. QED
        BY <2>1, <4>1, <4>2 DEF ToCome, InMulti
    <3>2. QED
      BY <2>1, <2>2, <3>1, SameMulti
  <2>4. CASE u = t /\ op # "nowait"
    <3>1. op \in MultiOps /\ l = "multi"
      BY <1>5, <1>9, <2>4 DEF WaitingOps
    <3>2. ToCome(t, c) /\ ~ToCome(t, c)' /\ InMulti(t, c)'
      BY <1>1, <1>7, <1>9, <1>11, <3>1 DEF ToCome, InMulti, Serves, MultiOps, WaitingOps,
         MultiPC
    <3>3. msdata[t].state = PREPARE /\ curstate'[c] = NONE /\ spc'[c] = "multi"
      BY <1>1, <1>7, <2>1, <2>4, <3>1, <3>2 DEF Together, IInv, LocalState, MultiPC
    <3>4. ToAck(t)' = ToAck(t) /\ Setting(t)' = Setting(t)
      <4>1. c \in ToAck(t) /\ c \in ToAck(t)' /\ c \notin Setting(t) /\ c \notin Setting(t)'
        BY <2>1, <2>2, <2>4, <3>2, <3>3 DEF ToAck, Setting, NONE, PREPARE
      <4>2. \A d \in CPUs : d # c => /\ d \in ToAck(t)' <=> d \in ToAck(t)
                                     /\ d \in Setting(t)' <=> d \in Setting(t)
        BY <2>1, <2>2, <2>4 DEF ToAck, Setting
      <4>3. QED
        BY <4>1, <4>2 DEF ToAck, Setting
    <3>5. Together(t)'
      BY <2>1, <2>2, <2>4, <3>2, <3>3 DEF Together, NONE, PREPARE, DISABLE_IRQ, RUN, EXIT
    <3>6. Acks(t)'
      <4>1. \A d \in Setting(t) : spc'[d] = spc[d]
        BY <2>2, <2>4 DEF Setting
      <4>2. QED
        BY <2>1, <2>4, <3>4, <4>1 DEF Acks
    <3>7. QED
      BY <2>4, <3>5, <3>6
  <2>5. QED
    BY <2>3, <2>4
<1>20. QED
  BY <1>8, <1>14, <1>15, <1>16, <1>17, <1>18, <1>19 DEF IInv

\* A stopper outside multi_cpu_stop() lays its work down.
LEMMA PutMulti ==
  ASSUME IInv, NEW c \in CPUs, spc[c] \notin MultiPC, spc'[c] \notin MultiPC,
         \A d \in CPUs : d # c => spc'[d] = spc[d] /\ cur'[d] = cur[d] /\ curstate'[d] = curstate[d],
         UNCHANGED <<call, left, msdata, works, stop_work, fetched>>
  PROVE  MultiInv'
<1> SUFFICES ASSUME NEW u \in Tasks, call[u].op \in MultiOps PROVE Together(u)' /\ Acks(u)'
  BY DEF MultiInv
<1>1. /\ Together(u) /\ Acks(u) /\ call[u].cpus \subseteq CPUs
      /\ call'[u] = call[u] /\ msdata'[u] = msdata[u]
  BY DEF IInv, MultiInv, TypeOK, CallerTypes
<1>2. \A d \in CPUs : ToCome(u, d)' <=> ToCome(u, d)
  BY DEF ToCome, Enqueued, ToExecute
<1>3. \A d \in CPUs : /\ InMulti(u, d)' <=> InMulti(u, d)
                      /\ InMulti(u, d) => spc'[d] = spc[d] /\ curstate'[d] = curstate[d]
  BY DEF InMulti, Executing
<1>4. QED
  BY <1>1, <1>2, <1>3, SameMulti

\* cpu_stop_signal_done(): the last work to signal goes on to bring the event, and
\* it is the only one.
LEMMA SignalDoneInv ==
  ASSUME IInv, NEW c \in CPUs, SignalDone(c)
  PROVE  IInv'
<1>1. /\ spc[c] = "ret" /\ curstate' = [curstate EXCEPT ![c] = NONE]
      /\ UNCHANGED <<online, hotplug, cpu, enabled, works, lock, stop_work, in_progress, mutex, pc, call,
                     left, completion, msdata, wake_q, state, fetched, sstate>>
  BY DEF SignalDone
<1>2. PICK t \in Tasks, op \in {"one", "nowait", "two", "all"} :
        /\ t = cur[c].task /\ op = cur[c].op /\ cur[c] = Work(op, t)
        /\ op \in WaitingOps => Serves(t, op, c) /\ completion[t].done = 0
        /\ nr_todo[t] \in Nat
  <2>1. cur[c] # NoWork
    BY <1>1 DEF IInv, CurrentWork, Idle
  <2>2. cur[c].op \in {"one", "nowait", "two", "all"} /\ cur[c].task \in Tasks
    BY <2>1 DEF IInv, TypeOK, StopperTypes
  <2>3. cur[c] = Work(cur[c].op, cur[c].task)
    BY <2>2, CurIs DEF IInv
  <2>4. nr_todo[cur[c].task] \in Nat
    BY <2>2 DEF IInv, TypeOK, CallerTypes
  <2>5. cur[c].op \in WaitingOps =>
          Serves(cur[c].task, cur[c].op, c) /\ completion[cur[c].task].done = 0
    BY DEF IInv, CurrentWork
  <2>6. QED
    BY <2>2, <2>3, <2>4, <2>5
<1>3. PICK l \in {"complete", "get"} :
        /\ spc' = [spc EXCEPT ![c] = l]
        /\ l = "complete" <=> op # "nowait" /\ nr_todo[t] = 1
        /\ cur' = IF l = "complete" THEN cur ELSE [cur EXCEPT ![c] = NoWork]
        /\ nr_todo' = IF op = "nowait" THEN nr_todo ELSE [nr_todo EXCEPT ![t] = @ - 1]
  BY <1>2 DEF SignalDone, StopperGoto
<1>4. /\ spc'[c] = l /\ curstate'[c] = NONE
      /\ cur'[c] = IF l = "complete" THEN Work(op, t) ELSE NoWork
      /\ \A d \in CPUs : d # c => spc'[d] = spc[d] /\ cur'[d] = cur[d] /\ curstate'[d] = curstate[d]
      /\ \A u \in Tasks : u # t => nr_todo'[u] = nr_todo[u]
      /\ nr_todo'[t] = IF op = "nowait" THEN nr_todo[t] ELSE nr_todo[t] - 1
  BY <1>1, <1>2, <1>3 DEF IInv, TypeOK, CallerTypes, StopperTypes
<1>5. \A u \in Tasks, d \in CPUs : Enqueued(u, d)' <=> Enqueued(u, d)
  BY <1>1 DEF Enqueued, ToExecute
<1>6. \A u \in Tasks :
        (u # t \/ op = "nowait") /\ call[u].op \in WaitingOps => Pending(u)' = Pending(u)
  <2> SUFFICES ASSUME NEW u \in Tasks, u # t \/ op = "nowait", call[u].op \in WaitingOps
               PROVE  Pending(u)' = Pending(u)
    OBVIOUS
  <2>1. ~Executing(u, c) /\ ~Executing(u, c)'
    BY <1>1, <1>2, <1>4, WorkEq DEF Executing, NoWork, WaitingOps
  <2>2. \A d \in CPUs : d # c => (Executing(u, d)' <=> Executing(u, d))
    BY <1>1, <1>4 DEF Executing
  <2>3. QED
    BY <1>4, <1>5, <2>1, <2>2 DEF Pending
<1>7. ASSUME op # "nowait"
      PROVE  /\ call[t].op = op /\ op \in WaitingOps /\ Pending(t)' = Pending(t) \ {c}
             /\ nr_todo[t] = Cardinality(Pending(t)) + Cardinality(left[t])
             /\ nr_todo[t] # 0
             /\ nr_todo'[t] = Cardinality(Pending(t)') + Cardinality(left[t])
             /\ nr_todo'[t] \in Nat
  <2>1. call[t].op = op /\ op \in WaitingOps
    BY <1>2, <1>7 DEF Serves, WaitingOps
  <2>2. Executing(t, c) /\ ~Enqueued(t, c)
    BY <1>2, <2>1, Owned DEF IInv, Executing
  <2>3. \A d \in CPUs : d # c => (Executing(t, d)' <=> Executing(t, d))
    BY <1>1, <1>4 DEF Executing
  <2>4. c \in Pending(t) /\ c \notin Pending(t)'
    <3>1. l = "get" => ~Executing(t, c)'
      BY <1>1, <1>4, <2>1, WorkEq DEF Executing, NoWork, WaitingOps
    <3>2. QED
      BY <1>1, <1>4, <1>5, <2>2, <3>1 DEF Pending
  <2>5. Pending(t)' = Pending(t) \ {c}
    BY <1>4, <1>5, <2>3, <2>4 DEF Pending
  <2>6. nr_todo[t] = Cardinality(Pending(t)) + Cardinality(left[t])
    BY <2>1 DEF IInv, Todo
  <2>7. /\ IsFiniteSet(Pending(t)) /\ Cardinality(Pending(t)) \in Nat /\ Cardinality(left[t]) \in Nat
    <3>1. Pending(t) \subseteq CPUs /\ left[t] \subseteq CPUs
      BY DEF Pending, IInv, TypeOK, CallerTypes
    <3>2. QED
      BY <3>1, CpusFinite
  <2>8. /\ Cardinality(Pending(t) \ {c}) = Cardinality(Pending(t)) - 1
        /\ Cardinality(Pending(t) \ {c}) \in Nat
    BY <2>4, <2>7, FS_RemoveElement, FS_CardinalityType
  <2>9. QED
    BY <1>4, <1>7, <2>1, <2>5, <2>6, <2>7, <2>8
<1>8. TypeOK'
  <2>1. SharedTypes' /\ QueueTypes'
    BY <1>1 DEF IInv, TypeOK, SharedTypes, QueueTypes
  <2>2. nr_todo' \in [Tasks -> Nat]
    <3>1. CASE op = "nowait"
      BY <1>3, <3>1 DEF IInv, TypeOK, CallerTypes
    <3>2. CASE op # "nowait"
      <4>1. nr_todo[t] # 0 /\ nr_todo' = [nr_todo EXCEPT ![t] = @ - 1]
        BY <1>3, <1>7, <3>2
      <4>2. nr_todo[t] - 1 \in Nat
        BY <1>2, <4>1
      <4>3. QED
        BY <4>1, <4>2 DEF IInv, TypeOK, CallerTypes
    <3>3. QED
      BY <3>1, <3>2
  <2>3. CallerTypes'
    BY <1>1, <2>2 DEF IInv, TypeOK, CallerTypes
  <2>4. cur' \in [CPUs -> [op : {"one", "nowait", "two", "all"}, task : Tasks] \cup {NoWork}]
    BY <1>3 DEF IInv, TypeOK, StopperTypes
  <2>5. curstate' \in [CPUs -> NONE .. EXIT]
    BY <1>1 DEF IInv, TypeOK, StopperTypes, NONE, EXIT
  <2>6. StopperTypes'
    BY <1>1, <1>3, <2>4, <2>5 DEF IInv, TypeOK, StopperTypes, Idle
  <2>7. QED
    BY <2>1, <2>3, <2>6 DEF TypeOK
<1>9. (\A u \in Tasks : CallShape(u)') /\ Exclusive'
  BY <1>1 DEF IInv, CallShape, Exclusive
<1>10. QueuedWorks'
  <2>1. \A d \in CPUs : cur'[d] = cur[d] \/ cur'[d] = NoWork
    BY <1>2, <1>4
  <2>2. \A u, o : NoWork = Work(o, u) => o = "none"
    BY WorkEq DEF NoWork
  <2>3. NoWork.op = "none"
    BY WorkEq DEF NoWork
  <2>4. QED
    BY <1>1, <2>1, <2>2, <2>3 DEF IInv, QueuedWorks, Serves, ToExecute
<1>11. CurrentWork'
  <2> SUFFICES ASSUME NEW d \in CPUs
               PROVE  /\ spc'[d] \in Idle <=> cur'[d] = NoWork
                      /\ spc'[d] = "read" <=> fetched'[d] # NoWork
                      /\ spc'[d] = "fn" => cur'[d].op \in {"one", "nowait"}
                      /\ spc'[d] \in MultiPC => cur'[d].op \in MultiOps
                      /\ cur'[d].op \in WaitingOps =>
                           Serves(cur'[d].task, cur'[d].op, d) /\ completion[cur'[d].task].done = 0
    BY <1>1 DEF CurrentWork, Serves
  <2>1. CASE d # c
    BY <1>1, <1>4, <2>1 DEF IInv, CurrentWork
  <2>2. CASE d = c /\ l = "complete"
    BY <1>1, <1>2, <1>4, <2>2, WorkEq DEF IInv, CurrentWork, Idle, MultiPC, NoWork
  <2>3. CASE d = c /\ l = "get"
    BY <1>1, <1>4, <2>3, WorkEq DEF IInv, CurrentWork, Idle, MultiPC, NoWork, WaitingOps
  <2>4. QED
    BY <2>1, <2>2, <2>3
<1>12. Todo'
  <2>1. ASSUME NEW u \in Tasks, call[u].op \in WaitingOps
        PROVE  /\ nr_todo'[u] = Cardinality(Pending(u)') + Cardinality(left[u])
               /\ completion[u].done # 0 => nr_todo'[u] = 0
    <3>1. CASE u # t \/ op = "nowait"
      BY <1>4, <1>6, <2>1, <3>1 DEF IInv, Todo
    <3>2. CASE u = t /\ op # "nowait"
      BY <1>2, <1>7, <3>2
    <3>3. QED
      BY <3>1, <3>2
  <2>2. \A d \in CPUs : d # c /\ spc[d] = "complete" =>
          cur[d].op \in WaitingOps /\ nr_todo[cur[d].task] = 0 /\ cur[d].task \in Tasks
    BY CurIs DEF IInv, Todo, WaitingOps
  <2>3. \A d \in CPUs : d # c /\ spc[d] = "complete" /\ op # "nowait" => cur[d].task # t
    BY <1>7, <2>2
  <2>4. \A d \in CPUs : d # c /\ spc'[d] = "complete" =>
          /\ spc[d] = "complete" /\ cur'[d] = cur[d]
          /\ cur'[d].op \in WaitingOps /\ nr_todo'[cur'[d].task] = 0
    BY <1>4, <2>2, <2>3
  <2>5. spc'[c] = "complete" =>
          /\ cur'[c].op = op /\ cur'[c].task = t /\ op # "nowait" /\ op \in WaitingOps
          /\ nr_todo'[t] = 0
    BY <1>3, <1>4, WorkEq DEF WaitingOps
  <2>6. \A d, e \in CPUs : spc'[d] = "complete" /\ spc'[e] = "complete"
          /\ cur'[d].task = cur'[e].task => d = e
    BY <2>3, <2>4, <2>5 DEF IInv, Todo
  <2>7. QED
    BY <1>1, <2>1, <2>4, <2>5, <2>6 DEF Todo
<1>13. LocalState'
  BY <1>4 DEF IInv, LocalState, MultiPC
<1>14. MultiInv'
  BY <1>1, <1>4, PutMulti DEF MultiPC
<1>15. QED
  BY <1>8, <1>9, <1>10, <1>11, <1>12, <1>13, <1>14 DEF IInv

\* complete() comes when no other stopper uses the caller's stack any more.
LEMMA CompleteInv ==
  ASSUME IInv, NEW c \in CPUs, Complete(c)
  PROVE  IInv'
<1>1. /\ spc[c] = "complete" /\ cur' = [cur EXCEPT ![c] = NoWork]
      /\ spc' = [spc EXCEPT ![c] = "get"]
      /\ UNCHANGED <<online, hotplug, cpu, enabled, works, lock, stop_work, in_progress, mutex, pc, call,
                     left, nr_todo, msdata, wake_q, fetched, curstate, sstate>>
  BY DEF Complete, StopperGoto
<1>2. PICK t \in Tasks, op \in WaitingOps :
        /\ t = cur[c].task /\ cur[c] = Work(op, t)
        /\ call[t].op = op /\ Serves(t, op, c) /\ completion[t].done = 0 /\ nr_todo[t] = 0
  BY <1>1, CurIs DEF IInv, Todo, CurrentWork, Serves, WaitingOps
<1>3. /\ completion' = [completion EXCEPT ![t] = completed(completion[t])]
      /\ state' = [u \in Tasks |-> IF u \in woken_by_complete(completion[t])
                                   THEN wake_up_process(state[u]) ELSE state[u]]
  BY <1>2 DEF Complete
<1>4. /\ spc'[c] = "get" /\ cur'[c] = NoWork
      /\ \A d \in CPUs : d # c => spc'[d] = spc[d] /\ cur'[d] = cur[d]
      /\ \A u \in Tasks : u # t => completion'[u] = completion[u]
  BY <1>1, <1>3 DEF IInv, TypeOK, CallerTypes, StopperTypes
<1>5. TypeOK'
  <2>1. SharedTypes' /\ QueueTypes'
    BY <1>1 DEF IInv, TypeOK, SharedTypes, QueueTypes
  <2>2. completed(completion[t]) \in [done : Nat, wait : Seq(Tasks)]
    <3>1. completion[t].done \in Nat /\ completion[t].wait \in Seq(Tasks)
      BY DEF IInv, TypeOK, CallerTypes
    <3>2. completion[t].wait # <<>> => Tail(completion[t].wait) \in Seq(Tasks)
      BY <3>1
    <3>3. QED
      BY <3>1, <3>2 DEF completed, list_empty
  <2>3. completion' \in [Tasks -> [done : Nat, wait : Seq(Tasks)]]
    BY <1>3, <2>2 DEF IInv, TypeOK, CallerTypes
  <2>4. state' \in [Tasks -> TaskStates]
    BY <1>3, WakeTypes DEF IInv, TypeOK, CallerTypes
  <2>5. CallerTypes'
    BY <1>1, <2>3, <2>4 DEF IInv, TypeOK, CallerTypes
  <2>6. StopperTypes'
    BY <1>1 DEF IInv, TypeOK, StopperTypes, Idle
  <2>7. QED
    BY <2>1, <2>5, <2>6 DEF TypeOK
<1>6. Pending(t) = {}
  <2>1. /\ Pending(t) \subseteq CPUs /\ left[t] \subseteq CPUs
        /\ nr_todo[t] = Cardinality(Pending(t)) + Cardinality(left[t])
    BY <1>2 DEF Pending, IInv, TypeOK, CallerTypes, Todo
  <2>2. Cardinality(Pending(t)) \in Nat /\ Cardinality(left[t]) \in Nat /\ IsFiniteSet(Pending(t))
    BY <2>1, CpusFinite
  <2>3. Cardinality(Pending(t)) = 0
    BY <1>2, <2>1, <2>2
  <2>4. QED
    BY <2>2, <2>3, FS_EmptySet
<1>7. \A d \in CPUs : d # c /\ cur[d].op \in WaitingOps => cur[d].task \in Tasks \ {t}
  <2> SUFFICES ASSUME NEW d \in CPUs, d # c, cur[d].op \in WaitingOps, cur[d].task = t PROVE FALSE
    BY CurIs DEF IInv, WaitingOps
  <2>1. cur[d] = Work(cur[d].op, t) /\ call[t].op = cur[d].op
    BY CurIs DEF IInv, CurrentWork, Serves, WaitingOps
  <2>2. spc[d] # "complete"
    BY <1>1, <1>2 DEF IInv, Todo
  <2>3. d \in Pending(t)
    BY <2>1, <2>2 DEF Pending, Executing
  <2>4. QED
    BY <1>6, <2>3
<1>8. \A u \in Tasks : call[u].op \in WaitingOps => Pending(u)' = Pending(u)
  <2> SUFFICES ASSUME NEW u \in Tasks, call[u].op \in WaitingOps PROVE Pending(u)' = Pending(u)
    OBVIOUS
  <2>1. \A d \in CPUs : Enqueued(u, d)' <=> Enqueued(u, d)
    BY <1>1 DEF Enqueued, ToExecute
  <2>2. \A d \in CPUs : d # c => (Executing(u, d)' <=> Executing(u, d))
    BY <1>1, <1>4 DEF Executing
  <2>3. ~Executing(u, c)'
    BY <1>1, <1>4, WorkEq DEF Executing, NoWork, WaitingOps
  <2>4. QED
    BY <1>1, <1>4, <2>1, <2>2, <2>3 DEF Pending
<1>9. (\A u \in Tasks : CallShape(u)') /\ Exclusive'
  BY <1>1 DEF IInv, CallShape, Exclusive
<1>10. QueuedWorks'
  <2>1. \A d \in CPUs : cur'[d] = cur[d] \/ cur'[d] = NoWork
    BY <1>4
  <2>2. \A u, o : NoWork = Work(o, u) => o = "none"
    BY WorkEq DEF NoWork
  <2>3. NoWork.op = "none"
    BY WorkEq DEF NoWork
  <2>4. QED
    BY <1>1, <2>1, <2>2, <2>3 DEF IInv, QueuedWorks, Serves, ToExecute
<1>11. CurrentWork'
  <2> SUFFICES ASSUME NEW d \in CPUs
               PROVE  /\ spc'[d] \in Idle <=> cur'[d] = NoWork
                      /\ spc'[d] = "read" <=> fetched'[d] # NoWork
                      /\ spc'[d] = "fn" => cur'[d].op \in {"one", "nowait"}
                      /\ spc'[d] \in MultiPC => cur'[d].op \in MultiOps
                      /\ cur'[d].op \in WaitingOps =>
                           Serves(cur'[d].task, cur'[d].op, d) /\ completion'[cur'[d].task].done = 0
    BY <1>1 DEF CurrentWork, Serves
  <2>1. CASE d # c
    BY <1>1, <1>4, <1>7, <2>1 DEF IInv, CurrentWork
  <2>2. CASE d = c
    BY <1>1, <1>4, <2>2, WorkEq DEF IInv, CurrentWork, Idle, MultiPC, NoWork, WaitingOps
  <2>3. QED
    BY <2>1, <2>2
<1>12. Todo'
  <2>1. \A u \in Tasks : call[u].op \in WaitingOps =>
          /\ nr_todo[u] = Cardinality(Pending(u)') + Cardinality(left[u])
          /\ completion'[u].done # 0 => nr_todo[u] = 0
    BY <1>2, <1>4, <1>8 DEF IInv, Todo
  <2>2. \A d \in CPUs : spc'[d] = "complete" => spc[d] = "complete" /\ cur'[d] = cur[d]
    BY <1>4
  <2>3. QED
    BY <1>1, <2>1, <2>2 DEF IInv, Todo
<1>13. LocalState'
  BY <1>1, <1>4 DEF IInv, LocalState, MultiPC
<1>14. MultiInv'
  BY <1>1, <1>4, PutMulti DEF MultiPC
<1>15. QED
  BY <1>5, <1>9, <1>10, <1>11, <1>12, <1>13, <1>14 DEF IInv

-----------------------------------------------------------------------------
(* Bringing up a CPU                                                        *)

\* A CPU comes up while no stop_machine() is under way; its stopper may be given
\* works before it is unparked.
LEMMA BringUpInv ==
  ASSUME IInv, (\E c \in CPUs : CpuUp(c)) \/ Unpark
  PROVE  IInv'
<1>1. /\ UNCHANGED <<works, lock, stop_work, in_progress, mutex, callers, spc, fetched, cur, curstate>>
      /\ online \subseteq online'
  BY DEF CpuUp, Unpark, stoppers
<1>2. TypeOK'
  <2>1. SharedTypes'
    <3>1. CASE \E c \in CPUs : CpuUp(c)
      BY <3>1 DEF CpuUp, IInv, TypeOK, SharedTypes
    <3>2. CASE Unpark
      BY <3>2 DEF Unpark, IInv, TypeOK, SharedTypes
    <3>3. QED
      BY <3>1, <3>2
  <2>2. QueueTypes'
    BY <1>1 DEF IInv, TypeOK, QueueTypes
  <2>3. CallerTypes'
    BY <1>1 DEF IInv, TypeOK, CallerTypes, callers
  <2>4. sstate' \in [CPUs -> {TASK_RUNNING, TASK_INTERRUPTIBLE, TASK_PARKED}]
    BY WakeTypes DEF CpuUp, Unpark, stoppers, IInv, TypeOK, StopperTypes
  <2>5. StopperTypes'
    BY <1>1, <2>4 DEF IInv, TypeOK, StopperTypes
  <2>6. QED
    BY <2>1, <2>2, <2>3, <2>5 DEF TypeOK
<1>3. Exclusive'
  <2>1. CASE \E c \in CPUs : CpuUp(c)
    <3>1. PICK c \in CPUs : /\ hotplug = None /\ hotplug' = c /\ online' = online \cup {c}
                            /\ enabled' = enabled /\ call' = call
                            /\ \A t \in Tasks : call[t].op # "all"
      BY <2>1 DEF CpuUp, callers
    <3>2. \A d \in online : enabled[d]
      BY <3>1, StopMachineAssumption DEF IInv, TypeOK, SharedTypes, Exclusive
    <3>3. QED
      BY <3>1, <3>2 DEF IInv, Exclusive
  <2>2. CASE Unpark
    BY <2>2 DEF Unpark, callers, IInv, TypeOK, SharedTypes, Exclusive
  <2>3. QED
    BY <2>1, <2>2
<1>4. (\A u \in Tasks : CallShape(u)') /\ QueuedWorks' /\ CurrentWork' /\ LocalState'
  BY <1>1 DEF callers, IInv, CallShape, QueuedWorks, CurrentWork, LocalState, Serves, ToExecute
<1>5. Todo'
  BY <1>1 DEF callers, IInv, Todo, Pending, Enqueued, Executing, ToExecute
<1>6. MultiInv'
  BY <1>1, KeepMulti DEF callers
<1>7. QED
  BY <1>2, <1>3, <1>4, <1>5, <1>6 DEF IInv

-----------------------------------------------------------------------------
(* The theorems                                                             *)

LEMMA NextInv ==
  ASSUME IInv, [Next]_vars
  PROVE  IInv'
<1>1. ASSUME NEW t \in Tasks, Call(t) \/ TaskStep(t) PROVE IInv'
  BY <1>1, CallInv, LockMutexInv, MoveInv, QueueWorkInv, WakeUpQInv, TwoQueueInv, WaitInv
  DEF TaskStep
<1>2. ASSUME NEW c \in CPUs, StopperStep(c) PROVE IInv'
  BY <1>2, IdleInv, GetWorkInv, ReadWorkInv, RunFnInv, MultiCpuStopInv, AckStateInv, SetStateInv,
     SignalDoneInv, CompleteInv DEF StopperStep
<1>3. ASSUME cpu' \in [Tasks -> CPUs],
             UNCHANGED <<online, hotplug, enabled, works, lock, stop_work, in_progress, mutex,
                         callers, stoppers>>
      PROVE  IInv'
  <2> USE <1>3 DEF callers, stoppers
  <2>1. TypeOK'
    BY DEF IInv, TypeOK, SharedTypes, QueueTypes, CallerTypes, StopperTypes
  <2>2. (\A u \in Tasks : CallShape(u)') /\ QueuedWorks' /\ CurrentWork' /\ LocalState' /\ Exclusive'
    BY DEF IInv, CallShape, QueuedWorks, CurrentWork, LocalState, Serves, Exclusive, ToExecute
  <2>3. Todo'
    BY DEF IInv, Todo, Pending, Enqueued, Executing, ToExecute
  <2>4. MultiInv'
    BY KeepMulti
  <2>5. QED
    BY <2>1, <2>2, <2>3, <2>4 DEF IInv
<1>4. ASSUME NEW t \in Tasks, NEW c \in CPUs, Migrate(t, c) PROVE IInv'
  <2>1. cpu' \in [Tasks -> CPUs]
    BY <1>4 DEF Migrate, IInv, TypeOK, SharedTypes
  <2>2. QED
    BY <1>3, <1>4, <2>1 DEF Migrate
<1>5. ASSUME UNCHANGED vars PROVE IInv'
  <2>1. cpu' \in [Tasks -> CPUs]
    BY <1>5 DEF vars, IInv, TypeOK, SharedTypes
  <2>2. QED
    BY <1>3, <1>5, <2>1 DEF vars
<1>6. QED
  BY <1>1, <1>2, <1>4, <1>5, BringUpInv DEF Next

\* The invariant holds in every state the callers and the stoppers can reach.
THEOREM AlwaysIInv == Spec => []IInv
<1>1. IInv /\ [Next]_vars => IInv'
  BY NextInv
<1>2. QED
  BY <1>1, InitInv, PTL DEF Spec

\* Every variable keeps to the values that its C type and the comments of
\* kernel/stop_machine.c give it.
THEOREM TypeCorrect == Spec => []TypeOK
<1>1. IInv => TypeOK
  BY DEF IInv
<1>2. QED
  BY <1>1, AlwaysIInv, PTL

\* done and msdata on the stack of a caller of stop_one_cpu(), stop_two_cpus() and
\* stop_machine() are used only while the call lasts, nr_todo counts the works that
\* have not signalled, and a static work is not queued while it is in use.
THEOREM StacksInUse == Spec => []DoneInUse
<1>1. ASSUME IInv PROVE DoneInUse
  <2>1. \A c \in CPUs : cur[c].op \notin {"none", "nowait"} => cur[c].op \in WaitingOps
    BY <1>1, WorkEq DEF IInv, TypeOK, StopperTypes, WaitingOps, NoWork
  <2>2. \A c \in CPUs : cur[c].op \notin {"none", "nowait"} => call[cur[c].task].op = cur[c].op
    BY <1>1, <2>1 DEF IInv, CurrentWork, Serves
  <2>3. QED
    BY <1>1, <2>2 DEF DoneInUse, IInv, Todo, QueuedWorks, WaitingOps
<1>2. QED
  BY <1>1, AlwaysIInv, PTL

\* While multi_cpu_stop() runs the function, every CPU that it is to stop is there
\* with its interrupts disabled.
THEOREM InLockstep == Spec => []Lockstep
<1>1. ASSUME IInv PROVE Lockstep
  <2> SUFFICES ASSUME NEW c \in CPUs, spc[c] = "run", NEW d \in call[cur[c].task].cpus
               PROVE  cur[d] = cur[c] /\ spc[d] \in MultiPC /\ curstate[d] >= DISABLE_IRQ
    BY DEF Lockstep
  <2>1. PICK t \in Tasks :
          /\ t = cur[c].task /\ Together(t) /\ InMulti(t, c)
          /\ msdata[t].state \in PREPARE .. EXIT /\ call[t].cpus \subseteq CPUs
    BY <1>1, MultiOf DEF MultiPC
  <2>2. msdata[t].state = RUN
    BY <1>1, <2>1 DEF IInv, LocalState, Together
  <2>3. InMulti(t, d) /\ curstate[d] \in {RUN - 1, RUN}
    BY <2>1, <2>2 DEF Together
  <2>4. curstate[d] >= DISABLE_IRQ
    BY <2>3 DEF RUN, DISABLE_IRQ
  <2>5. QED
    BY <2>1, <2>3, <2>4 DEF InMulti, Executing
<1>2. QED
  BY <1>1, AlwaysIInv, PTL
=============================================================================
