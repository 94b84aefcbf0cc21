---------------------------- MODULE PercpuRwsem ----------------------------
(***************************************************************************)
(* The per-CPU reader-writer semaphore: kernel/locking/percpu-rwsem.c and  *)
(* include/linux/percpu-rwsem.h, on top of rcu_sync: the readers and       *)
(* updaters of module RcuSync are the tasks that read and write, and each  *)
(* of its actions is a conjunct of one here.                               *)
(*                                                                         *)
(* Every access to block, to a CPU's read_count and to the rcuwait pointer *)
(* is one action; the list sem->waiters changes under waiters.lock only.   *)
(* A program counter is a pair: the function and the step in it.           *)
(***************************************************************************)
EXTENDS RcuSync, WaitList

CONSTANTS
  NR_CPUS,
  Modulus,  \* of the unsigned int read_count: 2^32
  None

CPUs == 1 .. NR_CPUS
Tasks == Readers \cup Updaters

ASSUME PercpuAssumption ==
  /\ Readers \cap Updaters = {}
  /\ NR_CPUS \in Nat \ {0}
  \* A sum counts those who hold the semaphore and, on each CPU, at most one
  \* more who is about to take back its increment.
  /\ Modulus \in Nat /\ Cardinality(Readers) + NR_CPUS < Modulus
  /\ None \notin Tasks \cup CPUs

VARIABLES
  block,         \* sem->block
  read_count,    \* *sem->read_count of each CPU
  waiters,       \* the tasks whose entry is on sem->waiters
  waiters_lock,  \* the holder of sem->waiters.lock
  writer,        \* sem->writer.task
  private,       \* wq_entry.private # NULL, the entry on the task's stack
  awake,         \* the task's state is TASK_RUNNING
  pc,            \* where each task is
  cpu,           \* the CPU of a task that runs with preemption disabled
  sum, next_cpu, \* the locals of per_cpu_sum(), of the one writer that owns block
  p              \* the local variable p of percpu_rwsem_wake_function()

countVars == <<block, read_count>>
listVars == <<waiters, waiters_lock, private, p>>
waitVars == <<writer, awake>>
sumVars == <<sum, next_cpu>>
semVars == <<countVars, listVars, waitVars, sumVars>>
vars == <<syncVars, semVars, pc, cpu>>

Out == <<"out", "">>
Held == <<"held", "">>

Steps ==
  {Out, Held}
    \cup {"down", "try", "queue", "wake"} \X {"begin", "chk", "dec", "prod", "ok", "fail"}
    \cup {"up"} \X {"begin", "prod", "done"}
    \cup {"queue", "wake"} \X {"lock"}
    \cup {"sleep"} \X {"set", "test", "sched"}
    \cup {"write"} \X {"enter", "prepare", "set", "sum", "sched"}
    \cup {"wake"} \X {"wakeup", "exit"}

TypeOK ==
  /\ SyncTypeOK
  /\ block \in BOOLEAN
  /\ read_count \in [CPUs -> 0 .. Modulus - 1]
  /\ waiters \in Seq(Tasks)
  /\ waiters_lock \in Tasks \cup {None}
  /\ writer \in Updaters \cup {None}
  /\ private \in [Tasks -> BOOLEAN]
  /\ awake \in [Tasks -> BOOLEAN]
  /\ pc \in [Tasks -> Steps]
  /\ cpu \in [Tasks -> CPUs \cup {None}]
  /\ sum \in 0 .. Modulus - 1
  /\ next_cpu \in 1 .. NR_CPUS + 1
  /\ p \in Tasks \cup {None}

Init ==
  /\ SyncInit
  /\ block = FALSE
  /\ read_count = [c \in CPUs |-> 0]
  /\ waiters = <<>>
  /\ waiters_lock = None
  /\ writer = None
  /\ private = [t \in Tasks |-> FALSE]
  /\ awake = [t \in Tasks |-> TRUE]
  /\ pc = [t \in Tasks |-> Out]
  /\ cpu = [t \in Tasks |-> None]
  /\ sum = 0
  /\ next_cpu = 1
  /\ p = None

Goto(t, to) == pc' = [pc EXCEPT ![t] = to]
In(t, f) == pc[t][1] = f

\* preempt_disable(), on whichever CPU the task runs, and preempt_enable().
preempt_disable(t) ==
  \E c \in CPUs : (\A u \in Tasks : cpu[u] # c) /\ cpu' = [cpu EXCEPT ![t] = c]
preempt_enable(t) == cpu' = [cpu EXCEPT ![t] = None]

add(x, n) == (x + n) % Modulus
this_cpu_inc(t) == read_count' = [read_count EXCEPT ![cpu[t]] = add(@, 1)]
this_cpu_dec(t) == read_count' = [read_count EXCEPT ![cpu[t]] = add(@, Modulus - 1)]

\* rcuwait_wake_up(&sem->writer)
no_prod == UNCHANGED awake
prod == awake' = [t \in Tasks |-> awake[t] \/ t = writer]

-----------------------------------------------------------------------------
(* __percpu_down_read_trylock(): by a reader before it queues and under     *)
(* waiters.lock, and by the wake function on behalf of the first waiter.    *)

TryInc(t) ==
  /\ \/ pc[t] \in {<<"down", "begin">>, <<"try", "begin">>} /\ rpc[t] = "slow"
     \/ pc[t] = <<"queue", "begin">> /\ t \in Readers
     \/ pc[t] = <<"wake", "begin">> /\ waiters # <<>> /\ Head(waiters) \in Readers
  /\ this_cpu_inc(t)
  /\ Goto(t, <<pc[t][1], "chk">>)
  /\ UNCHANGED <<syncVars, block, listVars, waitVars, sumVars, cpu>>

not_tested == TRUE
readers_allowed == ~block

TryCheck(t) ==
  /\ pc[t][2] = "chk"
  /\ Goto(t, <<pc[t][1], IF readers_allowed THEN "ok" ELSE "dec">>)
  /\ UNCHANGED <<syncVars, semVars, cpu>>

TryDec(t) ==
  /\ pc[t][2] = "dec"
  /\ this_cpu_dec(t)
  /\ Goto(t, <<pc[t][1], "prod">>)
  /\ UNCHANGED <<syncVars, block, listVars, waitVars, sumVars, cpu>>

\* Prod the writer to look at the counters again; also in percpu_up_read().
Prod(t) ==
  /\ pc[t][2] = "prod"
  /\ prod
  /\ Goto(t, <<pc[t][1], IF In(t, "up") THEN "done" ELSE "fail">>)
  /\ UNCHANGED <<syncVars, countVars, listVars, writer, sumVars, cpu>>

TryStep(t) == TryInc(t) \/ TryCheck(t) \/ TryDec(t) \/ Prod(t)

-----------------------------------------------------------------------------
(* Readers: percpu_down_read(), percpu_down_read_trylock(), percpu_up_read() *)

DownRead(r) ==
  /\ pc[r] = Out
  /\ SectionBegin(r)
  /\ preempt_disable(r)
  /\ \E f \in {"down", "try"} : Goto(r, <<f, "begin">>)
  /\ UNCHANGED semVars

IsIdle(r) == ReadIdle(r) /\ UNCHANGED <<semVars, pc, cpu>>

FastInc(r) ==
  /\ pc[r] \in {<<"down", "begin">>, <<"try", "begin">>}
  /\ rpc[r] = "fast"
  /\ this_cpu_inc(r)
  /\ Goto(r, <<pc[r][1], "ok">>)
  /\ UNCHANGED <<syncVars, block, listVars, waitVars, sumVars, cpu>>

\* preempt_enable(), with the semaphore, without it, or to wait for it.
DownReadEnd(r) ==
  /\ \/ pc[r] \in {<<"down", "ok">>, <<"try", "ok">>} /\ Goto(r, Held)
     \/ pc[r] = <<"try", "fail">> /\ Goto(r, Out)
     \/ pc[r] = <<"down", "fail">> /\ Goto(r, <<"queue", "lock">>)
  /\ SectionEnd(r)
  /\ preempt_enable(r)
  /\ UNCHANGED semVars

UpRead(r) ==
  /\ pc[r] = Held
  /\ SectionBegin(r)
  /\ preempt_disable(r)
  /\ Goto(r, <<"up", "begin">>)
  /\ UNCHANGED semVars

UpReadDec(r) ==
  /\ pc[r] = <<"up", "begin">>
  /\ rpc[r] # "section"
  /\ this_cpu_dec(r)
  /\ Goto(r, <<"up", IF rpc[r] = "fast" THEN "done" ELSE "prod">>)
  /\ UNCHANGED <<syncVars, block, listVars, waitVars, sumVars, cpu>>

UpReadEnd(r) ==
  /\ pc[r] = <<"up", "done">>
  /\ Goto(r, Out)
  /\ SectionEnd(r)
  /\ preempt_enable(r)
  /\ UNCHANGED semVars

-----------------------------------------------------------------------------
(* percpu_rwsem_wait()                                                      *)

\* spin_lock_irq(&sem->waiters.lock), also of __wake_up().
WaitersLock(t) ==
  /\ pc[t][2] = "lock"
  /\ waiters_lock = None
  /\ waiters_lock' = t
  /\ preempt_disable(t)
  /\ Goto(t, <<pc[t][1], "begin">>)
  /\ UNCHANGED <<syncVars, countVars, waiters, private, p, waitVars, sumVars>>

\* __percpu_down_write_trylock(): the read and the exchange decide alike.
no_xchg == ~block /\ block' = block
down_write_trylock == ~block /\ block' = TRUE

WaitWriteTrylock(u) ==
  /\ u \in Updaters
  /\ pc[u] = <<"queue", "begin">>
  /\ \/ down_write_trylock /\ Goto(u, <<"queue", "ok">>)
     \/ block /\ UNCHANGED block /\ Goto(u, <<"queue", "fail">>)
  /\ UNCHANGED <<syncVars, read_count, listVars, waitVars, sumVars, cpu>>

\* What a task does once it has the semaphore (a writer: the block).
Owned(t) == IF t \in Readers THEN Held ELSE <<"write", "prepare">>

WaitUnlock(t) ==
  /\ \/ /\ pc[t] = <<"queue", "ok">>
        /\ Goto(t, Owned(t))
        /\ UNCHANGED <<waiters, private>>
     \/ /\ pc[t] = <<"queue", "fail">>
        /\ waiters' = list_add_tail(waiters, t)
        /\ private' = [private EXCEPT ![t] = TRUE]
        /\ Goto(t, <<"sleep", "set">>)
  /\ waiters_lock' = None
  /\ preempt_enable(t)
  /\ UNCHANGED <<syncVars, countVars, p, waitVars, sumVars>>

\* set_current_state(TASK_UNINTERRUPTIBLE)
SleepSet(t) ==
  /\ pc[t] = <<"sleep", "set">>
  /\ awake' = [awake EXCEPT ![t] = FALSE]
  /\ Goto(t, <<"sleep", "test">>)
  /\ UNCHANGED <<syncVars, countVars, listVars, writer, sumVars, cpu>>

SleepTest(t) ==
  /\ pc[t] = <<"sleep", "test">>
  /\ \/ private[t] /\ Goto(t, <<"sleep", "sched">>) /\ UNCHANGED awake
     \/ ~private[t] /\ Goto(t, Owned(t)) /\ awake' = [awake EXCEPT ![t] = TRUE]
  /\ UNCHANGED <<syncVars, countVars, listVars, writer, sumVars, cpu>>

\* schedule() returns to the two loops that sleep.
Woken(t) ==
  /\ pc[t][2] = "sched"
  /\ awake[t]
  /\ Goto(t, <<pc[t][1], "set">>)
  /\ UNCHANGED <<syncVars, semVars, cpu>>

WaitStep(t) ==
  WaitWriteTrylock(t) \/ WaitUnlock(t) \/ SleepSet(t) \/ SleepTest(t) \/ Woken(t)

-----------------------------------------------------------------------------
(* percpu_down_write()                                                      *)

DownWrite(u) ==
  /\ pc[u] = Out
  /\ Enter(u)
  /\ Goto(u, <<"write", "enter">>)
  /\ UNCHANGED <<semVars, cpu>>

\* rcu_sync_enter()
SyncEnter(u) == EnterStep(u) /\ UNCHANGED <<semVars, pc, cpu>>

WriteTrylock(u) ==
  /\ pc[u] = <<"write", "enter">>
  /\ upc[u] = "entered"
  /\ \/ down_write_trylock /\ Goto(u, <<"write", "prepare">>)
     \/ block /\ UNCHANGED block /\ Goto(u, <<"queue", "lock">>)
  /\ UNCHANGED <<syncVars, read_count, listVars, waitVars, sumVars, cpu>>

\* rcuwait_wait_event()
PrepareToRcuwait(u) ==
  /\ pc[u] = <<"write", "prepare">>
  /\ writer' = u
  /\ Goto(u, <<"write", "set">>)
  /\ UNCHANGED <<syncVars, countVars, listVars, awake, sumVars, cpu>>

RcuwaitSet(u) ==
  /\ pc[u] = <<"write", "set">>
  /\ awake' = [awake EXCEPT ![u] = FALSE]
  /\ sum' = 0
  /\ next_cpu' = 1
  /\ Goto(u, <<"write", "sum">>)
  /\ UNCHANGED <<syncVars, countVars, listVars, writer, cpu>>

\* readers_active_check(), one CPU at a time.
cpus_left == next_cpu <= NR_CPUS

SumCpu(u) ==
  /\ pc[u] = <<"write", "sum">>
  /\ cpus_left
  /\ sum' = add(sum, read_count[next_cpu])
  /\ next_cpu' = next_cpu + 1
  /\ UNCHANGED <<syncVars, countVars, listVars, waitVars, pc, cpu>>

RcuwaitCheck(u) ==
  /\ pc[u] = <<"write", "sum">>
  /\ ~cpus_left
  /\ \/ /\ sum = 0
        /\ writer' = None
        /\ awake' = [awake EXCEPT ![u] = TRUE]
        /\ Goto(u, Held)
     \/ /\ sum # 0
        /\ Goto(u, <<"write", "sched">>)
        /\ UNCHANGED waitVars
  /\ sum' = 0
  /\ next_cpu' = 1
  /\ UNCHANGED <<syncVars, countVars, listVars, cpu>>

-----------------------------------------------------------------------------
(* percpu_up_write()                                                        *)

UpWrite(u) ==
  /\ u \in Updaters
  /\ pc[u] = Held
  /\ block' = FALSE
  /\ Goto(u, <<"wake", "lock">>)
  /\ UNCHANGED <<syncVars, read_count, listVars, waitVars, sumVars, cpu>>

\* percpu_rwsem_wake_function() for a writer, or the end of the list.
WakeWriteTrylock(u) ==
  /\ pc[u] = <<"wake", "begin">>
  /\ \/ waiters = <<>> /\ UNCHANGED block /\ Goto(u, <<"wake", "fail">>)
     \/ /\ waiters # <<>>
        /\ Head(waiters) \in Updaters
        /\ \/ down_write_trylock /\ Goto(u, <<"wake", "ok">>)
           \/ block /\ UNCHANGED block /\ Goto(u, <<"wake", "fail">>)
  /\ UNCHANGED <<syncVars, read_count, listVars, waitVars, sumVars, cpu>>

WakeGrant(u) ==
  /\ pc[u] = <<"wake", "ok">>
  /\ p' = Head(waiters)
  /\ waiters' = Tail(waiters)
  /\ private' = [private EXCEPT ![Head(waiters)] = FALSE]
  /\ Goto(u, <<"wake", "wakeup">>)
  /\ UNCHANGED <<syncVars, countVars, waiters_lock, waitVars, sumVars, cpu>>

\* "wake (readers until) 1 writer"
wake_one == "fail"
wake_next == IF p \in Readers THEN "begin" ELSE "fail"

WakeProcess(u) ==
  /\ pc[u] = <<"wake", "wakeup">>
  /\ awake' = [awake EXCEPT ![p] = TRUE]
  /\ p' = None
  /\ Goto(u, <<"wake", wake_next>>)
  /\ UNCHANGED <<syncVars, countVars, waiters, waiters_lock, private, writer, sumVars, cpu>>

WakeUnlock(u) ==
  /\ pc[u] = <<"wake", "fail">>
  /\ waiters_lock' = None
  /\ preempt_enable(u)
  /\ Goto(u, <<"wake", "exit">>)
  /\ UNCHANGED <<syncVars, countVars, waiters, private, p, waitVars, sumVars>>

SyncExit(u) ==
  /\ pc[u] = <<"wake", "exit">>
  /\ Exit(u)
  /\ Goto(u, Out)
  /\ UNCHANGED <<semVars, cpu>>

-----------------------------------------------------------------------------

SyncCallback == Callback /\ UNCHANGED <<semVars, pc, cpu>>

\* percpu_free_rwsem(), and the memory in use for a new semaphore.
FreeRwsem ==
  /\ \A t \in Tasks : pc[t] = Out
  /\ Dtor
  /\ UNCHANGED <<semVars, pc, cpu>>
FreeRwsemEnd == Barrier /\ UNCHANGED <<semVars, pc, cpu>>
InitRwsem ==
  /\ Reinit
  /\ read_count' = [c \in CPUs |-> 0]
  /\ UNCHANGED <<block, listVars, waitVars, sumVars, pc, cpu>>

-----------------------------------------------------------------------------

ReaderStep(r) ==
  IsIdle(r) \/ FastInc(r) \/ DownReadEnd(r) \/ UpReadDec(r) \/ UpReadEnd(r)
WriterStep(u) ==
  \/ SyncEnter(u) \/ WriteTrylock(u) \/ PrepareToRcuwait(u) \/ RcuwaitSet(u)
  \/ SumCpu(u) \/ RcuwaitCheck(u)
  \/ WakeWriteTrylock(u) \/ WakeGrant(u) \/ WakeProcess(u) \/ WakeUnlock(u) \/ SyncExit(u)
TaskStep(t) == TryStep(t) \/ WaitStep(t)

Next ==
  \/ \E r \in Readers : DownRead(r) \/ UpRead(r) \/ ReaderStep(r)
  \/ \E u \in Updaters : DownWrite(u) \/ UpWrite(u) \/ WriterStep(u)
  \/ \E t \in Tasks : WaitersLock(t) \/ TaskStep(t)
  \/ SyncCallback \/ FreeRwsem \/ FreeRwsemEnd \/ InitRwsem

\* Tasks run on, who holds the semaphore releases it, RCU invokes its callback;
\* a CPU is given to every task, and waiters.lock is a queued spinlock, which
\* starves nobody.
Fairness ==
  /\ \A r \in Readers : WF_vars(ReaderStep(r)) /\ SF_vars(UpRead(r))
  /\ \A u \in Updaters : WF_vars(WriterStep(u)) /\ WF_vars(UpWrite(u))
  /\ \A t \in Tasks : WF_vars(TaskStep(t)) /\ SF_vars(WaitersLock(t))
  /\ WF_vars(SyncCallback)

Spec == Init /\ [][Next]_vars
FairSpec == Spec /\ Fairness

-----------------------------------------------------------------------------
(* Properties                                                               *)

Granted == {t \in Tasks : In(t, "sleep") /\ ~private[t]}

\* The task on whose behalf a wake function has just taken the semaphore.
Taken == {t \in Tasks : /\ waiters # <<>> /\ t = Head(waiters)
                        /\ \E u \in Tasks : pc[u] = <<"wake", "ok">>}

\* Who holds the semaphore, from the step that counts.
Reading == {r \in Readers : \/ pc[r] = Held
                            \/ pc[r] \in {"down", "try", "queue"} \X {"ok"}
                            \/ pc[r] = <<"up", "begin">>
                            \/ r \in Granted \cup Taken}
Writing == {u \in Updaters : pc[u] = Held}

\* Fast readers, slow readers, readers woken in the queue and writers that stop
\* the fast path, take block and sum the counters of CPUs they are not on
\* together keep the promise of a reader-writer lock.
RwLock == INSTANCE AbstractRwLock WITH readers <- Reading, writers <- Writing
LockSpec == RwLock!Spec

\* "This provides writer-writer exclusion": block is set exactly while one
\* writer owns it, from its own trylock or from a wake function's on its behalf.
BlockOwned ==
  LET owners == {u \in Updaters : \/ pc[u] = Held
                                  \/ In(u, "write") /\ pc[u][2] # "enter"
                                  \/ pc[u] = <<"queue", "ok">>
                                  \/ u \in Granted \cup Taken}
  IN IF block THEN \E u \in owners : owners = {u} ELSE owners = {}

\* "If we fail the trylock, the wakeup must see us on the list": who is queued
\* while no writer owns block is going to be found by a wakeup under way.
NoLostWakeup ==
  waiters # <<>> /\ ~block =>
    \E u \in Updaters : In(u, "wake") /\ pc[u] \notin {<<"wake", "fail">>, <<"wake", "exit">>}

\* Once new calls stop, every reader and every writer gets the semaphore.  (A
\* writer that keeps coming may steal block from the queue, and a reader that
\* keeps trying may keep the sum from being zero.)
CallsReturn ==
  <>[][\A t \in Tasks : pc[t] = Out => pc'[t] = Out]_vars =>
    \A t \in Tasks : pc[t] # Out ~> pc[t] = Out
=============================================================================
