# The synchronization core of the kernel, in TLA+

The repository is Linux 5.10.213 reduced to the files that one arm64
configuration builds (`build.sh`, `rm_unused_c_file.sh`), meant for reading the
kernel. Most of it is drivers, file systems, networking and architecture code.
This project specifies the part everything else stands on and that is hardest
to test: the **locks** of `kernel/locking/`, the primitives they are built from,
the grace-period state machine of `kernel/rcu/sync.c`, and `kernel/stop_machine.c`,
which stops CPUs where no lock is strong enough.

The configuration decides which code is modelled: `SMP`, `PREEMPT`,
`MUTEX_SPIN_ON_OWNER`, `QUEUED_SPINLOCKS` with an 8-bit pending field,
`QUEUED_RWLOCKS`, `PREEMPT_RCU`, and neither lockdep nor `DEBUG_MUTEXES` nor the
paravirtual spinlock.

## 1. Inventory

### Parts, state and operations

| Part | Source | State | Operations | Module |
|---|---|---|---|---|
| counting semaphore | `kernel/locking/semaphore.c` | count, FIFO of waiters, a grant flag per waiter | down and its interruptible, killable, timeout and trylock variants, up | `Semaphore` |
| mutex | `kernel/locking/mutex.c` | owner word (task and three flags), FIFO of waiters, spin queue | lock in three sleep modes, trylock, unlock | `Mutex` |
| optimistic spin queue | `kernel/locking/osq_lock.c` | tail, one node per CPU | lock (may give up), unlock | `OsqLock` |
| queued spinlock | `kernel/locking/qspinlock.c` | lock word (locked, pending, tail), up to four nodes per CPU | lock, trylock, unlock, from nested contexts | `QSpinLock` |
| queued reader-writer lock | `kernel/locking/qrwlock.c` | readers, waiting and locked in one word, a queued spinlock | read and write lock, trylock, unlock | `QRwLock` |
| rcu_sync | `kernel/rcu/sync.c` | five-state machine, count, waiters, one RCU callback | enter, exit, callback, destructor | `RcuSync` |
| per-CPU reader-writer semaphore | `kernel/locking/percpu-rwsem.c` | a counter per CPU, block, FIFO of waiters, one rcuwait, an rcu_sync | down/up read, trylock, down/up write, free | `PercpuRwsem` |
| task states and wakeups | `kernel/sched/core.c`, `kernel/signal.c` | `task_struct::state`, pending signal | set state, schedule, wake up, deliver a signal | `TaskState` |
| lists of waiters | `include/linux/list.h` | the order of the linked elements | add to the tail, delete, first | `WaitList` |
| reader-writer semaphore | `kernel/locking/rwsem.c` | count word (readers, writer, waiters, handoff), FIFO of waiters, spin queue | down/up read and write in their sleep modes, trylocks, downgrade | `Rwsem` |
| stopping CPUs | `kernel/stop_machine.c`, `kernel/smpboot.c` | a FIFO of works and a thread per CPU, a completion and a state machine per call | stop one, two or all CPUs, with or without waiting; bring up a CPU | `StopMachine` |
| completions | `kernel/sched/completion.c`, `swait.c` | count, FIFO of waiters | complete, wait | `Completion` |
| wait/wound and RT mutexes | `mutex.c`, `rtmutex.c` | acquire contexts, priority trees | planned | |
| wait queues | `kernel/sched/wait.c`, `wait_bit.c` | lists of callbacks | planned | |
| deferred work | `task_work.c`, `irq_work.c`, `kthread.c` | lockless lists, flags | planned | |
| reference counters | `lib/percpu-refcount.c`, `lib/lockref.c`, `lib/refcount.c` | counters and modes | planned | |

PROJECT.json lists these and the parts that stay out, each with its reason.

### How they interact

    PercpuRwsem ──uses── RcuSync ──waits for── (RCU grace periods, external)
         │
         └──waiters.lock──┐
    Semaphore ──sem->lock─┤
    Mutex ──wait_lock─────┼── QSpinLock
      │                   │
      │    QRwLock ───────┘
      └──osq── OsqLock ──osq── Rwsem ──wait_lock── QSpinLock
    StopMachine ──stop_cpus_mutex── Mutex
      │  └────────cpus_read_lock─── PercpuRwsem
      └──done── Completion
    Semaphore, Mutex, Rwsem, Completion ── TaskState (sleep and wakeup), WaitList (FIFO queues)

- A **sleeping lock** queues the task under an internal spinlock, releases it
  and calls `schedule()`. Releasers, signals and timers wake it, and between its
  test and its sleep anything may happen.
- The **fast paths** of `Mutex`, `QSpinLock` and `QRwLock` change an atomic word
  without any lock, while slow paths read and change the same word.
- Internal spinlocks are queued spinlocks. `QSpinLock` says nothing about its
  users, but shows what they assume: exclusion (proved) and no starvation (its run).
- `PercpuRwsem` extends `RcuSync` (its readers and writers are the readers
  and updaters there), so the composed model runs the real grace-period state
  machine and not a summary of it.

### What is hard about this code

The hazards are listed in PROJECT.json, each at its line with the property that
would catch it. They fall into these groups:

- a decision made without a lock that is stale when it is used: reading `next`
  before it was linked, a reader on the fast path while an updater enters, a
  spinner that looks at an owner that has gone;
- a wakeup that meets a waiter which is leaving because of a signal or timeout;
- a grant or hand-off that reaches a task which no longer wants it;
- nodes on a stack or in per-CPU storage that are reused while a neighbour still
  points at them;
- bits in one word that several parties set and clear (`pending`, `HANDOFF`,
  `_QW_WAITING`), where one left behind blocks everybody;
- contexts that interrupt each other on one CPU and must not wait for each other;
- an object destroyed while its RCU callback is pending;
- counters that are spread over CPUs and read one after the other;
- threads that spin for each other on different CPUs, and must be queued
  everywhere in the same order and not keep from running the task that is to
  queue them.

### What makes each part correct

Every lock implements an abstract one: `AbstractLock` (one holder) or
`AbstractRwLock` (many readers or one writer). On top of that, no wakeup is lost,
queues contain exactly the live waiters, hand-offs reach a waiter that takes
them, the words are exact (every bit has exactly one owner), and waiting ends.

## 2. Conventions of the models

- **Step size.** One access to memory that other parties read or write without a
  lock is one action. What happens under a lock, on state only accessed under
  that lock, is one action. A `cmpxchg` loop is its last, successful access.
- **Memory order.** Models are sequentially consistent: the barriers and
  acquire/release annotations in the code are taken to do what their comments
  say. That a barrier is missing would not be found here.
- **Tasks, CPUs, contexts.** A sleeping lock is used by tasks. A spinning lock is
  used by contexts: a CPU at a nesting level, where a context runs to its end
  before the one it interrupted goes on.
- **Data.** Only what the properties tell apart: a jiffies timeout is "max",
  "left" or "expired", a signal "pending" or "fatal", `pc` the place in the
  function. Debug checks, statistics and tracepoints are left out.
- **Ghost state.** `Semaphore.acquired` (successful downs minus ups) and
  `RcuSync.unsynced` (sections that began before the last exit) exist only for
  the properties.
- Operators such as `no_xchg` or `nobody_woken` next to the operator they
  resemble are faulty variants. The models do not use them; they document which
  mistake in the code each property detects.

## 3. The modules

### TaskState, WaitList

`TaskState` is the sleep and wakeup contract: the state is a set of bits, a
wakeup stores `TASK_RUNNING` if the state matches its mask, and `schedule()`
blocks only while the state is not running and no signal that the state listens
to is pending. A wakeup between `set_current_state()` and `schedule()` is
therefore not lost, and one that comes too early is. `WaitList` gives
`list_add_tail`, `list_del` and the first entry as operators on sequences, and
`list_del_all` for a loop that moves several elements off a list under its lock
(`rwsem_mark_wake()`). Each proof module begins with the lemmas on these
operators that it uses: what deleting one or several elements and appending do to
the set of elements, to the absence of duplicates and to the first element.

### AbstractLock, AbstractRwLock

What a lock promises: only a free lock is acquired, only a holder releases. The
reader-writer version has a downgrade step for `Rwsem`. Each detailed
module instantiates one of them with its set of holders, from the access that
takes the lock to the access that gives it up.

### Semaphore

State: `count`, `wait_list`, the waiter's `up` flag, and per task its place,
requested state, timeout, task state, signal and last result. Actions: `Down`
(any variant, taking a unit or queueing), `DownTrylock`, `WakeUp` (back from
`schedule_timeout()`: granted, signal, timeout or asleep again, in the order the
code tests them), `Up`, `TimerExpires`, `SendSignal`, `HandleSignal`. `up()` may
be called by anybody, so it is not tied to a task; `MaxSpareUps` bounds how many
more ups than downs there are.

Properties: units are conserved, a granted waiter returns 0 whatever signal or
timeout raced, grants are FIFO, and every `down*()` returns if holders release.
That no unit is free while somebody is queued and that the queue holds exactly the
sleeping waiters without a grant (`QueuedWaitersLive`) is proved in `QueueSound`.

### Mutex

The owner word is a record of a task and flags. Actions follow
`__mutex_lock_common()`: fast path, slow trylock, optimistic spinning (entry,
spinning on the owner, giving up), queueing under `wait_lock`, the loop of
trylock, signal check, sleep, retry and spin as first waiter, removal from the
list on success or `-EINTR`, then `mutex_unlock()` with its slow path and
hand-off and the `wake_q`. `wait_lock` is a variable because the code keeps it
over several accesses to the owner word. `osq` is represented by its holder and
is justified by `OsqLock`. The wait/wound acquire contexts of the same file are
not in this module.

Properties: the refinement of `AbstractLock`, `NoLostWakeup`, `HandoffIsPickedUp`
(a hand-off is addressed to a waiter that still takes it), `HandoffHonoured` (a
lock with HANDOFF goes to the first waiter), and under fairness `HandoffCompletes`
and `Progress`. `OwnerIsHolder`, `WaitersLive` and `FlagsMatchQueue` are parts of
the inductive invariant and are proved. `Killed` is the set of tasks that signals
are sent to. No individual task is promised the mutex:
`HANDOFF` that a waiter sets on a mutex that has just been unlocked can be
overtaken by a fast path, so `Progress` speaks of the mutex as a whole.

### OsqLock

Every access to the tail and to a node is an action, including the three steps of
cancelling (steps A to C in the code) and `osq_wait_next()`. Nodes are per-CPU,
so the node of a CPU that left is the node of its next call.

Properties: exclusion, `NeighboursStable` (who writes to another CPU's node, to link
itself, in step C or to pass the lock on, writes to one that is still queued; the
compare-and-exchange of step A may meet another and then changes nothing), `LinkedBothWays`, `CallsReturn`. The last one holds once new calls stop: as long as CPUs keep queueing and cancelling
behind it, a CPU in `osq_wait_next()` can miss both its tail and its `next`.

### QSpinLock

The word has locked, pending and tail; nodes belong to a CPU and an index.
Contexts are CPU and level pairs: a higher level interrupts a lower one of its
CPU, and a lock used at a level is only taken with that level disabled
(`LockLevel`, the irqsave rule). `Outer` is how many nodes of its CPU contexts
below the modelled ones may already use. Actions cover fast path, the pending
hand-over window, setting, undoing and inheriting pending, queueing with the
trylock after initialising the node, linking, waiting for the head, claiming the
lock with and without clearing the tail, passing the head on, and the fallback
for a context that finds no node.

Properties: exclusion of each lock, `PendingOwned` (the pending bit has exactly
one owner), `NodesLive` (nodes named by a word or a neighbour are queued on that
lock, and no context reaches past the nodes of its CPU), and `NotStarved`. The fallback without a node spins on
trylock and is excluded from `NotStarved`: it is exclusive but not fair.

### QRwLock

The word is the number of readers, how often `_QW_WAITING` was added, and the
locked byte. Tasks queue on `wait_lock`; interrupts only read, bypass the queue
and run on the CPU of a task (`Host`), which must not be writing at that time.
Each trylock adds and takes back in two accesses, as the code does.

Properties: the refinement of `AbstractRwLock`, `CntsExact` (the reader count and
the writer flags are exact),
`IrqReadersServed` (an interrupt never waits for a writer that waits for the task
below), `TasksServed` (once interrupts stop reading, since these pass a waiting
writer).

### RcuSync

RCU is external: a grace period is the set of read-side sections that were
running when it started, and it ends when they have. What the code does under
`rss_lock` is one action; `wait_event()` is its test, queue, test again, sleep.
The object may start as `rcu_sync_init()` or as `rcu_sync_enter_start()` leaves
it, is destroyed, and its memory is used again.

Properties: `SlowWhileEntered` (the comment of `rcu_sync_enter()`),
`CallbackMatchesState` (the single `rcu_head`
is never queued twice and never left behind by the destructor), `FastAfterGrace`
(the fast path comes back a full grace period after the last exit, also after a
replay), `EnterReturns`, `FastPathReturns`. `NoWarning` (no `WARN_ON_ONCE()` of the
file) is proved.

### PercpuRwsem

Extends `RcuSync`, whose own specification is therefore named `SyncSpec`: every reader section and
every writer's enter and exit is an action of `RcuSync` conjoined with the step
of the semaphore. `__percpu_down_read_trylock()` is four actions (increment, test
of block, decrement, prod) shared by its three callers: a reader, a reader that
queues, and the wake function on behalf of the first waiter. The writer's sum
reads one CPU per action, and readers may release on another CPU than they
acquired on. Counters wrap at `Modulus`; the assumption that the readers and the
CPUs together are fewer is what makes a zero sum mean no reader (a reader that is
about to take its increment back can be seen once per CPU in one sum). With a
modulus that does not exceed them TLC shows a writer beside a reader.
`WAITQUEUE_WALK_BREAK_CNT`, by which a wakeup of more than 64 waiters drops the
lock in between, is beyond the bounds and left out. `rcuwait_wake_up()` reads the
pointer and wakes in one step; a later wakeup would be a spurious one, which both
sleeping loops tolerate (the model has those of the wake function).

Properties: the refinement of `AbstractRwLock`, `BlockOwned`, `NoLostWakeup`,
`CallsReturn`.

### Rwsem

The word is a record of the reader count, the writer bit and the waiters and
handoff bits, as integers, since the code adds and subtracts them. Actions follow
the two slow paths: a reader counts itself, backs out, spins and tries to steal
the lock, queues, is granted or killed; a writer spins and steals, queues, tries
under `wait_lock` in its three states (`WRITER_NOT_FIRST`, `WRITER_FIRST`,
`WRITER_HANDOFF`, kept in a local variable as in the code), sleeps, asks for the
handoff, or is killed. `rwsem_mark_wake()` is one set of actions for all its
callers (`MarkFirst`, `MarkUndo`, `MarkAdjust`, `MarkGrant`): the early grant, its
undoing when a writer stole the lock, the batch of at most `MAX_READERS_WAKEUP`
readers, the adjustment of the word, and the grants to the whole batch in one step (the
word is adjusted before and `wait_lock` is held). Decisions that
depend on time, the owner's `on_cpu` or priorities (when to stop spinning, when to
ask for the handoff) are nondeterministic, so the owner field is not represented.
`Readers`, `Writers` and `Killed` say which task may read, write and be killed.

Properties: the refinement of `AbstractRwLock` with downgrade, `WordExact`,
`NoLostWakeup`, `HandoffToHead` (after a handoff was asked for no writer but the first
waiter and no reader outside the queue gets in; readers that `rwsem_mark_wake()` takes
off the queue are not constrained), `Drains` (unless new calls arrive for ever, everybody gets the
semaphore or leaves, and it becomes idle; this and the second half of `NoLostWakeup`
are claimed for at most one killed task), and `BlocksOnLockersOnly`, which does
not hold (section 5).

### Completion, StopMachine

`Completion` gives `complete()` and `wait_for_completion()` as operators on the
count and the queue of a completion. `StopMachine` composes them with the stopper
threads. Tasks run on a CPU and may be moved to another one whenever they can be
preempted (`Migrate`). A stopper that runs keeps the tasks of its CPU from running, as
does a task there that has disabled preemption (`Running`), and a stopper starts only
when none of them has (`Start`); its loop is
`smpboot_thread_fn()`: set the state, look at the works, sleep. Callers queue a
work per CPU, each under the lock of that stopper, and wake the stoppers one at a
time; `stop_two_cpus()` takes two of these locks and retries while `stop_cpus()`
is queueing. A stopper takes a work off its queue under the lock (`GetWork`) and reads
it without (`ReadWork`); `stop_work` is the call that the static work of a CPU was last
filled in for, none once that is over. `multi_cpu_stop()` is split at every access to
the shared state and counter. A CPU is brought up under the hotplug lock, in three steps: online,
enabled, unparked. `struct cpu_stop_done` and `struct multi_stop_data` are on the
caller's stack, so there is one per caller, and it is reset when the call returns.
Two calls of `stop_one_cpu_nowait()` do not share a `work_buf` that is queued,
which its comment asks of callers.

Properties: `Lockstep` (while the function runs, every CPU to be stopped is in the
same call with interrupts disabled), `DoneInUse` (no stopper uses the stack of a
caller that has returned; `nr_todo` counts exactly the works that are left),
`Drains` (unless new calls keep arriving, every call returns, every work is executed,
also one nobody waits for, and the stoppers sleep). A CPU that is not enabled makes
a call of one or two CPUs return at once; for `stop_machine()`, which holds
`cpus_read_lock()`, that cannot happen (`Exclusive` in the proofs), so its branch is
left out.

## 4. The runs

| Run | Instance | Distinct states | Question |
|---|---|---|---|
| `semaphore` | 3 tasks, 2 units, 1 spare up, fair | 168 696 | all variants against signals and timers; every down returns |
| `mutex` | 3 tasks that lock interruptibly, two of them signalled, fair | 92 578 | safety, refinement, hand-off completes, progress |
| `osq_lock` | 3 CPUs, fair | 31 460 | safety, refinement, calls return |
| `qspinlock` | 3 CPUs, 1 lock, fair | 83 986 | safety, refinement, nobody starves |
| `qspinlock_nested` | 2 CPUs, 2 levels, 2 locks, 2 nodes, 0 or 1 of them in use | 1 596 166 | nested contexts keep nodes apart; the fallback without a node |
| `qrwlock` | 3 tasks, 2 interrupts, fair | 14 788 | safety, refinement, interrupts and tasks are served |
| `rcu_sync` | 2 readers, 3 updaters, fair | 9 201 | safety, enter returns, fast path returns |
| `percpu_rwsem` | 2 readers, 1 writer, 2 CPUs, modulus 5 | 1 041 815 | readers that migrate against a writer |
| `percpu_rwsem_writers` | 1 reader, 2 writers, 1 CPU, modulus 3, fair | 52 449 | writers among themselves; calls return |
| `rwsem` | 3 readers, 2 of them writers, 1 of these killed, batches of 2, fair | 203 228 | safety, refinement, handoff, draining |
| `rwsem_killed` | 1 reader, 2 writers, the reader and a writer killed | stops at the violation | a writer sleeps only while somebody has the lock |
| `stop_machine` | 2 CPUs, 1 brought up, 2 tasks that migrate, fair | 635 083 | lockstep, lifetime of the stack, calls return, works are executed |

All pass but `rwsem_killed`, which is expected to fail (section 5). A fair run
checks its safety properties under the same specification with fairness, which has
the same reachable states. Runs without fairness use symmetry where tasks, CPUs or
readers are interchangeable; fair runs use none.

**Why the bounds suffice.** Three CPUs reach every role of the queued spinlock at
once as far as they exclude each other: a holder, a pending waiter and a queue
head, or a holder, a head and a second in the queue (a CPU that unlocks and comes
back queues behind the head). Three CPUs give `osq_lock` two neighbours that cancel
together behind a holder that unlocks and queues again behind them. Three tasks
give the mutex a holder, a first waiter and a spinner or second waiter. Two levels
and two nodes of which one is in use run out of nodes. Two interrupts and three
tasks give the reader-writer lock a reader below an interrupt, a waiting writer and
a queued task. Three updaters reach every transition of the five states including a
replay with another one waiting. Three tasks give the semaphore of readers and
writers a holder and a queue of two in every order, and a batch of two readers,
which is what `MAX_READERS_WAKEUP` stands for at 2. Two CPUs and two callers are
enough to queue two stops in opposite orders, and to have the caller on the CPU
that is stopped first or on any other, since it migrates. What depends on the number of parties and not on their roles
is proved where a proof exists (section 6).

**Fairness.** Weak fairness of a task's or CPU's own steps: it runs when it can,
which is what preemptive scheduling and spinning with preemption disabled give.
Weak fairness of unlock actions: holders release; without it no lock is live.
Strong fairness where a task waits for an internal spinlock: others may take it
again and again, but the queued spinlock is FIFO, and `NotStarved` of `QSpinLock`
is checked with weak fairness only. Timers that are armed fire (`Semaphore`), RCU
ends its grace periods and runs its callbacks (`RcuSync`), and a task that waits
for a CPU gets one (`PercpuRwsem`). A task on a CPU whose stopper runs is not
enabled in `StopMachine`, so weak fairness does not promise it anything before the
stopper sleeps or the task has been moved, and no migration is assumed to happen; a
bring-up that has begun ends. Nothing is assumed of tasks outside the
functions: they may stop calling.

## 5. What the code does not keep

`rwsem_killed` refutes `BlocksOnLockersOnly`, the comment "Block until there are no
active lockers" over the loop of `rwsem_down_write_slowpath()` (rwsem.c:1230). The
writer's `wstate` is computed when it queues itself, and used after `wait_lock` was
dropped to wake the waiter in front (lines 1198 to 1211). In the trace:

1. a writer holds the semaphore. A killable reader is queued and the handoff bit is
   set for it; a killable writer is queued second, as `WRITER_NOT_FIRST`, is killed
   and on its way out, but has not taken `wait_lock` yet;
2. the holder releases. The reader is killed as well and leaves: it clears the
   handoff bit only if it leaves the queue empty (lines 1107 to 1112), so the bit
   stays;
3. a third call queues itself behind the dying writer as `WRITER_NOT_FIRST`, finds
   no active locker, and drops `wait_lock` to wake the waiter in front;
4. the dying writer leaves. It was `WRITER_NOT_FIRST` and does not clear the bit
   (line 1280), and its wakeup finds the third task awake;
5. the third task, now alone in the queue of a free semaphore, calls
   `rwsem_try_write_lock()` with its stale `WRITER_NOT_FIRST`, is refused because
   the handoff bit is set (line 573), and goes to sleep.

It stays there until another task calls into the slow path. Two tasks have to be
killed: with one, everything drains, which is what the run `rwsem` shows and why it
has a single killed task. `WordExact` does not depend on this: it also holds when
all three tasks of that run can be killed.

## 6. The proofs

TLAPS proves for every finite set of tasks, contexts, readers or updaters what
the runs show on their instances. Each proof module states an inductive invariant
`IInv`, proves that the initial states satisfy it and that every action preserves
it (a lemma or a step per action, below it a step per conjunct), and derives the
theorems from it.

| Module | Theorems | What makes the invariant inductive |
|---|---|---|
| `SemaphoreProofs` | `TypeCorrect`, `UnitsConserved`, `QueueSound`, `GrantsKept`, `GrantsInOrder` | which waiters are linked: only then does a section that unlinks one (signal, timeout, up) leave the count of units unchanged. Cardinality of the granted set is tracked by adding and removing one element |
| `MutexProofs` | `MutualExclusion`, `HandoffSafe`, `WakeupNotLost`, `HandoffNotStolen`, `ImplementsLock` | `WaitLockHeld` and `CancelBeforeWake`: a waiter keeps `wait_lock` from its last trylock to its removal, so an unlock that came in between has still to pick whom to wake |
| `QRwLockProofs` | `WordExact`, `ImplementsRwLock` | the word is exact for every context, so what a compare-and-exchange finds in it (no reader, no writer) is true of all of them |
| `PercpuRwsemProofs` | of `RcuSync`: `EnteredIsSlow`, `WarningFree`, `CallbackOnce`, `GraceBeforeFast` | one updater at most switches the readers and its grace period covers everyone still on the fast path; in `GP_EXIT` with no updater left the pending callback covers every section the last exit found |
| | of `PercpuRwsem`: `UsesRcuSync`, `TypeCorrect`, `BlockIsOwned`, `WakeupNotLost`, `ImplementsRwLock` | `Counted`: read_count keeps, modulo 2^32, the tally of each CPU, the tallies add up to the increments there are, and a sum in progress stays in bounds. `OwnCpu`: one transient increment per CPU. `OneOwner`, `LockOwner`, `Queue`: who owns block, also on behalf of the first waiter. `WakerFollows`: who gave up under `waiters.lock` with block clear has a writer behind it that waits for that lock. `WritersEntered`: past `rcu_sync_enter()` the fast path is shut |
| `OsqLockProofs` | `TypeCorrect`, `NeighboursAreStable`, `LinksAgree`, `ImplementsLock` | `NextStable`, `PrevStable`: once a node has taken its own link (step A or B), neither neighbour can leave before step C. `Line`, `OneRelink`: every node that is not the head stands behind exactly one other, also while that one is being unlinked; `OneHead`: one CPU has the lock, was granted it or passes it on |
| `QSpinLockProofs` | `TypeCorrect`, `PendingIsOwned`, `NodesAreLive`, `ImplementsLock` | `Indices`: the indices of nested contexts grow with their level and stay below the count, so nodes are distinct. `Turn`: pending waiter and queue head never both see the lock free. `Successors`, `Linkers`, `TailQueued`: `next` and `prev` name queued contexts, each named once, and the tail has nobody behind it; `OneHead` then follows the head from node to node |
| `RwsemProofs` | `TypeCorrect`, `WordIsExact`, `GrantsAreDelivered`, `ImplementsRwLock`, `HandoffGoesToHead` | `Word`: the reader count is the sum of what every task stands for in it, with the reader that `rwsem_mark_wake()` granted early and those it took off the queue but has not granted. `Queue`: who is linked, and that a batch to be woken and the tasks already granted are disjoint. `WaitersBit`, `HandoffBit`, `Firsts`: what the bits say, also between two steps under `wait_lock`, and when a local `wstate` still is true |
| `StopMachineProofs` | `TypeCorrect`, `StacksInUse`, `InLockstep` | `CallShape`, `QueuedWorks`, `CurrentWork`: a work that is queued or executed, the static ones included, belongs to a call that waits for it, also while a stopper has it in hand (`ToExecute`). `Exclusive`: one `stop_machine()` uses the static works, and its CPUs stay enabled; some CPU is always online. `Todo`: `nr_todo` and who brings the event. `Together`, `Acks`: which CPUs have come and which have acknowledged the state |

How the arguments go, where the invariant is not the property itself:

- **OsqLock.** The links alone do not show exclusion: while a node unqueues, its
  neighbours are linked on one side only. The invariant describes the line as it
  will be when the steps in progress are done (`InLine`, `Cancelling`), and shows
  that each of the three steps, in any interleaving with those of a neighbour,
  keeps it. No induction along the queue is needed.
- **QSpinLock.** Exclusion follows from three local facts: who stores to the locked
  byte without testing it finds it clear (`Turn`), there is one such context per
  lock (`Pending`, `OneHead`), and everybody else takes the lock by compare and
  exchange from the unlocked word. That the queue is a line and not a ring is only
  needed for progress, and stays with `NotStarved`.
- **RcuSync and PercpuRwsem.** The semaphore conjoins its steps with those of
  `RcuSync`, so `UsesRcuSync` (its behaviours, seen from `rcu_sync`, are behaviours
  of `RcuSync`) brings everything proved of `rcu_sync` into the semaphore; the four
  theorems about `rcu_sync` are stated of `SyncSpec`. A reader on the fast path
  does not look at block: that it meets no writer is `EnteredIsSlow`. For the slow
  path the invariant gives each CPU a tally, an integer that may be negative because
  readers leave on other CPUs than they came on, and of which `read_count` is the
  remainder. While a writer sums, what the sum would come to if nothing else moved
  (what it has, plus the tallies of the CPUs still to come) is at least the number of
  readers that hold the semaphore and at most the readers plus one for each CPU it
  has passed, since a trylock about to be undone runs with preemption disabled. At
  the end the sum itself is between those bounds, and the assumption on `Modulus`
  makes it zero as an integer when it is zero as an unsigned int.
- **Rwsem.** `WordExact` speaks of sums over all tasks, so the reader count is kept
  as the cardinalities of five sets of tasks, and each action moves one task, or in
  `MarkAdjust` one batch, from set to set. The theorems hold for any set of killed
  tasks: the refusal of section 5 loses no exclusion and no exactness.
- **StopMachine.** A call waits while a stopper may still look at its stack, which
  is a matter of counting: `nr_todo` is the number of CPUs whose work is queued or
  executed plus those it has yet to be queued on, `complete()` comes from the one
  stopper that took it to zero, and no other executes a work of the call then.
  Lockstep rests on `thread_ack` being the number of CPUs that have not acknowledged
  the state, where a CPU on which the work is only queued, or not even that, counts
  as well: the state leaves `PREPARE` when all have come. The CPU that takes the
  counter to zero is alone in `set_state()`, so between its two stores nobody
  acknowledges anything, and no CPU is more than one state behind.

Assumptions: the named `ASSUME` of each module (finite sets, `None` outside of
them, a host for every interrupt, levels that are numbers, fewer readers and CPUs
together than an unsigned int counts, CPUs that are numbers, one of them up from the
beginning), which TLC evaluates in every run. `QSpinLock` assumes that no node reads as the empty tail, which
`encode_tail()` ensures by storing the CPU number plus one.

Every inductive invariant was checked by TLC on the instances of section 4 before
it was proved.

Only model-checked:

- all liveness (the prover has neither fairness nor ENABLED);
- the second half of `NoLostWakeup` of `Rwsem`: a free semaphore with waiters has
  somebody awake. It is not a theorem. With two killed tasks the trace of section 5
  ends in a state that violates it; it holds in the run `rwsem`, where one task can
  be killed. Its first half, that a granted reader is woken, is `GrantsAreDelivered`.

## 7. Not modelled

RCU itself, the scheduler, memory management, file systems, networking, drivers,
architecture code and the rest of the kernel are outside: they are quantitative,
bound to hardware, or large sequential code above the locks. PROJECT.json gives
the reason for each part. Within the modelled files: lockdep and debug variants
and the paravirtual spinlock are not built, `ww_mutex` contexts are planned,
`stop_machine_park()` belongs to taking CPUs down, which this configuration does not
build, `stop_machine_from_inactive_cpu()` is for a CPU that is not active yet and
nothing calls it there, `stop_machine()` before the stoppers exist runs its function
directly, and weak memory is not represented. `stop_two_cpus()` has no caller left in
this tree either, but it is modelled: `cpu_stop_queue_two_works()` and
`queue_stop_cpus_work()` are written for the two to run at once.

## 8. Plan

What is left, in this order, with proofs where the invariant is within reach:

1. `WwMutex` on top of `Mutex`: wait/die and wound/wait, no deadlock among
   acquire contexts.
2. `WaitQueue`, `WaitBit`: exclusive wakeups, `autoremove` and signals.
3. `TaskWork`, `IrqWork`, `Kthread`: lockless lists against exit, claims, park and
   stop.
4. `PercpuRef`, `Lockref`, `Refcount`: the switch of modes, saturation.
5. `RtMutex`: priority inheritance chains and deadlock detection, then futexes and
   workqueues.
