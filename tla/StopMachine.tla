---------------------------- MODULE StopMachine ----------------------------
(***************************************************************************)
(* Stopping CPUs, kernel/stop_machine.c, with the per-CPU thread loop of   *)
(* kernel/smpboot.c, completions and CPU bring-up.                         *)
(*                                                                         *)
(* Every CPU has a stopper thread of the highest priority and a FIFO of    *)
(* works for it.  Callers queue works and wait; a stopper that runs keeps  *)
(* the tasks of its CPU from running, unless one of them has disabled      *)
(* preemption, which keeps the stopper from starting.  What happens under  *)
(* stopper->lock is one action, except that stop_two_cpus() takes a second *)
(* lock under the first.                                                   *)
(*                                                                         *)
(* struct cpu_stop_done and struct multi_stop_data live on the caller's    *)
(* stack, so there is one of each per caller.  stop_cpus_mutex and the     *)
(* CPU hotplug lock are used as the locks Mutex and PercpuRwsem show them  *)
(* to be.  stop_two_cpus() is in because cpu_stop_queue_two_works() and    *)
(* stop_cpus() are written to work together; stop_machine_park() is not:   *)
(* it belongs to taking CPUs down, which this kernel does not contain.     *)
(***************************************************************************)
EXTENDS Completion

CONSTANTS
  CPUs,    \* the possible CPUs
  Boot,    \* those that are up from the beginning
  Tasks,   \* the tasks that stop CPUs
  Ops,     \* what each task calls: "one", "nowait", "two", "all"
  None

ASSUME StopMachineAssumption ==
  /\ IsFiniteSet(CPUs) /\ CPUs \subseteq Nat
  /\ Boot \subseteq CPUs /\ Boot # {}
  /\ Ops \in [Tasks -> SUBSET {"one", "nowait", "two", "all"}]
  /\ None \notin Tasks \cup CPUs

VARIABLES
  online,       \* cpu_online_mask
  hotplug,      \* the CPU that is being brought up under cpus_write_lock()
  cpu,          \* task_cpu() of each task
  enabled,      \* stopper->enabled
  works,        \* stopper->works
  lock,         \* the task that holds stopper->lock over more than one step
  stop_work,    \* stopper->stop_work: the caller its done and arg belong to, None
                \* once that call is over and they point to nothing
  in_progress,  \* stop_cpus_in_progress
  mutex,        \* the task that holds stop_cpus_mutex
  pc,           \* where each task is
  call,         \* its call: the operation, the CPUs to stop and where fn runs
  left,         \* the CPUs stop_cpus() has not queued a work on yet
  nr_todo,      \* done->nr_todo
  completion,   \* done->completion
  msdata,       \* the state and thread_ack of its multi_stop_data
  wake_q,       \* the stoppers on the wake_q of each task
  state,        \* task_struct::state of the task
  spc,          \* where each stopper is
  fetched,      \* the work it has taken off its queue and not looked at yet
  cur,          \* the work it executes
  curstate,     \* its local variable curstate
  sstate        \* task_struct::state of the stopper thread

callers  == <<pc, call, left, nr_todo, completion, msdata, wake_q, state>>
stoppers == <<spc, fetched, cur, curstate, sstate>>
vars == <<online, hotplug, cpu, enabled, works, lock, stop_work, in_progress, mutex,
          callers, stoppers>>

\* enum multi_stop_state
NONE == 0
PREPARE == 1
DISABLE_IRQ == 2
RUN == 3
EXIT == 4

TASK_PARKED == {"PARKED"}

NoCall == [op |-> "none", cpus |-> {}, active |-> {}]

\* A work, for the call of a task; stopper->stop_work as it is queued, and every
\* work that a queue can hold.
Work(op, t) == [op |-> op, task |-> t]
NoWork == Work("none", None)
StaticWork == Work("all", None)
Works == [op : {"one", "nowait", "two"}, task : Tasks] \cup {StaticWork}

PreemptOff == {"queue", "wake", "two_lock", "two_queue"}
Idle == {"sched", "parked", "loop", "check", "get", "read"}
MultiPC == {"multi", "run", "ack", "set_1", "set_2"}

\* cpu_stop_init(): the stoppers of the CPUs that are not up are parked.
Init ==
  /\ online = Boot
  /\ hotplug = None
  /\ cpu \in [Tasks -> Boot]
  /\ enabled = [c \in CPUs |-> c \in Boot]
  /\ works = [c \in CPUs |-> <<>>]
  /\ lock = [c \in CPUs |-> None]
  /\ stop_work = [c \in CPUs |-> None]
  /\ in_progress = FALSE
  /\ mutex = None
  /\ pc = [t \in Tasks |-> "out"]
  /\ call = [t \in Tasks |-> NoCall]
  /\ left = [t \in Tasks |-> {}]
  /\ nr_todo = [t \in Tasks |-> 0]
  /\ completion = [t \in Tasks |-> init_completion]
  /\ msdata = [t \in Tasks |-> [state |-> NONE, ack |-> 0]]
  /\ wake_q = [t \in Tasks |-> {}]
  /\ state = [t \in Tasks |-> TASK_RUNNING]
  /\ spc = [c \in CPUs |-> IF c \in Boot THEN "sched" ELSE "parked"]
  /\ fetched = [c \in CPUs |-> NoWork]
  /\ cur = [c \in CPUs |-> NoWork]
  /\ curstate = [c \in CPUs |-> NONE]
  /\ sstate = [c \in CPUs |-> IF c \in Boot THEN TASK_INTERRUPTIBLE ELSE TASK_PARKED]

\* The works the stopper of a CPU has before it.
ToExecute(c) == Linked(works[c]) \cup {fetched[c]}

Goto(t, l) == pc' = [pc EXCEPT ![t] = l]
StopperGoto(c, l) == spc' = [spc EXCEPT ![c] = l]

\* Queueing disables preemption, so that the caller is not preempted by a
\* stopper that waits for the works the caller has yet to queue.
Preemptible(t) == pc[t] \notin PreemptOff

\* The task can have its CPU: the stopper does not run there, and no other task
\* that has disabled preemption.
Running(t) ==
  /\ spc[cpu[t]] \in {"sched", "parked"}
  /\ \A u \in Tasks \ {t} : cpu[u] = cpu[t] => Preemptible(u)

\* set_task_cpu(): a task that can be preempted may find itself on another CPU,
\* one that the scheduler uses already; so may one that has just been woken.
Migrate(t, c) ==
  /\ Preemptible(t) /\ state[t] = TASK_RUNNING
  /\ c \in online \ {cpu[t], hotplug}
  /\ cpu' = [cpu EXCEPT ![t] = c]
  /\ UNCHANGED <<online, hotplug, enabled, works, lock, stop_work, in_progress, mutex,
                 callers, stoppers>>

-----------------------------------------------------------------------------
(* Callers                                                                  *)

\* cpu_stop_init_done() counts the works, set_state() the threads.
one_todo(cs) == 1
works_todo(cs) == Cardinality(cs)
all_but_one_ack(cs) == Cardinality(cs) - 1
num_threads(cs) == Cardinality(cs)

\* stop_one_cpu(), stop_one_cpu_nowait(), stop_two_cpus() and stop_machine(),
\* which holds cpus_read_lock() and counts the online CPUs; its callers let the
\* function run on the first of them (cpus is NULL) or on all (cpu_online_mask).
\* A work_buf of stop_one_cpu_nowait() is "currently unused and will remain
\* untouched until stopper starts executing @fn".
StopCpus(t, op, cs, active) ==
  /\ pc[t] = "out" /\ Running(t)
  /\ op \in Ops[t]
  /\ \/ op \in {"one", "nowait"} /\ Cardinality(cs) = 1 /\ active = cs
     \/ op = "two" /\ Cardinality(cs) = 2 /\ Cardinality(active) = 1
     \/ op = "all" /\ cs = online /\ hotplug = None /\ active \in {{Min(cs)}, cs}
  /\ op = "nowait" => \A c \in CPUs : Work(op, t) \notin ToExecute(c)
  /\ call' = [call EXCEPT ![t] = [op |-> op, cpus |-> cs, active |-> active]]
  /\ left' = [left EXCEPT ![t] = cs]
  /\ nr_todo' = [nr_todo EXCEPT ![t] = IF op = "nowait" THEN 0 ELSE works_todo(cs)]
  /\ completion' = [completion EXCEPT ![t] = init_completion]
  /\ msdata' = [msdata EXCEPT ![t] = IF op \in {"two", "all"}
                                     THEN [state |-> PREPARE, ack |-> num_threads(cs)]
                                     ELSE [state |-> NONE, ack |-> 0]]
  /\ Goto(t, CASE op = "two" -> "two_lock" [] op = "all" -> "mutex" [] OTHER -> "queue")
  /\ UNCHANGED <<online, hotplug, cpu, enabled, works, lock, stop_work, in_progress, mutex,
                 wake_q, state, stoppers>>

\* The call returns, and with it goes what was on its stack.
Return(t) ==
  /\ Goto(t, "out")
  /\ call' = [call EXCEPT ![t] = NoCall]
  /\ nr_todo' = [nr_todo EXCEPT ![t] = 0]
  /\ completion' = [completion EXCEPT ![t] = init_completion]
  /\ msdata' = [msdata EXCEPT ![t] = [state |-> NONE, ack |-> 0]]
  /\ mutex' = IF call[t].op = "all" THEN None ELSE mutex
  /\ stop_work' = [c \in CPUs |-> IF stop_work[c] = t THEN None ELSE stop_work[c]]

\* "static works are used, process one request at a time"
serialized(t) == mutex = None

LockMutex(t) ==
  /\ pc[t] = "mutex" /\ Running(t)
  /\ serialized(t)
  /\ mutex' = t
  /\ Goto(t, "begin")
  /\ UNCHANGED <<online, hotplug, cpu, enabled, works, lock, stop_work, in_progress, call, left,
                 nr_todo, completion, msdata, wake_q, state, stoppers>>

\* queue_stop_cpus_work() disables preemption here, after the mutex was taken.
Begin(t) ==
  /\ pc[t] = "begin" /\ Running(t)
  /\ in_progress' = TRUE
  /\ Goto(t, "queue")
  /\ UNCHANGED <<online, hotplug, cpu, enabled, works, lock, stop_work, mutex, call, left,
                 nr_todo, completion, msdata, wake_q, state, stoppers>>

\* A stopper that is on a wake_q already is woken by whoever put it there.
wake_q_add(t, cs) ==
  wake_q[t] \cup {c \in cs : \A u \in Tasks : c \notin wake_q[u]}

\* The work the stopper finds: stop_cpus() uses the static one of the CPU.
work_of(t) ==
  IF call[t].op = "all" THEN StaticWork ELSE Work(call[t].op, t)

\* cpu_stop_queue_work() for the next CPU: "if offline, @work is completed
\* immediately", and the call fails.  For stop_cpus() that branch would signal and
\* go on with the next CPU; it is left out, because under cpus_read_lock() every
\* CPU that is counted is enabled, which Exclusive in StopMachineProofs shows.
QueueWork(t) ==
  /\ pc[t] = "queue" /\ left[t] # {}
  /\ LET c == Min(left[t])
     IN  /\ lock[c] = None
         /\ left' = [left EXCEPT ![t] = @ \ {c}]
         /\ IF enabled[c]
            THEN /\ works' = [works EXCEPT ![c] = list_add_tail(@, work_of(t))]
                 /\ stop_work' = IF call[t].op = "all" THEN [stop_work EXCEPT ![c] = t]
                                                       ELSE stop_work
                 /\ wake_q' = [wake_q EXCEPT ![t] = wake_q_add(t, {c})]
                 /\ Goto(t, "wake")
                 /\ UNCHANGED <<call, nr_todo, completion, msdata, mutex>>
            ELSE call[t].op # "all" /\ Return(t) /\ UNCHANGED <<works, wake_q>>
  /\ UNCHANGED <<online, hotplug, cpu, enabled, lock, in_progress, state, stoppers>>

\* wake_up_q(): then the next work, the wait or, without one, the return.
WakeUpQ(t) ==
  /\ pc[t] = "wake"
  /\ IF wake_q[t] # {}
     THEN LET c == Min(wake_q[t])
          IN  /\ wake_q' = [wake_q EXCEPT ![t] = @ \ {c}]
              /\ sstate' = [sstate EXCEPT ![c] = wake_up_process(@)]
              /\ UNCHANGED <<pc, call, nr_todo, completion, msdata, mutex, stop_work, in_progress>>
     ELSE /\ \/ /\ left[t] # {}
                /\ Goto(t, "queue")
                /\ UNCHANGED <<call, nr_todo, completion, msdata, mutex, stop_work>>
             \/ left[t] = {} /\ call[t].op = "nowait" /\ Return(t)
             \/ /\ left[t] = {} /\ call[t].op # "nowait"
                /\ Goto(t, "wait")
                /\ UNCHANGED <<call, nr_todo, completion, msdata, mutex, stop_work>>
          /\ in_progress' = IF left[t] = {} /\ call[t].op = "all" THEN FALSE ELSE in_progress
          /\ UNCHANGED <<wake_q, sstate>>
  /\ UNCHANGED <<online, hotplug, cpu, enabled, works, lock, left, state, spc,
                 fetched, cur, curstate>>

\* cpu_stop_queue_two_works(): the locks in the order of the CPUs.
lock_order(t) == Min(call[t].cpus)

TwoLock(t) ==
  /\ pc[t] = "two_lock"
  /\ lock[lock_order(t)] = None
  /\ lock' = [lock EXCEPT ![lock_order(t)] = t]
  /\ Goto(t, "two_queue")
  /\ UNCHANGED <<online, hotplug, cpu, enabled, works, stop_work, in_progress, mutex, call, left,
                 nr_todo, completion, msdata, wake_q, state, stoppers>>

\* "Ensure that if we race with __stop_cpus() the stoppers won't get queued up
\* in reverse order leading to system deadlock."
race_ignored == FALSE
racing_stop_cpus == in_progress

TwoQueue(t) ==
  /\ pc[t] = "two_queue"
  /\ LET cs == call[t].cpus
         other == CHOOSE c \in cs : c # lock_order(t)
     IN  /\ lock[other] = None
         /\ lock' = [lock EXCEPT ![lock_order(t)] = None]
         /\ \/ /\ \E c \in cs : ~enabled[c]
               /\ Return(t)
               /\ left' = [left EXCEPT ![t] = {}]
               /\ UNCHANGED <<works, wake_q>>
            \/ /\ \A c \in cs : enabled[c]
               /\ racing_stop_cpus
               /\ Goto(t, "two_spin")
               /\ UNCHANGED <<works, wake_q, call, left, nr_todo, completion, msdata, mutex, stop_work>>
            \/ /\ \A c \in cs : enabled[c]
               /\ ~racing_stop_cpus
               /\ works' = [c \in CPUs |-> IF c \in cs THEN list_add_tail(works[c], work_of(t))
                                                       ELSE works[c]]
               /\ wake_q' = [wake_q EXCEPT ![t] = wake_q_add(t, cs)]
               /\ left' = [left EXCEPT ![t] = {}]
               /\ Goto(t, "wake")
               /\ UNCHANGED <<call, nr_todo, completion, msdata, mutex, stop_work>>
  /\ UNCHANGED <<online, hotplug, cpu, enabled, in_progress, state, stoppers>>

TwoSpin(t) ==
  /\ pc[t] = "two_spin" /\ Running(t)
  /\ ~in_progress
  /\ Goto(t, "two_lock")
  /\ UNCHANGED <<online, hotplug, cpu, enabled, works, lock, stop_work, in_progress, mutex, call, left,
                 nr_todo, completion, msdata, wake_q, state, stoppers>>

\* wait_for_completion(), and the return once the event is there.
Wait(t) ==
  /\ pc[t] = "wait" /\ Running(t)
  /\ IF event_pending(completion[t])
     THEN /\ Return(t)
          /\ state' = [state EXCEPT ![t] = TASK_RUNNING]
     ELSE /\ completion' = [completion EXCEPT ![t] = queued(@, t)]
          /\ state' = [state EXCEPT ![t] = TASK_UNINTERRUPTIBLE]
          /\ Goto(t, "sleep")
          /\ UNCHANGED <<call, nr_todo, msdata, mutex, stop_work>>
  /\ UNCHANGED <<online, hotplug, cpu, enabled, works, lock, in_progress, left, wake_q, stoppers>>

Sleep(t) ==
  /\ pc[t] = "sleep" /\ Running(t)
  /\ schedule_returns(state[t], "none")
  /\ Goto(t, "wait")
  /\ UNCHANGED <<online, hotplug, cpu, enabled, works, lock, stop_work, in_progress, mutex, call, left,
                 nr_todo, completion, msdata, wake_q, state, stoppers>>

-----------------------------------------------------------------------------
(* The stopper threads                                                      *)

\* The stopper preempts the tasks of its CPU as soon as they can be preempted.
Start(c) ==
  /\ spc[c] \in {"sched", "parked"}
  /\ sstate[c] = TASK_RUNNING
  /\ \A t \in Tasks : cpu[t] = c => Preemptible(t)
  /\ StopperGoto(c, "loop")
  /\ UNCHANGED <<online, hotplug, cpu, enabled, works, lock, stop_work, in_progress, mutex, callers,
                 fetched, cur, curstate, sstate>>

\* smpboot_thread_fn(): the state is set before the works are looked at.
Loop(c) ==
  /\ spc[c] = "loop"
  /\ sstate' = [sstate EXCEPT ![c] = TASK_INTERRUPTIBLE]
  /\ StopperGoto(c, "check")
  /\ UNCHANGED <<online, hotplug, cpu, enabled, works, lock, stop_work, in_progress, mutex, callers,
                 fetched, cur, curstate>>

\* cpu_stop_should_run()
Check(c) ==
  /\ spc[c] = "check"
  /\ lock[c] = None
  /\ IF list_empty(works[c])
     THEN StopperGoto(c, "sched") /\ UNCHANGED sstate
     ELSE StopperGoto(c, "get") /\ sstate' = [sstate EXCEPT ![c] = TASK_RUNNING]
  /\ UNCHANGED <<online, hotplug, cpu, enabled, works, lock, stop_work, in_progress, mutex, callers,
                 fetched, cur, curstate>>

\* cpu_stopper_thread(): the next work is taken off under the lock ...
GetWork(c) ==
  /\ spc[c] = "get"
  /\ lock[c] = None
  /\ IF list_empty(works[c])
     THEN StopperGoto(c, "loop") /\ UNCHANGED <<works, fetched>>
     ELSE /\ fetched' = [fetched EXCEPT ![c] = list_first_entry(works[c])]
          /\ works' = [works EXCEPT ![c] = Tail(@)]
          /\ StopperGoto(c, "read")
  /\ UNCHANGED <<online, hotplug, cpu, enabled, lock, stop_work, in_progress, mutex, callers,
                 cur, curstate, sstate>>

\* ... and its fn, arg and done are read without it: those of the static work are
\* the ones that stop_cpus() wrote last.
ReadWork(c) ==
  /\ spc[c] = "read"
  /\ LET w == fetched[c]
     IN  /\ cur' = [cur EXCEPT ![c] = IF w.op = "all" THEN Work(w.op, stop_work[c]) ELSE w]
         /\ StopperGoto(c, IF w.op \in {"two", "all"} THEN "multi" ELSE "fn")
  /\ fetched' = [fetched EXCEPT ![c] = NoWork]
  /\ UNCHANGED <<online, hotplug, cpu, enabled, works, lock, stop_work, in_progress, mutex,
                 callers, curstate, sstate>>

\* The function of stop_one_cpu() is executed.
RunFn(c) ==
  /\ spc[c] = "fn"
  /\ StopperGoto(c, "ret")
  /\ UNCHANGED <<online, hotplug, cpu, enabled, works, lock, stop_work, in_progress, mutex, callers,
                 fetched, cur, curstate, sstate>>

\* multi_cpu_stop(): a new state is acted on and acknowledged.
MultiCpuStop(c) ==
  /\ spc[c] = "multi"
  /\ LET t == cur[c].task IN
       /\ msdata[t].state # curstate[c]
       /\ curstate' = [curstate EXCEPT ![c] = msdata[t].state]
       /\ StopperGoto(c, IF msdata[t].state = RUN /\ c \in call[t].active THEN "run" ELSE "ack")
  /\ UNCHANGED <<online, hotplug, cpu, enabled, works, lock, stop_work, in_progress, mutex, callers,
                 fetched, cur, sstate>>

RunMulti(c) ==
  /\ spc[c] = "run"
  /\ StopperGoto(c, "ack")
  /\ UNCHANGED <<online, hotplug, cpu, enabled, works, lock, stop_work, in_progress, mutex, callers,
                 fetched, cur, curstate, sstate>>

AfterAck(c) == IF curstate[c] = EXIT THEN "ret" ELSE "multi"

\* "Last one to ack a state moves to the next state."
AckState(c) ==
  /\ spc[c] = "ack"
  /\ LET t == cur[c].task IN
       /\ msdata' = [msdata EXCEPT ![t].ack = @ - 1]
       /\ StopperGoto(c, IF msdata[t].ack = 1 THEN "set_1" ELSE AfterAck(c))
  /\ UNCHANGED <<online, hotplug, cpu, enabled, works, lock, stop_work, in_progress, mutex,
                 pc, call, left, nr_todo, completion, wake_q, state, fetched, cur, curstate, sstate>>

\* set_state() resets the counter before it publishes the state.
SetState(c) ==
  /\ LET t == cur[c].task IN
       \/ /\ spc[c] = "set_1"
          /\ msdata' = [msdata EXCEPT ![t].ack = num_threads(call[t].cpus)]
          /\ StopperGoto(c, "set_2")
       \/ /\ spc[c] = "set_2"
          /\ msdata' = [msdata EXCEPT ![t].state = @ + 1]
          /\ StopperGoto(c, AfterAck(c))
  /\ UNCHANGED <<online, hotplug, cpu, enabled, works, lock, stop_work, in_progress, mutex,
                 pc, call, left, nr_todo, completion, wake_q, state, fetched, cur, curstate, sstate>>

\* The function has returned: cpu_stop_signal_done(), unless done is NULL.
SignalDone(c) ==
  /\ spc[c] = "ret"
  /\ LET t == cur[c].task
         last == cur[c].op # "nowait" /\ nr_todo[t] = 1
     IN  /\ nr_todo' = IF cur[c].op = "nowait" THEN nr_todo ELSE [nr_todo EXCEPT ![t] = @ - 1]
         /\ StopperGoto(c, IF last THEN "complete" ELSE "get")
         /\ cur' = IF last THEN cur ELSE [cur EXCEPT ![c] = NoWork]
  /\ curstate' = [curstate EXCEPT ![c] = NONE]
  /\ UNCHANGED <<online, hotplug, cpu, enabled, works, lock, stop_work, in_progress, mutex,
                 pc, call, left, completion, msdata, wake_q, state, fetched, sstate>>

Complete(c) ==
  /\ spc[c] = "complete"
  /\ LET t == cur[c].task IN
       /\ completion' = [completion EXCEPT ![t] = completed(@)]
       /\ state' = [u \in Tasks |-> IF u \in woken_by_complete(completion[t])
                                    THEN wake_up_process(state[u]) ELSE state[u]]
  /\ cur' = [cur EXCEPT ![c] = NoWork]
  /\ StopperGoto(c, "get")
  /\ UNCHANGED <<online, hotplug, cpu, enabled, works, lock, stop_work, in_progress, mutex,
                 pc, call, left, nr_todo, msdata, wake_q, fetched, curstate, sstate>>

-----------------------------------------------------------------------------
(* Bringing up a CPU, under cpus_write_lock()                               *)

\* The new CPU goes online.  A bring-up that fails earlier changes nothing here,
\* and without CONFIG_HOTPLUG_CPU one that got as far is not rolled back.
CpuUp(c) ==
  /\ c \in CPUs \ online
  /\ hotplug = None
  /\ \A t \in Tasks : call[t].op # "all"
  /\ hotplug' = c
  /\ online' = online \cup {c}
  /\ UNCHANGED <<cpu, enabled, works, lock, stop_work, in_progress, mutex, callers, stoppers>>

\* stop_machine_unpark() on the new CPU: works may be queued as soon as the
\* stopper is enabled, and wakeups do not reach it before it is unparked.
Unpark ==
  /\ hotplug # None
  /\ \/ /\ ~enabled[hotplug]
        /\ enabled' = [enabled EXCEPT ![hotplug] = TRUE]
        /\ UNCHANGED <<hotplug, sstate>>
     \/ /\ enabled[hotplug]
        /\ sstate' = [sstate EXCEPT ![hotplug] = try_to_wake_up(@, TASK_PARKED)]
        /\ hotplug' = None
        /\ UNCHANGED enabled
  /\ UNCHANGED <<online, cpu, works, lock, stop_work, in_progress, mutex, callers, spc,
                 fetched, cur, curstate>>

\* A new call, which is never forced to happen.
Call(t) ==
  \E op \in {"one", "nowait", "two", "all"}, cs \in SUBSET CPUs :
    \E active \in SUBSET cs : StopCpus(t, op, cs, active)

TaskStep(t) ==
  \/ LockMutex(t) \/ Begin(t) \/ QueueWork(t) \/ WakeUpQ(t)
  \/ TwoLock(t) \/ TwoQueue(t) \/ TwoSpin(t) \/ Wait(t) \/ Sleep(t)

StopperStep(c) ==
  \/ Start(c) \/ Loop(c) \/ Check(c) \/ GetWork(c) \/ ReadWork(c)
  \/ RunFn(c) \/ MultiCpuStop(c) \/ RunMulti(c) \/ AckState(c) \/ SetState(c)
  \/ SignalDone(c) \/ Complete(c)

Next ==
  \/ \E t \in Tasks : Call(t) \/ TaskStep(t) \/ \E c \in CPUs : Migrate(t, c)
  \/ \E c \in CPUs : StopperStep(c) \/ CpuUp(c)
  \/ Unpark

\* Tasks and stoppers that may run do, and a bring-up comes to its end.
Fairness ==
  /\ \A t \in Tasks : WF_vars(TaskStep(t))
  /\ \A c \in CPUs : WF_vars(StopperStep(c))
  /\ WF_vars(Unpark)

Spec == Init /\ [][Next]_vars
FairSpec == Spec /\ Fairness

-----------------------------------------------------------------------------
(* Properties                                                               *)

SharedTypes ==
  /\ online \subseteq CPUs
  /\ hotplug \in CPUs \cup {None}
  /\ cpu \in [Tasks -> CPUs]
  /\ enabled \in [CPUs -> BOOLEAN]
  /\ lock \in [CPUs -> Tasks \cup {None}]
  /\ stop_work \in [CPUs -> Tasks \cup {None}]
  /\ in_progress \in BOOLEAN
  /\ mutex \in Tasks \cup {None}

QueueTypes == works \in [CPUs -> Seq(Works)]

CallerTypes ==
  /\ pc \in [Tasks -> {"out", "mutex", "begin", "two_spin", "wait", "sleep"} \cup PreemptOff]
  /\ call \in [Tasks -> [op : {"none", "one", "nowait", "two", "all"},
                         cpus : SUBSET CPUs, active : SUBSET CPUs]]
  /\ left \in [Tasks -> SUBSET CPUs]
  /\ nr_todo \in [Tasks -> Nat]
  /\ completion \in [Tasks -> [done : Nat, wait : Seq(Tasks)]]
  /\ msdata \in [Tasks -> [state : NONE .. EXIT + 1, ack : Nat]]
  /\ wake_q \in [Tasks -> SUBSET CPUs]
  /\ state \in [Tasks -> TaskStates]

StopperTypes ==
  /\ spc \in [CPUs -> Idle \cup MultiPC \cup {"fn", "ret", "complete"}]
  /\ fetched \in [CPUs -> Works \cup {NoWork}]
  /\ cur \in [CPUs -> [op : {"one", "nowait", "two", "all"}, task : Tasks] \cup {NoWork}]
  /\ curstate \in [CPUs -> NONE .. EXIT]
  /\ sstate \in [CPUs -> {TASK_RUNNING, TASK_INTERRUPTIBLE, TASK_PARKED}]

TypeOK == SharedTypes /\ QueueTypes /\ CallerTypes /\ StopperTypes

\* While the function of stop_machine() or stop_two_cpus() runs, every CPU it is
\* to stop is inside multi_cpu_stop() for the same call with its interrupts
\* disabled: none has been left behind or has run ahead.
Lockstep ==
  \A c \in CPUs : spc[c] = "run" =>
    \A d \in call[cur[c].task].cpus :
      cur[d] = cur[c] /\ spc[d] \in MultiPC /\ curstate[d] >= DISABLE_IRQ

\* The works of t that are queued or under way.
Enqueued(t, c) ==
  \/ Work(call[t].op, t) \in ToExecute(c)
  \/ StaticWork \in ToExecute(c) /\ stop_work[c] = t
Executing(t, c) == cur[c] = Work(call[t].op, t)
Pending(t) ==
  {c \in CPUs : Enqueued(t, c) \/ (Executing(t, c) /\ spc[c] # "complete")}

\* done and msdata on the caller's stack are used only while the call lasts, and
\* nr_todo counts exactly the works that have not signalled it: the caller
\* neither returns under the feet of a stopper nor waits for a work that is
\* not there; and the static works are not overwritten while they are in use.
DoneInUse ==
  /\ \A c \in CPUs : cur[c].op \notin {"none", "nowait"} => call[cur[c].task].op = cur[c].op
  /\ \A t \in Tasks : call[t].op \in {"one", "two", "all"} =>
       nr_todo[t] = Cardinality(Pending(t)) + Cardinality(left[t])
  /\ \A c \in CPUs : NoDup(works[c]) /\ fetched[c] \notin Linked(works[c])

\* Nobody has anything left to do.
Quiet ==
  /\ \A t \in Tasks : pc[t] = "out"
  /\ \A c \in CPUs : list_empty(works[c]) /\ spc[c] \in {"sched", "parked"}

\* Unless new calls keep arriving for ever, every call returns and every work is
\* executed: stoppers that wait for each other in multi_cpu_stop() are never queued
\* in reverse order, no caller is preempted by a stopper that waits for it, and no
\* work, not even one that nobody waits for, is left in the queue of a stopper that
\* sleeps, also not when it is queued while the CPU is brought up.
Drains == []<><<\E t \in Tasks : Call(t)>>_vars \/ <>[]Quiet
=============================================================================
