----------------------------- MODULE ThreadPool -----------------------------
(***************************************************************************)
(* The thread pool of pthread_test/threadpool.c: callers of                *)
(* threadpool_add, the worker threads of threadpool_thread, the manager    *)
(* thread of adjust_thread that grows and shrinks the pool, and the caller *)
(* of threadpool_destroy.                                                  *)
(*                                                                         *)
(* Atomicity.  A section of code between pthread_mutex_lock(&pool->lock)   *)
(* and the matching unlock is one step, except where another thread can    *)
(* act in its middle without the lock: threadpool_destroy writes shutdown  *)
(* and broadcasts, and adjust_thread signals, holding no lock.  The only   *)
(* places where that shows are the gap between a worker's test of its loop *)
(* condition and its entry into pthread_cond_wait ("prewait" below), and   *)
(* the loop of the manager that creates threads; there the lock is held    *)
(* across steps.  thread_counter protects single statements only, so each  *)
(* of its sections is a step and no owner is recorded for it.              *)
(*                                                                         *)
(* A slot of pool->threads stands for the thread whose id it holds: the    *)
(* manager overwrites a slot only when it believes that thread has ended.  *)
(***************************************************************************)
EXTENDS Integers, FiniteSets, Sequences

CONSTANTS
  min_thr_num,          \* threadpool_create's arguments
  max_thr_num,
  queue_max_size,
  MIN_WAIT_TASK_NUM,    \* queue length from which the manager adds threads
  DEFAULT_THREAD_VARY,  \* threads created, and signals sent, at once
  Adders,               \* the threads that call threadpool_add
  NumTasks,             \* bound: how many calls of threadpool_add they make
  AddersFirst,          \* TRUE: destroy is called after the last add, as main does
  CreateMayFail         \* TRUE: pthread_create can fail (its result is ignored)

ASSUME PoolAssumption ==
  /\ min_thr_num \in Nat
  /\ max_thr_num \in Nat
  /\ min_thr_num <= max_thr_num
  /\ queue_max_size \in Nat \ {0}
  /\ MIN_WAIT_TASK_NUM \in Nat
  /\ DEFAULT_THREAD_VARY \in Nat
  /\ NumTasks \in Nat
  /\ AddersFirst \in BOOLEAN
  /\ CreateMayFail \in BOOLEAN

Slots == 0..(max_thr_num - 1)
Cells == 0..(queue_max_size - 1)
Tasks == 1..NumTasks
NoTask == 0

VARIABLES
  lock,               \* holder of pool->lock: "free", "worker", "manager", "destroyer"
  shutdown,           \* pool->shutdown
  live_thr_num,
  busy_thr_num,
  wait_exit_thr_num,
  queue_front,
  queue_rear,
  queue_size,
  task_queue,         \* the ring: cell -> task
  worker,             \* slot -> where its thread is, see WorkerStates
  task,               \* slot -> the worker's local task
  adder,              \* adder -> "idle", "waiting" (on queue_not_full), "woken"
  arg,                \* adder -> the task of the call in progress
  manager,            \* where adjust_thread is, see ManagerStates
  m,                  \* adjust_thread's locals: queue_size, live_thr_num, busy_thr_num, i, add
  destroyer,          \* where threadpool_destroy is, see DestroyerStates
  d,                  \* threadpool_destroy's local i
  submitted,          \* history: calls of threadpool_add so far; call k adds task k
  returned,           \* history: tasks whose threadpool_add has returned 0
  done                \* history: tasks whose callback has returned

ring == <<queue_front, queue_rear, queue_size, task_queue>>
counters == <<live_thr_num, busy_thr_num, wait_exit_thr_num>>
callers == <<adder, arg, submitted, returned>>
managing == <<manager, m>>
destroying == <<destroyer, d>>

vars == <<lock, shutdown, counters, ring, worker, task, callers, managing,
          destroying, done>>

(***************************************************************************)
(* none: threads[i] = 0.  failed: pthread_create failed, the slot holds no *)
(* thread's id.  start: before the lock at the head of the loop.  prewait: *)
(* holds the lock, about to call pthread_cond_wait.  waiting: on           *)
(* queue_not_empty.  woken: to take the lock again.  took: has dequeued.   *)
(* run: counted as busy.  ran: the callback has returned.  exiting:        *)
(* retired at the manager's request.  zombie: ended, neither joined nor    *)
(* detached.  leaving: saw shutdown.  gone: ended after pthread_detach.    *)
(***************************************************************************)
WorkerStates == {"none", "failed", "start", "prewait", "waiting", "woken", "took",
                 "run", "ran", "exiting", "zombie", "leaving", "gone"}
ManagerStates == {"loop", "sleep", "busy", "lock", "grow", "shrink", "signal", "ended"}
DestroyerStates == {"idle", "adjust", "broadcast", "join", "free", "freed"}

NoLocals == [size |-> 0, live |-> 0, busy |-> 0, i |-> 0, add |-> 0]

(***************************************************************************)
(* threadpool_create, up to its return.  The workers it started have not   *)
(* run yet; starting them later only delays them.  Failing allocations     *)
(* and the resulting clean-up are not modelled here.                       *)
(***************************************************************************)
Init ==
  /\ lock = "free"
  /\ shutdown = FALSE
  /\ live_thr_num = min_thr_num
  /\ busy_thr_num = 0
  /\ wait_exit_thr_num = 0
  /\ queue_front = 0 /\ queue_rear = 0 /\ queue_size = 0
  /\ task_queue = [c \in Cells |-> NoTask]
  /\ worker \in {w \in [Slots -> {"start", "failed", "none"}] :
       \A s \in Slots : /\ w[s] = "none" <=> s >= min_thr_num
                        /\ w[s] = "failed" => CreateMayFail}
  /\ task = [s \in Slots |-> NoTask]
  /\ adder = [a \in Adders |-> "idle"]
  /\ arg = [a \in Adders |-> NoTask]
  /\ manager = "loop" \/ (CreateMayFail /\ manager = "ended")
  /\ m = NoLocals
  /\ destroyer = "idle" /\ d = 0
  /\ submitted = 0 /\ returned = {} /\ done = {}

-----------------------------------------------------------------------------
(* The ring and the condition variables *)

\* Mutants: the pointer is not wrapped; it is wrapped one cell early
NextCellUnwrapped(c) == c + 1
NextCellShort(c) == (c + 1) % (queue_max_size - 1)

NextCell(c) == (c + 1) % queue_max_size

\* Mutant: the signal is forgotten
SignalNobody == UNCHANGED worker

\* pthread_cond_signal(&queue_not_empty): one waiter, if there is one
SignalNotEmpty ==
  \/ \E s \in Slots : /\ worker[s] = "waiting"
                      /\ worker' = [worker EXCEPT ![s] = "woken"]
  \/ /\ \A s \in Slots : worker[s] # "waiting"
     /\ UNCHANGED worker

\* pthread_cond_broadcast(&queue_not_empty)
WakeAllWorkers == [s \in Slots |-> IF worker[s] = "waiting" THEN "woken" ELSE worker[s]]

\* Mutant: the broadcast is forgotten
WakeNoAdders == adder

\* pthread_cond_broadcast(&queue_not_full)
WakeAllAdders == [a \in Adders |-> IF adder[a] = "waiting" THEN "woken" ELSE adder[a]]

-----------------------------------------------------------------------------
(* threadpool_add(pool, process, t), once adder a holds the lock *)

\* Mutant: off by one
NeverFull == queue_size > queue_max_size

Full == queue_size = queue_max_size

AddWaits(a, t) ==
  /\ Full /\ ~shutdown
  /\ adder' = [adder EXCEPT ![a] = "waiting"]
  /\ arg' = [arg EXCEPT ![a] = t]
  /\ UNCHANGED <<returned, ring, worker>>

AddReturns(a, t) ==
  /\ adder' = [adder EXCEPT ![a] = "idle"]
  /\ arg' = [arg EXCEPT ![a] = NoTask]
  /\ returned' = returned \cup {t}

AddDrops(a, t) ==
  /\ shutdown
  /\ worker' = WakeAllWorkers
  /\ AddReturns(a, t)
  /\ UNCHANGED ring

AddEnqueues(a, t) ==
  /\ ~Full /\ ~shutdown
  /\ task_queue' = [task_queue EXCEPT ![queue_rear] = t]
  /\ queue_rear' = NextCell(queue_rear)
  /\ queue_size' = queue_size + 1
  /\ SignalNotEmpty
  /\ AddReturns(a, t)
  /\ UNCHANGED queue_front

AddLocked(a, t) == AddWaits(a, t) \/ AddDrops(a, t) \/ AddEnqueues(a, t)

\* A new call takes the lock
AddCall(a) ==
  /\ adder[a] = "idle" /\ submitted < NumTasks
  /\ AddersFirst => destroyer = "idle"
  /\ lock = "free"
  /\ submitted' = submitted + 1
  /\ AddLocked(a, submitted + 1)
  /\ UNCHANGED <<lock, shutdown, counters, task, managing, destroying, done>>

\* pthread_cond_wait returns with the lock and the loop condition is tested again
AddRetry(a) ==
  /\ adder[a] = "woken"
  /\ lock = "free"
  /\ AddLocked(a, arg[a])
  /\ UNCHANGED <<submitted, lock, shutdown, counters, task, managing, destroying, done>>

-----------------------------------------------------------------------------
(* threadpool_thread *)

\* Mutant: the lock is released before the wait begins
PrepareWaitUnlocked(s) ==
  /\ queue_size = 0 /\ ~shutdown
  /\ worker' = [worker EXCEPT ![s] = "prewait"]
  /\ UNCHANGED <<lock, ring, task, adder>>

\* The loop condition holds: the worker keeps the lock and is about to wait
PrepareWait(s) ==
  /\ queue_size = 0 /\ ~shutdown
  /\ lock' = "worker"
  /\ worker' = [worker EXCEPT ![s] = "prewait"]
  /\ UNCHANGED <<ring, task, adder>>

Leave(s) ==
  /\ shutdown
  /\ worker' = [worker EXCEPT ![s] = "leaving"]
  /\ UNCHANGED <<lock, ring, task, adder>>

\* Mutant: the head pointer is moved before the task is read
DequeueMovedFirst(s) ==
  /\ queue_size # 0 /\ ~shutdown
  /\ task' = [task EXCEPT ![s] = task_queue[NextCell(queue_front)]]
  /\ queue_front' = NextCell(queue_front)
  /\ queue_size' = queue_size - 1
  /\ adder' = WakeAllAdders
  /\ worker' = [worker EXCEPT ![s] = "took"]
  /\ UNCHANGED <<lock, queue_rear, task_queue>>

Dequeue(s) ==
  /\ queue_size # 0 /\ ~shutdown
  /\ task' = [task EXCEPT ![s] = task_queue[queue_front]]
  /\ queue_front' = NextCell(queue_front)
  /\ queue_size' = queue_size - 1
  /\ adder' = WakeAllAdders
  /\ worker' = [worker EXCEPT ![s] = "took"]
  /\ UNCHANGED <<lock, queue_rear, task_queue>>

WorkerLocked(s) == PrepareWait(s) \/ Leave(s) \/ Dequeue(s)

WorkerStart(s) ==
  /\ worker[s] = "start"
  /\ lock = "free"
  /\ WorkerLocked(s)
  /\ UNCHANGED <<shutdown, counters, arg, submitted, returned, managing, destroying, done>>

\* pthread_cond_wait: releases the lock and starts to wait, atomically
CondWait(s) ==
  /\ worker[s] = "prewait"
  /\ lock' = "free"
  /\ worker' = [worker EXCEPT ![s] = "waiting"]
  /\ UNCHANGED <<shutdown, counters, ring, task, callers, managing, destroying, done>>

\* Mutant: one thread too many retires
MayRetireBelow == live_thr_num >= min_thr_num

MayRetire == live_thr_num > min_thr_num

\* pthread_cond_wait returns with the lock; the worker looks whether it is to retire
WorkerWakes(s) ==
  /\ worker[s] = "woken"
  /\ lock = "free"
  /\ wait_exit_thr_num' = IF wait_exit_thr_num > 0 THEN wait_exit_thr_num - 1
                                                   ELSE wait_exit_thr_num
  /\ IF wait_exit_thr_num > 0 /\ MayRetire
       THEN /\ live_thr_num' = live_thr_num - 1
            /\ worker' = [worker EXCEPT ![s] = "exiting"]
            /\ UNCHANGED <<lock, ring, task, adder>>
       ELSE WorkerLocked(s) /\ UNCHANGED live_thr_num
  /\ UNCHANGED <<shutdown, busy_thr_num, arg, submitted, returned, managing, destroying, done>>

\* thread_counter can be taken until threadpool_free keeps it locked for good
CounterUsable == destroyer # "freed"

BusyInc(s) ==
  /\ worker[s] = "took" /\ CounterUsable
  /\ busy_thr_num' = busy_thr_num + 1
  /\ worker' = [worker EXCEPT ![s] = "run"]
  /\ UNCHANGED <<lock, shutdown, live_thr_num, wait_exit_thr_num, ring, task, callers,
                 managing, destroying, done>>

\* The callback runs and returns
Execute(s) ==
  /\ worker[s] = "run"
  /\ done' = done \cup {task[s]}
  /\ task' = [task EXCEPT ![s] = NoTask]
  /\ worker' = [worker EXCEPT ![s] = "ran"]
  /\ UNCHANGED <<lock, shutdown, counters, ring, callers, managing, destroying>>

\* Mutant: the decrement is forgotten
BusyKept(s) ==
  /\ worker[s] = "ran" /\ CounterUsable
  /\ worker' = [worker EXCEPT ![s] = "start"]
  /\ UNCHANGED <<lock, shutdown, counters, ring, task, callers, managing, destroying, done>>

BusyDec(s) ==
  /\ worker[s] = "ran" /\ CounterUsable
  /\ busy_thr_num' = busy_thr_num - 1
  /\ worker' = [worker EXCEPT ![s] = "start"]
  /\ UNCHANGED <<lock, shutdown, live_thr_num, wait_exit_thr_num, ring, task, callers,
                 managing, destroying, done>>

\* pthread_exit of a retired thread, and pthread_detach; pthread_exit at shutdown
EndThread(s) ==
  /\ \/ worker[s] = "exiting" /\ worker' = [worker EXCEPT ![s] = "zombie"]
     \/ worker[s] = "leaving" /\ worker' = [worker EXCEPT ![s] = "gone"]
  /\ UNCHANGED <<lock, shutdown, counters, ring, task, callers, managing, destroying, done>>

WorkerStep(s) ==
  \/ WorkerStart(s) \/ CondWait(s) \/ WorkerWakes(s)
  \/ BusyInc(s) \/ Execute(s) \/ BusyDec(s) \/ EndThread(s)

\* POSIX lets pthread_cond_wait return without a signal
SpuriousWakeup ==
  /\ \/ /\ \E s \in Slots : /\ worker[s] = "waiting"
                            /\ worker' = [worker EXCEPT ![s] = "woken"]
        /\ UNCHANGED adder
     \/ /\ \E a \in Adders : /\ adder[a] = "waiting"
                             /\ adder' = [adder EXCEPT ![a] = "woken"]
        /\ UNCHANGED worker
  /\ UNCHANGED <<lock, shutdown, counters, ring, task, arg, submitted, returned,
                 managing, destroying, done>>

-----------------------------------------------------------------------------
(* adjust_thread *)

\* Mutant: the manager does not look at shutdown
ManagerLoopsForEver ==
  /\ manager = "loop"
  /\ manager' = "sleep"
  /\ UNCHANGED <<lock, shutdown, counters, ring, worker, task, callers, m, destroying, done>>

\* while (!pool->shutdown), read without the lock; then sleep(DEFAULT_TIME)
ManagerLoop ==
  /\ manager = "loop"
  /\ manager' = IF shutdown THEN "ended" ELSE "sleep"
  /\ UNCHANGED <<lock, shutdown, counters, ring, worker, task, callers, m, destroying, done>>

ReadPool ==
  /\ manager = "sleep"
  /\ lock = "free"
  /\ m' = [m EXCEPT !.size = queue_size, !.live = live_thr_num]
  /\ manager' = "busy"
  /\ UNCHANGED <<lock, shutdown, counters, ring, worker, task, callers, destroying, done>>

WantsToGrow == m.size >= MIN_WAIT_TASK_NUM /\ m.live < max_thr_num

\* Reads busy_thr_num and decides, from what was read, whether to add threads
ReadBusy ==
  /\ manager = "busy" /\ CounterUsable
  /\ m' = [m EXCEPT !.busy = busy_thr_num]
  /\ manager' = IF WantsToGrow THEN "lock" ELSE "shrink"
  /\ UNCHANGED <<lock, shutdown, counters, ring, worker, task, callers, destroying, done>>

LockToGrow ==
  /\ manager = "lock"
  /\ lock = "free"
  /\ lock' = "manager"
  /\ manager' = "grow"
  /\ UNCHANGED <<shutdown, counters, ring, worker, task, callers, m, destroying, done>>

\* Mutant: is_thread_alive is not asked
AlwaysFoundDead(s) == TRUE

\* What is_thread_alive(threads[s]) may answer.  A thread that ended undetached and
\* unjoined is ESRCH for glibc before 2.34 and alive for later ones; an id whose
\* lifetime is over, or that was never a thread's, gives either answer.
MayBeFoundDead(s) == worker[s] \in {"zombie", "gone", "failed"}
MayBeFoundAlive(s) == worker[s] # "none"

GrowLoopGoesOn ==
  /\ m.i < max_thr_num
  /\ m.add < DEFAULT_THREAD_VARY
  /\ live_thr_num < max_thr_num

CreateThread ==
  /\ manager = "grow" /\ GrowLoopGoesOn
  /\ worker[m.i] = "none" \/ MayBeFoundDead(m.i)
  /\ \E new \in {"start"} \cup (IF CreateMayFail THEN {"failed"} ELSE {}) :
       worker' = [worker EXCEPT ![m.i] = new]
  /\ m' = [m EXCEPT !.i = m.i + 1, !.add = m.add + 1]
  /\ live_thr_num' = live_thr_num + 1
  /\ UNCHANGED <<lock, shutdown, busy_thr_num, wait_exit_thr_num, ring, task, callers,
                 manager, destroying, done>>

SkipSlot ==
  /\ manager = "grow" /\ GrowLoopGoesOn
  /\ MayBeFoundAlive(m.i)
  /\ m' = [m EXCEPT !.i = m.i + 1]
  /\ UNCHANGED <<lock, shutdown, counters, ring, worker, task, callers, manager,
                 destroying, done>>

StopGrowing ==
  /\ manager = "grow" /\ ~GrowLoopGoesOn
  /\ lock' = "free"
  /\ manager' = "shrink"
  /\ UNCHANGED <<shutdown, counters, ring, worker, task, callers, m, destroying, done>>

WantsToShrink == m.busy * 2 < m.live /\ m.live > min_thr_num

\* Both tests use what was read before the pool was grown
Shrink ==
  /\ manager = "shrink" /\ WantsToShrink
  /\ lock = "free"
  /\ wait_exit_thr_num' = DEFAULT_THREAD_VARY
  /\ manager' = "signal"
  /\ m' = [m EXCEPT !.i = 0]
  /\ UNCHANGED <<lock, shutdown, live_thr_num, busy_thr_num, ring, worker, task, callers,
                 destroying, done>>

NoShrink ==
  /\ manager = "shrink" /\ ~WantsToShrink
  /\ manager' = "loop"
  /\ m' = NoLocals
  /\ UNCHANGED <<lock, shutdown, counters, ring, worker, task, callers, destroying, done>>

\* One turn of the loop that signals without the lock
SignalIdle ==
  /\ manager = "signal" /\ m.i < DEFAULT_THREAD_VARY
  /\ SignalNotEmpty
  /\ m' = [m EXCEPT !.i = m.i + 1]
  /\ UNCHANGED <<lock, shutdown, counters, ring, task, callers, manager, destroying, done>>

SignalledAll ==
  /\ manager = "signal" /\ m.i = DEFAULT_THREAD_VARY
  /\ manager' = "loop"
  /\ m' = NoLocals
  /\ UNCHANGED <<lock, shutdown, counters, ring, worker, task, callers, destroying, done>>

ManagerStep ==
  \/ ManagerLoop \/ ReadPool \/ ReadBusy
  \/ LockToGrow \/ CreateThread \/ SkipSlot \/ StopGrowing
  \/ Shrink \/ NoShrink \/ SignalIdle \/ SignalledAll

-----------------------------------------------------------------------------
(* threadpool_destroy and threadpool_free *)

\* shutdown is set without the lock
DestroyCall ==
  /\ destroyer = "idle"
  /\ AddersFirst => \A a \in Adders : adder[a] = "idle"
  /\ shutdown' = TRUE
  /\ destroyer' = "adjust"
  /\ UNCHANGED <<lock, counters, ring, worker, task, callers, managing, d, done>>

JoinManager ==
  /\ destroyer = "adjust" /\ manager = "ended"
  /\ destroyer' = "broadcast"
  /\ UNCHANGED <<lock, shutdown, counters, ring, worker, task, callers, managing, d, done>>

\* One turn of the loop that broadcasts without the lock; live_thr_num is read each time
BroadcastTurn ==
  /\ destroyer = "broadcast"
  /\ IF d < live_thr_num
       THEN worker' = WakeAllWorkers /\ d' = d + 1 /\ UNCHANGED destroyer
       ELSE destroyer' = "join" /\ d' = 0 /\ UNCHANGED worker
  /\ UNCHANGED <<lock, shutdown, counters, ring, task, callers, managing, done>>

\* Mutant: destroy does not wait for the workers
JoinSkipped(s) == TRUE

\* pthread_join(threads[s]) blocks while the thread lives; of an id that is no
\* joinable thread's it returns an error, which is ignored
JoinReturns(s) == worker[s] \in {"zombie", "gone", "failed"}

JoinTurn ==
  /\ destroyer = "join"
  /\ IF d < live_thr_num
       THEN JoinReturns(d) /\ d' = d + 1 /\ UNCHANGED destroyer
       ELSE destroyer' = "free" /\ d' = 0
  /\ UNCHANGED <<lock, shutdown, counters, ring, worker, task, callers, managing, done>>

\* threadpool_free locks both mutexes, destroys them locked, and frees the pool
Free ==
  /\ destroyer = "free"
  /\ lock = "free"
  /\ lock' = "destroyer"
  /\ destroyer' = "freed"
  /\ UNCHANGED <<shutdown, counters, ring, worker, task, callers, managing, d, done>>

DestroyerStep == JoinManager \/ BroadcastTurn \/ JoinTurn \/ Free

-----------------------------------------------------------------------------

Next ==
  \/ \E a \in Adders : AddCall(a) \/ AddRetry(a)
  \/ \E s \in Slots : WorkerStep(s)
  \/ SpuriousWakeup
  \/ ManagerStep
  \/ DestroyCall
  \/ DestroyerStep

Spec == Init /\ [][Next]_vars

(***************************************************************************)
(* Fairness.  A runnable thread is scheduled again and again, a callback   *)
(* returns, sleep ends, and a thread blocked on pool->lock gets it if it   *)
(* is released often enough: strong fairness, because other threads may    *)
(* take the lock in between.  Nothing is assumed of spurious wakeups, of   *)
(* new calls of threadpool_add, or of the call of threadpool_destroy.      *)
(***************************************************************************)
Fairness ==
  /\ \A s \in Slots : SF_vars(WorkerStep(s))
  /\ \A a \in Adders : SF_vars(AddRetry(a))
  /\ SF_vars(ManagerStep)
  /\ SF_vars(DestroyerStep)

FairSpec == Spec /\ Fairness

-----------------------------------------------------------------------------
(* Invariants *)

\* Every variable keeps its type; the counters stay within the pool's sizes.
TypeOK ==
  /\ lock \in {"free", "worker", "manager", "destroyer"}
  /\ shutdown \in BOOLEAN
  /\ live_thr_num \in 0..max_thr_num
  /\ busy_thr_num \in Int
  /\ wait_exit_thr_num \in 0..DEFAULT_THREAD_VARY
  /\ queue_front \in Cells /\ queue_rear \in Cells
  /\ queue_size \in 0..queue_max_size
  /\ task_queue \in [Cells -> Tasks \cup {NoTask}]
  /\ worker \in [Slots -> WorkerStates]
  /\ task \in [Slots -> Tasks \cup {NoTask}]
  /\ adder \in [Adders -> {"idle", "waiting", "woken"}]
  /\ arg \in [Adders -> Tasks \cup {NoTask}]
  /\ manager \in ManagerStates
  /\ m \in [size : 0..queue_max_size, live : 0..max_thr_num, busy : Int,
             i : Nat, add : Nat]
  /\ destroyer \in DestroyerStates
  /\ d \in Nat
  /\ submitted \in 0..NumTasks
  /\ returned \subseteq Tasks
  /\ done \subseteq Tasks

\* The manager decides from counts it read earlier, and workers retire on a request
\* made earlier; still live_thr_num never leaves the limits given to threadpool_create.
LiveWithinLimits == min_thr_num <= live_thr_num /\ live_thr_num <= max_thr_num

\* The slots whose thread has not retired, and those whose thread is counted as busy
Unretired == {s \in Slots : worker[s] \notin {"none", "exiting", "zombie"}}
Busy == {s \in Slots : worker[s] \in {"run", "ran"}}

\* Until shutdown, and if no pthread_create fails, live_thr_num is the number of worker
\* threads that have not retired, whatever happens between a decision and its effect.
LiveCountExact ==
  ~shutdown /\ ~CreateMayFail =>
     live_thr_num = Cardinality(Unretired)

\* The comment on the field: live_thr_num is the number of threads now alive (those on
\* their way out after their count was taken back do not count).
LiveMeansAlive ==
  ~shutdown =>
     live_thr_num = Cardinality({s \in Unretired : worker[s] # "failed"})

\* threadpool_destroy joins by slot number up to live_thr_num, which is a count of
\* threads and not of slots; still it never joins an id of 0, a slot never used.
JoinsOnlyThreads ==
  ~CreateMayFail /\ destroyer = "join" /\ d < live_thr_num => worker[d] # "none"

\* busy_thr_num, kept under a lock of its own, is the number of threads between its
\* increment and its decrement, also across shutdown.
BusyCountExact == busy_thr_num = Cardinality(Busy)

\* The cell k places behind cell c
CellFrom(c, k) == (c + k) % queue_max_size

\* A ring with its head at cell f, its rear at r and n tasks in q
RingHolds(f, r, n, q) ==
  /\ r = CellFrom(f, n)
  /\ \A k \in 0..(n - 1) : q[CellFrom(f, k)] # NoTask

\* queue_front, queue_rear and queue_size agree, and the cells between them hold tasks.
RingConsistent == RingHolds(queue_front, queue_rear, queue_size, task_queue)

\* No wakeup is lost: while a task is queued and the pool is not shut down, some
\* worker is on its way to the queue.  Holds when the pool has a fixed size.
NoStrandedTask ==
  queue_size > 0 /\ ~shutdown =>
     \E s \in Slots : worker[s] \in {"start", "woken", "took", "run", "ran"}

\* threadpool_free runs only when no worker and no caller will touch the pool again.
NoUseAfterFree ==
  destroyer = "freed" =>
     /\ \A s \in Slots : worker[s] \in {"none", "failed", "exiting", "zombie", "leaving", "gone"}
     /\ \A a \in Adders : adder[a] = "idle"

\* The tasks in the ring, head first, and those the workers hold
Pending == [k \in 1..queue_size |-> task_queue[CellFrom(queue_front, k - 1)]]
Running == {task[s] : s \in {w \in Slots : task[w] # NoTask}}

\* A task whose threadpool_add returned 0 is queued, held by a worker, or done.
ReturnedIsKept ==
  returned \subseteq {Pending[k] : k \in 1..queue_size} \cup Running \cup done

-----------------------------------------------------------------------------
(* The promise of threadpool.h *)

Promise == INSTANCE TaskQueue
             WITH Capacity <- queue_max_size, pending <- Pending, running <- Running

\* The ring, the locals of the workers and their interleavings implement a bounded
\* queue whose tasks are started once each, in the order in which they were added.
ImplementsPromise == Promise!Spec

-----------------------------------------------------------------------------
(* Liveness, under Fairness *)

\* A queued task is executed, unless the pool is shut down.
TaskServed ==
  \A t \in Tasks : (\E k \in 1..queue_size : Pending[k] = t) ~> (t \in done \/ shutdown)

\* A caller blocked on a full queue returns, unless the pool is shut down.
AdderReleased ==
  \A a \in Adders : (adder[a] # "idle") ~> (adder[a] = "idle" \/ shutdown)

\* threadpool_destroy gets through its joins and threadpool_free, unless it is kept
\* waiting by a worker asleep on queue_not_empty, whom nobody will wake any more.
DestroyWaitsOnlyForSleepers ==
  (destroyer # "idle") ~>
     (destroyer = "freed" \/ \E s \in Slots : worker[s] = "waiting")

\* threadpool_destroy returns: it stops the pool (threadpool.h), having woken every
\* idle thread.
DestroyReturns == (destroyer # "idle") ~> (destroyer = "freed")

=============================================================================
