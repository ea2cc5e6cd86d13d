-------------------------- MODULE ThreadPoolProofs --------------------------
(***************************************************************************)
(* Proofs about ThreadPool, for every size of the pool and of its queue,   *)
(* every number of callers and of tasks.                                   *)
(***************************************************************************)
EXTENDS ThreadPool, FiniteSetTheorems, QueueLemmas, TLAPS

-----------------------------------------------------------------------------
(* The ring's arithmetic *)

\* The cell k places behind cell c, without the remainder.
LEMMA CellFromIs ==
  ASSUME NEW c \in Cells, NEW k \in 0..queue_max_size
  PROVE  /\ CellFrom(c, k) = IF c + k < queue_max_size THEN c + k ELSE c + k - queue_max_size
         /\ CellFrom(c, k) \in Cells
<1>. DEFINE j == c + k
<1>1. j \in 0..(2 * queue_max_size - 1)
  BY PoolAssumption DEF Cells
<1>. HIDE DEF j
<1>2. j % queue_max_size = IF j < queue_max_size THEN j ELSE j - queue_max_size
  BY <1>1, ModBelowTwice, PoolAssumption
<1>. QED
  BY <1>1, <1>2, PoolAssumption DEF CellFrom, Cells, j

\* NextCell moves one place on.
LEMMA NextCellIs ==
  ASSUME NEW c \in Cells
  PROVE  NextCell(c) = CellFrom(c, 1) /\ NextCell(c) \in Cells
<1>1. 1 \in 0..queue_max_size
  BY PoolAssumption
<1>. QED
  BY <1>1, CellFromIs DEF NextCell, CellFrom

LEMMA NextOfCellFrom ==
  ASSUME NEW c \in Cells, NEW k \in 0..(queue_max_size - 1)
  PROVE  /\ NextCell(CellFrom(c, k)) = CellFrom(c, k + 1)
         /\ CellFrom(NextCell(c), k) = CellFrom(c, k + 1)
<1>. DEFINE n == queue_max_size
            x == CellFrom(c, k)
            y == NextCell(c)
<1>0. n \in Nat \ {0} /\ c \in 0..(n - 1) /\ k \in 0..n /\ k + 1 \in 0..n /\ 1 \in 0..n
  BY PoolAssumption DEF Cells
<1>1. x \in 0..(n - 1) /\ x = IF c + k < n THEN c + k ELSE c + k - n
  BY <1>0, CellFromIs DEF Cells
<1>2. y \in 0..(n - 1) /\ y = IF c + 1 < n THEN c + 1 ELSE c + 1 - n
  BY <1>0, CellFromIs, NextCellIs DEF Cells
<1>3. CellFrom(c, k + 1) = IF c + (k + 1) < n THEN c + (k + 1) ELSE c + (k + 1) - n
  BY <1>0, CellFromIs DEF Cells
<1>4. NextCell(x) = IF x + 1 < n THEN x + 1 ELSE x + 1 - n
  BY <1>0, <1>1, CellFromIs, NextCellIs DEF Cells
<1>5. CellFrom(y, k) = IF y + k < n THEN y + k ELSE y + k - n
  BY <1>0, <1>2, CellFromIs DEF Cells
<1>. HIDE DEF x, y, n
<1>6. NextCell(x) = CellFrom(c, k + 1) /\ CellFrom(y, k) = CellFrom(c, k + 1)
  BY <1>0, <1>1, <1>2, <1>3, <1>4, <1>5
<1>. QED
  BY <1>6 DEF x, y

\* Adding a task behind the last one keeps the ring's pointers in agreement.
LEMMA RingGrows ==
  ASSUME NEW f \in Cells, NEW r \in Cells, NEW n \in 0..(queue_max_size - 1),
         NEW q \in [Cells -> Tasks \cup {NoTask}], NEW t \in Tasks,
         RingHolds(f, r, n, q)
  PROVE  RingHolds(f, NextCell(r), n + 1, [q EXCEPT ![r] = t])
<1>1. NextCell(r) = CellFrom(f, n + 1)
  BY NextOfCellFrom DEF RingHolds
<1>2. ASSUME NEW k \in 0..n
      PROVE  [q EXCEPT ![r] = t][CellFrom(f, k)] # NoTask
  <2>1. CellFrom(f, k) \in Cells
    BY CellFromIs, PoolAssumption
  <2>2. CASE k = n
    BY <2>1, <2>2 DEF RingHolds, Tasks, NoTask
  <2>3. CASE k # n
    <3>1. k \in 0..(n - 1)
      BY <2>3
    <3>. QED
      BY <2>1, <3>1 DEF RingHolds, Tasks, NoTask
  <2>. QED
    BY <2>2, <2>3
<1>. QED
  BY <1>1, <1>2 DEF RingHolds

\* Taking the task at the head keeps them in agreement, and yields a task.
LEMMA RingShrinks ==
  ASSUME NEW f \in Cells, NEW r \in Cells, NEW n \in 1..queue_max_size,
         NEW q \in [Cells -> Tasks \cup {NoTask}],
         RingHolds(f, r, n, q)
  PROVE  RingHolds(NextCell(f), r, n - 1, q) /\ q[f] \in Tasks
<1>. USE PoolAssumption
<1>1. \A k \in 0..(n - 1) : CellFrom(NextCell(f), k) = CellFrom(f, k + 1)
  BY NextOfCellFrom
<1>2. r = CellFrom(NextCell(f), n - 1)
  <2>1. CellFrom(NextCell(f), n - 1) = CellFrom(f, (n - 1) + 1)
    BY <1>1
  <2>. QED
    BY <2>1 DEF RingHolds
<1>3. \A k \in 0..((n - 1) - 1) : q[CellFrom(NextCell(f), k)] # NoTask
  BY <1>1 DEF RingHolds
<1>4. CellFrom(f, 0) = f
  BY CellFromIs DEF Cells
<1>5. q[f] \in Tasks
  BY <1>4 DEF RingHolds
<1>. QED
  BY <1>2, <1>3, <1>5 DEF RingHolds

-----------------------------------------------------------------------------
(* Types, limits and the ring: one induction, because the type of done     *)
(* rests on the tasks found in the ring.                                   *)

\* Whoever holds a task, or waits to add one, holds a real one.
TasksHeld ==
  /\ \A s \in Slots : worker[s] \in {"took", "run"} => task[s] \in Tasks
  /\ \A a \in Adders : adder[a] # "idle" => arg[a] \in Tasks

CoreInv == TypeOK /\ LiveWithinLimits /\ RingConsistent /\ TasksHeld

LEMMA InitCore == Init => CoreInv
<1>. SUFFICES ASSUME Init PROVE CoreInv
  OBVIOUS
<1>. USE PoolAssumption
<1>1. TypeOK
  <2>1. NoLocals \in [size : 0..queue_max_size, live : 0..max_thr_num, busy : Int,
                      i : Nat, add : Nat]
    BY DEF NoLocals
  <2>2. worker \in [Slots -> WorkerStates]
    BY DEF Init, WorkerStates
  <2>3. 0 \in Cells /\ NoTask \notin Tasks
    BY DEF Cells, Tasks, NoTask
  <2>4. /\ lock \in {"free", "worker", "manager", "destroyer"}
        /\ manager \in ManagerStates /\ destroyer \in DestroyerStates
    BY DEF Init, ManagerStates, DestroyerStates
  <2>5. /\ task_queue \in [Cells -> Tasks \cup {NoTask}]
        /\ task \in [Slots -> Tasks \cup {NoTask}]
        /\ adder \in [Adders -> {"idle", "waiting", "woken"}]
        /\ arg \in [Adders -> Tasks \cup {NoTask}]
    BY DEF Init
  <2>6. shutdown \in BOOLEAN
    BY DEF Init
  <2>7. /\ d \in Nat
        /\ live_thr_num \in 0..max_thr_num
        /\ busy_thr_num \in Int
        /\ wait_exit_thr_num \in 0..DEFAULT_THREAD_VARY
        /\ queue_size \in 0..queue_max_size
        /\ submitted \in 0..NumTasks
    BY DEF Init
  <2>8. returned \subseteq Tasks /\ done \subseteq Tasks
    BY DEF Init
  <2>9. queue_front \in Cells /\ queue_rear \in Cells /\ m = NoLocals
    BY <2>3 DEF Init
  <2>. QED
    BY <2>1, <2>2, <2>4, <2>5, <2>6, <2>7, <2>8, <2>9 DEF TypeOK
<1>2. LiveWithinLimits /\ TasksHeld
  BY DEF Init, LiveWithinLimits, TasksHeld
<1>3. RingConsistent
  <2>1. CellFrom(0, 0) = 0
    BY CellFromIs DEF Cells
  <2>. QED
    BY <2>1 DEF Init, RingConsistent, RingHolds
<1>. QED
  BY <1>1, <1>2, <1>3 DEF CoreInv

\* A signal moves one waiter, and nobody else.
LEMMA SignalKeeps ==
  ASSUME worker \in [Slots -> WorkerStates], SignalNotEmpty
  PROVE  /\ worker' \in [Slots -> WorkerStates]
         /\ \A s \in Slots : \/ worker'[s] = worker[s]
                             \/ worker[s] = "waiting" /\ worker'[s] = "woken"
  BY DEF SignalNotEmpty, WorkerStates

\* What threadpool_add does with the lock keeps the invariant.
LEMMA AddKeepsCore ==
  ASSUME CoreInv, NEW a \in Adders, NEW t \in Tasks, AddLocked(a, t),
         submitted' \in 0..NumTasks,
         UNCHANGED <<lock, shutdown, counters, task, managing, destroying, done>>
  PROVE  CoreInv'
<1>. USE PoolAssumption DEF counters, managing, destroying
<1>1. CASE AddWaits(a, t)
  BY <1>1 DEF AddWaits, ring, CoreInv, TypeOK, LiveWithinLimits, RingConsistent, TasksHeld
<1>2. CASE AddDrops(a, t)
  <2>1. /\ worker' \in [Slots -> WorkerStates]
        /\ \A s \in Slots : worker'[s] = worker[s] \/ worker'[s] = "woken"
    BY <1>2 DEF AddDrops, WakeAllWorkers, CoreInv, TypeOK, WorkerStates
  <2>. QED
    BY <1>2, <2>1 DEF AddDrops, AddReturns, ring, CoreInv, TypeOK, LiveWithinLimits,
       RingConsistent, TasksHeld
<1>3. CASE AddEnqueues(a, t)
  <2>1. /\ queue_front \in Cells /\ queue_rear \in Cells
        /\ task_queue \in [Cells -> Tasks \cup {NoTask}]
        /\ RingHolds(queue_front, queue_rear, queue_size, task_queue)
    BY DEF CoreInv, TypeOK, RingConsistent
  <2>2. queue_size \in 0..(queue_max_size - 1) /\ queue_size + 1 \in 0..queue_max_size
    BY <1>3 DEF AddEnqueues, Full, CoreInv, TypeOK
  <2>3. RingConsistent'
    BY <1>3, <2>1, <2>2, RingGrows DEF AddEnqueues, RingConsistent
  <2>4. /\ worker' \in [Slots -> WorkerStates]
        /\ \A s \in Slots : worker'[s] = worker[s] \/ worker'[s] = "woken"
    BY <1>3, SignalKeeps DEF AddEnqueues, CoreInv, TypeOK
  <2>5. NextCell(queue_rear) \in Cells
    BY <2>1, NextCellIs
  <2>6. TypeOK'
    BY <1>3, <2>1, <2>2, <2>4, <2>5 DEF AddEnqueues, AddReturns, CoreInv, TypeOK
  <2>7. LiveWithinLimits' /\ TasksHeld'
    BY <1>3, <2>4 DEF AddEnqueues, AddReturns, CoreInv, TypeOK, LiveWithinLimits, TasksHeld
  <2>. QED
    BY <2>3, <2>6, <2>7 DEF CoreInv
<1>. QED
  BY <1>1, <1>2, <1>3 DEF AddLocked

\* What a worker does once it holds the lock keeps the invariant.
LEMMA WorkerKeepsCore ==
  ASSUME CoreInv, NEW s \in Slots, worker[s] \in {"start", "woken"}, WorkerLocked(s),
         wait_exit_thr_num' \in 0..DEFAULT_THREAD_VARY,
         UNCHANGED <<shutdown, live_thr_num, busy_thr_num, arg, submitted, returned,
                     managing, destroying, done>>
  PROVE  CoreInv'
<1>. USE PoolAssumption DEF managing, destroying
<1>1. CASE PrepareWait(s)
  BY <1>1 DEF PrepareWait, ring, CoreInv, TypeOK, WorkerStates, LiveWithinLimits,
     RingConsistent, TasksHeld
<1>2. CASE Leave(s)
  BY <1>2 DEF Leave, ring, CoreInv, TypeOK, WorkerStates, LiveWithinLimits, RingConsistent,
     TasksHeld
<1>3. CASE Dequeue(s)
  <2>1. /\ queue_front \in Cells /\ queue_rear \in Cells
        /\ task_queue \in [Cells -> Tasks \cup {NoTask}]
        /\ RingHolds(queue_front, queue_rear, queue_size, task_queue)
    BY DEF CoreInv, TypeOK, RingConsistent
  <2>2. queue_size \in 1..queue_max_size /\ queue_size - 1 \in 0..queue_max_size
    BY <1>3 DEF Dequeue, CoreInv, TypeOK
  <2>3. RingHolds(NextCell(queue_front), queue_rear, queue_size - 1, task_queue)
        /\ task_queue[queue_front] \in Tasks
    BY <2>1, <2>2, RingShrinks
  <2>4. RingConsistent'
    BY <1>3, <2>3 DEF Dequeue, RingConsistent
  <2>5. NextCell(queue_front) \in Cells
    BY <2>1, NextCellIs
  <2>6. /\ adder' \in [Adders -> {"idle", "waiting", "woken"}]
        /\ \A a \in Adders : adder'[a] = "idle" <=> adder[a] = "idle"
    BY <1>3 DEF Dequeue, WakeAllAdders, CoreInv, TypeOK
  <2>7. TypeOK'
    BY <1>3, <2>1, <2>2, <2>3, <2>5, <2>6 DEF Dequeue, CoreInv, TypeOK, WorkerStates
  <2>8. LiveWithinLimits' /\ TasksHeld'
    BY <1>3, <2>3, <2>6 DEF Dequeue, CoreInv, TypeOK, LiveWithinLimits, TasksHeld
  <2>. QED
    BY <2>4, <2>7, <2>8 DEF CoreInv
<1>. QED
  BY <1>1, <1>2, <1>3 DEF WorkerLocked

\* Every step of every thread keeps the invariant.
LEMMA NextKeepsCore == CoreInv /\ [Next]_vars => CoreInv'
<1>. SUFFICES ASSUME CoreInv, [Next]_vars PROVE CoreInv'
  OBVIOUS
<1>. USE PoolAssumption
<1>1. CASE UNCHANGED vars
  BY <1>1 DEF vars, counters, ring, callers, managing, destroying, CoreInv, TypeOK,
     LiveWithinLimits, RingConsistent, TasksHeld
<1>2. ASSUME NEW a \in Adders, AddCall(a) PROVE CoreInv'
  <2>1. submitted + 1 \in Tasks /\ submitted' \in 0..NumTasks
    BY <1>2 DEF AddCall, Tasks, CoreInv, TypeOK
  <2>. QED
    BY <1>2, <2>1, AddKeepsCore DEF AddCall
<1>3. ASSUME NEW a \in Adders, AddRetry(a) PROVE CoreInv'
  <2>1. arg[a] \in Tasks /\ submitted' \in 0..NumTasks
    BY <1>3 DEF AddRetry, CoreInv, TypeOK, TasksHeld
  <2>. QED
    BY <1>3, <2>1, AddKeepsCore DEF AddRetry
<1>4. ASSUME NEW s \in Slots, WorkerStep(s) PROVE CoreInv'
  <2>. USE DEF counters, ring, callers, managing, destroying
  <2>1. CASE WorkerStart(s)
    <3>1. wait_exit_thr_num' \in 0..DEFAULT_THREAD_VARY
      BY <2>1 DEF WorkerStart, CoreInv, TypeOK
    <3>. QED
      BY <2>1, <3>1, WorkerKeepsCore DEF WorkerStart
  <2>2. CASE CondWait(s)
    BY <2>2 DEF CondWait, CoreInv, TypeOK, WorkerStates, LiveWithinLimits, RingConsistent,
       TasksHeld
  <2>3. CASE WorkerWakes(s)
    <3>1. wait_exit_thr_num' \in 0..DEFAULT_THREAD_VARY
      BY <2>3 DEF WorkerWakes, CoreInv, TypeOK
    <3>2. CASE wait_exit_thr_num > 0 /\ MayRetire
      BY <2>3, <3>1, <3>2 DEF WorkerWakes, MayRetire, CoreInv, TypeOK, WorkerStates,
         LiveWithinLimits, RingConsistent, TasksHeld
    <3>3. CASE ~(wait_exit_thr_num > 0 /\ MayRetire)
      BY <2>3, <3>1, <3>3, WorkerKeepsCore DEF WorkerWakes
    <3>. QED
      BY <3>2, <3>3
  <2>4. CASE BusyInc(s)
    BY <2>4 DEF BusyInc, CoreInv, TypeOK, WorkerStates, LiveWithinLimits, RingConsistent,
       TasksHeld
  <2>5. CASE Execute(s)
    BY <2>5 DEF Execute, CoreInv, TypeOK, WorkerStates, LiveWithinLimits, RingConsistent,
       TasksHeld
  <2>6. CASE BusyDec(s)
    BY <2>6 DEF BusyDec, CoreInv, TypeOK, WorkerStates, LiveWithinLimits, RingConsistent,
       TasksHeld
  <2>7. CASE EndThread(s)
    BY <2>7 DEF EndThread, CoreInv, TypeOK, WorkerStates, LiveWithinLimits, RingConsistent,
       TasksHeld
  <2>. QED
    BY <1>4, <2>1, <2>2, <2>3, <2>4, <2>5, <2>6, <2>7 DEF WorkerStep
<1>5. CASE SpuriousWakeup
  BY <1>5 DEF SpuriousWakeup, counters, ring, managing, destroying, CoreInv, TypeOK,
     WorkerStates, LiveWithinLimits, RingConsistent, TasksHeld
<1>6. CASE ManagerStep
  <2>. USE DEF counters, ring, callers, destroying, ManagerStates
  <2>1. CASE ManagerLoop
    BY <2>1 DEF ManagerLoop, CoreInv, TypeOK, LiveWithinLimits, RingConsistent, TasksHeld
  <2>2. CASE ReadPool
    BY <2>2 DEF ReadPool, CoreInv, TypeOK, LiveWithinLimits, RingConsistent, TasksHeld
  <2>3. CASE ReadBusy
    BY <2>3 DEF ReadBusy, CoreInv, TypeOK, LiveWithinLimits, RingConsistent, TasksHeld
  <2>4. CASE LockToGrow
    BY <2>4 DEF LockToGrow, CoreInv, TypeOK, LiveWithinLimits, RingConsistent, TasksHeld
  <2>5. CASE CreateThread
    <3>1. /\ worker' \in [Slots -> WorkerStates]
          /\ \A s \in Slots : worker'[s] = worker[s] \/ worker'[s] \in {"start", "failed"}
      BY <2>5 DEF CreateThread, CoreInv, TypeOK, WorkerStates
    <3>2. live_thr_num' \in 0..max_thr_num
      BY <2>5 DEF CreateThread, GrowLoopGoesOn, CoreInv, TypeOK
    <3>3. m' \in [size : 0..queue_max_size, live : 0..max_thr_num, busy : Int,
                  i : Nat, add : Nat]
      <4>. DEFINE Locals == [size : 0..queue_max_size, live : 0..max_thr_num, busy : Int,
                             i : Nat, add : Nat]
      <4>1. \A r \in Locals, x \in Nat, y \in Nat :
               [r EXCEPT !.i = x, !.add = y] \in Locals
        OBVIOUS
      <4>2. m \in Locals /\ m.i + 1 \in Nat /\ m.add + 1 \in Nat
        BY DEF CoreInv, TypeOK
      <4>. HIDE DEF Locals
      <4>3. m' \in Locals
        BY <2>5, <4>1, <4>2 DEF CreateThread
      <4>. QED
        BY <4>3 DEF Locals
    <3>4. LiveWithinLimits'
      BY <2>5 DEF CreateThread, GrowLoopGoesOn, CoreInv, TypeOK, LiveWithinLimits
    <3>5. TypeOK'
      BY <2>5, <3>1, <3>2, <3>3 DEF CreateThread, CoreInv, TypeOK
    <3>. QED
      BY <2>5, <3>1, <3>4, <3>5 DEF CreateThread, CoreInv, RingConsistent, TasksHeld
  <2>6. CASE SkipSlot
    BY <2>6 DEF SkipSlot, CoreInv, TypeOK, LiveWithinLimits, RingConsistent, TasksHeld
  <2>7. CASE StopGrowing
    BY <2>7 DEF StopGrowing, CoreInv, TypeOK, LiveWithinLimits, RingConsistent, TasksHeld
  <2>8. CASE Shrink
    BY <2>8 DEF Shrink, CoreInv, TypeOK, LiveWithinLimits, RingConsistent, TasksHeld
  <2>9. CASE NoShrink
    BY <2>9 DEF NoShrink, NoLocals, CoreInv, TypeOK, LiveWithinLimits, RingConsistent, TasksHeld
  <2>10. CASE SignalIdle
    BY <2>10, SignalKeeps DEF SignalIdle, CoreInv, TypeOK, LiveWithinLimits, RingConsistent,
       TasksHeld
  <2>11. CASE SignalledAll
    BY <2>11 DEF SignalledAll, NoLocals, CoreInv, TypeOK, LiveWithinLimits, RingConsistent,
       TasksHeld
  <2>. QED
    BY <1>6, <2>1, <2>2, <2>3, <2>4, <2>5, <2>6, <2>7, <2>8, <2>9, <2>10, <2>11 DEF ManagerStep
<1>7. CASE DestroyCall
  BY <1>7 DEF DestroyCall, counters, ring, callers, managing, DestroyerStates, CoreInv,
     TypeOK, LiveWithinLimits, RingConsistent, TasksHeld
<1>8. CASE DestroyerStep
  <2>. USE DEF counters, ring, callers, managing, DestroyerStates
  <2>1. CASE JoinManager
    BY <2>1 DEF JoinManager, CoreInv, TypeOK, LiveWithinLimits, RingConsistent, TasksHeld
  <2>2. CASE BroadcastTurn
    BY <2>2 DEF BroadcastTurn, WakeAllWorkers, CoreInv, TypeOK, WorkerStates,
       LiveWithinLimits, RingConsistent, TasksHeld
  <2>3. CASE JoinTurn
    BY <2>3 DEF JoinTurn, CoreInv, TypeOK, LiveWithinLimits, RingConsistent, TasksHeld
  <2>4. CASE Free
    BY <2>4 DEF Free, CoreInv, TypeOK, LiveWithinLimits, RingConsistent, TasksHeld
  <2>. QED
    BY <1>8, <2>1, <2>2, <2>3, <2>4 DEF DestroyerStep
<1>. QED
  BY <1>1, <1>2, <1>3, <1>4, <1>5, <1>6, <1>7, <1>8 DEF Next

THEOREM CoreInvariant == Spec => []CoreInv
  BY InitCore, NextKeepsCore, PTL DEF Spec

\* Every variable keeps its type.
THEOREM TypeCorrect == Spec => []TypeOK
<1>1. CoreInv => TypeOK
  BY DEF CoreInv
<1>. QED
  BY CoreInvariant, <1>1, PTL

\* live_thr_num stays within the limits given to threadpool_create, although manager and
\* workers act on counts read and requests made earlier.
THEOREM LimitsKept == Spec => []LiveWithinLimits
<1>1. CoreInv => LiveWithinLimits
  BY DEF CoreInv
<1>. QED
  BY CoreInvariant, <1>1, PTL

\* The ring's pointers and its size agree, and the cells between them hold tasks.
THEOREM RingKept == Spec => []RingConsistent
<1>1. CoreInv => RingConsistent
  BY DEF CoreInv
<1>. QED
  BY CoreInvariant, <1>1, PTL

-----------------------------------------------------------------------------
(* The counters.  A step moves at most one thread into or out of the set   *)
(* it counts.                                                              *)

LEMMA SlotsFinite == \A T \in SUBSET Slots : IsFiniteSet(T) /\ Cardinality(T) \in Nat
<1>1. IsFiniteSet(Slots)
  BY FS_Interval, PoolAssumption DEF Slots
<1>. QED
  BY <1>1, FS_Subset, FS_CardinalityType

LEMMA OneMore ==
  ASSUME NEW S \in SUBSET Slots, NEW s \in Slots, s \notin S
  PROVE  Cardinality(S \cup {s}) = Cardinality(S) + 1
  BY SlotsFinite, FS_AddElement

LEMMA OneLess ==
  ASSUME NEW S \in SUBSET Slots, NEW s \in S
  PROVE  Cardinality(S \ {s}) = Cardinality(S) - 1
  BY SlotsFinite, FS_RemoveElement

\* busy_thr_num changes only with the set it counts.
LEMMA NextKeepsBusyCount == CoreInv /\ BusyCountExact /\ [Next]_vars => BusyCountExact'
<1>. SUFFICES ASSUME CoreInv, BusyCountExact, [Next]_vars PROVE BusyCountExact'
  OBVIOUS
<1>0. worker \in [Slots -> WorkerStates] /\ Busy \in SUBSET Slots
  BY DEF CoreInv, TypeOK, Busy
<1>1. ASSUME UNCHANGED busy_thr_num,
             \A s \in Slots : worker'[s] \in {"run", "ran"} <=> worker[s] \in {"run", "ran"}
      PROVE  BusyCountExact'
  BY <1>1 DEF BusyCountExact, Busy
<1>2. ASSUME NEW s \in Slots, BusyInc(s) PROVE BusyCountExact'
  <2>1. Busy' = Busy \cup {s} /\ s \notin Busy
    BY <1>0, <1>2 DEF BusyInc, Busy
  <2>. QED
    BY <1>0, <1>2, <2>1, OneMore DEF BusyInc, BusyCountExact
<1>3. ASSUME NEW s \in Slots, BusyDec(s) PROVE BusyCountExact'
  <2>1. Busy' = Busy \ {s} /\ s \in Busy
    BY <1>0, <1>3 DEF BusyDec, Busy
  <2>. QED
    BY <1>0, <1>3, <2>1, OneLess DEF BusyDec, BusyCountExact
<1>4. CASE UNCHANGED vars
  BY <1>1, <1>4 DEF vars, counters
<1>5. ASSUME NEW a \in Adders, AddCall(a) \/ AddRetry(a) PROVE BusyCountExact'
  BY <1>0, <1>1, <1>5, SignalKeeps DEF AddCall, AddRetry, AddLocked, AddWaits, AddDrops,
     AddEnqueues, WakeAllWorkers, counters
<1>6. ASSUME NEW s \in Slots, WorkerStart(s) \/ WorkerWakes(s) PROVE BusyCountExact'
  BY <1>0, <1>1, <1>6 DEF WorkerStart, WorkerWakes, WorkerLocked, PrepareWait, Leave,
     Dequeue, counters
<1>7. ASSUME NEW s \in Slots, CondWait(s) \/ Execute(s) \/ EndThread(s) PROVE BusyCountExact'
  BY <1>0, <1>1, <1>7 DEF CondWait, Execute, EndThread, counters
<1>8. CASE SpuriousWakeup
  BY <1>0, <1>1, <1>8 DEF SpuriousWakeup, counters
<1>9. CASE ManagerStep
  <2>1. CASE CreateThread
    BY <1>0, <1>1, <2>1 DEF CreateThread, MayBeFoundDead
  <2>2. CASE SignalIdle
    BY <1>0, <1>1, <2>2, SignalKeeps DEF SignalIdle, counters
  <2>. QED
    BY <1>1, <1>9, <2>1, <2>2 DEF ManagerStep, ManagerLoop, ReadPool, ReadBusy, LockToGrow,
       SkipSlot, StopGrowing, Shrink, NoShrink, SignalledAll, counters
<1>10. CASE DestroyCall \/ DestroyerStep
  BY <1>0, <1>1, <1>10 DEF DestroyCall, DestroyerStep, JoinManager, BroadcastTurn, JoinTurn,
     Free, WakeAllWorkers, counters
<1>. QED
  BY <1>2, <1>3, <1>4, <1>5, <1>6, <1>7, <1>8, <1>9, <1>10 DEF Next, WorkerStep

\* busy_thr_num is the number of threads between its increment and its decrement.
THEOREM BusyCountKept == Spec => []BusyCountExact
<1>1. Init => BusyCountExact
  <2>. SUFFICES ASSUME Init PROVE BusyCountExact
    OBVIOUS
  <2>1. Busy = {}
    BY DEF Init, Busy
  <2>. QED
    BY <2>1, FS_EmptySet DEF Init, BusyCountExact
<1>. QED
  BY <1>1, CoreInvariant, NextKeepsBusyCount, PTL DEF Spec

\* Nobody leaves before shutdown, and no slot is without a thread if none failed to start.
NobodyLeft ==
  /\ ~shutdown => \A s \in Slots : worker[s] \notin {"leaving", "gone"}
  /\ ~CreateMayFail => \A s \in Slots : worker[s] # "failed"

LiveInv == LiveCountExact /\ NobodyLeft

LEMMA InitLive == Init => LiveInv
<1>. SUFFICES ASSUME Init PROVE LiveInv
  OBVIOUS
<1>1. NobodyLeft
  BY DEF Init, NobodyLeft
<1>2. Unretired = 0..(min_thr_num - 1)
  BY PoolAssumption DEF Init, Unretired, Slots
<1>3. Cardinality(Unretired) = live_thr_num
  BY <1>2, FS_Interval, PoolAssumption DEF Init
<1>. QED
  BY <1>1, <1>3 DEF LiveInv, LiveCountExact

\* live_thr_num changes only with the set it counts, until shutdown.
LEMMA NextKeepsLive == CoreInv /\ LiveInv /\ [Next]_vars => LiveInv'
<1>. SUFFICES ASSUME CoreInv, LiveInv, [Next]_vars PROVE LiveInv'
  OBVIOUS
<1>0. worker \in [Slots -> WorkerStates] /\ Unretired \in SUBSET Slots
  BY DEF CoreInv, TypeOK, Unretired
<1>1. shutdown => shutdown'
  BY DEF Next, vars, AddCall, AddRetry, WorkerStep, WorkerStart, CondWait, WorkerWakes, BusyInc,
     Execute, BusyDec, EndThread, SpuriousWakeup, ManagerStep, ManagerLoop, ReadPool, ReadBusy,
     LockToGrow, CreateThread, SkipSlot, StopGrowing, Shrink, NoShrink, SignalIdle,
     SignalledAll, DestroyCall, DestroyerStep, JoinManager, BroadcastTurn, JoinTurn, Free
<1>. DEFINE Out == {"none", "exiting", "zombie", "failed"}
            Left == {"leaving", "gone"}
<1>2. ASSUME UNCHANGED live_thr_num,
             \A s \in Slots : \/ worker'[s] = worker[s]
                              \/ worker'[s] \notin Out \cup Left /\ worker[s] \notin Out \cup Left
                              \/ worker[s] \in Left /\ worker'[s] \in Left
                              \/ worker[s] = "exiting" /\ worker'[s] = "zombie"
                              \/ shutdown' /\ worker'[s] \in Left
      PROVE  LiveInv'
  <2>1. NobodyLeft'
    BY <1>1, <1>2 DEF LiveInv, NobodyLeft
  <2>2. ~shutdown' => Unretired' = Unretired
    BY <1>1, <1>2 DEF LiveInv, NobodyLeft, Unretired
  <2>. QED
    BY <1>1, <1>2, <2>1, <2>2 DEF LiveInv, LiveCountExact
<1>3. CASE UNCHANGED vars
  BY <1>2, <1>3 DEF vars, counters
<1>4. ASSUME NEW a \in Adders, AddCall(a) \/ AddRetry(a) PROVE LiveInv'
  BY <1>0, <1>2, <1>4, SignalKeeps DEF AddCall, AddRetry, AddLocked, AddWaits, AddDrops,
     AddEnqueues, WakeAllWorkers, counters
<1>5. ASSUME NEW s \in Slots, WorkerStep(s) PROVE LiveInv'
  <2>1. ASSUME WorkerLocked(s), worker[s] \in {"start", "woken"},
               UNCHANGED <<shutdown, live_thr_num>>
        PROVE  LiveInv'
    BY <1>0, <1>2, <2>1 DEF WorkerLocked, PrepareWait, Leave, Dequeue
  <2>2. CASE WorkerStart(s)
    BY <2>1, <2>2 DEF WorkerStart, counters
  <2>3. CASE WorkerWakes(s)
    <3>1. CASE wait_exit_thr_num > 0 /\ MayRetire
      <4>1. worker' = [worker EXCEPT ![s] = "exiting"] /\ live_thr_num' = live_thr_num - 1
            /\ UNCHANGED shutdown /\ worker[s] = "woken"
        BY <2>3, <3>1 DEF WorkerWakes
      <4>2. Unretired' = Unretired \ {s} /\ s \in Unretired
        BY <1>0, <4>1 DEF Unretired
      <4>3. NobodyLeft'
        BY <1>0, <4>1 DEF LiveInv, NobodyLeft
      <4>. QED
        BY <1>0, <4>1, <4>2, <4>3, OneLess DEF LiveInv, LiveCountExact
    <3>2. CASE ~(wait_exit_thr_num > 0 /\ MayRetire)
      BY <2>1, <2>3, <3>2 DEF WorkerWakes
    <3>. QED
      BY <3>1, <3>2
  <2>4. CASE CondWait(s) \/ BusyInc(s) \/ Execute(s) \/ BusyDec(s)
    BY <1>0, <1>2, <2>4 DEF CondWait, BusyInc, Execute, BusyDec, counters
  <2>5. CASE EndThread(s)
    BY <1>0, <1>2, <2>5 DEF EndThread, counters
  <2>. QED
    BY <1>5, <2>2, <2>3, <2>4, <2>5 DEF WorkerStep
<1>6. CASE SpuriousWakeup
  BY <1>0, <1>2, <1>6 DEF SpuriousWakeup, counters
<1>7. CASE ManagerStep
  <2>1. CASE CreateThread
    <3>1. PICK new \in {"start"} \cup (IF CreateMayFail THEN {"failed"} ELSE {}) :
             worker' = [worker EXCEPT ![m.i] = new]
      BY <2>1 DEF CreateThread
    <3>2. /\ m.i \in Slots /\ live_thr_num' = live_thr_num + 1 /\ UNCHANGED shutdown
          /\ worker[m.i] \in {"none", "zombie", "gone", "failed"}
      BY <2>1, PoolAssumption
      DEF CreateThread, GrowLoopGoesOn, MayBeFoundDead, Slots, CoreInv, TypeOK
    <3>3. NobodyLeft'
      BY <1>0, <3>1, <3>2 DEF LiveInv, NobodyLeft
    <3>4. ~shutdown /\ ~CreateMayFail => Unretired' = Unretired \cup {m.i} /\ m.i \notin Unretired
      BY <1>0, <3>1, <3>2 DEF Unretired, LiveInv, NobodyLeft
    <3>. QED
      BY <1>0, <3>2, <3>3, <3>4, OneMore DEF LiveInv, LiveCountExact
  <2>2. CASE SignalIdle
    BY <1>0, <1>2, <2>2, SignalKeeps DEF SignalIdle, counters
  <2>. QED
    BY <1>2, <1>7, <2>1, <2>2 DEF ManagerStep, ManagerLoop, ReadPool, ReadBusy, LockToGrow,
       SkipSlot, StopGrowing, Shrink, NoShrink, SignalledAll, counters
<1>8. CASE DestroyCall \/ DestroyerStep
  BY <1>0, <1>2, <1>8 DEF DestroyCall, DestroyerStep, JoinManager, BroadcastTurn, JoinTurn,
     Free, WakeAllWorkers, counters
<1>. QED
  BY <1>3, <1>4, <1>5, <1>6, <1>7, <1>8 DEF Next

LEMMA LiveInvariant == Spec => []LiveInv
  BY InitLive, CoreInvariant, NextKeepsLive, PTL DEF Spec

\* Until shutdown, and if every pthread_create succeeds, live_thr_num is the number of
\* threads that have not retired.
THEOREM LiveCountKept == Spec => []LiveCountExact
<1>1. LiveInv => LiveCountExact
  BY DEF LiveInv
<1>. QED
  BY LiveInvariant, <1>1, PTL

-----------------------------------------------------------------------------
(* A pool of fixed size loses no wakeup                                    *)

FixedSize == min_thr_num = max_thr_num /\ max_thr_num > 0 /\ ~CreateMayFail

\* A worker about to wait holds the lock, alone, and the queue is still empty; the
\* manager creates threads with the lock.
LockHeld ==
  /\ \A s \in Slots : worker[s] = "prewait" => lock = "worker" /\ queue_size = 0
  /\ \A s, r \in Slots : worker[s] = "prewait" /\ worker[r] = "prewait" => s = r
  /\ manager = "grow" => lock = "manager"

LEMMA InitLock == Init => LockHeld
  BY DEF Init, LockHeld

LEMMA NextKeepsLock == CoreInv /\ LockHeld /\ [Next]_vars => LockHeld'
<1>. SUFFICES ASSUME CoreInv, LockHeld, [Next]_vars PROVE LockHeld'
  OBVIOUS
<1>0. worker \in [Slots -> WorkerStates]
  BY DEF CoreInv, TypeOK
<1>1. ASSUME UNCHANGED <<lock, queue_size, manager>>,
             \A s \in Slots : worker'[s] = "prewait" <=> worker[s] = "prewait"
      PROVE  LockHeld'
  BY <1>1 DEF LockHeld
<1>2. ASSUME lock = "free", UNCHANGED <<lock, manager>>,
             \A s \in Slots : worker'[s] # "prewait" \/ worker[s] = "prewait"
      PROVE  LockHeld'
  BY <1>2 DEF LockHeld
<1>3. CASE UNCHANGED vars
  BY <1>1, <1>3 DEF vars, ring, managing
<1>4. ASSUME NEW a \in Adders, AddCall(a) \/ AddRetry(a) PROVE LockHeld'
  BY <1>0, <1>2, <1>4, SignalKeeps DEF AddCall, AddRetry, AddLocked, AddWaits, AddDrops,
     AddEnqueues, WakeAllWorkers, managing
<1>5. ASSUME NEW s \in Slots, WorkerStep(s) PROVE LockHeld'
  <2>1. ASSUME WorkerLocked(s), lock = "free", UNCHANGED manager PROVE LockHeld'
    <3>1. CASE PrepareWait(s)
      BY <1>0, <2>1, <3>1 DEF PrepareWait, ring, LockHeld
    <3>2. CASE Leave(s) \/ Dequeue(s)
      BY <1>0, <1>2, <2>1, <3>2 DEF Leave, Dequeue
    <3>. QED
      BY <2>1, <3>1, <3>2 DEF WorkerLocked
  <2>2. CASE WorkerStart(s)
    BY <2>1, <2>2 DEF WorkerStart, managing
  <2>3. CASE WorkerWakes(s)
    BY <1>0, <1>2, <2>1, <2>3 DEF WorkerWakes, managing
  <2>4. CASE CondWait(s)
    BY <1>0, <2>4 DEF CondWait, ring, managing, LockHeld
  <2>5. CASE BusyInc(s) \/ Execute(s) \/ BusyDec(s) \/ EndThread(s)
    BY <1>0, <1>1, <2>5 DEF BusyInc, Execute, BusyDec, EndThread, ring, managing
  <2>. QED
    BY <1>5, <2>2, <2>3, <2>4, <2>5 DEF WorkerStep
<1>6. CASE SpuriousWakeup
  BY <1>0, <1>1, <1>6 DEF SpuriousWakeup, ring, managing
<1>7. CASE ManagerStep
  <2>1. CASE CreateThread
    BY <1>0, <1>1, <2>1 DEF CreateThread, MayBeFoundDead, ring
  <2>2. CASE SignalIdle
    BY <1>0, <1>1, <2>2, SignalKeeps DEF SignalIdle, ring
  <2>3. CASE LockToGrow \/ StopGrowing
    BY <2>3 DEF LockToGrow, StopGrowing, ring, LockHeld
  <2>4. CASE ManagerLoop \/ ReadPool \/ ReadBusy \/ Shrink \/ NoShrink \/ SignalledAll
    BY <2>4 DEF ManagerLoop, ReadPool, ReadBusy, Shrink, NoShrink, SignalledAll, ring, LockHeld
  <2>5. CASE SkipSlot
    BY <1>1, <2>5 DEF SkipSlot, ring
  <2>. QED
    BY <1>7, <2>1, <2>2, <2>3, <2>4, <2>5 DEF ManagerStep
<1>8. CASE DestroyCall \/ DestroyerStep
  BY <1>0, <1>1, <1>8 DEF DestroyCall, DestroyerStep, JoinManager, BroadcastTurn, JoinTurn,
     Free, WakeAllWorkers, ring, managing, LockHeld
<1>. QED
  BY <1>3, <1>4, <1>5, <1>6, <1>7, <1>8 DEF Next

\* In a pool of fixed size every slot has a thread that waits, works, or is on its way
\* to the queue, until shutdown.
Active == {"start", "woken", "took", "run", "ran"}
AllAtWork == ~shutdown => \A s \in Slots : worker[s] \in Active \cup {"prewait", "waiting"}

FixedInv == AllAtWork /\ NoStrandedTask

LEMMA InitFixed == FixedSize /\ Init => FixedInv
<1>. SUFFICES ASSUME FixedSize, Init PROVE FixedInv
  OBVIOUS
<1>1. ASSUME NEW s \in Slots PROVE worker[s] = "start"
  <2>1. /\ worker[s] \in {"start", "failed", "none"}
        /\ worker[s] = "none" <=> s >= min_thr_num
        /\ worker[s] # "failed"
    BY DEF Init, FixedSize
  <2>2. ~(s >= min_thr_num)
    BY PoolAssumption DEF FixedSize, Slots
  <2>. QED
    BY <2>1, <2>2
<1>2. queue_size = 0
  BY DEF Init
<1>. QED
  BY <1>1, <1>2 DEF FixedInv, AllAtWork, NoStrandedTask, Active

LEMMA NextKeepsFixed ==
  FixedSize /\ CoreInv /\ LockHeld /\ FixedInv /\ [Next]_vars => FixedInv'
<1>. SUFFICES ASSUME FixedSize, CoreInv, LockHeld, FixedInv, [Next]_vars PROVE FixedInv'
  OBVIOUS
<1>0. worker \in [Slots -> WorkerStates] /\ 0 \in Slots
  BY PoolAssumption DEF CoreInv, TypeOK, FixedSize, Slots
<1>10. live_thr_num = max_thr_num /\ ~MayRetire /\ ~CreateThread
  BY PoolAssumption DEF FixedSize, CoreInv, TypeOK, LiveWithinLimits, MayRetire, CreateThread,
     GrowLoopGoesOn
\* A step that adds no task, and by which no active worker comes to rest.
<1>1. ASSUME queue_size' = queue_size, shutdown => shutdown',
             \A s \in Slots : \/ worker'[s] = worker[s]
                              \/ worker'[s] \in Active
                              \/ shutdown'
                              \/ worker[s] = "prewait" /\ worker'[s] = "waiting"
      PROVE  FixedInv'
  BY <1>1 DEF FixedInv, AllAtWork, NoStrandedTask, Active
<1>2. CASE UNCHANGED vars
  BY <1>1, <1>2 DEF vars, ring
<1>3. ASSUME NEW a \in Adders, AddCall(a) \/ AddRetry(a) PROVE FixedInv'
  <2>1. lock = "free" /\ UNCHANGED shutdown
    BY <1>3 DEF AddCall, AddRetry
  <2>2. ASSUME NEW t, AddEnqueues(a, t) PROVE FixedInv'
    <3>1. AllAtWork'
      BY <1>0, <2>1, <2>2, SignalKeeps DEF AddEnqueues, FixedInv, AllAtWork, Active
    <3>2. \E s \in Slots : worker'[s] \in Active
      <4>1. CASE \E s \in Slots : worker[s] = "waiting" /\ worker' = [worker EXCEPT ![s] = "woken"]
        BY <1>0, <4>1 DEF Active
      <4>2. CASE (\A s \in Slots : worker[s] # "waiting") /\ UNCHANGED worker
        BY <1>0, <2>1, <2>2, <4>2 DEF AddEnqueues, LockHeld, FixedInv, AllAtWork
      <4>. QED
        BY <2>2, <4>1, <4>2 DEF AddEnqueues, SignalNotEmpty
    <3>. QED
      BY <3>1, <3>2 DEF FixedInv, NoStrandedTask, Active
  <2>3. ASSUME NEW t, AddWaits(a, t) \/ AddDrops(a, t) PROVE FixedInv'
    BY <1>0, <1>1, <2>1, <2>3 DEF AddWaits, AddDrops, WakeAllWorkers, ring, Active
  <2>. QED
    BY <1>3, <2>2, <2>3 DEF AddCall, AddRetry, AddLocked
<1>4. ASSUME NEW s \in Slots, WorkerStep(s) PROVE FixedInv'
  <2>1. ASSUME WorkerLocked(s), UNCHANGED shutdown PROVE FixedInv'
    <3>1. CASE PrepareWait(s)
      BY <1>0, <2>1, <3>1 DEF PrepareWait, ring, FixedInv, AllAtWork, NoStrandedTask
    <3>2. CASE Leave(s)
      BY <1>0, <1>1, <2>1, <3>2 DEF Leave, ring
    <3>3. CASE Dequeue(s)
      BY <1>0, <2>1, <3>3 DEF Dequeue, FixedInv, AllAtWork, NoStrandedTask, Active
    <3>. QED
      BY <2>1, <3>1, <3>2, <3>3 DEF WorkerLocked
  <2>2. CASE WorkerStart(s)
    BY <2>1, <2>2 DEF WorkerStart
  <2>3. CASE WorkerWakes(s)
    BY <1>10, <2>1, <2>3 DEF WorkerWakes
  <2>4. CASE CondWait(s)
    BY <1>0, <1>1, <2>4 DEF CondWait, ring
  <2>5. CASE BusyInc(s) \/ Execute(s) \/ BusyDec(s)
    BY <1>0, <1>1, <2>5 DEF BusyInc, Execute, BusyDec, ring, Active
  <2>6. CASE EndThread(s)
    BY <1>0, <1>1, <2>6 DEF EndThread, ring, FixedInv, AllAtWork, Active
  <2>. QED
    BY <1>4, <2>2, <2>3, <2>4, <2>5, <2>6 DEF WorkerStep
<1>5. CASE SpuriousWakeup
  BY <1>0, <1>1, <1>5 DEF SpuriousWakeup, ring, Active
<1>6. CASE ManagerStep
  <2>1. CASE SignalIdle
    BY <1>0, <1>1, <2>1, SignalKeeps DEF SignalIdle, ring, Active
  <2>. QED
    BY <1>10, <1>1, <1>6, <2>1 DEF ManagerStep, ManagerLoop, ReadPool, ReadBusy, LockToGrow,
       SkipSlot, StopGrowing, Shrink, NoShrink, SignalledAll, ring
<1>7. CASE DestroyCall
  BY <1>1, <1>7 DEF DestroyCall, ring
<1>8. CASE DestroyerStep
  BY <1>0, <1>1, <1>8 DEF DestroyerStep, JoinManager, BroadcastTurn, JoinTurn, Free,
     WakeAllWorkers, ring, Active
<1>. QED
  BY <1>2, <1>3, <1>4, <1>5, <1>6, <1>7, <1>8 DEF Next

\* In a pool of fixed size a queued task always has a worker on its way to it.
THEOREM NoWakeupLost == ASSUME FixedSize PROVE Spec => []NoStrandedTask
<1>1. Init => FixedInv
  BY InitFixed, FixedSize
<1>2. CoreInv /\ LockHeld /\ FixedInv /\ [Next]_vars => FixedInv'
  BY NextKeepsFixed, FixedSize
<1>3. FixedInv => NoStrandedTask
  BY DEF FixedInv
<1>4. Spec => []LockHeld
  BY InitLock, CoreInvariant, NextKeepsLock, PTL DEF Spec
<1>. QED
  BY <1>1, <1>2, <1>3, <1>4, CoreInvariant, PTL DEF Spec

-----------------------------------------------------------------------------
(* In a pool of fixed size threadpool_free comes after everybody's last    *)
(* step                                                                    *)

Ended == {"zombie", "gone", "failed"}

\* What threadpool_destroy has established when it reaches each of its stages.
DestroyProgress ==
  /\ destroyer # "idle" => \A a \in Adders : adder[a] = "idle"
  /\ destroyer = "join" => \A s \in Slots : s < d => worker[s] \in Ended
  /\ destroyer \in {"free", "freed"} => \A s \in Slots : worker[s] \in Ended

LEMMA NextKeepsProgress ==
  min_thr_num = max_thr_num /\ AddersFirst /\ CoreInv /\ DestroyProgress /\ [Next]_vars
    => DestroyProgress'
<1>. SUFFICES ASSUME min_thr_num = max_thr_num, AddersFirst, CoreInv, DestroyProgress,
                     [Next]_vars
              PROVE  DestroyProgress'
  OBVIOUS
<1>0. /\ worker \in [Slots -> WorkerStates]
      /\ adder \in [Adders -> {"idle", "waiting", "woken"}]
      /\ live_thr_num = max_thr_num /\ ~CreateThread
  BY PoolAssumption
  DEF CoreInv, TypeOK, LiveWithinLimits, CreateThread, GrowLoopGoesOn
\* A step of another thread, which leaves the ended threads as they are.
<1>1. ASSUME UNCHANGED destroying,
             destroyer # "idle" => \A a \in Adders : adder[a] = "idle" => adder'[a] = "idle",
             \A s \in Slots : worker[s] \in Ended => worker'[s] \in Ended
      PROVE  DestroyProgress'
  BY <1>1 DEF DestroyProgress, destroying
<1>2. CASE UNCHANGED vars
  BY <1>1, <1>2 DEF vars, callers
<1>3. ASSUME NEW a \in Adders, AddCall(a) \/ AddRetry(a) PROVE DestroyProgress'
  <2>1. destroyer = "idle" /\ destroyer' = "idle"
    BY <1>3 DEF AddCall, AddRetry, DestroyProgress, destroying
  <2>. QED
    BY <2>1 DEF DestroyProgress
<1>4. ASSUME NEW s \in Slots, WorkerStep(s) PROVE DestroyProgress'
  <2>1. ASSUME WorkerLocked(s), UNCHANGED destroying, worker[s] \in {"start", "woken"}
        PROVE  DestroyProgress'
    BY <1>0, <1>1, <2>1
    DEF WorkerLocked, PrepareWait, Leave, Dequeue, WakeAllAdders, Ended
  <2>2. CASE WorkerStart(s)
    BY <2>1, <2>2 DEF WorkerStart
  <2>3. CASE WorkerWakes(s)
    BY <1>0, <1>1, <2>1, <2>3 DEF WorkerWakes, Ended
  <2>4. CASE CondWait(s) \/ BusyInc(s) \/ Execute(s) \/ BusyDec(s) \/ EndThread(s)
    BY <1>0, <1>1, <2>4 DEF CondWait, BusyInc, Execute, BusyDec, EndThread, callers, Ended
  <2>. QED
    BY <1>4, <2>2, <2>3, <2>4 DEF WorkerStep
<1>5. CASE SpuriousWakeup
  BY <1>0, <1>1, <1>5 DEF SpuriousWakeup, Ended
<1>6. CASE ManagerStep
  <2>1. CASE SignalIdle
    BY <1>0, <1>1, <2>1, SignalKeeps DEF SignalIdle, callers, Ended
  <2>. QED
    BY <1>0, <1>1, <1>6, <2>1 DEF ManagerStep, ManagerLoop, ReadPool, ReadBusy, LockToGrow,
       SkipSlot, StopGrowing, Shrink, NoShrink, SignalledAll, callers
<1>7. CASE DestroyCall
  BY <1>7 DEF DestroyCall, DestroyProgress, callers
<1>8. CASE DestroyerStep
  <2>1. CASE JoinManager
    BY <2>1 DEF JoinManager, DestroyProgress, callers
  <2>2. CASE BroadcastTurn
    BY PoolAssumption, <2>2 DEF BroadcastTurn, WakeAllWorkers, DestroyProgress, callers, Slots, Ended
  <2>3. CASE JoinTurn
    <3>1. CASE d < live_thr_num
      <4>1. worker[d] \in Ended /\ d' = d + 1 /\ destroyer = "join" /\ destroyer' = "join"
            /\ UNCHANGED <<worker, adder>>
        BY <2>3, <3>1 DEF JoinTurn, JoinReturns, callers, Ended
      <4>2. \A s \in Slots : s < d + 1 => worker[s] \in Ended
        BY <4>1 DEF DestroyProgress, CoreInv, TypeOK, Slots
      <4>. QED
        BY <4>1, <4>2 DEF DestroyProgress
    <3>2. CASE ~(d < live_thr_num)
      <4>1. \A s \in Slots : s < d
        BY <1>0, <3>2, PoolAssumption DEF CoreInv, TypeOK, Slots
      <4>2. destroyer = "join" /\ destroyer' = "free" /\ UNCHANGED <<worker, adder>>
        BY <2>3, <3>2 DEF JoinTurn, callers
      <4>. QED
        BY <4>1, <4>2 DEF DestroyProgress
    <3>. QED
      BY <3>1, <3>2
  <2>4. CASE Free
    BY <2>4 DEF Free, DestroyProgress, callers
  <2>. QED
    BY <1>8, <2>1, <2>2, <2>3, <2>4 DEF DestroyerStep
<1>. QED
  BY <1>0, <1>2, <1>3, <1>4, <1>5, <1>6, <1>7, <1>8 DEF Next

\* In a pool of fixed size, destroyed after the last threadpool_add has returned,
\* threadpool_free runs only when no worker will touch the pool again.
THEOREM NoUseAfterFreeFixed ==
  ASSUME min_thr_num = max_thr_num, AddersFirst
  PROVE  Spec => []NoUseAfterFree
<1>1. Init => DestroyProgress
  BY DEF Init, DestroyProgress
<1>2. CoreInv /\ DestroyProgress /\ [Next]_vars => DestroyProgress'
  BY NextKeepsProgress, min_thr_num = max_thr_num, AddersFirst
<1>3. DestroyProgress => NoUseAfterFree
  BY DEF DestroyProgress, NoUseAfterFree, Ended
<1>. QED
  BY <1>1, <1>2, <1>3, CoreInvariant, PTL DEF Spec

-----------------------------------------------------------------------------
(* The queue that the ring holds *)

\* The cells the ring's tasks may lie in are different ones.
LEMMA CellFromOnce ==
  ASSUME NEW c \in Cells
  PROVE  /\ \A j, k \in Cells : CellFrom(c, j) = CellFrom(c, k) => j = k
         /\ CellFrom(c, 0) = c
<1>0. queue_max_size \in Nat \ {0} /\ c \in 0..(queue_max_size - 1)
  BY PoolAssumption DEF Cells
<1>1. ASSUME NEW j \in Cells, NEW k \in Cells, CellFrom(c, j) = CellFrom(c, k) PROVE j = k
  <2>1. j \in 0..(queue_max_size - 1) /\ k \in 0..(queue_max_size - 1)
    BY DEF Cells
  <2>2. j \in 0..queue_max_size /\ k \in 0..queue_max_size
    BY <1>0, <2>1
  <2>3. /\ CellFrom(c, j) = IF c + j < queue_max_size THEN c + j ELSE c + j - queue_max_size
        /\ CellFrom(c, k) = IF c + k < queue_max_size THEN c + k ELSE c + k - queue_max_size
    BY <2>2, CellFromIs
  <2>4. (IF c + j < queue_max_size THEN c + j ELSE c + j - queue_max_size)
          = (IF c + k < queue_max_size THEN c + k ELSE c + k - queue_max_size)
    BY <1>1, <2>3
  <2>. QED
    BY <1>0, <2>1, <2>4
<1>2. CellFrom(c, 0) = c
  BY <1>0, CellFromIs
<1>. QED
  BY <1>1, <1>2

\* Pending is a sequence of tasks, each in a cell of the ring.
LEMMA PendingIs ==
  ASSUME CoreInv
  PROVE  /\ queue_size \in Nat /\ queue_front \in Cells
         /\ Pending \in [1..queue_size -> Tasks]
         /\ \A k \in 1..queue_size : /\ CellFrom(queue_front, k - 1) \in Cells
                                     /\ Pending[k] = task_queue[CellFrom(queue_front, k - 1)]
<1>1. queue_size \in 0..queue_max_size /\ queue_front \in Cells /\ queue_max_size \in Nat \ {0}
  BY PoolAssumption DEF CoreInv, TypeOK
<1>2. ASSUME NEW k \in 1..queue_size
      PROVE  /\ CellFrom(queue_front, k - 1) \in Cells
             /\ task_queue[CellFrom(queue_front, k - 1)] \in Tasks
  <2>1. k - 1 \in 0..queue_max_size /\ k - 1 \in 0..(queue_size - 1)
    BY <1>1
  <2>2. CellFrom(queue_front, k - 1) \in Cells
    BY <1>1, <2>1, CellFromIs
  <2>3. task_queue[CellFrom(queue_front, k - 1)] # NoTask
    BY <2>1 DEF CoreInv, RingConsistent, RingHolds
  <2>. QED
    BY <2>2, <2>3 DEF CoreInv, TypeOK
<1>. QED
  BY <1>1, <1>2 DEF Pending

\* What leaves the ring alone leaves the queue alone.
LEMMA PendingKept ==
  ASSUME UNCHANGED ring
  PROVE  Pending' = Pending /\ queue_size' = queue_size
  BY DEF ring, Pending, CellFrom

\* Adding a task puts it behind the others.
LEMMA PendingGrows ==
  ASSUME CoreInv, NEW a \in Adders, NEW t \in Tasks, AddEnqueues(a, t)
  PROVE  /\ queue_size' = queue_size + 1 /\ queue_size < queue_max_size
         /\ Pending' = Append(Pending, t)
         /\ \A k \in 1..queue_size : Pending'[k] = Pending[k]
         /\ Pending'[queue_size + 1] = t
<1>1. /\ queue_size \in 0..queue_max_size /\ queue_size # queue_max_size
      /\ queue_max_size \in Nat \ {0}
      /\ queue_rear = CellFrom(queue_front, queue_size)
      /\ queue_front \in Cells /\ queue_rear \in Cells
  BY PoolAssumption DEF AddEnqueues, Full, CoreInv, TypeOK, RingConsistent, RingHolds
<1>2. queue_size \in Cells /\ queue_size < queue_max_size /\ queue_size' = queue_size + 1
  BY <1>1 DEF AddEnqueues, Cells
<1>3. Pending' = [k \in 1..(queue_size + 1) |->
                    [task_queue EXCEPT ![queue_rear] = t][CellFrom(queue_front, k - 1)]]
  BY DEF AddEnqueues, Pending, CellFrom
<1>4. Pending'[queue_size + 1] = t
  <2>1. (queue_size + 1) - 1 = queue_size /\ queue_size + 1 \in 1..(queue_size + 1)
    BY <1>1
  <2>. QED
    BY <1>1, <1>3, <2>1 DEF CoreInv, TypeOK
<1>5. ASSUME NEW k \in 1..queue_size PROVE Pending'[k] = Pending[k]
  <2>1. k - 1 \in Cells /\ k - 1 # queue_size /\ k \in 1..(queue_size + 1)
    BY <1>1 DEF Cells
  <2>2. CellFrom(queue_front, k - 1) # queue_rear
    BY <1>1, <1>2, <2>1, CellFromOnce
  <2>. QED
    BY <1>3, <2>1, <2>2, PendingIs DEF CoreInv, TypeOK
<1>6. Pending' = Append(Pending, t)
  <2>1. Pending \in [1..queue_size -> Tasks] /\ queue_size \in Nat
    BY PendingIs
  <2>2. \A k \in 1..(queue_size + 1) : Pending'[k] \in Tasks
    BY <1>1, <1>4, <1>5, <2>1
  <2>3. Pending' \in [1..(queue_size + 1) -> Tasks]
    BY <1>3, <2>2
  <2>. QED
    BY <1>4, <1>5, <2>1, <2>3, AppendIs
<1>. QED
  BY <1>2, <1>4, <1>5, <1>6

\* A worker takes the task at the head.
LEMMA PendingShrinks ==
  ASSUME CoreInv, NEW s \in Slots, Dequeue(s)
  PROVE  /\ queue_size \in Nat \ {0} /\ queue_size' = queue_size - 1
         /\ Pending # <<>> /\ Pending' = Tail(Pending) /\ Head(Pending) = Pending[1]
         /\ Pending[1] = task_queue[queue_front]
         /\ \A k \in 1..(queue_size - 1) : Pending'[k] = Pending[k + 1]
<1>1. /\ queue_size \in 1..queue_max_size /\ queue_max_size \in Nat \ {0}
      /\ queue_front \in Cells /\ queue_size' = queue_size - 1
      /\ queue_size \in Nat \ {0}
  BY PoolAssumption DEF Dequeue, CoreInv, TypeOK
<1>2. Pending' = [k \in 1..(queue_size - 1) |-> task_queue[CellFrom(NextCell(queue_front), k - 1)]]
  BY DEF Dequeue, Pending, CellFrom
<1>3. ASSUME NEW k \in 1..(queue_size - 1) PROVE Pending'[k] = Pending[k + 1]
  <2>1. k - 1 \in 0..(queue_max_size - 1) /\ (k - 1) + 1 = (k + 1) - 1 /\ k + 1 \in 1..queue_size
    BY <1>1
  <2>2. CellFrom(NextCell(queue_front), k - 1) = CellFrom(queue_front, (k - 1) + 1)
    BY <1>1, <2>1, NextOfCellFrom
  <2>. QED
    BY <1>2, <2>1, <2>2, PendingIs
<1>4. Pending[1] = task_queue[queue_front]
  <2>1. 1 \in 1..queue_size /\ 1 - 1 = 0
    BY <1>1
  <2>. QED
    BY <1>1, <2>1, PendingIs, CellFromOnce
<1>5. Pending # <<>> /\ Head(Pending) = Pending[1] /\ Pending' = Tail(Pending)
  <2>1. Pending \in [1..queue_size -> Tasks]
    BY PendingIs
  <2>2. \A k \in 1..(queue_size - 1) : Pending'[k] \in Tasks
    BY <1>1, <1>3, <2>1
  <2>3. Pending' \in [1..(queue_size - 1) -> Tasks]
    BY <1>2, <2>2
  <2>. QED
    BY <1>1, <1>3, <2>1, <2>3, TailIs
<1>. QED
  BY <1>1, <1>3, <1>4, <1>5

-----------------------------------------------------------------------------
(* A task is in one place                                                  *)

\* A worker holds a task from the moment it takes one until the callback has returned,
\* a caller from its entry into threadpool_add to its return.
Placed ==
  /\ \A s \in Slots : task[s] # NoTask <=> worker[s] \in {"took", "run"}
  /\ \A a \in Adders : arg[a] # NoTask <=> adder[a] # "idle"

\* The tasks that exist are those submitted so far.
Numbered ==
  /\ \A k \in 1..queue_size : Pending[k] <= submitted
  /\ \A s \in Slots : task[s] <= submitted
  /\ \A a \in Adders : arg[a] <= submitted
  /\ \A t \in done : t <= submitted

\* No task is twice in the queue, with two workers, or with two callers.
Once ==
  /\ \A j, k \in 1..queue_size : Pending[j] = Pending[k] => j = k
  /\ \A s, r \in Slots : task[s] = task[r] /\ task[s] # NoTask => s = r
  /\ \A a, b \in Adders : arg[a] = arg[b] /\ arg[a] # NoTask => a = b

\* A task in one of the four places is not in another.
Apart ==
  /\ \A k \in 1..queue_size : /\ Pending[k] \notin done
                              /\ \A s \in Slots : Pending[k] # task[s]
                              /\ \A a \in Adders : Pending[k] # arg[a]
  /\ \A s \in Slots : task[s] \notin done
  /\ \A a \in Adders : arg[a] \notin done
  /\ \A s \in Slots, a \in Adders : task[s] = arg[a] => task[s] = NoTask

PlaceInv == Placed /\ Numbered /\ Once /\ Apart

LEMMA InitPlace == Init => PlaceInv
<1>. SUFFICES ASSUME Init PROVE PlaceInv
  OBVIOUS
<1>1. /\ queue_size = 0 /\ submitted = 0 /\ done = {} /\ NoTask = 0
      /\ \A s \in Slots : task[s] = NoTask /\ worker[s] \notin {"took", "run"}
      /\ \A a \in Adders : arg[a] = NoTask /\ adder[a] = "idle"
  BY DEF Init, NoTask
<1>2. \A k \in 1..queue_size : FALSE
  BY <1>1
<1>. QED
  BY <1>1, <1>2 DEF PlaceInv, Placed, Numbered, Once, Apart

\* Tasks are numbers, and NoTask is the number of none.
LEMMA TasksAre == NoTask = 0 /\ NoTask \notin Tasks /\ \A t \in Tasks : t \in Nat
  BY DEF Tasks, NoTask

\* The task a caller brings to the lock is in no other place.
Brought(a, t) ==
  /\ t \in Tasks
  /\ \A k \in 1..queue_size : Pending[k] # t
  /\ \A s \in Slots : task[s] # t
  /\ \A b \in Adders : arg[b] = t => b = a
  /\ t \notin done

LEMMA CallBrings ==
  ASSUME CoreInv, PlaceInv, NEW a \in Adders, AddCall(a)
  PROVE  Brought(a, submitted + 1)
<1>1. submitted \in Nat /\ submitted + 1 \in Tasks
  BY PoolAssumption DEF AddCall, CoreInv, TypeOK, Tasks
<1>2. \A n \in Nat : n <= submitted => n # submitted + 1
  BY <1>1
<1>3. /\ \A k \in 1..queue_size : Pending[k] \in Nat
      /\ \A s \in Slots : task[s] \in Nat
      /\ \A b \in Adders : arg[b] \in Nat
      /\ \A t \in done : t \in Nat
  BY PendingIs, TasksAre DEF CoreInv, TypeOK
<1>. QED
  BY <1>1, <1>2, <1>3 DEF Brought, PlaceInv, Numbered

LEMMA RetryBrings ==
  ASSUME CoreInv, PlaceInv, NEW a \in Adders, AddRetry(a)
  PROVE  Brought(a, arg[a])
<1>1. arg[a] \in Tasks /\ arg[a] # NoTask
  BY DEF AddRetry, CoreInv, TasksHeld, Tasks, NoTask
<1>. QED
  BY <1>1 DEF Brought, PlaceInv, Once, Apart

\* A step that moves no task.
LEMMA NothingMoves ==
  ASSUME PlaceInv, UNCHANGED <<ring, task, arg, submitted, done>>,
         \A s \in Slots : worker'[s] \in {"took", "run"} <=> worker[s] \in {"took", "run"},
         \A a \in Adders : adder'[a] = "idle" <=> adder[a] = "idle"
  PROVE  PlaceInv'
<1>1. Pending' = Pending /\ queue_size' = queue_size
  BY PendingKept
<1>. QED
  BY <1>1 DEF PlaceInv, Placed, Numbered, Once, Apart

\* threadpool_add keeps its task, puts it into the queue, or drops it.
LEMMA AddMoves ==
  ASSUME CoreInv, PlaceInv, NEW a \in Adders, NEW t, Brought(a, t), AddLocked(a, t),
         submitted' \in Nat, submitted <= submitted', t <= submitted',
         UNCHANGED <<task, done>>
  PROVE  PlaceInv'
<1>0. /\ worker \in [Slots -> WorkerStates]
      /\ adder \in [Adders -> {"idle", "waiting", "woken"}]
      /\ arg \in [Adders -> Tasks \cup {NoTask}] /\ task \in [Slots -> Tasks \cup {NoTask}]
      /\ t \in Tasks /\ NoTask \notin Tasks /\ done \subseteq Tasks
      /\ \A k \in 1..queue_size : Pending[k] \in Tasks
  BY PendingIs, TasksAre DEF Brought, CoreInv, TypeOK
<1>10. /\ submitted \in Nat /\ NoTask \in Nat /\ NoTask <= submitted'
       /\ \A x \in Tasks : x \in Nat
  BY PoolAssumption, TasksAre DEF CoreInv, TypeOK
<1>1. ASSUME NEW n \in Nat, n <= submitted PROVE n <= submitted'
  BY <1>10, <1>1
<1>2. /\ \A k \in 1..queue_size : Pending[k] <= submitted'
      /\ \A s \in Slots : task[s] <= submitted'
      /\ \A b \in Adders : arg[b] <= submitted'
      /\ \A x \in done : x <= submitted'
  BY <1>0, <1>10, <1>1 DEF PlaceInv, Numbered
<1>3. Placed'
  <2>1. /\ \A s \in Slots : worker'[s] \in {"took", "run"} <=> worker[s] \in {"took", "run"}
        /\ \A b \in Adders : arg'[b] # NoTask <=> adder'[b] # "idle"
    <3>1. CASE AddWaits(a, t)
      BY <1>0, <3>1 DEF AddWaits, PlaceInv, Placed
    <3>2. CASE AddDrops(a, t)
      BY <1>0, <3>2 DEF AddDrops, AddReturns, WakeAllWorkers, PlaceInv, Placed
    <3>3. CASE AddEnqueues(a, t)
      BY <1>0, <3>3, SignalKeeps DEF AddEnqueues, AddReturns, PlaceInv, Placed
    <3>. QED
      BY <3>1, <3>2, <3>3 DEF AddLocked
  <2>. QED
    BY <2>1 DEF PlaceInv, Placed
<1>4. CASE AddWaits(a, t)
  <2>1. Pending' = Pending /\ queue_size' = queue_size /\ arg' = [arg EXCEPT ![a] = t]
    BY <1>4, PendingKept DEF AddWaits
  <2>2. Numbered'
    BY <1>0, <1>10, <1>2, <2>1 DEF Numbered
  <2>3. Once' /\ Apart'
    BY <1>0, <2>1 DEF PlaceInv, Once, Apart, Brought
  <2>. QED
    BY <1>3, <2>2, <2>3 DEF PlaceInv
<1>5. CASE AddDrops(a, t)
  <2>1. Pending' = Pending /\ queue_size' = queue_size /\ arg' = [arg EXCEPT ![a] = NoTask]
    BY <1>5, PendingKept DEF AddDrops, AddReturns
  <2>2. Numbered'
    BY <1>0, <1>10, <1>2, <2>1 DEF Numbered
  <2>3. Once' /\ Apart'
    BY <1>0, <2>1 DEF PlaceInv, Once, Apart
  <2>. QED
    BY <1>3, <2>2, <2>3 DEF PlaceInv
<1>6. CASE AddEnqueues(a, t)
  <2>1. /\ arg' = [arg EXCEPT ![a] = NoTask] /\ queue_size' = queue_size + 1
        /\ \A k \in 1..queue_size : Pending'[k] = Pending[k]
        /\ Pending'[queue_size + 1] = t
    BY <1>0, <1>6, PendingGrows DEF AddEnqueues, AddReturns
  <2>2. \A k \in 1..(queue_size + 1) : k \in 1..queue_size \/ k = queue_size + 1
    BY PendingIs
  <2>3. Numbered'
    BY <1>0, <1>10, <1>2, <2>1, <2>2 DEF Numbered
  <2>4. Once'
    BY <1>0, <2>1, <2>2 DEF PlaceInv, Once, Brought
  <2>5. Apart'
    BY <1>0, <2>1, <2>2 DEF PlaceInv, Apart, Brought
  <2>. QED
    BY <1>3, <2>3, <2>4, <2>5 DEF PlaceInv
<1>. QED
  BY <1>4, <1>5, <1>6 DEF AddLocked

\* A worker that dequeues takes the task out of the queue.
LEMMA DequeueMoves ==
  ASSUME CoreInv, PlaceInv, NEW s \in Slots, Dequeue(s), worker[s] \in {"start", "woken"},
         UNCHANGED <<arg, submitted, done>>
  PROVE  PlaceInv'
<1>0. /\ worker \in [Slots -> WorkerStates]
      /\ adder \in [Adders -> {"idle", "waiting", "woken"}]
      /\ arg \in [Adders -> Tasks \cup {NoTask}] /\ task \in [Slots -> Tasks \cup {NoTask}]
      /\ NoTask \notin Tasks /\ submitted \in Nat
      /\ \A k \in 1..queue_size : Pending[k] \in Tasks
  BY PendingIs, PoolAssumption DEF CoreInv, TypeOK, Tasks, NoTask
<1>1. /\ task' = [task EXCEPT ![s] = Pending[1]] /\ queue_size' = queue_size - 1
      /\ \A k \in 1..(queue_size - 1) : Pending'[k] = Pending[k + 1]
      /\ queue_size \in Nat \ {0}
  BY PendingShrinks DEF Dequeue
<1>2. \A k \in 1..(queue_size - 1) : k + 1 \in 1..queue_size /\ k + 1 # 1
  BY <1>1
<1>3. 1 \in 1..queue_size /\ Pending[1] \in Tasks
  BY <1>0, <1>1
<1>4. Placed'
  <2>1. worker' = [worker EXCEPT ![s] = "took"] /\ \A a \in Adders : adder'[a] = "idle" <=> adder[a] = "idle"
    BY <1>0 DEF Dequeue, WakeAllAdders
  <2>. QED
    BY <1>0, <1>1, <1>3, <2>1 DEF PlaceInv, Placed
<1>5. Numbered'
  BY <1>0, <1>1, <1>2, <1>3 DEF PlaceInv, Numbered
<1>6. Once'
  <2>1. \A j, k \in 1..(queue_size - 1) : Pending[j + 1] = Pending[k + 1] => j = k
    BY <1>1, <1>2 DEF PlaceInv, Once
  <2>. QED
    BY <1>0, <1>1, <1>3, <2>1 DEF PlaceInv, Once, Apart
<1>7. Apart'
  BY <1>0, <1>1, <1>2, <1>3 DEF PlaceInv, Once, Apart
<1>. QED
  BY <1>4, <1>5, <1>6, <1>7 DEF PlaceInv

\* A callback that returns makes its task a finished one.
LEMMA ExecuteMoves ==
  ASSUME CoreInv, PlaceInv, NEW s \in Slots, Execute(s)
  PROVE  PlaceInv'
<1>0. /\ worker \in [Slots -> WorkerStates]
      /\ arg \in [Adders -> Tasks \cup {NoTask}] /\ task \in [Slots -> Tasks \cup {NoTask}]
      /\ task[s] \in Tasks /\ NoTask \notin Tasks /\ NoTask <= submitted
      /\ \A k \in 1..queue_size : Pending[k] \in Tasks
  <2>1. TypeOK /\ TasksHeld /\ \A k \in 1..queue_size : Pending[k] \in Tasks
    BY PendingIs DEF CoreInv
  <2>2. worker[s] = "run"
    BY DEF Execute
  <2>3. task[s] \in Tasks
    BY <2>1, <2>2 DEF TasksHeld
  <2>4. submitted \in Nat /\ NoTask \notin Tasks /\ NoTask <= submitted
    BY <2>1, PoolAssumption DEF TypeOK, Tasks, NoTask
  <2>. QED
    BY <2>1, <2>3, <2>4 DEF TypeOK
<1>1. /\ Pending' = Pending /\ UNCHANGED <<queue_size, adder, arg, submitted>>
      /\ task' = [task EXCEPT ![s] = NoTask] /\ done' = done \cup {task[s]}
      /\ worker' = [worker EXCEPT ![s] = "ran"]
  BY PendingKept DEF Execute, callers
<1>2. Placed' /\ Numbered'
  BY <1>0, <1>1 DEF PlaceInv, Placed, Numbered
<1>3. Once'
  BY <1>0, <1>1 DEF PlaceInv, Once
<1>4. Apart'
  BY <1>0, <1>1 DEF CoreInv, TypeOK, PlaceInv, Once, Apart
<1>. QED
  BY <1>2, <1>3, <1>4 DEF PlaceInv

LEMMA NextKeepsPlace == CoreInv /\ PlaceInv /\ [Next]_vars => PlaceInv'
<1>. SUFFICES ASSUME CoreInv, PlaceInv, [Next]_vars PROVE PlaceInv'
  OBVIOUS
<1>0. worker \in [Slots -> WorkerStates] /\ adder \in [Adders -> {"idle", "waiting", "woken"}]
  BY DEF CoreInv, TypeOK
<1>1. CASE UNCHANGED vars
  BY <1>1, NothingMoves DEF vars, callers
<1>2. ASSUME NEW a \in Adders, AddCall(a) PROVE PlaceInv'
  <2>1. submitted' \in Nat /\ submitted <= submitted' /\ submitted + 1 <= submitted'
    BY <1>2, PoolAssumption DEF AddCall, CoreInv, TypeOK
  <2>. QED
    BY <1>2, <2>1, CallBrings, AddMoves DEF AddCall
<1>3. ASSUME NEW a \in Adders, AddRetry(a) PROVE PlaceInv'
  <2>1. submitted' \in Nat /\ submitted <= submitted' /\ arg[a] <= submitted'
    BY <1>3, PoolAssumption DEF AddRetry, CoreInv, TypeOK, PlaceInv, Numbered
  <2>. QED
    BY <1>3, <2>1, RetryBrings, AddMoves DEF AddRetry
<1>4. ASSUME NEW s \in Slots, WorkerStep(s) PROVE PlaceInv'
  <2>1. ASSUME WorkerLocked(s), worker[s] \in {"start", "woken"},
               UNCHANGED <<arg, submitted, done>>
        PROVE  PlaceInv'
    <3>1. CASE PrepareWait(s) \/ Leave(s)
      BY <1>0, <2>1, <3>1, NothingMoves DEF PrepareWait, Leave
    <3>2. CASE Dequeue(s)
      BY <2>1, <3>2, DequeueMoves
    <3>. QED
      BY <2>1, <3>1, <3>2 DEF WorkerLocked
  <2>2. CASE WorkerStart(s)
    BY <2>1, <2>2 DEF WorkerStart
  <2>3. CASE WorkerWakes(s)
    <3>1. CASE wait_exit_thr_num > 0 /\ MayRetire
      BY <1>0, <2>3, <3>1, NothingMoves DEF WorkerWakes
    <3>2. CASE ~(wait_exit_thr_num > 0 /\ MayRetire)
      BY <2>1, <2>3, <3>2 DEF WorkerWakes
    <3>. QED
      BY <3>1, <3>2
  <2>4. CASE CondWait(s) \/ BusyInc(s) \/ BusyDec(s) \/ EndThread(s)
    BY <1>0, <2>4, NothingMoves DEF CondWait, BusyInc, BusyDec, EndThread, callers
  <2>5. CASE Execute(s)
    BY <2>5, ExecuteMoves
  <2>. QED
    BY <1>4, <2>2, <2>3, <2>4, <2>5 DEF WorkerStep
<1>5. CASE SpuriousWakeup
  BY <1>0, <1>5, NothingMoves DEF SpuriousWakeup
<1>6. CASE ManagerStep
  <2>1. CASE CreateThread
    <3>1. /\ UNCHANGED <<ring, task, callers, done>>
          /\ \A s \in Slots : worker'[s] \in {"took", "run"} <=> worker[s] \in {"took", "run"}
      BY <1>0, <2>1 DEF CreateThread, MayBeFoundDead
    <3>. QED
      BY <3>1, NothingMoves DEF callers
  <2>2. CASE SignalIdle
    <3>1. /\ UNCHANGED <<ring, task, callers, done>>
          /\ \A s \in Slots : worker'[s] \in {"took", "run"} <=> worker[s] \in {"took", "run"}
      BY <1>0, <2>2, SignalKeeps DEF SignalIdle
    <3>. QED
      BY <3>1, NothingMoves DEF callers
  <2>. QED
    BY <1>6, <2>1, <2>2, NothingMoves DEF ManagerStep, ManagerLoop, ReadPool, ReadBusy,
       LockToGrow, SkipSlot, StopGrowing, Shrink, NoShrink, SignalledAll, callers
<1>7. CASE DestroyCall \/ DestroyerStep
  BY <1>0, <1>7, NothingMoves DEF DestroyCall, DestroyerStep, JoinManager, BroadcastTurn,
     JoinTurn, Free, WakeAllWorkers, callers
<1>. QED
  BY <1>1, <1>2, <1>3, <1>4, <1>5, <1>6, <1>7 DEF Next

LEMMA PlaceInvariant == Spec => []PlaceInv
  BY InitPlace, CoreInvariant, NextKeepsPlace, PTL DEF Spec

-----------------------------------------------------------------------------
(* The pool implements the queue of threadpool.h *)

\* What one step of the pool is to the queue's user.
LEMMA AddIsAdd ==
  ASSUME CoreInv, PlaceInv, NEW a \in Adders, NEW t, Brought(a, t), AddLocked(a, t),
         UNCHANGED <<task, done>>
  PROVE  [Promise!Next]_(Promise!vars)
<1>1. CASE AddWaits(a, t) \/ AddDrops(a, t)
  BY <1>1, PendingKept DEF AddWaits, AddDrops, Running, Promise!vars
<1>2. CASE AddEnqueues(a, t)
  <2>1. t \in Tasks /\ queue_size < queue_max_size /\ Pending' = Append(Pending, t)
    BY <1>2, PendingGrows DEF Brought
  <2>2. Len(Pending) = queue_size
    BY PendingIs, FunctionIsSeq
  <2>3. t \notin Promise!Queued \cup Running \cup done
    BY <2>2 DEF Brought, Promise!Queued, Running
  <2>4. Running' = Running
    BY DEF Running
  <2>. QED
    BY <2>1, <2>2, <2>3, <2>4 DEF Promise!Add, Promise!Next
<1>. QED
  BY <1>1, <1>2 DEF AddLocked

LEMMA DequeueIsStart ==
  ASSUME CoreInv, PlaceInv, NEW s \in Slots, Dequeue(s), worker[s] \in {"start", "woken"},
         UNCHANGED done
  PROVE  Promise!Start
<1>1. /\ Pending # <<>> /\ Pending' = Tail(Pending)
      /\ task' = [task EXCEPT ![s] = Head(Pending)]
      /\ Head(Pending) \in Tasks /\ Head(Pending) # NoTask
  <2>1. Pending[1] \in Tasks
    BY PendingIs, PendingShrinks
  <2>. QED
    BY <2>1, PendingShrinks, TasksAre DEF Dequeue
<1>2. task \in [Slots -> Tasks \cup {NoTask}] /\ task[s] = NoTask
  BY DEF CoreInv, TypeOK, PlaceInv, Placed
<1>3. Running' = Running \cup {Head(Pending)}
  BY <1>1, <1>2 DEF Running
<1>. QED
  BY <1>1, <1>3 DEF Promise!Start

LEMMA ExecuteIsFinish ==
  ASSUME CoreInv, PlaceInv, NEW s \in Slots, Execute(s)
  PROVE  task[s] \in Running /\ Promise!Finish(task[s])
<1>1. /\ task \in [Slots -> Tasks \cup {NoTask}] /\ task[s] # NoTask
      /\ task' = [task EXCEPT ![s] = NoTask] /\ done' = done \cup {task[s]}
      /\ \A r \in Slots : task[r] = task[s] => r = s
  BY TasksAre DEF Execute, CoreInv, TypeOK, TasksHeld, PlaceInv, Once
<1>2. task[s] \in Running /\ Running' = Running \ {task[s]}
  BY <1>1 DEF Running
<1>3. Pending' = Pending
  BY PendingKept DEF Execute
<1>. QED
  BY <1>1, <1>2, <1>3 DEF Promise!Finish

\* A step that touches neither the ring nor a worker's task is none to the queue's user.
LEMMA QuietIsStutter ==
  ASSUME UNCHANGED <<ring, task, done>>
  PROVE  [Promise!Next]_(Promise!vars)
  BY PendingKept DEF Running, Promise!vars

\* The ring, the locals of the workers and all their interleavings, also with a manager
\* that overwrites the slots of threads it believes ended, with spurious wakeups and with
\* failing pthread_create, implement a bounded queue whose tasks are started once each,
\* in the order in which they were added.
THEOREM Implementation == Spec => ImplementsPromise
<1>1. Init => Promise!Init
  <2>. SUFFICES ASSUME Init PROVE Promise!Init
    OBVIOUS
  <2>1. queue_size = 0 /\ done = {} /\ \A s \in Slots : task[s] = NoTask
    BY DEF Init
  <2>2. Pending = <<>>
    BY <2>1, InitCore, PendingIs
  <2>. QED
    BY <2>1, <2>2 DEF Running, Promise!Init
<1>2. CoreInv /\ PlaceInv /\ [Next]_vars => [Promise!Next]_(Promise!vars)
  <2>. SUFFICES ASSUME CoreInv, PlaceInv, [Next]_vars PROVE [Promise!Next]_(Promise!vars)
    OBVIOUS
  <2>1. ASSUME NEW a \in Adders, AddCall(a) \/ AddRetry(a)
        PROVE  [Promise!Next]_(Promise!vars)
    BY <2>1, CallBrings, RetryBrings, AddIsAdd DEF AddCall, AddRetry
  <2>2. ASSUME NEW s \in Slots, WorkerStep(s) PROVE [Promise!Next]_(Promise!vars)
    <3>1. ASSUME WorkerLocked(s), worker[s] \in {"start", "woken"}, UNCHANGED done
          PROVE  [Promise!Next]_(Promise!vars)
      BY <3>1, DequeueIsStart, QuietIsStutter
      DEF WorkerLocked, PrepareWait, Leave, Promise!Next
    <3>2. CASE WorkerStart(s)
      BY <3>1, <3>2 DEF WorkerStart
    <3>3. CASE WorkerWakes(s)
      BY <3>1, <3>3, QuietIsStutter DEF WorkerWakes
    <3>4. CASE CondWait(s) \/ BusyInc(s) \/ BusyDec(s) \/ EndThread(s)
      BY <3>4, QuietIsStutter DEF CondWait, BusyInc, BusyDec, EndThread
    <3>5. CASE Execute(s)
      BY <3>5, ExecuteIsFinish DEF Promise!Next
    <3>. QED
      BY <2>2, <3>2, <3>3, <3>4, <3>5 DEF WorkerStep
  <2>3. CASE UNCHANGED vars \/ SpuriousWakeup \/ DestroyCall \/ DestroyerStep
    BY <2>3, QuietIsStutter DEF vars, SpuriousWakeup, DestroyCall, DestroyerStep, JoinManager,
       BroadcastTurn, JoinTurn, Free
  <2>4. CASE ManagerStep
    BY <2>4, QuietIsStutter DEF ManagerStep, ManagerLoop, ReadPool, ReadBusy, LockToGrow,
       CreateThread, SkipSlot, StopGrowing, Shrink, NoShrink, SignalIdle, SignalledAll
  <2>. QED
    BY <2>1, <2>2, <2>3, <2>4 DEF Next
<1>. QED
  BY <1>1, <1>2, CoreInvariant, PlaceInvariant, PTL DEF Spec, ImplementsPromise, Promise!Spec

-----------------------------------------------------------------------------
(* No returned task is lost                                                *)

\* While threadpool_add can still be called the pool is not being shut down.
AddsComeFirst ==
  /\ shutdown => destroyer # "idle"
  /\ destroyer # "idle" => \A a \in Adders : adder[a] = "idle"

Kept(t) ==
  \/ \E k \in 1..queue_size : Pending[k] = t
  \/ \E s \in Slots : task[s] = t
  \/ t \in done

KeptInv == AddsComeFirst /\ \A t \in returned : Kept(t)

\* A step that leaves the returned tasks where they are.
LEMMA NothingLost ==
  ASSUME KeptInv, UNCHANGED <<ring, task, returned, done>>, AddsComeFirst'
  PROVE  KeptInv'
<1>1. Pending' = Pending /\ queue_size' = queue_size
  BY PendingKept
<1>. QED
  BY <1>1 DEF KeptInv, Kept

\* A caller that returns has put its task into the queue.
LEMMA AddLosesNothing ==
  ASSUME AddersFirst, CoreInv, KeptInv, NEW a \in Adders, NEW t \in Tasks, AddLocked(a, t),
         adder[a] # "idle" \/ destroyer = "idle",
         UNCHANGED <<shutdown, destroying, task, done>>
  PROVE  KeptInv'
<1>1. destroyer = "idle" /\ ~shutdown /\ AddsComeFirst'
  BY DEF KeptInv, AddsComeFirst, destroying
<1>2. CASE AddWaits(a, t)
  BY <1>1, <1>2, NothingLost DEF AddWaits
<1>3. CASE AddEnqueues(a, t)
  <2>1. /\ queue_size \in Nat /\ queue_size' = queue_size + 1
        /\ \A k \in 1..queue_size : Pending'[k] = Pending[k]
        /\ Pending'[queue_size + 1] = t
    BY <1>3, PendingGrows, PendingIs
  <2>2. /\ queue_size + 1 \in 1..(queue_size + 1)
        /\ \A k \in 1..queue_size : k \in 1..(queue_size + 1)
    BY <2>1
  <2>3. returned' = returned \cup {t}
    BY <1>3 DEF AddEnqueues, AddReturns
  <2>. QED
    BY <1>1, <2>1, <2>2, <2>3 DEF KeptInv, Kept
<1>. QED
  BY <1>1, <1>2, <1>3 DEF AddLocked, AddDrops

\* A worker that dequeues has no task of its own to lose.
LEMMA DequeueLosesNothing ==
  ASSUME CoreInv, PlaceInv, KeptInv, NEW s \in Slots, Dequeue(s),
         worker[s] \in {"start", "woken"}, UNCHANGED <<returned, done>>, AddsComeFirst'
  PROVE  KeptInv'
<1>1. /\ task' = [task EXCEPT ![s] = Pending[1]] /\ queue_size' = queue_size - 1
      /\ \A k \in 1..(queue_size - 1) : Pending'[k] = Pending[k + 1]
      /\ queue_size \in Nat \ {0}
  BY PendingShrinks DEF Dequeue
<1>2. task \in [Slots -> Tasks \cup {NoTask}] /\ task[s] \notin returned
  BY TasksAre DEF CoreInv, TypeOK, PlaceInv, Placed
<1>3. ASSUME NEW k \in 1..queue_size, k # 1
      PROVE  \E j \in 1..(queue_size - 1) : Pending'[j] = Pending[k]
  <2>1. k - 1 \in 1..(queue_size - 1) /\ (k - 1) + 1 = k
    BY <1>1, <1>3
  <2>. QED
    BY <1>1, <2>1
<1>. QED
  BY <1>1, <1>2, <1>3 DEF KeptInv, Kept

LEMMA NextKeepsKept ==
  AddersFirst /\ CoreInv /\ PlaceInv /\ KeptInv /\ [Next]_vars => KeptInv'
<1>. SUFFICES ASSUME AddersFirst, CoreInv, PlaceInv, KeptInv, [Next]_vars PROVE KeptInv'
  OBVIOUS
<1>0. adder \in [Adders -> {"idle", "waiting", "woken"}]
  BY DEF CoreInv, TypeOK
<1>1. ASSUME NEW a \in Adders, AddCall(a) PROVE KeptInv'
  BY <1>1, CallBrings, AddLosesNothing DEF AddCall, Brought
<1>2. ASSUME NEW a \in Adders, AddRetry(a) PROVE KeptInv'
  BY <1>2, RetryBrings, AddLosesNothing DEF AddRetry, Brought
<1>3. ASSUME NEW s \in Slots, WorkerStep(s) PROVE KeptInv'
  <2>1. AddsComeFirst'
    BY <1>0, <1>3
    DEF WorkerStep, WorkerStart, WorkerWakes, WorkerLocked, PrepareWait, Leave, Dequeue,
        CondWait, BusyInc, Execute, BusyDec, EndThread, WakeAllAdders, callers, destroying,
        KeptInv, AddsComeFirst
  <2>2. ASSUME WorkerLocked(s), worker[s] \in {"start", "woken"}, UNCHANGED <<returned, done>>
        PROVE  KeptInv'
    BY <2>1, <2>2, DequeueLosesNothing, NothingLost DEF WorkerLocked, PrepareWait, Leave
  <2>3. CASE WorkerStart(s)
    BY <2>2, <2>3 DEF WorkerStart
  <2>4. CASE WorkerWakes(s)
    BY <2>1, <2>2, <2>4, NothingLost DEF WorkerWakes
  <2>5. CASE CondWait(s) \/ BusyInc(s) \/ BusyDec(s) \/ EndThread(s)
    BY <2>1, <2>5, NothingLost DEF CondWait, BusyInc, BusyDec, EndThread, callers
  <2>6. CASE Execute(s)
    <3>1. /\ task \in [Slots -> Tasks \cup {NoTask}]
          /\ task' = [task EXCEPT ![s] = NoTask] /\ done' = done \cup {task[s]}
          /\ Pending' = Pending /\ UNCHANGED <<queue_size, returned>>
      BY <2>6, PendingKept DEF Execute, callers, CoreInv, TypeOK
    <3>. QED
      BY <2>1, <3>1 DEF KeptInv, Kept
  <2>. QED
    BY <1>3, <2>3, <2>4, <2>5, <2>6 DEF WorkerStep
<1>4. CASE UNCHANGED vars \/ SpuriousWakeup \/ DestroyCall \/ DestroyerStep
  <2>1. AddsComeFirst'
    BY <1>0, <1>4 DEF vars, SpuriousWakeup, DestroyCall, DestroyerStep, JoinManager,
       BroadcastTurn, JoinTurn, Free, callers, destroying, KeptInv, AddsComeFirst
  <2>. QED
    BY <1>4, <2>1, NothingLost DEF vars, SpuriousWakeup, DestroyCall, DestroyerStep,
       JoinManager, BroadcastTurn, JoinTurn, Free, callers
<1>5. CASE ManagerStep
  <2>1. UNCHANGED <<shutdown, destroying, ring, task, callers, done>>
    BY <1>5 DEF ManagerStep, ManagerLoop, ReadPool, ReadBusy, LockToGrow, CreateThread,
       SkipSlot, StopGrowing, Shrink, NoShrink, SignalIdle, SignalledAll
  <2>. QED
    BY <2>1, NothingLost DEF callers, destroying, KeptInv, AddsComeFirst
<1>. QED
  BY <1>1, <1>2, <1>3, <1>4, <1>5 DEF Next

\* If threadpool_destroy is called after the last threadpool_add has returned, a task whose
\* threadpool_add returned 0 is queued, held by a worker, or done, for ever: also in a pool
\* that grows and shrinks, when threads cannot be created, and once the pool is shut down.
THEOREM NoTaskLost == ASSUME AddersFirst PROVE Spec => []ReturnedIsKept
<1>1. Init => KeptInv
  BY DEF Init, KeptInv, AddsComeFirst
<1>2. CoreInv /\ PlaceInv /\ KeptInv /\ [Next]_vars => KeptInv'
  BY NextKeepsKept, AddersFirst
<1>3. CoreInv /\ KeptInv => ReturnedIsKept
  BY TasksAre DEF CoreInv, TypeOK, KeptInv, Kept, ReturnedIsKept, Running
<1>. QED
  BY <1>1, <1>2, <1>3, CoreInvariant, PlaceInvariant, PTL DEF Spec

=============================================================================
