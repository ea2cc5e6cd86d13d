------------------------------ MODULE SemRing ------------------------------
(***************************************************************************)
(* pthread_test/semaphore_producer_consumer.c: one producer and one        *)
(* consumer share a ring of NUM cells without a mutex; the semaphore       *)
(* blank_number counts the cells that may be filled, producer_number those *)
(* that may be emptied.  A cell that holds 0 is blank.                     *)
(*                                                                         *)
(* Each semaphore operation and each access to the ring is a step.  The    *)
(* products, rand()%1000+1 in the code and so never 0, are numbered in the *)
(* order in which they are made, so that a loss or a swap shows.           *)
(***************************************************************************)
EXTENDS Integers, Sequences

CONSTANTS
  NUM,        \* cells of the ring
  NumItems    \* bound: products made

ASSUME RingAssumption == NUM \in Nat \ {0} /\ NumItems \in Nat

Cells == 0..(NUM - 1)
Items == 1..NumItems

VARIABLES
  queue,             \* cell -> product or 0
  blank_number,
  producer_number,
  ppc, pi,           \* the producer: where it is, and its local i
  cpc, ci,           \* the consumer, likewise
  made,              \* history: products made so far
  seen,              \* history: the product the consumer has printed and not cleared, or 0
  done               \* history: products printed and cleared

vars == <<queue, blank_number, producer_number, ppc, pi, cpc, ci, made, seen, done>>

Init ==
  /\ queue = [c \in Cells |-> 0]
  /\ blank_number = NUM
  /\ producer_number = 0
  /\ ppc = "wait" /\ pi = 0
  /\ cpc = "wait" /\ ci = 0
  /\ made = 0 /\ seen = 0 /\ done = {}

\* Mutant: the index wraps one cell early
NextCellShort(c) == IF c + 2 >= NUM THEN 0 ELSE c + 1

NextCell(c) == (c + 1) % NUM

-----------------------------------------------------------------------------
(* producer *)

\* Mutant: the producer does not wait for a blank
ProduceAtOnce ==
  /\ ppc = "wait" /\ made < NumItems
  /\ ppc' = "write"
  /\ UNCHANGED <<queue, blank_number, producer_number, pi, cpc, ci, made, seen, done>>

\* sem_wait(&blank_number)
WaitBlank ==
  /\ ppc = "wait" /\ made < NumItems
  /\ blank_number > 0
  /\ blank_number' = blank_number - 1
  /\ ppc' = "write"
  /\ UNCHANGED <<queue, producer_number, pi, cpc, ci, made, seen, done>>

Write ==
  /\ ppc = "write"
  /\ queue' = [queue EXCEPT ![pi] = made + 1]
  /\ made' = made + 1
  /\ ppc' = "post"
  /\ UNCHANGED <<blank_number, producer_number, pi, cpc, ci, seen, done>>

\* sem_post(&producer_number); i = (i + 1) % NUM
PostProduct ==
  /\ ppc = "post"
  /\ producer_number' = producer_number + 1
  /\ pi' = NextCell(pi)
  /\ ppc' = "wait"
  /\ UNCHANGED <<queue, blank_number, cpc, ci, made, seen, done>>

Producer == WaitBlank \/ Write \/ PostProduct

-----------------------------------------------------------------------------
(* consumer *)

\* sem_wait(&producer_number)
WaitProduct ==
  /\ cpc = "wait"
  /\ producer_number > 0
  /\ producer_number' = producer_number - 1
  /\ cpc' = "read"
  /\ UNCHANGED <<queue, blank_number, ppc, pi, ci, made, seen, done>>

Read ==
  /\ cpc = "read"
  /\ seen' = queue[ci]
  /\ cpc' = "clear"
  /\ UNCHANGED <<queue, blank_number, producer_number, ppc, pi, ci, made, done>>

Clear ==
  /\ cpc = "clear"
  /\ queue' = [queue EXCEPT ![ci] = 0]
  /\ done' = done \cup {seen}
  /\ seen' = 0
  /\ cpc' = "post"
  /\ UNCHANGED <<blank_number, producer_number, ppc, pi, ci, made>>

\* Mutant: the cell is not given back
PostForgotten ==
  /\ cpc = "post"
  /\ ci' = NextCell(ci)
  /\ cpc' = "wait"
  /\ UNCHANGED <<queue, blank_number, producer_number, ppc, pi, made, seen, done>>

\* sem_post(&blank_number); i = (i + 1) % NUM
PostBlank ==
  /\ cpc = "post"
  /\ blank_number' = blank_number + 1
  /\ ci' = NextCell(ci)
  /\ cpc' = "wait"
  /\ UNCHANGED <<queue, producer_number, ppc, pi, made, seen, done>>

Consumer == WaitProduct \/ Read \/ Clear \/ PostBlank

-----------------------------------------------------------------------------

Next == Producer \/ Consumer

Spec == Init /\ [][Next]_vars

\* Both threads are scheduled; each is the only one to wait on its semaphore.
FairSpec == Spec /\ WF_vars(Producer) /\ WF_vars(Consumer)

-----------------------------------------------------------------------------

\* Every variable keeps its type.
TypeOK ==
  /\ queue \in [Cells -> Items \cup {0}]
  /\ blank_number \in 0..NUM
  /\ producer_number \in 0..NUM
  /\ ppc \in {"wait", "write", "post"} /\ pi \in Cells
  /\ cpc \in {"wait", "read", "clear", "post"} /\ ci \in Cells
  /\ made \in 0..NumItems
  /\ seen \in Items \cup {0}
  /\ done \subseteq Items

\* The cells the producer and the consumer have between their two semaphores
Producing == IF ppc \in {"write", "post"} THEN 1 ELSE 0
Consuming == IF cpc \in {"read", "clear", "post"} THEN 1 ELSE 0

\* Every cell is counted once: by a semaphore or by the thread that works on it.
CellsAccounted == blank_number + producer_number + Producing + Consuming = NUM

\* The ring as the two threads have left it: the first cell to empty, the next to fill,
\* and how many are full
CellFrom(c, k) == (c + k) % NUM
First == IF cpc = "post" THEN NextCell(ci) ELSE ci
Free == IF ppc = "post" THEN NextCell(pi) ELSE pi
Full == producer_number + (IF ppc = "post" THEN 1 ELSE 0)
                        + (IF cpc \in {"read", "clear"} THEN 1 ELSE 0)

RingHolds(f, r, n, q) ==
  /\ r = CellFrom(f, n)
  /\ \A k \in Cells : q[CellFrom(f, k)] # 0 <=> k < n

\* The indices, which the threads keep to themselves, agree with the semaphores, and the
\* full cells are exactly those in between.
RingConsistent == RingHolds(First, Free, Full, queue)

\* The producer only writes to a blank cell, the consumer only reads and clears a full one.
NoCellClash ==
  /\ ppc = "write" => queue[pi] = 0
  /\ cpc \in {"read", "clear"} => queue[ci] # 0

\* The products in the ring that have not been printed
Unread ==
  LET skip == IF cpc = "clear" THEN 1 ELSE 0
  IN  [k \in 1..(Full - skip) |-> queue[CellFrom(First, k - 1 + skip)]]

Promise == INSTANCE TaskQueue
             WITH Tasks <- Items, Capacity <- NUM,
                  pending <- Unread, running <- {seen} \ {0}

\* Two semaphores and two private indices make a bounded first-in first-out queue.
ImplementsQueue == Promise!Spec

\* Every product is made and consumed: the two threads never both wait, although each cell
\* is used again and again and nothing but the two counts tells a full ring from an empty one.
AllConsumed == \A k \in Items : <>(k \in done)

=============================================================================
