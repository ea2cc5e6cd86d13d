----------------------------- MODULE CondQueue -----------------------------
(***************************************************************************)
(* pthread_test/cond_product_consumer.c: producers push messages on the    *)
(* front of a list under a mutex and signal has_data after they released   *)
(* it; consumers wait on has_data while the list is empty and take the     *)
(* message at the front.  The threads never end, so main never gets past   *)
(* its first pthread_join.                                                 *)
(*                                                                         *)
(* A section under the mutex is one step.  The gap between a consumer's    *)
(* test of head and its entry into pthread_cond_wait is kept ("prewait"),  *)
(* because the signal is sent without the mutex and can fall into it.      *)
(***************************************************************************)
EXTENDS Naturals, Sequences, FiniteSets

CONSTANTS
  Producers,   \* main starts one producer and two consumers
  Consumers,
  Nodes,       \* bound: the blocks malloc can hand out; free gives one back
  NULL         \* no node; also: nobody holds the mutex

ASSUME QueueAssumption ==
  /\ NULL \notin Nodes \cup Consumers
  /\ Producers \cap Consumers = {}
  /\ Consumers # {}

Threads == Producers \cup Consumers

VARIABLES
  mutex,   \* the consumer between its test and its wait, or NULL
  list,    \* the messages reachable from head, front first
  mp,      \* thread -> its local mp
  pc       \* thread -> where it is, see States

vars == <<mutex, list, mp, pc>>

(***************************************************************************)
(* Producer: make (malloc), push, signal, sleep.  Consumer: take (wants    *)
(* the mutex), prewait, waiting, woken (wants the mutex back), use (print  *)
(* and free), sleep.                                                       *)
(***************************************************************************)
ProducerStates == {"make", "push", "signal", "sleep"}
ConsumerStates == {"take", "prewait", "waiting", "woken", "use", "sleep"}

Init ==
  /\ mutex = NULL
  /\ list = <<>>
  /\ mp = [t \in Threads |-> NULL]
  /\ pc = [t \in Threads |-> IF t \in Producers THEN "make" ELSE "take"]

Goto(t, state) == pc' = [pc EXCEPT ![t] = state]

Listed == {list[k] : k \in 1..Len(list)}
Held == {mp[t] : t \in Threads} \ {NULL}

-----------------------------------------------------------------------------
(* producer *)

\* malloc hands out a block nobody has
Make(p) ==
  /\ pc[p] = "make"
  /\ \E n \in Nodes \ (Listed \cup Held) : mp' = [mp EXCEPT ![p] = n]
  /\ Goto(p, "push")
  /\ UNCHANGED <<mutex, list>>

Push(p) ==
  /\ pc[p] = "push" /\ mutex = NULL
  /\ list' = <<mp[p]>> \o list
  /\ mp' = [mp EXCEPT ![p] = NULL]
  /\ Goto(p, "signal")
  /\ UNCHANGED mutex

\* Mutant: no signal is sent
SignalForgotten(p) ==
  /\ pc[p] = "signal"
  /\ Goto(p, "sleep")
  /\ UNCHANGED <<mutex, list, mp>>

\* pthread_cond_signal(&has_data): one waiter, if there is one; then sleep
Signal(p) ==
  /\ pc[p] = "signal"
  /\ \/ \E c \in Consumers :
          /\ pc[c] = "waiting"
          /\ pc' = [pc EXCEPT ![p] = "sleep", ![c] = "woken"]
     \/ (\A c \in Consumers : pc[c] # "waiting") /\ Goto(p, "sleep")
  /\ UNCHANGED <<mutex, list, mp>>

ProducerWakes(p) ==
  /\ pc[p] = "sleep"
  /\ Goto(p, "make")
  /\ UNCHANGED <<mutex, list, mp>>

ProducerStep(p) == Make(p) \/ Push(p) \/ Signal(p) \/ ProducerWakes(p)

-----------------------------------------------------------------------------
(* consumer *)

\* Mutant: the mutex is not held when the wait begins
FindEmptyUnlocked(c) ==
  /\ pc[c] \in {"take", "woken"} /\ mutex = NULL
  /\ list = <<>>
  /\ Goto(c, "prewait")
  /\ UNCHANGED <<mutex, list, mp>>

\* With the mutex, head == NULL: about to wait
FindEmpty(c) ==
  /\ pc[c] \in {"take", "woken"} /\ mutex = NULL
  /\ list = <<>>
  /\ mutex' = c
  /\ Goto(c, "prewait")
  /\ UNCHANGED <<list, mp>>

\* pthread_cond_wait: releases the mutex and starts to wait, atomically
CondWait(c) ==
  /\ pc[c] = "prewait"
  /\ mutex' = NULL
  /\ Goto(c, "waiting")
  /\ UNCHANGED <<list, mp>>

\* Mutant: head is not moved on
TakeAndLeave(c) ==
  /\ pc[c] \in {"take", "woken"} /\ mutex = NULL
  /\ list # <<>>
  /\ mp' = [mp EXCEPT ![c] = Head(list)]
  /\ Goto(c, "use")
  /\ UNCHANGED <<mutex, list>>

\* With the mutex, there is a message: take the one at the front
Take(c) ==
  /\ pc[c] \in {"take", "woken"} /\ mutex = NULL
  /\ list # <<>>
  /\ mp' = [mp EXCEPT ![c] = Head(list)]
  /\ list' = Tail(list)
  /\ Goto(c, "use")
  /\ UNCHANGED mutex

\* printf and free
Use(c) ==
  /\ pc[c] = "use"
  /\ mp' = [mp EXCEPT ![c] = NULL]
  /\ Goto(c, "sleep")
  /\ UNCHANGED <<mutex, list>>

ConsumerWakes(c) ==
  /\ pc[c] = "sleep"
  /\ Goto(c, "take")
  /\ UNCHANGED <<mutex, list, mp>>

ConsumerStep(c) == FindEmpty(c) \/ CondWait(c) \/ Take(c) \/ Use(c) \/ ConsumerWakes(c)

\* POSIX lets pthread_cond_wait return without a signal
SpuriousWakeup(c) ==
  /\ pc[c] = "waiting"
  /\ Goto(c, "woken")
  /\ UNCHANGED <<mutex, list, mp>>

-----------------------------------------------------------------------------

Next ==
  \/ \E p \in Producers : ProducerStep(p)
  \/ \E c \in Consumers : ConsumerStep(c) \/ SpuriousWakeup(c)

Spec == Init /\ [][Next]_vars

(***************************************************************************)
(* Threads are scheduled, sleeps end, and a thread that wants the mutex    *)
(* gets it if it is free again and again.  Spurious wakeups are not        *)
(* assumed.                                                                *)
(***************************************************************************)
Fairness ==
  /\ \A p \in Producers : SF_vars(ProducerStep(p))
  /\ \A c \in Consumers : SF_vars(ConsumerStep(c))

FairSpec == Spec /\ Fairness

-----------------------------------------------------------------------------

\* Every variable keeps its type; only consumers hold the mutex across steps.
TypeOK ==
  /\ mutex \in Consumers \cup {NULL}
  /\ list \in Seq(Nodes)
  /\ mp \in [Threads -> Nodes \cup {NULL}]
  /\ pc \in [Threads -> ProducerStates \cup ConsumerStates]
  /\ \A p \in Producers : pc[p] \in ProducerStates
  /\ \A c \in Consumers : pc[c] \in ConsumerStates

\* A message has one owner at a time, a producer, the list or a consumer: it is never
\* consumed twice, and never freed while another thread can reach it.
OneOwner ==
  /\ \A j, k \in 1..Len(list) : list[j] = list[k] => j = k
  /\ Listed \cap Held = {}
  /\ \A t, u \in Threads : mp[t] = mp[u] /\ mp[t] # NULL => t = u

\* No wakeup is lost although the signal is sent without the mutex: while there are
\* messages, some consumer is on its way to them or some producer is about to signal.
NoStrandedMessage ==
  list # <<>> =>
     \/ \E c \in Consumers : pc[c] \in {"take", "woken", "use", "sleep"}
     \/ \E p \in Producers : pc[p] = "signal"

\* While there are messages, consumers go on taking them.  (Which message is taken is
\* another matter: the front one, so one at the back can wait for ever.)
MessagesTaken == list # <<>> ~> \E c \in Consumers : pc[c] = "use"

=============================================================================
