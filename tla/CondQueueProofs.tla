-------------------------- MODULE CondQueueProofs --------------------------
(***************************************************************************)
(* Proofs about CondQueue, for any number of producers, consumers and      *)
(* messages.                                                               *)
(***************************************************************************)
EXTENDS CondQueue, SequenceTheorems, TLAPS

LEMMA InitTyped == Init => TypeOK
<1>. SUFFICES ASSUME Init PROVE TypeOK
  OBVIOUS
<1>1. list \in Seq(Nodes) /\ mutex \in Consumers \cup {NULL}
  BY DEF Init
<1>2. /\ mp \in [Threads -> Nodes \cup {NULL}]
      /\ pc \in [Threads -> ProducerStates \cup ConsumerStates]
  BY DEF Init, ProducerStates, ConsumerStates
<1>3. \A p \in Producers : pc[p] \in ProducerStates
  BY DEF Init, ProducerStates, Threads
<1>4. \A c \in Consumers : pc[c] \in ConsumerStates
  BY QueueAssumption DEF Init, ConsumerStates, Threads
<1>. QED
  BY <1>1, <1>2, <1>3, <1>4 DEF TypeOK

\* A thread that moves keeps its type; nothing else of pc changes.
LEMMA GotoTyped ==
  ASSUME TypeOK, NEW t \in Threads, NEW st,
         t \in Producers => st \in ProducerStates,
         t \in Consumers => st \in ConsumerStates,
         Goto(t, st)
  PROVE  /\ pc' \in [Threads -> ProducerStates \cup ConsumerStates]
         /\ \A p \in Producers : pc'[p] \in ProducerStates
         /\ \A c \in Consumers : pc'[c] \in ConsumerStates
         /\ pc'[t] = st
         /\ \A u \in Threads \ {t} : pc'[u] = pc[u]
  BY QueueAssumption DEF TypeOK, Goto, Threads

\* A producer that pushes has a node to push, a consumer that uses one has taken it.
NodesHeld == \A p \in Producers : pc[p] = "push" => mp[p] \in Nodes

\* A consumer about to wait holds the mutex, alone, and the list is still empty.
MutexHeld ==
  /\ \A c \in Consumers : pc[c] = "prewait" => mutex = c /\ list = <<>>

Inv == TypeOK /\ NodesHeld /\ MutexHeld /\ NoStrandedMessage

LEMMA InitInv == Init => Inv
<1>. SUFFICES ASSUME Init PROVE Inv
  OBVIOUS
<1>1. NodesHeld /\ MutexHeld /\ NoStrandedMessage
  BY QueueAssumption DEF Init, NodesHeld, MutexHeld, NoStrandedMessage, Threads
<1>. QED
  BY <1>1, InitTyped DEF Inv

LEMMA NextKeepsInv == Inv /\ [Next]_vars => Inv'
<1>. SUFFICES ASSUME Inv, [Next]_vars PROVE Inv'
  OBVIOUS
<1>0. /\ TypeOK
      /\ Producers \subseteq Threads /\ Consumers \subseteq Threads
      /\ \A p \in Producers : p \notin Consumers
      /\ \A c \in Consumers : c # NULL
  BY QueueAssumption DEF Inv, Threads
<1>1. CASE UNCHANGED vars
  BY <1>1 DEF vars, Inv, TypeOK, NodesHeld, MutexHeld, NoStrandedMessage
<1>2. ASSUME NEW p \in Producers, Make(p) PROVE Inv'
  <2>1. PICK n \in Nodes : mp' = [mp EXCEPT ![p] = n]
    BY <1>2 DEF Make
  <2>2. Goto(p, "push") /\ UNCHANGED <<mutex, list>> /\ pc[p] = "make"
    BY <1>2 DEF Make
  <2>3. TypeOK'
    BY <1>0, <2>1, <2>2, GotoTyped DEF TypeOK, ProducerStates
  <2>4. NodesHeld'
    BY <1>0, <2>1, <2>2, GotoTyped DEF Inv, TypeOK, NodesHeld, ProducerStates
  <2>5. MutexHeld' /\ NoStrandedMessage'
    BY <1>0, <2>2, GotoTyped DEF Inv, MutexHeld, NoStrandedMessage, ProducerStates
  <2>. QED
    BY <2>3, <2>4, <2>5 DEF Inv
<1>3. ASSUME NEW p \in Producers, Push(p) PROVE Inv'
  <2>1. mp[p] \in Nodes /\ Goto(p, "signal") /\ mutex = NULL /\ UNCHANGED mutex
        /\ mp' = [mp EXCEPT ![p] = NULL] /\ list' = <<mp[p]>> \o list
    BY <1>3 DEF Push, Inv, NodesHeld
  <2>2. list' \in Seq(Nodes)
    BY <1>0, <2>1, ConcatProperties DEF TypeOK
  <2>3. TypeOK'
    BY <1>0, <2>1, <2>2, GotoTyped DEF TypeOK, ProducerStates
  <2>4. NodesHeld'
    BY <1>0, <2>1, GotoTyped DEF Inv, TypeOK, NodesHeld, ProducerStates
  <2>5. MutexHeld'
    BY <1>0, <2>1, GotoTyped DEF Inv, MutexHeld, ProducerStates
  <2>6. NoStrandedMessage'
    BY <1>0, <2>1, GotoTyped DEF NoStrandedMessage, ProducerStates
  <2>. QED
    BY <2>3, <2>4, <2>5, <2>6 DEF Inv
<1>4. ASSUME NEW p \in Producers, Signal(p) PROVE Inv'
  <2>1. CASE (\A c \in Consumers : pc[c] # "waiting") /\ Goto(p, "sleep")
    <3>1. UNCHANGED <<mutex, list, mp>>
      BY <1>4 DEF Signal
    <3>2. TypeOK' /\ NodesHeld' /\ MutexHeld'
      BY <1>0, <2>1, <3>1, GotoTyped DEF Inv, TypeOK, NodesHeld, MutexHeld, ProducerStates
    <3>3. NoStrandedMessage'
      BY QueueAssumption, <1>0, <2>1, <3>1, GotoTyped
      DEF Inv, TypeOK, MutexHeld, NoStrandedMessage, ProducerStates, ConsumerStates
    <3>. QED
      BY <3>2, <3>3 DEF Inv
  <2>2. ASSUME NEW c \in Consumers, pc[c] = "waiting",
               pc' = [pc EXCEPT ![p] = "sleep", ![c] = "woken"]
        PROVE  Inv'
    <3>1. UNCHANGED <<mutex, list, mp>>
      BY <1>4 DEF Signal
    <3>2. pc'[c] = "woken" /\ pc'[p] = "sleep"
          /\ \A u \in Threads \ {p, c} : pc'[u] = pc[u]
      BY <1>0, <2>2 DEF TypeOK, ProducerStates, ConsumerStates
    <3>3. TypeOK'
      <4>1. \A q \in Producers : pc'[q] \in ProducerStates
        BY <1>0, <2>2, <3>2 DEF TypeOK, ProducerStates
      <4>2. \A e \in Consumers : pc'[e] \in ConsumerStates
        BY <1>0, <2>2, <3>2 DEF TypeOK, ConsumerStates
      <4>3. pc' \in [Threads -> ProducerStates \cup ConsumerStates]
        BY <1>0, <2>2 DEF TypeOK, ProducerStates, ConsumerStates
      <4>4. /\ mutex' \in Consumers \cup {NULL} /\ list' \in Seq(Nodes)
            /\ mp' \in [Threads -> Nodes \cup {NULL}]
        BY <1>0, <3>1 DEF TypeOK
      <4>. QED
        BY <4>1, <4>2, <4>3, <4>4 DEF TypeOK
    <3>4. NodesHeld' /\ MutexHeld' /\ NoStrandedMessage'
      BY <1>0, <3>1, <3>2 DEF Inv, NodesHeld, MutexHeld, NoStrandedMessage
    <3>. QED
      BY <3>3, <3>4 DEF Inv
  <2>. QED
    BY <1>4, <2>1, <2>2 DEF Signal
<1>5. ASSUME NEW p \in Producers, ProducerWakes(p) PROVE Inv'
  BY <1>0, <1>5, GotoTyped
  DEF ProducerWakes, Inv, TypeOK, NodesHeld, MutexHeld, NoStrandedMessage, ProducerStates
<1>6. ASSUME NEW c \in Consumers, FindEmpty(c) PROVE Inv'
  BY <1>0, <1>6, GotoTyped
  DEF FindEmpty, Inv, TypeOK, NodesHeld, MutexHeld, NoStrandedMessage, ConsumerStates
<1>7. ASSUME NEW c \in Consumers, CondWait(c) PROVE Inv'
  BY <1>0, <1>7, GotoTyped
  DEF CondWait, Inv, TypeOK, NodesHeld, MutexHeld, NoStrandedMessage, ConsumerStates
<1>8. ASSUME NEW c \in Consumers, Take(c) PROVE Inv'
  <2>1. /\ Head(list) \in Nodes /\ Tail(list) \in Seq(Nodes)
        /\ Goto(c, "use") /\ UNCHANGED mutex /\ mutex = NULL
        /\ mp' = [mp EXCEPT ![c] = Head(list)] /\ list' = Tail(list)
    BY <1>0, <1>8, HeadTailProperties DEF Take, TypeOK
  <2>2. TypeOK'
    BY <1>0, <2>1, GotoTyped DEF TypeOK, ConsumerStates
  <2>3. NodesHeld' /\ MutexHeld' /\ NoStrandedMessage'
    BY <1>0, <2>1, GotoTyped
    DEF Inv, TypeOK, NodesHeld, MutexHeld, NoStrandedMessage, ConsumerStates
  <2>. QED
    BY <2>2, <2>3 DEF Inv
<1>9. ASSUME NEW c \in Consumers, Use(c) \/ ConsumerWakes(c) \/ SpuriousWakeup(c) PROVE Inv'
  BY <1>0, <1>9, GotoTyped
  DEF Use, ConsumerWakes, SpuriousWakeup, Inv, TypeOK, NodesHeld, MutexHeld,
      NoStrandedMessage, ConsumerStates
<1>. QED
  BY <1>1, <1>2, <1>3, <1>4, <1>5, <1>6, <1>7, <1>8, <1>9 DEF Next, ProducerStep, ConsumerStep

LEMMA Invariant == Spec => []Inv
  BY InitInv, NextKeepsInv, PTL DEF Spec

\* Every variable keeps its type.
THEOREM TypeCorrect == Spec => []TypeOK
<1>1. Inv => TypeOK
  BY DEF Inv
<1>. QED
  BY Invariant, <1>1, PTL

\* While there are messages a consumer is on its way to them, or a signal is.
THEOREM NoWakeupLost == Spec => []NoStrandedMessage
<1>1. Inv => NoStrandedMessage
  BY DEF Inv
<1>. QED
  BY Invariant, <1>1, PTL

-----------------------------------------------------------------------------
(* Ownership of the messages *)

\* A step that only passes nodes among threads, giving away no node of the list.
LEMMA NextKeepsOwner == Inv /\ OneOwner /\ [Next]_vars => OneOwner'
<1>. SUFFICES ASSUME Inv, OneOwner, [Next]_vars PROVE OneOwner'
  OBVIOUS
<1>0. /\ list \in Seq(Nodes) /\ mp \in [Threads -> Nodes \cup {NULL}]
      /\ Producers \subseteq Threads /\ Consumers \subseteq Threads
      /\ NULL \notin Nodes
  BY QueueAssumption DEF Inv, TypeOK, Threads
<1>1. ASSUME UNCHANGED <<list, mp>> PROVE OneOwner'
  BY <1>1 DEF OneOwner, Listed, Held
<1>2. ASSUME NEW p \in Producers, Make(p) PROVE OneOwner'
  <2>1. PICK n \in Nodes \ (Listed \cup Held) : mp' = [mp EXCEPT ![p] = n]
    BY <1>2 DEF Make
  <2>2. list' = list
    BY <1>2 DEF Make
  <2>3. Listed' = Listed /\ Held' \subseteq Held \cup {n}
    BY <1>0, <2>1, <2>2 DEF Listed, Held
  <2>4. \A t, u \in Threads : mp'[t] = mp'[u] /\ mp'[t] # NULL => t = u
    BY <1>0, <2>1 DEF OneOwner, Held
  <2>. QED
    BY <2>1, <2>2, <2>3, <2>4 DEF OneOwner
<1>3. ASSUME NEW p \in Producers, Push(p) PROVE OneOwner'
  <2>. DEFINE n == mp[p]
  <2>1. n \in Nodes /\ list' = <<n>> \o list /\ mp' = [mp EXCEPT ![p] = NULL]
    BY <1>3 DEF Push, Inv, NodesHeld
  <2>2. n \in Held /\ n \notin Listed
    BY <1>0, <2>1 DEF Held, OneOwner
  <2>3. /\ Len(list') = Len(list) + 1 /\ list'[1] = n
        /\ \A k \in 2..(Len(list) + 1) : list'[k] = list[k - 1]
    BY <1>0, <2>1
  <2>4. Listed' = Listed \cup {n}
    <3>1. \A k \in 1..Len(list) : list'[k + 1] = list[k] /\ k + 1 \in 1..(Len(list) + 1)
      BY <1>0, <2>3
    <3>2. \A k \in 1..(Len(list) + 1) : k = 1 \/ k - 1 \in 1..Len(list)
      BY <1>0
    <3>3. Listed' = {list'[k] : k \in 1..(Len(list) + 1)}
      BY <2>3 DEF Listed
    <3>4. ASSUME NEW k \in 1..(Len(list) + 1) PROVE list'[k] \in Listed \cup {n}
      <4>1. CASE k = 1
        BY <2>3, <4>1
      <4>2. CASE k # 1
        <5>1. k \in 2..(Len(list) + 1) /\ k - 1 \in 1..Len(list)
          BY <1>0, <3>2, <4>2
        <5>2. list'[k] = list[k - 1]
          BY <2>3, <5>1
        <5>. QED
          BY <5>1, <5>2 DEF Listed
      <4>. QED
        BY <4>1, <4>2
    <3>5. 1 \in 1..(Len(list) + 1)
      BY <1>0
    <3>6. Listed \cup {n} \subseteq Listed'
      BY <2>3, <3>1, <3>3, <3>5 DEF Listed
    <3>. QED
      BY <3>3, <3>4, <3>6
  <2>5. Held' \subseteq Held \ {n}
    BY <1>0, <2>1 DEF Held, OneOwner
  <2>6. \A j, k \in 1..(Len(list) + 1) : list'[j] = list'[k] => j = k
    <3>1. \A k \in 2..(Len(list) + 1) : list'[k] \in Listed /\ k - 1 \in 1..Len(list)
      BY <1>0, <2>3 DEF Listed
    <3>2. \A j, k \in 2..(Len(list) + 1) : list'[j] = list'[k] => j = k
      BY <1>0, <2>3, <3>1 DEF OneOwner
    <3>3. \A k \in 1..(Len(list) + 1) : k = 1 \/ k \in 2..(Len(list) + 1)
      BY <1>0
    <3>. QED
      BY <2>2, <2>3, <3>1, <3>2, <3>3
  <2>7. \A t, u \in Threads : mp'[t] = mp'[u] /\ mp'[t] # NULL => t = u
    BY <1>0, <2>1 DEF OneOwner
  <2>8. Listed' \cap Held' = {}
    BY <2>4, <2>5 DEF OneOwner
  <2>9. \A j, k \in 1..Len(list') : list'[j] = list'[k] => j = k
    BY <2>3, <2>6
  <2>. QED
    BY <2>7, <2>8, <2>9 DEF OneOwner
<1>4. ASSUME NEW c \in Consumers, Take(c) PROVE OneOwner'
  <2>. DEFINE n == Head(list)
  <2>1. list # <<>> /\ list' = Tail(list) /\ mp' = [mp EXCEPT ![c] = n]
    BY <1>4 DEF Take
  <2>2. /\ Len(list) > 0 /\ n = list[1] /\ Len(list') = Len(list) - 1
        /\ \A k \in 1..(Len(list) - 1) : list'[k] = list[k + 1]
    BY <1>0, <2>1
  <2>3. n \in Listed /\ n \notin Held /\ n \in Nodes
    BY <1>0, <2>2 DEF Listed, OneOwner
  <2>4. Listed' \subseteq Listed \ {n}
    <3>1. ASSUME NEW k \in 1..(Len(list) - 1)
          PROVE  list[k + 1] \in Listed /\ list[k + 1] # n
      <4>1. k + 1 \in 1..Len(list) /\ 1 \in 1..Len(list) /\ k + 1 # 1
        BY <1>0, <2>2
      <4>2. list[k + 1] # list[1]
        BY <4>1 DEF OneOwner
      <4>. QED
        BY <2>2, <4>1, <4>2 DEF Listed
    <3>2. Listed' = {list'[k] : k \in 1..(Len(list) - 1)}
      BY <2>2 DEF Listed
    <3>. QED
      BY <2>2, <3>1, <3>2
  <2>5. Held' \subseteq Held \cup {n}
    BY <1>0, <2>1 DEF Held
  <2>6. \A j, k \in 1..(Len(list) - 1) : list'[j] = list'[k] => j = k
    BY <1>0, <2>2 DEF OneOwner
  <2>7. \A t, u \in Threads : mp'[t] = mp'[u] /\ mp'[t] # NULL => t = u
    BY <1>0, <2>1, <2>3 DEF OneOwner, Held
  <2>8. Listed' \cap Held' = {}
    BY <2>4, <2>5 DEF OneOwner
  <2>9. \A j, k \in 1..Len(list') : list'[j] = list'[k] => j = k
    BY <2>2, <2>6
  <2>. QED
    BY <2>7, <2>8, <2>9 DEF OneOwner
<1>5. ASSUME NEW c \in Consumers, Use(c) PROVE OneOwner'
  <2>1. list' = list /\ mp' = [mp EXCEPT ![c] = NULL]
    BY <1>5 DEF Use
  <2>2. Listed' = Listed /\ Held' \subseteq Held
    BY <1>0, <2>1 DEF Listed, Held
  <2>3. \A t, u \in Threads : mp'[t] = mp'[u] /\ mp'[t] # NULL => t = u
    BY <1>0, <2>1 DEF OneOwner
  <2>. QED
    BY <2>1, <2>2, <2>3 DEF OneOwner
<1>. QED
  BY <1>1, <1>2, <1>3, <1>4, <1>5 DEF Next, ProducerStep, ConsumerStep, vars, Signal,
     ProducerWakes, FindEmpty, CondWait, ConsumerWakes, SpuriousWakeup

\* A message is never in two hands: not consumed twice, not freed while reachable.
THEOREM OneOwnerKept == Spec => []OneOwner
<1>1. Init => OneOwner
  BY DEF Init, OneOwner, Listed, Held
<1>. QED
  BY <1>1, Invariant, NextKeepsOwner, PTL DEF Spec

=============================================================================
