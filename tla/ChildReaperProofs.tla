------------------------- MODULE ChildReaperProofs -------------------------
(***************************************************************************)
(* Proofs about ChildReaper, for any number of children: the type          *)
(* invariant for both programs, and for catch_child.c, which blocks        *)
(* SIGCHLD before it forks, that no zombie is forgotten.                   *)
(***************************************************************************)
EXTENDS ChildReaper, TLAPS

-----------------------------------------------------------------------------
(* Type correctness, for both programs *)

LEMMA NextKeepsType == TypeOK /\ [Next]_vars => TypeOK'
<1>. SUFFICES ASSUME TypeOK, [Next]_vars PROVE TypeOK'
  OBVIOUS
<1>1. CASE UNCHANGED vars
  BY <1>1 DEF TypeOK, vars
<1>2. CASE Block
  BY <1>2 DEF TypeOK, Block
<1>3. CASE Fork
  <2>1. i' \in 0..N
    BY <1>3, ReaperAssumption DEF TypeOK, Fork, ForksOn
  <2>2. child' \in [Children -> {"none", "running", "zombie", "reaped"}]
    BY <1>3 DEF TypeOK, Fork
  <2>. QED
    BY <1>3, <2>1, <2>2 DEF TypeOK, Fork
<1>4. CASE AllForked
  BY <1>4 DEF TypeOK, AllForked
<1>5. CASE Install
  BY <1>5 DEF TypeOK, Install
<1>6. CASE Unblock
  BY <1>6 DEF TypeOK, Unblock
<1>7. CASE Deliver
  BY <1>7 DEF TypeOK, Deliver
<1>8. CASE Reap
  BY <1>8 DEF TypeOK, Reap
<1>9. CASE HandlerReturns
  BY <1>9 DEF TypeOK, HandlerReturns
<1>10. ASSUME NEW c \in Children, Exit(c) PROVE TypeOK'
  BY <1>10 DEF TypeOK, Exit, PendingAfterDeath
<1>. QED
  BY <1>1, <1>2, <1>3, <1>4, <1>5, <1>6, <1>7, <1>8, <1>9, <1>10 DEF Next, ParentStep

\* Every variable keeps its type, whichever program it is.
THEOREM TypeCorrect == Spec => []TypeOK
<1>1. Init => TypeOK
  <2>1. 0 \in 0..N
    BY ReaperAssumption
  <2>. QED
    BY <2>1, Zenon DEF Init, TypeOK
<1>. QED
  BY <1>1, NextKeepsType, PTL DEF Spec

-----------------------------------------------------------------------------
(* No zombie is forgotten.  Before SIGCHLD is blocked no child exists; from  *)
(* then on a death sets the pending bit, because the signal is blocked or    *)
(* has a handler; and the handler, which takes the bit back, leaves only     *)
(* when there is no child left.                                              *)

Watched ==
  /\ parent = "block" => \A c \in Children : child[c] = "none"
  /\ parent \in {"fork", "install", "unblock"} => blocked
  /\ parent \in {"unblock", "loop", "handler"} => handled
  /\ parent # "handler" /\ ~pending => \A c \in Children : child[c] # "zombie"

LEMMA NextKeepsWatched ==
  ASSUME BlockFirst, TypeOK, Watched, [Next]_vars
  PROVE  Watched'
<1>1. CASE UNCHANGED vars
  BY <1>1 DEF Watched, vars
<1>2. CASE Block
  BY <1>2 DEF Watched, Block
<1>3. CASE Fork
  <2>1. \A c \in Children : child'[c] = "zombie" => child[c] = "zombie"
    BY <1>3 DEF TypeOK, Fork
  <2>. QED
    BY <1>3, <2>1 DEF Watched, Fork
<1>4. CASE AllForked
  BY <1>4 DEF Watched, AllForked
<1>5. CASE Install
  BY <1>5, Zenon DEF Watched, Install
<1>6. CASE Unblock
  BY <1>6 DEF Watched, Unblock
<1>7. CASE Deliver
  BY <1>7, Zenon DEF Watched, Deliver
<1>8. CASE Reap
  BY <1>8 DEF Watched, Reap
<1>9. CASE HandlerReturns
  BY <1>9 DEF Watched, HandlerReturns, NoChildLeft
<1>10. ASSUME NEW c \in Children, Exit(c) PROVE Watched'
  <2>1. parent \in {"fork", "install", "unblock", "loop", "handler"}
    BY <1>10 DEF TypeOK, Watched, Exit
  <2>2. pending' \/ parent' = "handler"
    BY <1>10, <2>1 DEF Watched, Exit, PendingAfterDeath
  <2>. QED
    BY <1>10, <2>1, <2>2 DEF Watched, Exit
<1>. QED
  BY <1>1, <1>2, <1>3, <1>4, <1>5, <1>6, <1>7, <1>8, <1>9, <1>10 DEF Next, ParentStep

\* catch_child.c forgets no zombie, however many children it has and however their
\* deaths fall between its steps.
THEOREM NoZombieForgotten ==
  ASSUME BlockFirst
  PROVE  Spec => []NoForgottenZombie
<1>1. Init => Watched
  BY DEF Init, Watched
<1>2. TypeOK /\ Watched /\ [Next]_vars => Watched'
  BY NextKeepsWatched
<1>3. Watched => NoForgottenZombie
  BY DEF Watched, NoForgottenZombie
<1>. QED
  BY <1>1, <1>2, <1>3, TypeCorrect, PTL DEF Spec

=============================================================================
