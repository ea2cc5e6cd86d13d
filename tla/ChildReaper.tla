---------------------------- MODULE ChildReaper ----------------------------
(***************************************************************************)
(* IPC_test/catch_child.c and IPC_test/sig_wait.cpp: a parent forks N      *)
(* children and recycles them in its handler of SIGCHLD, a loop of         *)
(* blocking waits.  The two programs differ in when they block SIGCHLD:    *)
(* catch_child.c before the first fork, sig_wait.cpp after the last.       *)
(*                                                                         *)
(* The kernel keeps one pending bit per signal, so two deaths may make one *)
(* SIGCHLD.  A SIGCHLD that finds neither a handler nor a block is         *)
(* discarded: its default action is to do nothing.                         *)
(***************************************************************************)
EXTENDS Naturals, FiniteSets

CONSTANTS
  N,            \* children, 5 in both programs
  BlockFirst    \* TRUE: catch_child.c, FALSE: sig_wait.cpp

ASSUME ReaperAssumption == N \in Nat /\ BlockFirst \in BOOLEAN

Children == 1..N

VARIABLES
  parent,    \* main: "block", "fork", "install", "unblock", "loop"; "handler": in catch_child
  i,         \* main's loop counter
  blocked,   \* SIGCHLD is in the parent's signal mask
  handled,   \* catch_child is installed
  pending,   \* SIGCHLD is pending
  child      \* child -> "none" (not forked, or fork failed), "running", "zombie", "reaped"

vars == <<parent, i, blocked, handled, pending, child>>

Init ==
  /\ parent = IF BlockFirst THEN "block" ELSE "fork"
  /\ i = 0
  /\ blocked = FALSE /\ handled = FALSE /\ pending = FALSE
  /\ child = [c \in Children |-> "none"]

-----------------------------------------------------------------------------
(* main *)

\* sigprocmask(SIG_BLOCK)
Block ==
  /\ parent = "block"
  /\ blocked' = TRUE
  /\ parent' = IF BlockFirst THEN "fork" ELSE "install"
  /\ UNCHANGED <<i, handled, pending, child>>

ForksOn == i < N

\* One turn of the loop; a failing fork is not noticed
Fork ==
  /\ parent = "fork" /\ ForksOn
  /\ i' = i + 1
  /\ \/ child' = [child EXCEPT ![i + 1] = "running"]
     \/ UNCHANGED child
  /\ UNCHANGED <<parent, blocked, handled, pending>>

AllForked ==
  /\ parent = "fork" /\ ~ForksOn
  /\ parent' = IF BlockFirst THEN "install" ELSE "block"
  /\ UNCHANGED <<i, blocked, handled, pending, child>>

\* sigaction
Install ==
  /\ parent = "install"
  /\ handled' = TRUE
  /\ parent' = "unblock"
  /\ UNCHANGED <<i, blocked, pending, child>>

\* Mutant: the signal stays blocked, as with SIG_SETMASK in place of SIG_UNBLOCK
UnblockNothing ==
  /\ parent = "unblock"
  /\ parent' = "loop"
  /\ UNCHANGED <<i, blocked, handled, pending, child>>

\* sigprocmask(SIG_UNBLOCK), and on to while(1)
Unblock ==
  /\ parent = "unblock"
  /\ blocked' = FALSE
  /\ parent' = "loop"
  /\ UNCHANGED <<i, handled, pending, child>>

-----------------------------------------------------------------------------
(* catch_child.  SIGCHLD is blocked while its handler runs. *)

Deliver ==
  /\ parent = "loop" /\ pending /\ handled /\ ~blocked
  /\ pending' = FALSE
  /\ parent' = "handler"
  /\ UNCHANGED <<i, blocked, handled, child>>

\* waitpid(-1, ..., 0) recycles a dead child, and blocks while there is none but some live
Reap ==
  /\ parent = "handler"
  /\ \E c \in Children : child[c] = "zombie" /\ child' = [child EXCEPT ![c] = "reaped"]
  /\ UNCHANGED <<parent, i, blocked, handled, pending>>

\* Mutant: the handler does not wait in a loop
OneWaitIsEnough == TRUE

\* waitpid returns -1
NoChildLeft == \A c \in Children : child[c] \notin {"running", "zombie"}

HandlerReturns ==
  /\ parent = "handler" /\ NoChildLeft
  /\ parent' = "loop"
  /\ UNCHANGED <<i, blocked, handled, pending, child>>

ParentStep ==
  \/ Block \/ Fork \/ AllForked \/ Install \/ Unblock
  \/ Deliver \/ Reap \/ HandlerReturns

-----------------------------------------------------------------------------
(* The children print and end; the kernel signals the parent *)

PendingAfterDeath == pending \/ blocked \/ parent = "handler" \/ handled

Exit(c) ==
  /\ child[c] = "running"
  /\ child' = [child EXCEPT ![c] = "zombie"]
  /\ pending' = PendingAfterDeath
  /\ UNCHANGED <<parent, i, blocked, handled>>

-----------------------------------------------------------------------------

Next == ParentStep \/ \E c \in Children : Exit(c)

Spec == Init /\ [][Next]_vars

\* The processes are scheduled, and every child ends.
FairSpec == Spec /\ WF_vars(ParentStep) /\ \A c \in Children : WF_vars(Exit(c))

-----------------------------------------------------------------------------

\* Every variable keeps its type.
TypeOK ==
  /\ parent \in {"block", "fork", "install", "unblock", "loop", "handler"}
  /\ i \in 0..N
  /\ blocked \in BOOLEAN /\ handled \in BOOLEAN /\ pending \in BOOLEAN
  /\ child \in [Children -> {"none", "running", "zombie", "reaped"}]

\* Once main has settled in its loop and no SIGCHLD is pending, no dead child is left
\* unrecycled, however many of their signals were merged into one.
NoForgottenZombie ==
  parent = "loop" /\ ~pending => \A c \in Children : child[c] # "zombie"

\* Every child that ends is recycled.
AllReaped == \A c \in Children : child[c] = "zombie" ~> child[c] = "reaped"

=============================================================================
