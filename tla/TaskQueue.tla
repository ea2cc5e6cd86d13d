----------------------------- MODULE TaskQueue -----------------------------
(***************************************************************************)
(* What pthread_test/threadpool.h promises its callers, without threads,   *)
(* locks or a ring: a task that was added waits in arrival order in a      *)
(* bounded queue, is started once, from the head, and is then finished.    *)
(* ThreadPool implements this specification (see ThreadPool!Promise).      *)
(***************************************************************************)
EXTENDS Naturals, Sequences

CONSTANTS
  Tasks,      \* the tasks a caller may add
  Capacity    \* the most tasks that wait at once

VARIABLES
  pending,    \* sequence of the tasks waiting for a worker
  running,    \* set of the tasks some worker has taken and not finished
  done        \* set of the tasks whose callback has returned

vars == <<pending, running, done>>

Queued == {pending[i] : i \in 1..Len(pending)}

Init ==
  /\ pending = <<>>
  /\ running = {}
  /\ done = {}

Add(t) ==
  /\ Len(pending) < Capacity
  /\ t \notin Queued \cup running \cup done
  /\ pending' = Append(pending, t)
  /\ UNCHANGED <<running, done>>

Start ==
  /\ pending # <<>>
  /\ pending' = Tail(pending)
  /\ running' = running \cup {Head(pending)}
  /\ UNCHANGED done

Finish(t) ==
  /\ t \in running
  /\ running' = running \ {t}
  /\ done' = done \cup {t}
  /\ UNCHANGED pending

Next ==
  \/ \E t \in Tasks : Add(t)
  \/ Start
  \/ \E t \in running : Finish(t)

Spec == Init /\ [][Next]_vars

=============================================================================
