-------------------------------- MODULE Pipes --------------------------------
(***************************************************************************)
(* IPC_test/pipe.c, ls-wc-l.c and pipe_bro.c: processes that inherit both  *)
(* ends of a pipe and keep the one they need.  A reader sees the end of    *)
(* the stream when nobody has a writing end any more, a writer is killed   *)
(* by SIGPIPE when nobody has a reading end.  Beside them                  *)
(* processAPI_test/fork_exec.c and wait_test.c, which have no pipe.        *)
(*                                                                         *)
(* Each process runs a script, the system calls of its branch of main in   *)
(* their order; exec turns it into wc, which counts lines to the end of    *)
(* the stream, or ls, which writes some.  A line is what the pipe carries. *)
(***************************************************************************)
EXTENDS Integers, Sequences, FiniteSets

CONSTANTS
  Lines,      \* what ls writes
  PipeSize,   \* bound: what fits into the pipe
  CallsFail   \* fork and exec may fail

\* What is assumed of them
PipesAssumption ==
  Lines \in Nat /\ PipeSize \in Nat \ {0} /\ CallsFail \in BOOLEAN

VARIABLES
  program,   \* which of them runs
  at,        \* process -> "none", "script", "wc", "ls", "ended", "killed"
  pc,        \* process -> its next step
  ends,      \* process -> the ends it has: fd0, fd1, and in and out, where dup2 put them
  inPipe,    \* lines in the pipe
  written, got, printed,   \* by the writer, by the reader; what the reader showed, or -1
  reaped     \* children recycled by wait

vars == <<program, at, pc, ends, inPipe, written, got, printed, reaped>>

Processes == {"parent", "elder", "younger"}
Children == Processes \ {"parent"}
PipePrograms == {"pipe", "ls-wc-l", "pipe_bro", "fork_exec", "wait_test"}

PipeParent == <<<<"fork", "elder">>, <<"close", "fd0">>, <<"write", "fd1">>, <<"close", "fd1">>>>
PipeChild == <<<<"close", "fd1">>, <<"read", "fd0">>, <<"close", "fd0">>>>

\* Mutant: the reader keeps the writing end
WcKeepsEnd == <<<<"dup2", "fd0">>, <<"exec", "wc">>>>

Wc == <<<<"close", "fd1">>, <<"dup2", "fd0">>, <<"exec", "wc">>>>

Ls == <<<<"close", "fd0">>, <<"dup2", "fd1">>, <<"exec", "ls">>>>

BroParent ==
  <<<<"fork", "elder">>, <<"fork", "younger">>, <<"close", "fd0">>, <<"close", "fd1">>,
    <<"wait", "any">>, <<"wait", "any">>>>

PipeScript(p) == IF p = "parent" THEN PipeParent ELSE PipeChild
LsWcScript(p) == IF p = "parent" THEN <<<<"fork", "elder">>>> \o Ls ELSE Wc
BroScript(p) == CASE p = "parent" -> BroParent [] p = "elder" -> Wc [] OTHER -> Ls
ForkExecScript(p) == IF p = "parent" THEN <<<<"fork", "elder">>>> ELSE <<<<"exec", "ls">>>>
WaitScript(p) == IF p = "parent" THEN <<<<"fork", "elder">>, <<"wait", "any">>>> ELSE <<>>

Script(p) ==
  CASE program = "pipe"      -> PipeScript(p)
    [] program = "ls-wc-l"   -> LsWcScript(p)
    [] program = "pipe_bro"  -> BroScript(p)
    [] program = "fork_exec" -> ForkExecScript(p)
    [] program = "wait_test" -> WaitScript(p)

Init ==
  /\ program \in PipePrograms
  /\ at = [p \in Processes |-> IF p = "parent" THEN "script" ELSE "none"]
  /\ pc = [p \in Processes |-> 1]
  /\ ends = [p \in Processes |-> IF p = "parent" /\ program \notin {"fork_exec", "wait_test"}
                               THEN {"fd0", "fd1"} ELSE {}]
  /\ inPipe = 0 /\ written = 0 /\ got = 0 /\ printed = -1
  /\ reaped = {}

ReadEndOpen == \E p \in Processes : ends[p] \cap {"fd0", "in"} # {}
WriteEndOpen == \E p \in Processes : ends[p] \cap {"fd1", "out"} # {}
Ended(p) == at[p] \in {"ended", "killed"}

\* p is at a step of that name, and what it is about
Does(p, call) == at[p] = "script" /\ pc[p] <= Len(Script(p)) /\ Script(p)[pc[p]][1] = call
About(p) == Script(p)[pc[p]][2]
Goes(p) == pc' = [pc EXCEPT ![p] = @ + 1]

Leaves(p, how) ==
  /\ at' = [at EXCEPT ![p] = how]
  /\ ends' = [ends EXCEPT ![p] = {}]

data == <<inPipe, written, got, printed>>

\* Without its other process each program ends
Fork(p) ==
  /\ Does(p, "fork")
  /\ \/ /\ at' = [at EXCEPT ![About(p)] = "script"]
        /\ ends' = [ends EXCEPT ![About(p)] = ends[p]]
        /\ Goes(p)
     \/ CallsFail /\ Leaves(p, "ended") /\ UNCHANGED pc
  /\ UNCHANGED <<program, data, reaped>>

CloseEnd(p) ==
  /\ Does(p, "close")
  /\ ends' = [ends EXCEPT ![p] = @ \ {About(p)}]
  /\ Goes(p)
  /\ UNCHANGED <<program, at, data, reaped>>

\* dup2 of an end that is closed fails, unnoticed
Dup2(p) ==
  /\ Does(p, "dup2")
  /\ ends' = [ends EXCEPT ![p] = IF About(p) \notin @ THEN @
                                 ELSE @ \cup {IF About(p) = "fd0" THEN "in" ELSE "out"}]
  /\ Goes(p)
  /\ UNCHANGED <<program, at, data, reaped>>

Exec(p) ==
  /\ Does(p, "exec")
  /\ \/ at' = [at EXCEPT ![p] = About(p)] /\ Goes(p) /\ UNCHANGED ends
     \/ CallsFail /\ Leaves(p, "ended") /\ UNCHANGED pc
  /\ UNCHANGED <<program, data, reaped>>

Wait(p) ==
  /\ Does(p, "wait")
  /\ \E c \in Children \ reaped : Ended(c) /\ reaped' = reaped \cup {c}
  /\ Goes(p)
  /\ UNCHANGED <<program, at, ends, data>>

Exit(p) ==
  /\ at[p] = "script" /\ pc[p] > Len(Script(p))
  /\ Leaves(p, "ended")
  /\ UNCHANGED <<program, pc, data, reaped>>

\* A write to the pipe, which waits while there is no room; then goes on in the script
Write(p) ==
  /\ IF ~ReadEndOpen
       THEN Leaves(p, "killed") /\ UNCHANGED <<pc, inPipe, written>>
       ELSE /\ inPipe < PipeSize
            /\ inPipe' = inPipe + 1 /\ written' = written + 1
            /\ IF at[p] = "script" THEN Goes(p) ELSE UNCHANGED pc
            /\ UNCHANGED <<at, ends>>
  /\ UNCHANGED <<program, got, printed, reaped>>

\* pipe.c reads once, and shows what it got
ReadOnce(p) ==
  /\ Does(p, "read")
  /\ inPipe > 0 \/ ~WriteEndOpen
  /\ got' = got + inPipe /\ printed' = got + inPipe
  /\ inPipe' = 0
  /\ Goes(p)
  /\ UNCHANGED <<program, at, ends, written, reaped>>

MoreLines == written < Lines

RunLs(p) ==
  /\ at[p] = "ls"
  /\ \/ "out" \in ends[p] /\ MoreLines /\ Write(p)
     \/ /\ "out" \notin ends[p] \/ ~MoreLines
        /\ Leaves(p, "ended")
        /\ UNCHANGED <<program, pc, data, reaped>>

RunWc(p) ==
  /\ at[p] = "wc"
  /\ \/ /\ "in" \in ends[p] /\ inPipe > 0
        /\ got' = got + inPipe /\ inPipe' = 0
        /\ UNCHANGED <<at, ends, printed>>
     \/ /\ "in" \in ends[p] => inPipe = 0 /\ ~WriteEndOpen
        /\ printed' = got
        /\ Leaves(p, "ended")
        /\ UNCHANGED <<got, inPipe>>
  /\ UNCHANGED <<program, pc, written, reaped>>

Step(p) ==
  \/ Fork(p) \/ CloseEnd(p) \/ Dup2(p) \/ Exec(p) \/ Wait(p) \/ Exit(p)
  \/ (Does(p, "write") /\ Write(p)) \/ ReadOnce(p)
  \/ RunLs(p) \/ RunWc(p)

Next == \E p \in Processes : Step(p)

Spec == Init /\ [][Next]_vars

-----------------------------------------------------------------------------

\* Every variable keeps its type.
TypeOK ==
  /\ program \in PipePrograms
  /\ at \in [Processes -> {"none", "script", "wc", "ls", "ended", "killed"}]
  /\ pc \in [Processes -> 1..7]
  /\ ends \in [Processes -> SUBSET {"fd0", "fd1", "in", "out"}]
  /\ inPipe \in 0..PipeSize
  /\ written \in 0..(IF program = "pipe" THEN 1 ELSE Lines) /\ got \in 0..written /\ printed \in -1..got
  /\ reaped \subseteq Children

Writer == IF program = "pipe_bro" THEN "younger" ELSE "parent"
Executed(p) == pc[p] > Len(Script(p))

\* What wc shows is all that was written and will be, and all that ls had to write if it
\* was run.  pipe.c shows the message its parent sent.
ReadsAll ==
  printed >= 0 =>
     /\ printed = written
     /\ IF program = "pipe" THEN printed = 1
        ELSE ~WriteEndOpen /\ (Executed(Writer) => printed = Lines)

\* SIGPIPE only reaches a writer whose reader could not be started.
KilledForAReason ==
  \A p \in Processes : at[p] = "killed" => at["elder"] = "ended" /\ printed = -1

\* Every process ends: nobody keeps an end that another one waits to see closed.
NobodyLeft == \A p \in Processes : at[p] # "none" => Ended(p)
AllEnd == <>NobodyLeft

=============================================================================
