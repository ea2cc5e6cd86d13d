------------------------------ MODULE FileTree ------------------------------
(***************************************************************************)
(* io_function_test/ls-R.c and mymv.c: a walk over a tree of directories,  *)
(* and a program that gives a file another name while the walk goes on.    *)
(* The directories lie one in the other.  readdir returns a name that is   *)
(* there all the time once.  One that came or went since opendir it may    *)
(* return or not, and again when it comes or goes again.                   *)
(***************************************************************************)
EXTENDS Integers, Sequences, SequencesExt

CONSTANTS
  Depth,       \* bound: directories below the first one
  Paths,       \* where a file may be: directory, counted from the outermost, and name
  FirstNames,  \* path -> the file it names at first, 0 if none
  CallsFail,   \* opendir and stat may fail
  MaxMoves     \* bound: starts of mymv

\* What is assumed of them
TreeAssumption ==
  /\ \A p \in Paths : p = <<p[1], p[2]>> /\ p[1] \in 0..Depth /\ p[2] \notin {".", "sub"}
  /\ FirstNames \in [Paths -> Nat]
  /\ Depth \in Nat /\ CallsFail \in BOOLEAN /\ MaxMoves \in Nat

VARIABLES
  at,          \* where "ls-R" and "mymv" are
  name,        \* path -> the file it names, 0 if none
  move,        \* argv of mymv, and whether its link succeeded
  frames,      \* the directories that read_dir has open, the innermost last
  entry,       \* the name isFile is called with
  shown,       \* path -> how often it was printed
  touched,     \* paths that were given or lost a file since the walk began
  unopened,    \* directories that could not be opened, or not be searched
  forgotten,   \* files whose name mymv removed though it had made no other
  starts       \* of mymv

walk == <<entry, shown, unopened>>
vars == <<at, name, move, frames, walk, touched, forgotten, starts>>

FileNames == {p[2] : p \in Paths}
Files == {FirstNames[p] : p \in Paths} \ {0}

Init ==
  /\ at = [p \in {"ls-R", "mymv"} |-> "off"]
  /\ name = FirstNames
  /\ move = <<>>
  /\ frames = <<>> /\ entry = "."
  /\ shown = [p \in Paths |-> 0]
  /\ touched = {} /\ unopened = {} /\ forgotten = {}
  /\ starts = 0

Goes(p, state) == at' = [at EXCEPT ![p] = state]

-----------------------------------------------------------------------------
(* ls-R.c *)

\* What a directory holds; "." stands for ".." as well
Names(d) ==
  {p[2] : p \in {q \in Paths : q[1] = d /\ name[q] # 0}}
    \cup {"."} \cup (IF d < Depth THEN {"sub"} ELSE {})

\* readdir still has to return the names of must, and may return those of may
Opened(d) == [dir |-> d, must |-> Names(d), may |-> Names(d), seen |-> {}]

\* read_dir; a directory that cannot be opened is passed over
Enter(d, outer) ==
  \/ frames' = Append(outer, Opened(d)) /\ Goes("ls-R", "read") /\ UNCHANGED unopened
  \/ /\ CallsFail
     /\ frames' = outer /\ unopened' = unopened \cup {d}
     /\ Goes("ls-R", IF outer = <<>> THEN "ended" ELSE "read")

\* main, without an argument
StartWalk ==
  /\ at["ls-R"] = "off"
  /\ Enter(0, <<>>)
  /\ UNCHANGED <<name, move, entry, shown, touched, forgotten, starts>>

\* Mutant: the directory itself is not passed over
SkipNone(n) == FALSE

Skipped(n) == n = "."

ReadName ==
  /\ at["ls-R"] = "read"
  /\ \E n \in Last(frames).may \ Last(frames).seen :
       /\ frames' = [frames EXCEPT ![Len(frames)].seen = @ \cup {n}]
       /\ entry' = IF Skipped(n) THEN entry ELSE n
       /\ IF Skipped(n) THEN UNCHANGED at ELSE Goes("ls-R", "stat")
  /\ UNCHANGED <<name, move, shown, unopened, touched, forgotten, starts>>

\* stat, which follows the path again; the file may have gone, or the directory not
\* be searched
isFile ==
  /\ at["ls-R"] = "stat"
  /\ LET path == <<Last(frames).dir, entry>>
     IN  \/ /\ entry \notin FileNames
            /\ Enter(IF entry = "sub" THEN path[1] + 1 ELSE path[1], frames)
            /\ UNCHANGED shown
         \/ /\ entry \in FileNames
            /\ \/ /\ shown' = [shown EXCEPT ![path] = IF name[path] = 0 THEN @ ELSE @ + 1]
                  /\ UNCHANGED unopened
               \/ /\ CallsFail
                  /\ unopened' = unopened \cup {path[1]} /\ UNCHANGED shown
            /\ Goes("ls-R", "read")
            /\ UNCHANGED frames
  /\ entry' = "."
  /\ UNCHANGED <<name, move, touched, forgotten, starts>>

LeaveDir ==
  /\ at["ls-R"] = "read"
  /\ Last(frames).must \subseteq Last(frames).seen
  /\ frames' = Front(frames)
  /\ Goes("ls-R", IF Len(frames) = 1 THEN "ended" ELSE "read")
  /\ UNCHANGED <<name, move, walk, touched, forgotten, starts>>

Walk == ReadName \/ isFile \/ LeaveDir

-----------------------------------------------------------------------------
(* mymv.c *)

StartMove ==
  /\ at["mymv"] = "off" /\ starts < MaxMoves
  /\ starts' = starts + 1
  /\ \E from, to \in Paths : move' = [from |-> from, to |-> to, linked |-> FALSE]
  /\ Goes("mymv", "link")
  /\ UNCHANGED <<name, frames, walk, touched, forgotten>>

\* Directories that are being read may miss a change, or not, and may return the name
\* again
Changes(path, file) ==
  /\ name' = [name EXCEPT ![path] = file]
  /\ touched' = IF at["ls-R"] = "off" THEN {} ELSE touched \cup {path}
  /\ frames' = [k \in DOMAIN frames |->
                  IF frames[k].dir # path[1] THEN frames[k]
                  ELSE [frames[k] EXCEPT !.must = @ \ {path[2]}, !.may = @ \cup {path[2]},
                                         !.seen = @ \ {path[2]}]]

\* Neither result is looked at
Link ==
  /\ at["mymv"] = "link"
  /\ IF name[move.from] # 0 /\ name[move.to] = 0
       THEN Changes(move.to, name[move.from]) /\ move' = [move EXCEPT !.linked = TRUE]
       ELSE UNCHANGED <<name, touched, frames, move>>
  /\ Goes("mymv", "unlink")
  /\ UNCHANGED <<walk, forgotten, starts>>

Unlink ==
  /\ at["mymv"] = "unlink"
  /\ Changes(move.from, 0)
  /\ forgotten' = forgotten \cup (IF move.linked THEN {} ELSE {name[move.from]} \ {0})
  /\ move' = <<>>
  /\ Goes("mymv", "off")
  /\ UNCHANGED <<walk, starts>>

\* The user stops it
StopMove ==
  /\ at["mymv"] # "off"
  /\ Goes("mymv", "off") /\ move' = <<>>
  /\ UNCHANGED <<name, frames, walk, touched, forgotten, starts>>

-----------------------------------------------------------------------------

Next == StartWalk \/ Walk \/ StartMove \/ Link \/ Unlink \/ StopMove

Spec == Init /\ [][Next]_vars

-----------------------------------------------------------------------------

\* Every variable keeps its type, and the walk is never deeper than the tree.
TypeOK ==
  /\ at["ls-R"] \in {"off", "read", "stat", "ended"} /\ at["mymv"] \in {"off", "link", "unlink"}
  /\ name \in [Paths -> Files \cup {0}]
  /\ Len(frames) <= Depth + 1
  /\ entry \in FileNames \cup {".", "sub"}
  /\ shown \in [Paths -> Nat]
  /\ touched \subseteq Paths /\ unopened \subseteq 0..Depth /\ forgotten \subseteq Files
  /\ starts \in 0..MaxMoves

\* A file is left without a name only where link had failed, however often mymv is stopped
\* between link and unlink and started again.
KeepsAName == \A f \in Files \ forgotten : \E p \in Paths : name[p] = f

\* A walk has shown every file that kept its name, once and no more, whatever was moved
\* meanwhile, but for those below a directory that could not be opened or searched.
SeesWhatStays ==
  /\ \A p \in Paths \ touched : shown[p] <= 1
  /\ at["ls-R"] = "ended" =>
       \A p \in Paths \ touched :
          name[p] # 0 /\ (0..p[1]) \cap unopened = {} => shown[p] = 1

\* A walk ends.
Walking == at["ls-R"] \in {"read", "stat"}
WalkEnds == Walking ~> ~Walking

=============================================================================
