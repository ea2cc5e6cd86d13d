------------------------------ MODULE SharedMap ------------------------------
(***************************************************************************)
(* IPC_test/mmap_w.c and mmap_r.c: a writer copies a record into a mapping *)
(* of the file test_map for ever, a reader prints what it finds there.     *)
(* Nothing synchronises them, and either may be stopped and started again. *)
(* A writer that starts truncates the file: until it has extended it again *)
(* whoever touches the mapping is killed by SIGBUS.                        *)
(***************************************************************************)
EXTENDS Integers, FiniteSets

CONSTANTS
  MapWriters,   \* the processes that run mmap_w.c, one after another or at once
  MaxId,        \* bound: copies a writer makes
  MaxStarts     \* bound: starts of all processes

\* What is assumed of them
MapAssumption == MaxId \in Nat /\ MaxStarts \in Nat /\ "reader" \notin MapWriters

VARIABLES
  at,         \* process -> where it is, see MapStates
  file,       \* "absent", "empty", "full": the record has room
  record,     \* the record in the file: its id, and whether the name and age are there
  id,         \* writer -> stu.id
  seen,       \* the id that the reader has loaded
  shown,      \* what the reader printed last
  starts,     \* how often a process was started
  whole,      \* a copy was completed since the last truncation; the reader loaded after one
  disturbed   \* processes that found the file empty, or had it truncated by another one

mapData == <<file, record, whole>>
vars == <<at, mapData, id, seen, shown, starts, disturbed>>

Runs(p) == at[p] \notin {"off", "killed"}
MapStates == {"off", "extend", "copy", "finish", "load", "show", "killed"}
Blank == [id |-> 0, rest |-> FALSE]

Init ==
  /\ at = [p \in MapWriters \cup {"reader"} |-> "off"]
  /\ file = "absent" /\ record = Blank
  /\ id = [w \in MapWriters |-> 1]
  /\ seen = 0 /\ shown = Blank
  /\ starts = 0
  /\ whole = [file |-> FALSE, reader |-> FALSE]
  /\ disturbed = {}

Starts(p, state) ==
  /\ ~Runs(p) /\ starts < MaxStarts
  /\ starts' = starts + 1
  /\ at' = [at EXCEPT ![p] = state]

\* open with O_TRUNC; what was in the file is gone for all
OpenWriter(w) ==
  /\ Starts(w, "extend")
  /\ file' = "empty" /\ record' = Blank
  /\ whole' = [file |-> FALSE, reader |-> FALSE]
  /\ id' = [id EXCEPT ![w] = 1]
  /\ disturbed' = (disturbed \ {w}) \cup {p \in DOMAIN at : Runs(p)}
  /\ UNCHANGED <<seen, shown>>

\* Mutant: the file is not extended
Leave == file

Extend == "full"

\* ftruncate and mmap
MapWriter(w) ==
  /\ at[w] = "extend"
  /\ file' = Extend
  /\ at' = [at EXCEPT ![w] = "copy"]
  /\ UNCHANGED <<record, whole, id, seen, shown, starts, disturbed>>

\* memcpy, in two parts of either order
CopyPart(w) ==
  /\ at[w] = "copy" /\ file = "full" /\ id[w] <= MaxId
  /\ \/ record' = [record EXCEPT !.id = id[w]]
     \/ record' = [record EXCEPT !.rest = TRUE]
  /\ at' = [at EXCEPT ![w] = "finish"]
  /\ UNCHANGED <<file, whole, id, seen, shown, starts, disturbed>>

CopyAll(w) ==
  /\ at[w] = "finish" /\ file = "full"
  /\ record' = [id |-> id[w], rest |-> TRUE]
  /\ whole' = [whole EXCEPT !.file = TRUE]
  /\ id' = [id EXCEPT ![w] = @ + 1]
  /\ at' = [at EXCEPT ![w] = "copy"]
  /\ UNCHANGED <<file, seen, shown, starts, disturbed>>

\* The reader ends at once if there is no file
OpenReader ==
  /\ file # "absent"
  /\ Starts("reader", "load")
  /\ disturbed' = IF file = "empty" THEN disturbed \cup {"reader"} ELSE disturbed \ {"reader"}
  /\ seen' = 0 /\ shown' = Blank
  /\ whole' = [whole EXCEPT !.reader = FALSE]
  /\ UNCHANGED <<file, record, id>>

\* The arguments of printf are loaded before the name is read
LoadId ==
  /\ at["reader"] = "load" /\ file = "full"
  /\ seen' = record.id
  /\ whole' = [whole EXCEPT !.reader = whole.file]
  /\ at' = [at EXCEPT !["reader"] = "show"]
  /\ UNCHANGED <<file, record, id, shown, starts, disturbed>>

Show ==
  /\ at["reader"] = "show" /\ file = "full"
  /\ shown' = [id |-> seen, rest |-> record.rest]
  /\ at' = [at EXCEPT !["reader"] = "load"]
  /\ UNCHANGED <<mapData, id, seen, starts, disturbed>>

\* SIGBUS
Bus(p) ==
  /\ at[p] \in {"copy", "finish", "load", "show"} /\ file # "full"
  /\ at' = [at EXCEPT ![p] = "killed"]
  /\ UNCHANGED <<mapData, id, seen, shown, starts, disturbed>>

\* The user stops a process
Stop(p) ==
  /\ Runs(p)
  /\ at' = [at EXCEPT ![p] = "off"]
  /\ UNCHANGED <<mapData, id, seen, shown, starts, disturbed>>

Step(p) ==
  \/ p \in MapWriters /\ (MapWriter(p) \/ CopyPart(p) \/ CopyAll(p))
  \/ p = "reader" /\ (LoadId \/ Show)
  \/ Bus(p)

Next ==
  \/ \E w \in MapWriters : OpenWriter(w)
  \/ OpenReader
  \/ \E p \in DOMAIN at : Step(p) \/ Stop(p)

Spec == Init /\ [][Next]_vars

-----------------------------------------------------------------------------

\* Every variable keeps its type.
TypeOK ==
  /\ at \in [MapWriters \cup {"reader"} -> MapStates]
  /\ file \in {"absent", "empty", "full"}
  /\ record \in [id : 0..MaxId, rest : BOOLEAN]
  /\ id \in [MapWriters -> 1..(MaxId + 1)]
  /\ seen \in 0..MaxId /\ shown \in [id : 0..MaxId, rest : BOOLEAN]
  /\ starts \in 0..MaxStarts
  /\ whole \in [file : BOOLEAN, reader : BOOLEAN]
  /\ disturbed \subseteq MapWriters \cup {"reader"}

\* Once a writer has copied its record in full, what the reader prints is a whole record
\* of some writer, although it reads while others copy; until the file is truncated.
PrintsWritten == at["reader"] = "load" /\ whole.reader => shown.id > 0 /\ shown.rest

\* SIGBUS kills only who opened the file before another writer truncated it, or in the
\* gap that a writer leaves between truncating and extending.
KilledForAReason == \A p \in DOMAIN at : at[p] = "killed" => p \in disturbed

\* What stays in the mapping is printed.
Pending(k) == Runs("reader") /\ whole.file /\ record.id = k /\ shown.id # k
ShowsTheRecord == \A k \in 1..MaxId : Pending(k) ~> ~Pending(k)

=============================================================================
