--------------------------- MODULE ExchangesProofs ---------------------------
(***************************************************************************)
(* What holds of the processes that exchange data, for any number of       *)
(* lines, copies, messages, questions, starts and moves, and for any       *)
(* writers, clients and tree.                                              *)
(***************************************************************************)
EXTENDS Exchanges, SequenceTheorems, TLAPS

-----------------------------------------------------------------------------
(* Pipes *)

HasWc == program \in {"ls-wc-l", "pipe_bro"}

PipeTypes ==
  /\ program \in ThePipe!PipePrograms
  /\ at \in [ThePipe!Processes -> {"none", "script", "wc", "ls", "ended", "killed"}]
  /\ pc \in [ThePipe!Processes -> 1..7]
  /\ ends \in [ThePipe!Processes -> SUBSET {"fd0", "fd1", "in", "out"}]
  /\ inPipe \in 0..PipeSize /\ written \in Nat /\ got \in Nat /\ printed \in -1..got
  /\ written = got + inPipe
  /\ reaped \subseteq ThePipe!Children
  /\ \A p \in ThePipe!Processes : at[p] \in {"none", "ended", "killed"} => ends[p] = {}

\* pipe.c: the child has read as soon as it has closed, and the parent does not end before
\* it has written
OnePipe ==
  /\ at["younger"] = "none"
  /\ at["parent"] \in {"script", "ended"} /\ at["elder"] \in {"none", "script", "ended"}
  /\ at["elder"] = "none" <=> pc["parent"] = 1
  /\ pc["parent"] <= 5 /\ pc["elder"] <= 4
  /\ at["parent"] = "ended" => pc["parent"] \in {1, 5}
  /\ at["parent"] = "script" =>
       ends["parent"] = CASE pc["parent"] <= 2 -> {"fd0", "fd1"}
                          [] pc["parent"] \in {3, 4} -> {"fd1"}
                          [] OTHER -> {}
  /\ at["elder"] = "none" => pc["elder"] = 1
  /\ at["elder"] = "ended" => pc["elder"] = 4
  /\ at["elder"] = "script" =>
       ends["elder"] = CASE pc["elder"] = 1 -> {"fd0", "fd1"}
                         [] pc["elder"] \in {2, 3} -> {"fd0"}
                         [] OTHER -> {}
  /\ written = IF pc["parent"] <= 3 THEN 0 ELSE 1
  /\ IF pc["elder"] <= 2 THEN got = 0 /\ printed = -1 ELSE got = 1 /\ printed = 1

\* The process that runs wc, from its fork on
WcRole(p) ==
  /\ at[p] \in {"none", "script", "wc", "ended"}
  /\ pc[p] <= 4
  /\ at[p] = "none" => pc[p] = 1
  /\ at[p] = "script" =>
       /\ pc[p] <= 3
       /\ ends[p] = CASE pc[p] = 1 -> {"fd0", "fd1"} [] pc[p] = 2 -> {"fd0"} [] OTHER -> {"fd0", "in"}
  /\ at[p] = "wc" => pc[p] = 4 /\ ends[p] = {"fd0", "in"}

\* The process that runs ls, which is at step k + 1 of its script when it has both ends
LsRole(p, k) ==
  /\ at[p] \in {"none", "script", "ls", "ended", "killed"}
  /\ pc[p] <= k + 4
  /\ at[p] = "none" => pc[p] = 1
  /\ at[p] = "script" =>
       /\ pc[p] <= k + 3
       /\ ends[p] = CASE pc[p] <= k + 1 -> {"fd0", "fd1"}
                      [] pc[p] = k + 2 -> {"fd1"}
                      [] OTHER -> {"fd1", "out"}
  /\ at[p] = "ls" => pc[p] = k + 4 /\ ends[p] = {"fd1", "out"}
  /\ at[p] = "ended" /\ pc[p] = k + 4 => written = Lines
  /\ at[p] = "killed" => at["elder"] = "ended" /\ printed = -1

\* What wc shows is all there will ever be
Counted ==
  /\ written <= Lines
  /\ printed >= 0 => at["elder"] = "ended" /\ printed = written /\ ~ThePipe!WriteEndOpen

LsWc ==
  /\ WcRole("elder") /\ LsRole("parent", 1) /\ Counted
  /\ at["younger"] = "none" /\ at["parent"] # "none"
  /\ at["elder"] = "none" <=> pc["parent"] = 1

Brothers ==
  /\ WcRole("elder") /\ LsRole("younger", 0) /\ Counted
  /\ at["parent"] \in {"script", "ended"}
  /\ at["elder"] = "none" <=> pc["parent"] = 1
  /\ at["younger"] = "none" <=> pc["parent"] <= 2
  /\ at["parent"] = "script" =>
       ends["parent"] = CASE pc["parent"] <= 3 -> {"fd0", "fd1"}
                          [] pc["parent"] = 4 -> {"fd1"}
                          [] OTHER -> {}

\* The others have no pipe
NoEnds ==
  /\ \A p \in ThePipe!Processes : at[p] \notin {"wc", "killed"} /\ ends[p] = {}
  /\ written = 0 /\ printed = -1

PipeInv ==
  /\ PipeTypes
  /\ program = "pipe" => OnePipe
  /\ program = "ls-wc-l" => LsWc
  /\ program = "pipe_bro" => Brothers
  /\ program \in {"fork_exec", "wait_test"} => NoEnds

-----------------------------------------------------------------------------
(* SharedMap *)

InCopy == {"copy", "finish", "load", "show"}

MapInv ==
  /\ TheMap!TypeOK /\ TheMap!KilledForAReason /\ TheMap!PrintsWritten
  /\ \A w \in MapWriters : at[w] = "finish" => id[w] <= MaxId
  /\ \A p \in MapWriters \cup {"reader"} : file # "full" /\ at[p] \in InCopy => p \in disturbed
  /\ whole.file => record.id > 0 /\ record.rest
  /\ whole.reader => whole.file
  /\ at["reader"] = "show" /\ whole.reader => seen > 0

-----------------------------------------------------------------------------
(* Fifo *)

\* The reader has a fifo of its own, made after its start: what is in it is new
FifoInv ==
  /\ TheFifo!TypeOK /\ TheFifo!ReadsFresh
  /\ at["reader"] \in {"off", "mkfifo", "open", "loop"} /\ at["writer"] \in {"off", "loop", "stuck", "killed"}
  /\ at["reader"] # "off" => starts > 0
  /\ at["reader"] = "loop" <=> opened["reader"] # 0
  /\ at["writer"] = "loop" <=> opened["writer"] # 0
  /\ opened["writer"] <= starts /\ myfifo <= starts
  /\ at["reader"] = "mkfifo" => myfifo = 0 /\ opened["writer"] < starts
  /\ at["reader"] = "open" => myfifo # 0 /\ opened["writer"] # myfifo
  /\ at["reader"] = "loop" => opened["reader"] = myfifo
  /\ \A f \in TheFifo!Fifos : content[f] # <<>> => f \in {opened["reader"], opened["writer"]}
  /\ \A f \in TheFifo!Fifos : \A k \in 1..Len(content[f]) : content[f][k] <= num

-----------------------------------------------------------------------------
(* Datagrams *)

\* The question that c has asked last
Latest(c) == [from |-> c, number |-> asked[c]]

\* A client has one question at a time on its way, and it is its latest if it waits
OnItsWay(q) ==
  /\ at[q.from] # "ask"
  /\ at[q.from] = "wait" => q = Latest(q.from)
  /\ answers[q.from] = <<>>

\* What the server answers
InHand ==
  /\ buf \in TheDatagrams!Question /\ client_addr \in {buf.from, Nobody}
  /\ OnItsWay(buf)
  /\ \A k \in 1..Len(arrived) : arrived[k].from # buf.from

DatagramInv ==
  /\ TheDatagrams!TypeOK /\ TheDatagrams!AnswersMatch
  /\ \A c \in Askers : at[c] \in {"ask", "wait", "ended"}
  /\ at["server"] \in {"off", "recv", "send"}
  /\ \A k \in 1..Len(arrived) : OnItsWay(arrived[k])
  /\ \A j, k \in 1..Len(arrived) : arrived[j].from = arrived[k].from => j = k
  /\ at["server"] = "send" => InHand
  /\ \A c \in Askers : answers[c] # <<>> => at[c] = "wait" /\ answers[c] = <<Latest(c)>>

-----------------------------------------------------------------------------
(* FileTree *)

Arguments == [from : Paths, to : Paths, linked : BOOLEAN]

\* mymv and the names it works on.  Once it has linked, and until it has unlinked, the
\* file has two names: nobody else takes one of them.
Moving ==
  /\ at["mymv"] \in {"off", "link", "unlink"}
  /\ at["mymv"] # "off" => move \in Arguments
  /\ at["mymv"] = "link" => ~move.linked
  /\ at["mymv"] = "unlink" /\ move.linked =>
       move.from # move.to /\ name[move.from] = name[move.to]

\* What may be met in directory d
Entries(d) ==
  {p[2] : p \in {q \in Paths : q[1] = d}} \cup {"."} \cup (IF d < Depth THEN {"sub"} ELSE {})

Frame == [dir : 0..Depth, must : SUBSET (TheTree!FileNames \cup {".", "sub"}),
          may : SUBSET (TheTree!FileNames \cup {".", "sub"}),
          seen : SUBSET (TheTree!FileNames \cup {".", "sub"})]

\* The directories that are open lie one in the other
Stack ==
  /\ frames \in Seq(Frame)
  /\ Len(frames) <= Depth + 1
  /\ at["ls-R"] \in {"off", "ended"} <=> frames = <<>>
  /\ \A k \in 1..Len(frames) :
       /\ frames[k].dir = k - 1
       /\ frames[k].may \subseteq Entries(k - 1) /\ frames[k].seen \subseteq frames[k].may
       /\ k - 1 < Depth => "sub" \in frames[k].must
       /\ k < Len(frames) => "sub" \in frames[k].seen
  /\ at["ls-R"] = "stat" =>
       /\ entry \in frames[Len(frames)].may \ {"."}
       /\ entry = "sub" => entry \in frames[Len(frames)].seen

\* isFile is being called with entry e of the innermost directory
Looks(e) == at["ls-R"] = "stat" /\ entry = e

\* The directories inside the innermost one are done
InnerDone == "sub" \in frames[Len(frames)].seen /\ ~Looks("sub")

Begun == frames # <<>>

\* What has been shown so far of the files that keep their names
ShownOnce ==
  /\ \A p \in Paths \ touched : shown[p] \in {0, 1}
  /\ at["ls-R"] = "off" => touched = {} /\ unopened = {} /\ \A p \in Paths : shown[p] = 0
  /\ \A p \in Paths \ touched :
       /\ p[1] < Len(frames) /\ p[2] \notin frames[p[1] + 1].seen => shown[p] = 0
       /\ Begun /\ p[1] = Len(frames) - 1 /\ Looks(p[2]) =>
            shown[p] = 0 /\ p[2] \in frames[Len(frames)].seen
       /\ Begun /\ p[1] >= Len(frames) /\ ~InnerDone => shown[p] = 0

Stays(p) == p \notin touched /\ name[p] # 0 /\ (0..p[1]) \cap unopened = {}

\* A name that stays is still to come, or has been shown
StaysShown ==
  /\ \A p \in Paths : Stays(p) /\ p[1] < Len(frames) =>
       /\ p[2] \in frames[p[1] + 1].must
       /\ p[2] \in frames[p[1] + 1].seen =>
            shown[p] = 1 \/ (p[1] = Len(frames) - 1 /\ Looks(p[2]))
  /\ \A p \in Paths : Stays(p) /\ Begun /\ p[1] >= Len(frames) /\ InnerDone => shown[p] = 1
  /\ \A p \in Paths : Stays(p) /\ at["ls-R"] = "ended" => shown[p] = 1

TreeInv ==
  /\ at \in [{"ls-R", "mymv"} -> {"off", "read", "stat", "ended", "link", "unlink"}]
  /\ TheTree!TypeOK /\ Moving /\ TheTree!KeepsAName
  /\ Stack /\ ShownOnce /\ StaysShown

-----------------------------------------------------------------------------
(* Whichever programs run *)

Programs == ThePipe!PipePrograms \cup {"mmap", "fifo", "udp", "ls-R"}

Inv ==
  /\ program \in Programs
  /\ RunsPipe => PipeInv
  /\ RunsMap => MapInv
  /\ RunsFifo => FifoInv
  /\ RunsDatagrams => DatagramInv
  /\ RunsTree => TreeInv

-----------------------------------------------------------------------------
(* SharedMap *)

LEMMA MapAssumed == MaxId \in Nat /\ MaxStarts \in Nat /\ "reader" \notin MapWriters
  BY ExchangesAssumption DEF TheMap!MapAssumption

LEMMA MapInit ==
  ASSUME TheMap!Init
  PROVE  MapInv
<1>1. TheMap!TypeOK
  BY MapAssumed DEF TheMap!Init, TheMap!TypeOK, TheMap!MapStates, TheMap!Blank
<1>. QED
  BY <1>1, MapAssumed DEF TheMap!Init, MapInv, TheMap!KilledForAReason, TheMap!PrintsWritten,
     InCopy, TheMap!Blank

LEMMA MapOpensWriter ==
  ASSUME MapInv, NEW w \in MapWriters, TheMap!OpenWriter(w)
  PROVE  MapInv'
<1>1. TheMap!TypeOK'
  BY MapAssumed DEF MapInv, TheMap!TypeOK, TheMap!OpenWriter, TheMap!Starts, TheMap!MapStates,
     TheMap!Blank
<1>2. TheMap!KilledForAReason'
  BY MapAssumed DEF MapInv, TheMap!TypeOK, TheMap!OpenWriter, TheMap!Starts, TheMap!Runs,
     TheMap!KilledForAReason
<1>3. TheMap!PrintsWritten'
  BY DEF TheMap!OpenWriter, TheMap!PrintsWritten
<1>4. \A p \in MapWriters \cup {"reader"} : file' # "full" /\ at'[p] \in InCopy => p \in disturbed'
  BY MapAssumed DEF MapInv, TheMap!TypeOK, TheMap!OpenWriter, TheMap!Starts, TheMap!Runs, InCopy
<1>. QED
  BY <1>1, <1>2, <1>3, <1>4, MapAssumed DEF MapInv, TheMap!TypeOK, TheMap!OpenWriter, TheMap!Starts

LEMMA MapWrites ==
  ASSUME MapInv, NEW w \in MapWriters,
         TheMap!MapWriter(w) \/ TheMap!CopyPart(w) \/ TheMap!CopyAll(w)
  PROVE  MapInv'
<1>1. CASE TheMap!MapWriter(w)
  <2>1. TheMap!TypeOK'
    BY <1>1, MapAssumed DEF MapInv, TheMap!TypeOK, TheMap!MapWriter, TheMap!Extend, TheMap!MapStates
  <2>2. TheMap!KilledForAReason'
    BY <1>1, MapAssumed DEF MapInv, TheMap!TypeOK, TheMap!MapWriter, TheMap!KilledForAReason
  <2>. QED
    BY <1>1, <2>1, <2>2, MapAssumed
    DEF MapInv, TheMap!TypeOK, TheMap!MapWriter, TheMap!Extend, TheMap!PrintsWritten
<1>2. CASE TheMap!CopyPart(w)
  <2>1. id[w] \in 1..MaxId /\ file' = "full"
    BY <1>2, MapAssumed DEF MapInv, TheMap!TypeOK, TheMap!CopyPart
  <2>2. /\ record' \in [id : 0..MaxId, rest : BOOLEAN]
        /\ whole.file => record'.id > 0 /\ record'.rest
    <3>1. PICK x \in 1..MaxId : x = id[w]
      BY <2>1
    <3>2. PICK r \in [id : 0..MaxId, rest : BOOLEAN] : r = record
      BY DEF MapInv, TheMap!TypeOK
    <3>3. [r EXCEPT !.id = x] = [id |-> x, rest |-> r.rest]
      OBVIOUS
    <3>4. [r EXCEPT !.rest = TRUE] \in [id : 0..MaxId, rest : BOOLEAN]
      OBVIOUS
    <3>5. [r EXCEPT !.rest = TRUE].id = r.id
      OBVIOUS
    <3>6. [r EXCEPT !.rest = TRUE].rest
      OBVIOUS
    <3>7. record' = [r EXCEPT !.id = x] \/ record' = [r EXCEPT !.rest = TRUE]
      BY <1>2, <3>1, <3>2 DEF TheMap!CopyPart
    <3>8. whole.file => r.id > 0 /\ r.rest
      BY <3>2 DEF MapInv
    <3>9. /\ x \in 0..MaxId /\ x > 0 /\ r.id \in 0..MaxId /\ r.rest \in BOOLEAN
      BY MapAssumed
    <3>10. [id |-> x, rest |-> r.rest] \in [id : 0..MaxId, rest : BOOLEAN]
      BY <3>9
    <3>. QED
      BY <3>3, <3>4, <3>5, <3>6, <3>7, <3>8, <3>9, <3>10
  <2>3. TheMap!TypeOK'
    BY <1>2, <2>2, MapAssumed DEF MapInv, TheMap!TypeOK, TheMap!CopyPart, TheMap!MapStates
  <2>4. TheMap!KilledForAReason'
    BY <1>2, MapAssumed DEF MapInv, TheMap!TypeOK, TheMap!CopyPart, TheMap!KilledForAReason
  <2>. QED
    BY <1>2, <2>1, <2>2, <2>3, <2>4, MapAssumed
    DEF MapInv, TheMap!TypeOK, TheMap!CopyPart, TheMap!PrintsWritten
<1>3. CASE TheMap!CopyAll(w)
  <2>1. id[w] \in 1..MaxId /\ file' = "full"
    BY <1>3, MapAssumed DEF MapInv, TheMap!TypeOK, TheMap!CopyAll
  <2>2. /\ record' \in [id : 0..MaxId, rest : BOOLEAN] /\ record'.id > 0 /\ record'.rest
        /\ whole' \in [file : BOOLEAN, reader : BOOLEAN]
        /\ whole'.reader = whole.reader /\ whole'.file
    <3>1. PICK x \in 1..MaxId : x = id[w]
      BY <2>1
    <3>2. /\ [id |-> x, rest |-> TRUE] \in [id : 0..MaxId, rest : BOOLEAN]
          /\ [id |-> x, rest |-> TRUE].id > 0 /\ [id |-> x, rest |-> TRUE].rest
      BY MapAssumed
    <3>3. record' = [id |-> x, rest |-> TRUE]
      BY <1>3, <3>1 DEF TheMap!CopyAll
    <3>4. whole' = [whole EXCEPT !.file = TRUE] /\ whole \in [file : BOOLEAN, reader : BOOLEAN]
      BY <1>3 DEF TheMap!CopyAll, MapInv, TheMap!TypeOK
    <3>5. /\ whole' \in [file : BOOLEAN, reader : BOOLEAN]
          /\ whole'.reader = whole.reader /\ whole'.file
      BY <3>4
    <3>. QED
      BY <3>2, <3>3, <3>5
  <2>3. id' \in [MapWriters -> 1..(MaxId + 1)] /\ \A v \in MapWriters : v # w => id'[v] = id[v]
    BY <1>3, <2>1, MapAssumed DEF MapInv, TheMap!TypeOK, TheMap!CopyAll
  <2>4. TheMap!TypeOK'
    BY <1>3, <2>2, <2>3, MapAssumed DEF MapInv, TheMap!TypeOK, TheMap!CopyAll, TheMap!MapStates
  <2>5. TheMap!KilledForAReason'
    BY <1>3, MapAssumed DEF MapInv, TheMap!TypeOK, TheMap!CopyAll, TheMap!KilledForAReason
  <2>. QED
    BY <1>3, <2>1, <2>2, <2>3, <2>4, <2>5, MapAssumed
    DEF MapInv, TheMap!TypeOK, TheMap!CopyAll, TheMap!PrintsWritten
<1>. QED
  BY <1>1, <1>2, <1>3

LEMMA MapReads ==
  ASSUME MapInv, TheMap!OpenReader \/ TheMap!LoadId \/ TheMap!Show
  PROVE  MapInv'
<1>1. CASE TheMap!OpenReader
  <2>1. /\ whole' \in [file : BOOLEAN, reader : BOOLEAN]
        /\ ~whole'.reader /\ whole'.file = whole.file
    BY <1>1 DEF MapInv, TheMap!TypeOK, TheMap!OpenReader
  <2>2. TheMap!TypeOK'
    BY <1>1, <2>1, MapAssumed
    DEF MapInv, TheMap!TypeOK, TheMap!OpenReader, TheMap!Starts, TheMap!MapStates, TheMap!Blank
  <2>3. TheMap!KilledForAReason'
    BY <1>1, MapAssumed
    DEF MapInv, TheMap!TypeOK, TheMap!OpenReader, TheMap!Starts, TheMap!KilledForAReason
  <2>. QED
    BY <1>1, <2>1, <2>2, <2>3, MapAssumed
    DEF MapInv, TheMap!TypeOK, TheMap!OpenReader, TheMap!Starts, TheMap!PrintsWritten
<1>2. CASE TheMap!LoadId
  <2>1. /\ whole' \in [file : BOOLEAN, reader : BOOLEAN]
        /\ whole'.reader = whole.file /\ whole'.file = whole.file
    BY <1>2 DEF MapInv, TheMap!TypeOK, TheMap!LoadId
  <2>2. TheMap!TypeOK'
    BY <1>2, <2>1, MapAssumed DEF MapInv, TheMap!TypeOK, TheMap!LoadId, TheMap!MapStates
  <2>3. TheMap!KilledForAReason'
    BY <1>2, MapAssumed DEF MapInv, TheMap!TypeOK, TheMap!LoadId, TheMap!KilledForAReason
  <2>. QED
    BY <1>2, <2>1, <2>2, <2>3, MapAssumed
    DEF MapInv, TheMap!TypeOK, TheMap!LoadId, TheMap!PrintsWritten
<1>3. CASE TheMap!Show
  <2>1. /\ shown' \in [id : 0..MaxId, rest : BOOLEAN]
        /\ shown'.id = seen /\ shown'.rest = record.rest
    BY <1>3 DEF MapInv, TheMap!TypeOK, TheMap!Show
  <2>2. TheMap!TypeOK'
    BY <1>3, <2>1, MapAssumed
    DEF MapInv, TheMap!TypeOK, TheMap!Show, TheMap!mapData, TheMap!MapStates
  <2>3. TheMap!KilledForAReason'
    BY <1>3, MapAssumed DEF MapInv, TheMap!TypeOK, TheMap!Show, TheMap!KilledForAReason
  <2>. QED
    BY <1>3, <2>1, <2>2, <2>3, MapAssumed
    DEF MapInv, TheMap!TypeOK, TheMap!Show, TheMap!mapData, TheMap!PrintsWritten
<1>. QED
  BY <1>1, <1>2, <1>3

LEMMA MapEnds ==
  ASSUME MapInv, NEW p \in MapWriters \cup {"reader"}, TheMap!Bus(p) \/ TheMap!Stop(p)
  PROVE  MapInv'
<1>1. UNCHANGED <<file, record, whole, id, seen, shown, starts, disturbed>>
  BY DEF TheMap!Bus, TheMap!Stop, TheMap!mapData
<1>2. \/ at' = [at EXCEPT ![p] = "off"]
      \/ at' = [at EXCEPT ![p] = "killed"] /\ p \in disturbed
  BY DEF TheMap!Bus, TheMap!Stop, MapInv, InCopy
<1>3. TheMap!TypeOK'
  BY <1>1, <1>2 DEF MapInv, TheMap!TypeOK, TheMap!MapStates
<1>4. TheMap!KilledForAReason'
  BY <1>1, <1>2 DEF MapInv, TheMap!TypeOK, TheMap!KilledForAReason
<1>5. \A q \in MapWriters \cup {"reader"} : at'[q] \in {at[q], "off", "killed"}
  BY <1>2 DEF MapInv, TheMap!TypeOK
<1>. QED
  BY <1>1, <1>3, <1>4, <1>5 DEF MapInv, InCopy, TheMap!PrintsWritten

LEMMA MapStep ==
  ASSUME MapInv, TheMap!Next
  PROVE  MapInv'
<1>1. DOMAIN at = MapWriters \cup {"reader"}
  BY DEF MapInv, TheMap!TypeOK
<1>. QED
  BY <1>1, MapOpensWriter, MapWrites, MapReads, MapEnds DEF TheMap!Next, TheMap!Step

-----------------------------------------------------------------------------
(* Fifo *)

LEMMA FifoAssumed == MaxMessages \in Nat /\ MaxStarts \in Nat
  BY ExchangesAssumption DEF TheFifo!FifoAssumption

LEMMA FifoInit ==
  ASSUME TheFifo!Init
  PROVE  FifoInv
<1>1. \A f \in TheFifo!Fifos : content[f] = <<>>
  BY DEF TheFifo!Init
<1>2. content \in [TheFifo!Fifos -> Seq(1..MaxMessages)]
  <2>1. <<>> \in Seq(1..MaxMessages)
    OBVIOUS
  <2>. QED
    BY <2>1 DEF TheFifo!Init
<1>3. TheFifo!TypeOK
  BY <1>2, FifoAssumed DEF TheFifo!Init, TheFifo!TypeOK, TheFifo!FifoStates
<1>4. \A f \in TheFifo!Fifos : \A k \in 1..Len(content[f]) : content[f][k] <= num
  BY <1>1
<1>. QED
  BY <1>1, <1>3, <1>4, FifoAssumed DEF TheFifo!Init, FifoInv, TheFifo!ReadsFresh

\* No fifo gets a message
LEMMA FifoOnlyLoses ==
  ASSUME FifoInv,
         content' \in [TheFifo!Fifos -> Seq(1..MaxMessages)],
         \A f \in TheFifo!Fifos : content'[f] \in {content[f], <<>>},
         num' = num
  PROVE  \A f \in TheFifo!Fifos : \A k \in 1..Len(content'[f]) : content'[f][k] <= num'
<1>. SUFFICES ASSUME NEW f \in TheFifo!Fifos, NEW k \in 1..Len(content'[f])
              PROVE  content'[f][k] <= num
  OBVIOUS
<1>1. content'[f] = content[f] \/ content'[f] = <<>>
  OBVIOUS
<1>. QED
  BY <1>1 DEF FifoInv

LEMMA FifoStarts ==
  ASSUME FifoInv, TheFifo!UnlinkFifo \/ TheFifo!OpenWriter
  PROVE  FifoInv'
<1>1. PICK s \in 0..MaxStarts : s = starts /\ s < MaxStarts /\ starts' = s + 1
  BY DEF FifoInv, TheFifo!TypeOK, TheFifo!UnlinkFifo, TheFifo!OpenWriter, TheFifo!Starts
<1>2. s + 1 \in 0..MaxStarts /\ s + 1 > 0
  BY <1>1, FifoAssumed
<1>3. UNCHANGED <<content, num, shown>>
  BY DEF TheFifo!UnlinkFifo, TheFifo!OpenWriter
<1>4. CASE TheFifo!UnlinkFifo
  <2>1. /\ at' = [at EXCEPT !["reader"] = "mkfifo"] /\ at["reader"] # "loop" /\ myfifo' = 0
        /\ UNCHANGED opened
    BY <1>4 DEF TheFifo!UnlinkFifo, TheFifo!Starts, TheFifo!Runs, TheFifo!Goes, FifoInv
  <2>2. since' \in 0..num
    BY <1>4, FifoAssumed DEF TheFifo!UnlinkFifo, FifoInv, TheFifo!TypeOK
  <2>3. TheFifo!TypeOK'
    BY <1>1, <1>2, <1>3, <2>1, <2>2 DEF FifoInv, TheFifo!TypeOK, TheFifo!FifoStates
  <2>4. opened["writer"] < s + 1 /\ opened["writer"] <= s + 1 /\ myfifo' <= s + 1
    <3>1. opened["writer"] <= s /\ opened["writer"] \in 0..MaxStarts
      BY <1>1, FifoAssumed DEF FifoInv, TheFifo!TypeOK, TheFifo!Fifos
    <3>. QED
      BY <1>2, <2>1, <3>1
  <2>. QED
    BY <1>1, <1>2, <1>3, <2>1, <2>3, <2>4 DEF FifoInv, TheFifo!TypeOK, TheFifo!ReadsFresh
<1>5. CASE TheFifo!OpenWriter
  <2>1. at["writer"] # "loop" /\ UNCHANGED <<myfifo, since>>
    BY <1>5 DEF TheFifo!OpenWriter, TheFifo!Starts, TheFifo!Runs, FifoInv
  <2>2. /\ at \in [{"reader", "writer"} -> TheFifo!FifoStates]
        /\ opened \in [{"reader", "writer"} -> TheFifo!Fifos \cup {0}]
        /\ opened["writer"] = 0 /\ myfifo \in TheFifo!Fifos \cup {0}
    BY <2>1 DEF FifoInv, TheFifo!TypeOK
  <2>3. \/ /\ at' = [at EXCEPT !["writer"] = "loop"] /\ opened' = [opened EXCEPT !["writer"] = myfifo]
           /\ myfifo # 0 /\ opened["reader"] = myfifo
        \/ at' = [at EXCEPT !["writer"] = "stuck"] /\ opened' = opened
    BY <1>5 DEF TheFifo!OpenWriter, TheFifo!Goes, TheFifo!Opens
  <2>4. /\ at' \in [{"reader", "writer"} -> TheFifo!FifoStates]
        /\ opened' \in [{"reader", "writer"} -> TheFifo!Fifos \cup {0}]
    BY <2>2, <2>3 DEF TheFifo!FifoStates
  <2>5. TheFifo!TypeOK'
    BY <1>1, <1>2, <1>3, <2>1, <2>4 DEF FifoInv, TheFifo!TypeOK
  <2>6. /\ at'["reader"] = at["reader"] /\ opened'["reader"] = opened["reader"]
        /\ at'["writer"] \in {"loop", "stuck"}
        /\ at'["writer"] = "loop" <=> opened'["writer"] # 0
        /\ opened'["writer"] # 0 => opened'["writer"] = myfifo /\ opened["reader"] = myfifo
    BY <2>2, <2>3
  <2>7. myfifo <= s + 1 /\ 0 <= s + 1
    <3>1. myfifo <= s /\ myfifo \in Int
      BY <1>1, <2>2 DEF FifoInv, TheFifo!Fifos
    <3>. QED
      BY <3>1
  <2>8. opened'["writer"] <= s + 1 /\ myfifo' <= starts' /\ starts' > 0
    BY <1>1, <1>2, <2>1, <2>6, <2>7
  <2>9. TheFifo!ReadsFresh'
    BY <1>3, <2>1, <2>6 DEF FifoInv, TheFifo!ReadsFresh
  <2>10. /\ at'["reader"] = "mkfifo" => myfifo' = 0 /\ opened'["writer"] < starts'
         /\ at'["reader"] = "open" => myfifo' # 0 /\ opened'["writer"] # myfifo'
    <3>1. at["reader"] \in {"mkfifo", "open"} => opened'["writer"] = 0
      <4>1. ASSUME at["reader"] \in {"mkfifo", "open"}, opened'["writer"] # 0 PROVE FALSE
        BY <4>1, <2>6, <2>2 DEF FifoInv
      <4>. QED
        BY <4>1
    <3>. QED
      BY <1>1, <1>2, <2>1, <2>2, <2>6, <3>1 DEF FifoInv
  <2>11. \A f \in TheFifo!Fifos : content'[f] # <<>> => f \in {opened'["reader"], opened'["writer"]}
    BY <1>3, <2>2, <2>6 DEF FifoInv, TheFifo!Fifos
  <2>. QED
    BY <1>1, <1>3, <2>1, <2>5, <2>6, <2>8, <2>9, <2>10, <2>11 DEF FifoInv
<1>. QED
  BY <1>4, <1>5

LEMMA FifoOpens ==
  ASSUME FifoInv, TheFifo!MakeFifo \/ TheFifo!OpenReader
  PROVE  FifoInv'
<1>1. UNCHANGED <<content, num, shown, since, starts>>
  BY DEF TheFifo!MakeFifo, TheFifo!OpenReader
<1>2. PICK s \in 0..MaxStarts : s = starts
  BY DEF FifoInv, TheFifo!TypeOK
<1>3. CASE TheFifo!MakeFifo
  <2>1. /\ at' = [at EXCEPT !["reader"] = "open"] /\ UNCHANGED opened
        /\ at["reader"] = "mkfifo" /\ myfifo = 0 /\ myfifo' = s
    BY <1>2, <1>3 DEF TheFifo!MakeFifo, TheFifo!Goes, FifoInv
  <2>2. s > 0 /\ opened["writer"] < s /\ opened["writer"] \in 0..MaxStarts
    BY <1>2, <2>1, FifoAssumed DEF FifoInv, TheFifo!TypeOK, TheFifo!Fifos
  <2>3. s \in TheFifo!Fifos /\ s # 0 /\ opened["writer"] # s /\ opened["writer"] <= s /\ s <= s
    BY <2>2, FifoAssumed DEF TheFifo!Fifos
  <2>4. TheFifo!TypeOK'
    BY <1>1, <2>1, <2>3 DEF FifoInv, TheFifo!TypeOK, TheFifo!FifoStates
  <2>. QED
    BY <1>1, <1>2, <2>1, <2>3, <2>4 DEF FifoInv, TheFifo!TypeOK, TheFifo!ReadsFresh
<1>4. CASE TheFifo!OpenReader
  <2>1. /\ at' = [at EXCEPT !["reader"] = "loop"] /\ opened' = [opened EXCEPT !["reader"] = myfifo]
        /\ at["reader"] = "open" /\ UNCHANGED myfifo
    BY <1>4 DEF TheFifo!OpenReader, TheFifo!Goes, TheFifo!Opens
  <2>2. myfifo \in TheFifo!Fifos /\ opened["writer"] # myfifo /\ opened["reader"] = 0
    BY <2>1 DEF FifoInv, TheFifo!TypeOK
  <2>3. content[myfifo] = <<>>
    BY <2>2 DEF FifoInv, TheFifo!Fifos
  <2>4. TheFifo!TypeOK'
    BY <1>1, <2>1, <2>2 DEF FifoInv, TheFifo!TypeOK, TheFifo!FifoStates
  <2>5. /\ at'["reader"] = "loop" /\ at'["writer"] = at["writer"]
        /\ opened'["reader"] = myfifo /\ opened'["writer"] = opened["writer"]
    BY <2>1 DEF FifoInv, TheFifo!TypeOK
  <2>6. TheFifo!ReadsFresh'
    BY <1>1, <2>3, <2>5 DEF TheFifo!ReadsFresh
  <2>7. \A f \in TheFifo!Fifos : content'[f] # <<>> => f \in {opened'["reader"], opened'["writer"]}
    BY <1>1, <2>2, <2>5 DEF FifoInv, TheFifo!Fifos
  <2>. QED
    BY <1>1, <2>1, <2>2, <2>4, <2>5, <2>6, <2>7 DEF FifoInv
<1>. QED
  BY <1>3, <1>4

\* One of them closes what it has open, and is off or killed
LEMMA FifoCloses ==
  ASSUME FifoInv, NEW p \in {"reader", "writer"}, NEW s \in {"off", "killed"},
         p = "reader" => s = "off",
         TheFifo!Goes(p, s), TheFifo!Closes(p),
         UNCHANGED <<myfifo, num, shown, since, starts>>
  PROVE  FifoInv'
<1>1. /\ at' = [at EXCEPT ![p] = s] /\ opened' = [opened EXCEPT ![p] = 0]
      /\ at \in [{"reader", "writer"} -> TheFifo!FifoStates]
      /\ opened \in [{"reader", "writer"} -> TheFifo!Fifos \cup {0}]
      /\ content \in [TheFifo!Fifos -> Seq(1..MaxMessages)]
  BY DEF FifoInv, TheFifo!TypeOK, TheFifo!Goes, TheFifo!Closes, TheFifo!Opens
<1>2. content' = [f \in TheFifo!Fifos |->
                    IF \E q \in {"reader", "writer"} : q # p /\ opened[q] = f
                      THEN content[f] ELSE <<>>]
  BY <1>1 DEF TheFifo!Closes
<1>3. <<>> \in Seq(1..MaxMessages)
  OBVIOUS
<1>4. content' \in [TheFifo!Fifos -> Seq(1..MaxMessages)]
  BY <1>1, <1>2, <1>3
<1>5. \A f \in TheFifo!Fifos :
        content'[f] = content[f] \/ content'[f] = <<>>
  BY <1>2
<1>6. \A f \in TheFifo!Fifos : \A k \in 1..Len(content'[f]) : content'[f][k] <= num'
  BY <1>4, <1>5, FifoOnlyLoses
<1>7. /\ at' \in [{"reader", "writer"} -> TheFifo!FifoStates]
      /\ opened' \in [{"reader", "writer"} -> TheFifo!Fifos \cup {0}]
  BY <1>1 DEF TheFifo!FifoStates
<1>8. TheFifo!TypeOK'
  BY <1>4, <1>7 DEF FifoInv, TheFifo!TypeOK
<1>9. \A f \in TheFifo!Fifos : content'[f] # <<>> => f \in {opened'["reader"], opened'["writer"]}
  BY <1>1, <1>2
<1>10. TheFifo!ReadsFresh'
  <2>1. ASSUME at'["reader"] = "loop" 
        PROVE  \A k \in DOMAIN content'[opened'["reader"]] : content'[opened'["reader"]][k] > since
    <3>1. at["reader"] = "loop" /\ opened'["reader"] = opened["reader"]
      BY <1>1, <2>1
    <3>2. PICK f \in TheFifo!Fifos : f = opened["reader"]
      BY <1>1, <3>1 DEF FifoInv
    <3>3. \A k \in DOMAIN content[f] : content[f][k] > since
      BY <3>1, <3>2 DEF FifoInv, TheFifo!ReadsFresh
    <3>. QED
      BY <1>5, <3>1, <3>2, <3>3
  <2>. QED
    BY <2>1 DEF TheFifo!ReadsFresh
<1>11. \/ at'["reader"] = at["reader"] /\ opened'["reader"] = opened["reader"]
       \/ at'["reader"] = "off" /\ opened'["reader"] = 0
  BY <1>1
<1>12. \/ at'["writer"] = at["writer"] /\ opened'["writer"] = opened["writer"]
       \/ at'["writer"] \in {"off", "killed"} /\ opened'["writer"] = 0
  BY <1>1
<1>13. opened'["writer"] <= starts
  BY <1>12, FifoAssumed DEF FifoInv, TheFifo!TypeOK
<1>14. /\ at'["reader"] = "mkfifo" => myfifo = 0 /\ opened'["writer"] < starts
       /\ at'["reader"] = "open" => myfifo # 0 /\ opened'["writer"] # myfifo
  BY <1>11, <1>12, FifoAssumed DEF FifoInv, TheFifo!TypeOK
<1>. QED
  BY <1>6, <1>8, <1>9, <1>10, <1>11, <1>12, <1>13, <1>14 DEF FifoInv

LEMMA FifoWrites ==
  ASSUME FifoInv, TheFifo!write_cb
  PROVE  FifoInv'
<1>1. UNCHANGED <<myfifo, shown, since, starts>> /\ at["writer"] = "loop"
  BY DEF TheFifo!write_cb
<1>2. CASE opened["reader"] # opened["writer"]
  BY <1>1, <1>2, FifoCloses DEF TheFifo!write_cb
<1>3. CASE opened["reader"] = opened["writer"]
  <2>1. PICK n \in 0..MaxMessages : n = num /\ n < MaxMessages /\ num' = n + 1
    BY <1>3 DEF TheFifo!write_cb, FifoInv, TheFifo!TypeOK
  <2>2. PICK f \in TheFifo!Fifos : f = opened["writer"]
    BY <1>1 DEF FifoInv, TheFifo!TypeOK
  <2>3. PICK c \in Seq(1..MaxMessages) : c = content[f]
    BY DEF FifoInv, TheFifo!TypeOK
  <2>4. content' = [content EXCEPT ![f] = Append(c, n + 1)] /\ UNCHANGED <<at, opened>>
    BY <1>3, <2>1, <2>2, <2>3 DEF TheFifo!write_cb
  <2>5. n + 1 \in 1..MaxMessages /\ n + 1 \in 0..MaxMessages /\ n < n + 1
    BY <2>1, FifoAssumed
  <2>6. /\ Append(c, n + 1) \in Seq(1..MaxMessages) /\ Len(Append(c, n + 1)) = Len(c) + 1
        /\ \A k \in 1..Len(c) : Append(c, n + 1)[k] = c[k]
        /\ Append(c, n + 1)[Len(c) + 1] = n + 1
        /\ DOMAIN Append(c, n + 1) = 1..(Len(c) + 1) /\ Len(c) \in Nat
    BY <2>5, AppendProperties
  <2>7. \A k \in 1..(Len(c) + 1) : Append(c, n + 1)[k] <= n + 1
    <3>1. \A k \in 1..Len(c) : c[k] <= n /\ c[k] \in 1..MaxMessages
      BY <2>1, <2>3, ElementOfSeq DEF FifoInv
    <3>2. \A k \in 1..(Len(c) + 1) : k \in 1..Len(c) \/ k = Len(c) + 1
      BY <2>6
    <3>. QED
      BY <2>6, <3>1, <3>2
  <2>8. at["reader"] = "loop" /\ opened["reader"] = f
    BY <1>3, <2>2 DEF FifoInv, TheFifo!Fifos
  <2>9. \A k \in 1..(Len(c) + 1) : Append(c, n + 1)[k] > since
    <3>1. \A k \in 1..Len(c) : c[k] > since
      BY <2>3, <2>8 DEF FifoInv, TheFifo!ReadsFresh
    <3>2. n + 1 > since
      BY <2>1 DEF FifoInv, TheFifo!TypeOK
    <3>3. \A k \in 1..(Len(c) + 1) : k \in 1..Len(c) \/ k = Len(c) + 1
      BY <2>6
    <3>. QED
      BY <2>6, <3>1, <3>2, <3>3
  <2>10. /\ content' \in [TheFifo!Fifos -> Seq(1..MaxMessages)]
         /\ content'[f] = Append(c, n + 1)
         /\ \A g \in TheFifo!Fifos : g # f => content'[g] = content[g]
    BY <2>4, <2>6 DEF FifoInv, TheFifo!TypeOK
  <2>11. shown \in 0..(n + 1) /\ since \in 0..(n + 1)
    BY <2>1 DEF FifoInv, TheFifo!TypeOK
  <2>12. TheFifo!TypeOK'
    BY <1>1, <2>1, <2>4, <2>5, <2>10, <2>11 DEF FifoInv, TheFifo!TypeOK
  <2>13. TheFifo!ReadsFresh'
    BY <1>1, <2>4, <2>6, <2>8, <2>9, <2>10 DEF TheFifo!ReadsFresh
  <2>14. \A g \in TheFifo!Fifos : \A k \in 1..Len(content'[g]) : content'[g][k] <= num'
    <3>1. ASSUME NEW g \in TheFifo!Fifos, NEW k \in 1..Len(content[g])
          PROVE  content[g][k] <= n + 1
      <4>1. content[g][k] <= n
        BY <2>1 DEF FifoInv
      <4>2. content[g] \in Seq(1..MaxMessages)
        BY DEF FifoInv, TheFifo!TypeOK
      <4>3. content[g][k] \in 1..MaxMessages
        BY <4>2, ElementOfSeq
      <4>. QED
        BY <4>1, <4>3
    <3>. QED
      BY <2>1, <2>6, <2>7, <2>10, <3>1
  <2>15. \A g \in TheFifo!Fifos : content'[g] # <<>> => g \in {opened'["reader"], opened'["writer"]}
    BY <2>2, <2>4, <2>10 DEF FifoInv
  <2>. QED
    BY <1>1, <2>4, <2>12, <2>13, <2>14, <2>15 DEF FifoInv
<1>. QED
  BY <1>2, <1>3

LEMMA FifoReads ==
  ASSUME FifoInv, TheFifo!read_cb
  PROVE  FifoInv'
<1>1. UNCHANGED <<at, myfifo, opened, num, since, starts>> /\ at["reader"] = "loop"
  BY DEF TheFifo!read_cb
<1>2. PICK f \in TheFifo!Fifos : f = opened["reader"]
  BY <1>1 DEF FifoInv, TheFifo!TypeOK
<1>3. PICK c \in Seq(1..MaxMessages) : c = content[f] /\ c # <<>>
  BY <1>2 DEF TheFifo!read_cb, FifoInv, TheFifo!TypeOK
<1>4. shown' = c[1] /\ content' = [content EXCEPT ![f] = <<>>]
  BY <1>2, <1>3 DEF TheFifo!read_cb
<1>5. 1 \in 1..Len(c) /\ c[1] \in 1..MaxMessages
  <2>1. Len(c) \in Nat \ {0}
    BY <1>3, EmptySeq
  <2>2. 1 \in 1..Len(c)
    BY <2>1
  <2>. QED
    BY <2>2, ElementOfSeq
<1>6. c[1] \in 0..num
  BY <1>3, <1>5 DEF FifoInv, TheFifo!TypeOK
<1>7. <<>> \in Seq(1..MaxMessages) /\ content \in [TheFifo!Fifos -> Seq(1..MaxMessages)]
  BY DEF FifoInv, TheFifo!TypeOK
<1>8. /\ content' \in [TheFifo!Fifos -> Seq(1..MaxMessages)]
      /\ content'[f] = <<>>
      /\ \A g \in TheFifo!Fifos : g # f => content'[g] = content[g]
  BY <1>4, <1>7
<1>9. \A g \in TheFifo!Fifos : \A k \in 1..Len(content'[g]) : content'[g][k] <= num'
  BY <1>1, <1>8, FifoOnlyLoses
<1>10. TheFifo!TypeOK'
  BY <1>1, <1>4, <1>6, <1>8 DEF FifoInv, TheFifo!TypeOK
<1>11. TheFifo!ReadsFresh'
  BY <1>1, <1>2, <1>8 DEF TheFifo!ReadsFresh
<1>12. \A g \in TheFifo!Fifos : content'[g] # <<>> => g \in {opened'["reader"], opened'["writer"]}
  BY <1>1, <1>8 DEF FifoInv
<1>. QED
  BY <1>1, <1>9, <1>10, <1>11, <1>12 DEF FifoInv

LEMMA FifoStep ==
  ASSUME FifoInv, TheFifo!Next
  PROVE  FifoInv'
<1>1. ASSUME NEW p \in {"reader", "writer"}, TheFifo!Stop(p) PROVE FifoInv'
  BY <1>1, FifoCloses DEF TheFifo!Stop
<1>2. DOMAIN at = {"reader", "writer"}
  BY DEF FifoInv, TheFifo!TypeOK
<1>. QED
  BY <1>1, <1>2, FifoStarts, FifoOpens, FifoWrites, FifoReads DEF TheFifo!Next, TheFifo!Reader

-----------------------------------------------------------------------------
(* Datagrams *)

LEMMA DatagramsAssumed ==
  /\ Nobody \notin Askers /\ "server" \notin Askers
  /\ MaxQuestions \in Nat /\ MaxStarts \in Nat
  BY ExchangesAssumption DEF TheDatagrams!DatagramsAssumption

LEMMA DatagramInit ==
  ASSUME TheDatagrams!Init
  PROVE  DatagramInv
<1>1. <<>> \in Seq(TheDatagrams!Question) /\ Len(<<>>) = 0
  OBVIOUS
<1>2. /\ at \in [Askers \cup {"server"} -> {"off", "recv", "send", "ask", "wait", "ended"}]
      /\ at["server"] = "off" /\ \A c \in Askers : at[c] = "ask"
  BY DatagramsAssumed DEF TheDatagrams!Init
<1>3. TheDatagrams!TypeOK
  BY <1>1, <1>2, DatagramsAssumed DEF TheDatagrams!Init, TheDatagrams!TypeOK
<1>4. arrived = <<>> /\ \A c \in Askers : answers[c] = <<>> /\ asked[c] = 0
  BY DEF TheDatagrams!Init
<1>. QED
  BY <1>1, <1>2, <1>3, <1>4 DEF DatagramInv, TheDatagrams!AnswersMatch

\* The type of everything but where the clients and the server are
LEMMA DatagramTypes ==
  ASSUME DatagramInv
  PROVE  /\ at \in [Askers \cup {"server"} -> {"off", "recv", "send", "ask", "wait", "ended"}]
         /\ arrived \in Seq(TheDatagrams!Question)
         /\ asked \in [Askers -> 0..MaxQuestions]
         /\ answers \in [Askers -> Seq(TheDatagrams!Question)]
         /\ \A k \in 1..Len(arrived) :
              arrived[k] \in TheDatagrams!Question /\ arrived[k].from \in Askers
         /\ at["server"] = "send" => buf.from \in Askers
<1>1. \A q \in TheDatagrams!Question : q.from \in Askers
  BY DEF TheDatagrams!Question
<1>2. \A k \in 1..Len(arrived) : arrived[k] \in TheDatagrams!Question
  BY ElementOfSeq DEF DatagramInv, TheDatagrams!TypeOK
<1>. QED
  BY <1>1, <1>2 DEF DatagramInv, TheDatagrams!TypeOK, InHand

LEMMA DatagramServer ==
  ASSUME DatagramInv, TheDatagrams!StartServer \/ TheDatagrams!StopServer
  PROVE  DatagramInv'
<1>1. UNCHANGED <<asked, answers, answer>> /\ at'["server"] \in {"off", "recv"}
      /\ at' = [at EXCEPT !["server"] = at'["server"]]
  BY DatagramTypes DEF TheDatagrams!StartServer, TheDatagrams!StopServer
<1>2. /\ at' \in [Askers \cup {"server"} -> {"off", "recv", "send", "ask", "wait", "ended"}]
      /\ \A c \in Askers : at'[c] = at[c]
  BY <1>1, DatagramTypes, DatagramsAssumed
<1>3. TheDatagrams!AnswersMatch'
  BY <1>1, <1>2 DEF DatagramInv, TheDatagrams!AnswersMatch
<1>4. \A c \in Askers : answers'[c] # <<>> => at'[c] = "wait" /\ answers'[c] = <<Latest(c)>>'
  BY <1>1, <1>2 DEF DatagramInv, Latest
<1>5. \A q \in TheDatagrams!Question : OnItsWay(q) => OnItsWay(q)'
  BY <1>1, <1>2 DEF OnItsWay, Latest, TheDatagrams!Question
<1>6. CASE TheDatagrams!StartServer
  <2>1. starts' \in 0..MaxStarts
    BY <1>6, DatagramsAssumed DEF TheDatagrams!StartServer, DatagramInv, TheDatagrams!TypeOK
  <2>2. TheDatagrams!TypeOK'
    BY <1>2, <1>6, <2>1 DEF TheDatagrams!StartServer, DatagramInv, TheDatagrams!TypeOK
  <2>3. UNCHANGED arrived
    BY <1>6 DEF TheDatagrams!StartServer
  <2>4. \A k \in 1..Len(arrived) : OnItsWay(arrived[k])'
    BY <1>5, DatagramTypes, <2>3 DEF DatagramInv
  <2>. QED
    BY <1>1, <1>2, <1>3, <1>4, <2>2, <2>3, <2>4 DEF DatagramInv
<1>7. CASE TheDatagrams!StopServer
  <2>1. arrived' = <<>> /\ UNCHANGED <<client_addr, shortLength, buf, starts>>
    BY <1>7 DEF TheDatagrams!StopServer, TheDatagrams!server
  <2>2. unanswerable' \subseteq Askers
    <3>1. /\ \A k \in DOMAIN arrived : arrived[k].from \in Askers
          /\ at["server"] = "send" => buf.from \in Askers
      BY DatagramTypes
    <3>. QED
      BY <1>7, <3>1 DEF TheDatagrams!StopServer, DatagramInv, TheDatagrams!TypeOK
  <2>3. <<>> \in Seq(TheDatagrams!Question) /\ Len(<<>>) = 0
    OBVIOUS
  <2>4. TheDatagrams!TypeOK'
    BY <1>1, <1>2, <2>1, <2>2, <2>3 DEF DatagramInv, TheDatagrams!TypeOK
  <2>. QED
    BY <1>1, <1>2, <1>3, <1>4, <2>1, <2>3, <2>4 DEF DatagramInv
<1>. QED
  BY <1>6, <1>7

LEMMA DatagramReceived ==
  ASSUME DatagramInv, TheDatagrams!Receive
  PROVE  DatagramInv'
<1>1. /\ UNCHANGED <<asked, answers, answer, unanswerable, starts>> /\ arrived # <<>>
      /\ at' = [at EXCEPT !["server"] = "send"]
      /\ buf' = Head(arrived) /\ arrived' = Tail(arrived) /\ shortLength' = FALSE
      /\ client_addr' \in {Head(arrived).from, Nobody}
  BY DEF TheDatagrams!Receive, TheDatagrams!SenderAddress
<1>2. /\ at' \in [Askers \cup {"server"} -> {"off", "recv", "send", "ask", "wait", "ended"}]
      /\ at'["server"] = "send" /\ \A c \in Askers : at'[c] = at[c]
  BY <1>1, DatagramTypes, DatagramsAssumed
<1>3. TheDatagrams!AnswersMatch'
  BY <1>1, <1>2 DEF DatagramInv, TheDatagrams!AnswersMatch
<1>4. \A c \in Askers : answers'[c] # <<>> => at'[c] = "wait" /\ answers'[c] = <<Latest(c)>>'
  BY <1>1, <1>2 DEF DatagramInv, Latest
<1>5. \A q \in TheDatagrams!Question : OnItsWay(q) => OnItsWay(q)'
  BY <1>1, <1>2 DEF OnItsWay, Latest, TheDatagrams!Question
<1>6. PICK a \in Seq(TheDatagrams!Question) : a = arrived /\ a # <<>>
  BY <1>1, DatagramTypes
<1>7. /\ Len(a) \in Nat \ {0} /\ Head(a) = a[1] /\ Head(a) \in TheDatagrams!Question
      /\ Tail(a) \in Seq(TheDatagrams!Question) /\ Len(Tail(a)) = Len(a) - 1
      /\ \A k \in 1..Len(Tail(a)) : Tail(a)[k] = a[k + 1]
  BY <1>6, EmptySeq, HeadTailProperties
<1>8. 1 \in 1..Len(a) /\ \A k \in 1..Len(Tail(a)) : k + 1 \in 1..Len(a) /\ k + 1 # 1
  BY <1>7
<1>9. a[1].from \in Askers /\ buf' = a[1] /\ arrived' = Tail(a)
  BY <1>1, <1>6, <1>7, <1>8, DatagramTypes
<1>10. TheDatagrams!TypeOK'
  <2>1. client_addr' \in Askers \cup {Nobody} /\ buf' \in TheDatagrams!Question
    BY <1>1, <1>6, <1>7, <1>9
  <2>. QED
    BY <1>1, <1>2, <1>6, <1>7, <1>9, <2>1 DEF DatagramInv, TheDatagrams!TypeOK
<1>11. \A k \in 1..Len(a) : a[k] \in TheDatagrams!Question /\ OnItsWay(a[k])'
  BY <1>5, <1>6, DatagramTypes DEF DatagramInv
<1>12. \A j, k \in 1..Len(a) : a[j].from = a[k].from => j = k
  BY <1>6 DEF DatagramInv
<1>13. \A k \in 1..Len(Tail(a)) : Tail(a)[k].from # a[1].from /\ OnItsWay(Tail(a)[k])'
  BY <1>7, <1>8, <1>11, <1>12
<1>14. \A j, k \in 1..Len(Tail(a)) : Tail(a)[j].from = Tail(a)[k].from => j = k
  <2>. SUFFICES ASSUME NEW j \in 1..Len(Tail(a)), NEW k \in 1..Len(Tail(a)),
                       Tail(a)[j].from = Tail(a)[k].from
                PROVE  j = k
    OBVIOUS
  <2>1. j + 1 = k + 1
    BY <1>7, <1>8, <1>12
  <2>. QED
    BY <1>7, <2>1
<1>15. InHand'
  BY <1>1, <1>6, <1>7, <1>8, <1>9, <1>11, <1>13 DEF InHand
<1>16. \A k \in 1..Len(arrived') : OnItsWay(arrived[k])'
  BY <1>9, <1>13
<1>17. \A j, k \in 1..Len(arrived') : arrived'[j].from = arrived'[k].from => j = k
  BY <1>9, <1>14
<1>. QED
  BY <1>2, <1>3, <1>4, <1>10, <1>15, <1>16, <1>17 DEF DatagramInv

LEMMA DatagramSent ==
  ASSUME DatagramInv, TheDatagrams!SendAnswer
  PROVE  DatagramInv'
<1>1. /\ UNCHANGED <<arrived, client_addr, shortLength, buf, starts, asked, answer>>
      /\ at["server"] = "send" /\ at' = [at EXCEPT !["server"] = "recv"]
      /\ answers' = [c \in Askers |-> IF c = client_addr /\ at[c] # "ended"
                                      THEN Append(answers[c], buf) ELSE answers[c]]
      /\ unanswerable' = unanswerable \cup ({buf.from} \ {client_addr})
  BY DEF TheDatagrams!SendAnswer, TheDatagrams!server
<1>2. /\ at' \in [Askers \cup {"server"} -> {"off", "recv", "send", "ask", "wait", "ended"}]
      /\ at'["server"] = "recv" /\ \A c \in Askers : at'[c] = at[c]
  BY <1>1, DatagramTypes, DatagramsAssumed
<1>3. InHand /\ buf.from \in Askers
  BY <1>1, DatagramTypes DEF DatagramInv
<1>4. PICK q \in TheDatagrams!Question : q = buf /\ q.from \in Askers
  BY <1>3 DEF InHand
<1>5. /\ at[q.from] # "ask" /\ answers[q.from] = <<>>
      /\ at[q.from] = "wait" => q = Latest(q.from)
      /\ \A k \in 1..Len(arrived) : arrived[k].from # q.from
  BY <1>3, <1>4 DEF InHand, OnItsWay
<1>6. Append(<<>>, q) = <<q>> /\ <<q>> \in Seq(TheDatagrams!Question)
  OBVIOUS
<1>7. \A c \in Askers :
        \/ answers'[c] = answers[c]
        \/ c = q.from /\ at[c] # "ended" /\ answers'[c] = <<q>>
  BY <1>1, <1>3, <1>4, <1>5, <1>6, DatagramsAssumed DEF InHand
<1>8. answers' \in [Askers -> Seq(TheDatagrams!Question)]
  BY <1>1, <1>6, <1>7, DatagramTypes
<1>9. TheDatagrams!TypeOK'
  BY <1>1, <1>2, <1>3, <1>8 DEF DatagramInv, TheDatagrams!TypeOK
<1>10. TheDatagrams!AnswersMatch'
  BY <1>1, <1>2 DEF DatagramInv, TheDatagrams!AnswersMatch
<1>11. \A c \in Askers : answers'[c] # <<>> => at'[c] = "wait" /\ answers'[c] = <<Latest(c)>>'
  <2>. SUFFICES ASSUME NEW c \in Askers, answers'[c] # <<>>
                PROVE  at[c] = "wait" /\ answers'[c] = <<Latest(c)>>
    BY <1>1, <1>2 DEF Latest
  <2>1. CASE answers'[c] = answers[c]
    BY <2>1 DEF DatagramInv
  <2>2. CASE c = q.from /\ at[c] # "ended" /\ answers'[c] = <<q>>
    <3>1. at[c] = "wait"
      BY <1>5, <2>2 DEF DatagramInv
    <3>. QED
      BY <1>5, <2>2, <3>1
  <2>. QED
    BY <1>7, <2>1, <2>2
<1>12. \A k \in 1..Len(arrived) : OnItsWay(arrived[k])'
  <2>. SUFFICES ASSUME NEW k \in 1..Len(arrived) PROVE OnItsWay(arrived[k])'
    OBVIOUS
  <2>1. PICK a \in TheDatagrams!Question : a = arrived[k] /\ a.from \in Askers /\ a.from # q.from
    BY <1>5, DatagramTypes
  <2>2. OnItsWay(a)
    BY <2>1 DEF DatagramInv
  <2>3. arrived'[k] = a /\ answers'[a.from] = answers[a.from]
    BY <1>1, <1>7, <2>1
  <2>. QED
    BY <1>1, <1>2, <2>1, <2>2, <2>3 DEF OnItsWay, Latest
<1>. QED
  BY <1>1, <1>2, <1>9, <1>10, <1>11, <1>12 DEF DatagramInv

\* Of a client that has nothing on its way only its own state changes
LEMMA DatagramOthers ==
  ASSUME DatagramInv, NEW c \in Askers, NEW q \in TheDatagrams!Question, OnItsWay(q),
         q.from # c,
         \A d \in Askers : d # c =>
           at'[d] = at[d] /\ asked'[d] = asked[d] /\ answers'[d] = answers[d]
  PROVE  OnItsWay(q)'
<1>1. q.from \in Askers
  BY DEF TheDatagrams!Question
<1>. QED
  BY <1>1 DEF OnItsWay, Latest

LEMMA DatagramAsked ==
  ASSUME DatagramInv, NEW c \in Askers, TheDatagrams!Ask(c)
  PROVE  DatagramInv'
<1>1. PICK n \in 0..MaxQuestions : n = asked[c] /\ n < MaxQuestions
  BY DatagramTypes DEF TheDatagrams!Ask
<1>2. n + 1 \in 1..MaxQuestions /\ n + 1 \in 0..MaxQuestions
  BY <1>1, DatagramsAssumed
<1>3. PICK q \in TheDatagrams!Question : q = [from |-> c, number |-> n + 1] /\ q.from = c
  <2>1. [from |-> c, number |-> n + 1] \in TheDatagrams!Question
    BY <1>2 DEF TheDatagrams!Question
  <2>2. [from |-> c, number |-> n + 1].from = c
    OBVIOUS
  <2>. QED
    BY <2>1, <2>2
<1>4. /\ UNCHANGED <<client_addr, shortLength, buf, starts, answers, answer>>
      /\ at[c] = "ask" /\ at' = [at EXCEPT ![c] = "wait"]
      /\ asked' = [asked EXCEPT ![c] = n + 1]
      /\ \/ arrived' = Append(arrived, q) /\ UNCHANGED unanswerable
         \/ arrived' = arrived /\ unanswerable' = unanswerable \cup {c}
  BY <1>1, <1>3 DEF TheDatagrams!Ask, TheDatagrams!server
<1>5. /\ at' \in [Askers \cup {"server"} -> {"off", "recv", "send", "ask", "wait", "ended"}]
      /\ asked' \in [Askers -> 0..MaxQuestions]
      /\ at'[c] = "wait" /\ asked'[c] = n + 1 /\ at'["server"] = at["server"]
      /\ \A d \in Askers : d # c => at'[d] = at[d] /\ asked'[d] = asked[d]
  BY <1>2, <1>4, DatagramTypes, DatagramsAssumed
<1>6. answers[c] = <<>> /\ \A k \in 1..Len(arrived) : arrived[k].from # c
  BY <1>4 DEF DatagramInv, OnItsWay
<1>7. PICK a \in Seq(TheDatagrams!Question) : a = arrived
  BY DatagramTypes
<1>8. /\ Append(a, q) \in Seq(TheDatagrams!Question) /\ Len(Append(a, q)) = Len(a) + 1
      /\ \A k \in 1..Len(a) : Append(a, q)[k] = a[k]
      /\ Append(a, q)[Len(a) + 1] = q /\ Len(a) \in Nat
  BY AppendProperties
<1>9. \A k \in 1..(Len(a) + 1) : k \in 1..Len(a) \/ k = Len(a) + 1
  BY <1>8
<1>10. arrived' = Append(a, q) \/ arrived' = a
  BY <1>4, <1>7
<1>11. TheDatagrams!TypeOK'
  BY <1>4, <1>5, <1>7, <1>8 DEF DatagramInv, TheDatagrams!TypeOK
<1>12. TheDatagrams!AnswersMatch'
  BY <1>4, <1>5 DEF DatagramInv, TheDatagrams!AnswersMatch
<1>13. \A d \in Askers : at'[d] \in {"ask", "wait", "ended"}
  BY <1>5 DEF DatagramInv
<1>14. \A d \in Askers : answers'[d] # <<>> => at'[d] = "wait" /\ answers'[d] = <<Latest(d)>>'
  BY <1>4, <1>5, <1>6 DEF DatagramInv, Latest
<1>15. \A k \in 1..Len(a) : a[k].from # c /\ OnItsWay(a[k])'
  <2>. SUFFICES ASSUME NEW k \in 1..Len(a) PROVE a[k].from # c /\ OnItsWay(a[k])'
    OBVIOUS
  <2>1. PICK b \in TheDatagrams!Question : b = a[k] /\ b.from # c /\ OnItsWay(b)
    BY <1>6, <1>7, DatagramTypes DEF DatagramInv
  <2>. QED
    BY <1>4, <1>5, <2>1, DatagramOthers
<1>16. OnItsWay(q)'
  BY <1>3, <1>4, <1>5, <1>6 DEF OnItsWay, Latest
<1>17. \A k \in 1..Len(arrived') : OnItsWay(arrived[k])'
  BY <1>8, <1>9, <1>10, <1>15, <1>16
<1>18. \A j, k \in 1..Len(arrived') : arrived'[j].from = arrived'[k].from => j = k
  <2>1. \A j, k \in 1..Len(a) : a[j].from = a[k].from => j = k
    BY <1>7 DEF DatagramInv
  <2>2. \A j, k \in 1..(Len(a) + 1) : Append(a, q)[j].from = Append(a, q)[k].from => j = k
    BY <1>3, <1>8, <1>9, <1>15, <2>1
  <2>. QED
    BY <1>8, <1>10, <2>1, <2>2
<1>19. at["server"] = "send" => InHand'
  <2>. SUFFICES ASSUME at["server"] = "send" PROVE InHand'
    OBVIOUS
  <2>1. InHand /\ buf.from # c
    BY <1>4 DEF DatagramInv, InHand, OnItsWay
  <2>2. PICK b \in TheDatagrams!Question : b = buf /\ b.from # c /\ OnItsWay(b)
    BY <2>1 DEF InHand
  <2>3. OnItsWay(b)'
    BY <1>4, <1>5, <2>2, DatagramOthers
  <2>4. \A k \in 1..Len(a) : a[k].from # b.from
    BY <1>7, <2>1, <2>2 DEF InHand
  <2>5. \A k \in 1..Len(arrived') : arrived'[k].from # b.from
    BY <1>3, <1>8, <1>9, <1>10, <2>2, <2>4
  <2>. QED
    BY <1>4, <2>1, <2>2, <2>3, <2>5 DEF InHand
<1>. QED
  BY <1>5, <1>11, <1>12, <1>13, <1>14, <1>17, <1>18, <1>19 DEF DatagramInv

LEMMA DatagramClient ==
  ASSUME DatagramInv, NEW c \in Askers, TheDatagrams!PrintAnswer(c) \/ TheDatagrams!EndClient(c)
  PROVE  DatagramInv'
<1>1. UNCHANGED <<arrived, client_addr, shortLength, buf, starts, asked, unanswerable>>
  BY DEF TheDatagrams!PrintAnswer, TheDatagrams!EndClient, TheDatagrams!server
<1>2. /\ \/ at' = [at EXCEPT ![c] = "ended"] /\ answer' = answer
         \/ /\ at' = [at EXCEPT ![c] = "ask"]
            /\ answer' = [answer EXCEPT ![c] = Latest(c)] /\ answers[c] # <<>>
      /\ answers' = [answers EXCEPT ![c] = <<>>]
  <2>1. CASE TheDatagrams!EndClient(c)
    BY <2>1 DEF TheDatagrams!EndClient
  <2>2. CASE TheDatagrams!PrintAnswer(c)
    <3>1. answers[c] # <<>> /\ answers[c] = <<Latest(c)>>
      BY <2>2 DEF TheDatagrams!PrintAnswer, DatagramInv
    <3>2. Head(<<Latest(c)>>) = Latest(c) /\ Tail(<<Latest(c)>>) = <<>>
      OBVIOUS
    <3>. QED
      BY <2>2, <3>1, <3>2 DEF TheDatagrams!PrintAnswer
  <2>. QED
    BY <2>1, <2>2
<1>3. <<>> \in Seq(TheDatagrams!Question)
  OBVIOUS
<1>4. /\ at' \in [Askers \cup {"server"} -> {"off", "recv", "send", "ask", "wait", "ended"}]
      /\ answers' \in [Askers -> Seq(TheDatagrams!Question)]
      /\ at'["server"] = at["server"] /\ answers'[c] = <<>> /\ at'[c] \in {"ask", "ended"}
      /\ at'[c] = "ask" => answers[c] # <<>>
      /\ \A d \in Askers : d # c => at'[d] = at[d] /\ answers'[d] = answers[d]
  <2>1. /\ at' \in [Askers \cup {"server"} -> {"off", "recv", "send", "ask", "wait", "ended"}]
        /\ at'["server"] = at["server"] /\ at'[c] \in {"ask", "ended"}
        /\ \A d \in Askers : d # c => at'[d] = at[d]
    <3>1. PICK s \in {"ask", "ended"} : at' = [at EXCEPT ![c] = s]
      BY <1>2
    <3>2. c # "server"
      BY DatagramsAssumed
    <3>. QED
      BY <3>1, <3>2, DatagramTypes
  <2>2. /\ answers' \in [Askers -> Seq(TheDatagrams!Question)] /\ answers'[c] = <<>>
        /\ \A d \in Askers : d # c => answers'[d] = answers[d]
    BY <1>2, <1>3, DatagramTypes
  <2>3. at'[c] = "ask" => answers[c] # <<>>
    BY <1>2, DatagramTypes
  <2>. QED
    BY <2>1, <2>2, <2>3
<1>5. \A q \in TheDatagrams!Question : OnItsWay(q) => OnItsWay(q)'
  <2>. SUFFICES ASSUME NEW q \in TheDatagrams!Question, OnItsWay(q) PROVE OnItsWay(q)'
    OBVIOUS
  <2>1. CASE q.from = c
    BY <1>4, <2>1 DEF OnItsWay
  <2>2. CASE q.from # c
    BY <1>1, <1>4, <2>2, DatagramOthers
  <2>. QED
    BY <2>1, <2>2
<1>6. at'[c] = "ask" => asked[c] > 0 /\ Latest(c) \in TheDatagrams!Question
  <2>. SUFFICES ASSUME at'[c] = "ask" PROVE asked[c] > 0 /\ Latest(c) \in TheDatagrams!Question
    OBVIOUS
  <2>1. PICK s \in Seq(TheDatagrams!Question) : s = answers[c] /\ s = <<Latest(c)>>
    BY <1>4, DatagramTypes DEF DatagramInv
  <2>2. Latest(c) \in TheDatagrams!Question
    BY <2>1
  <2>3. asked[c] \in 1..MaxQuestions
    BY <2>2 DEF Latest, TheDatagrams!Question
  <2>. QED
    BY <2>2, <2>3
<1>7. /\ answer' \in [Askers -> TheDatagrams!Question \cup {TheDatagrams!NoQuestion}]
      /\ at'[c] = "ask" => answer'[c] = Latest(c)
      /\ \A d \in Askers : d # c => answer'[d] = answer[d]
  <2>1. at' = [at EXCEPT ![c] = "ended"] => at'[c] = "ended"
    BY DatagramTypes
  <2>2. at' = [at EXCEPT ![c] = "ask"] => at'[c] = "ask"
    BY DatagramTypes
  <2>3. answer \in [Askers -> TheDatagrams!Question \cup {TheDatagrams!NoQuestion}]
    BY DEF DatagramInv, TheDatagrams!TypeOK
  <2>4. CASE answer' = answer /\ at'[c] = "ended"
    BY <2>3, <2>4
  <2>5. CASE answer' = [answer EXCEPT ![c] = Latest(c)] /\ at'[c] = "ask"
    BY <1>6, <2>3, <2>5
  <2>. QED
    BY <1>2, <2>1, <2>2, <2>4, <2>5
<1>8. TheDatagrams!TypeOK'
  BY <1>1, <1>4, <1>7 DEF DatagramInv, TheDatagrams!TypeOK
<1>9. TheDatagrams!AnswersMatch'
  BY <1>1, <1>4, <1>7 DEF DatagramInv, TheDatagrams!AnswersMatch, Latest
<1>10. \A d \in Askers : at'[d] \in {"ask", "wait", "ended"}
  BY <1>4 DEF DatagramInv
<1>11. \A d \in Askers : answers'[d] # <<>> => at'[d] = "wait" /\ answers'[d] = <<Latest(d)>>'
  BY <1>1, <1>4 DEF DatagramInv, Latest
<1>12. \A k \in 1..Len(arrived) : OnItsWay(arrived[k])'
  BY <1>1, <1>5, DatagramTypes DEF DatagramInv
<1>13. at["server"] = "send" => InHand'
  BY <1>1, <1>5 DEF DatagramInv, InHand
<1>. QED
  BY <1>1, <1>4, <1>8, <1>9, <1>10, <1>11, <1>12, <1>13 DEF DatagramInv

LEMMA DatagramStep ==
  ASSUME DatagramInv, TheDatagrams!Next
  PROVE  DatagramInv'
  BY DatagramServer, DatagramReceived, DatagramSent, DatagramAsked, DatagramClient
  DEF TheDatagrams!Next, TheDatagrams!Serve

-----------------------------------------------------------------------------
(* Pipes *)

LEMMA PipesAssumed == Lines \in Nat /\ PipeSize \in Nat \ {0} /\ CallsFail \in BOOLEAN
  BY ExchangesAssumption DEF ThePipe!PipesAssumption

\* The scripts of each program
LEMMA PipeScripts ==
  ASSUME program = "pipe"
  PROVE  /\ ThePipe!Script("parent") = ThePipe!PipeParent
         /\ ThePipe!Script("elder") = ThePipe!PipeChild
  BY DEF ThePipe!Script, ThePipe!PipeScript

LEMMA LsWcScripts ==
  ASSUME program = "ls-wc-l"
  PROVE  /\ ThePipe!Script("parent") = <<<<"fork", "elder">>>> \o ThePipe!Ls
         /\ ThePipe!Script("elder") = ThePipe!Wc
  BY DEF ThePipe!Script, ThePipe!LsWcScript

LEMMA BroScripts ==
  ASSUME program = "pipe_bro"
  PROVE  /\ ThePipe!Script("parent") = ThePipe!BroParent
         /\ ThePipe!Script("elder") = ThePipe!Wc
         /\ ThePipe!Script("younger") = ThePipe!Ls
  BY DEF ThePipe!Script, ThePipe!BroScript

LEMMA OtherScripts ==
  ASSUME NEW p \in ThePipe!Processes, program \in {"fork_exec", "wait_test"}
  PROVE  \/ ThePipe!Script(p) = <<<<"fork", "elder">>>>
         \/ ThePipe!Script(p) = <<<<"exec", "ls">>>>
         \/ ThePipe!Script(p) = <<<<"fork", "elder">>, <<"wait", "any">>>>
         \/ ThePipe!Script(p) = <<>>
<1>1. CASE program = "fork_exec"
  BY <1>1 DEF ThePipe!Script, ThePipe!ForkExecScript
<1>2. CASE program = "wait_test"
  BY <1>2 DEF ThePipe!Script, ThePipe!WaitScript
<1>. QED
  BY <1>1, <1>2

\* What a process does that is at some step of its script
LEMMA PipeParentDoes ==
  ASSUME NEW p \in ThePipe!Processes, pc[p] \in 1..7, ThePipe!Script(p) = ThePipe!PipeParent
  PROVE  /\ Len(ThePipe!Script(p)) = 4
         /\ \A call : ThePipe!Does(p, call) =>
              \/ pc[p] = 1 /\ call = "fork" /\ ThePipe!About(p) = "elder"
              \/ pc[p] = 2 /\ call = "close" /\ ThePipe!About(p) = "fd0"
              \/ pc[p] = 3 /\ call = "write"
              \/ pc[p] = 4 /\ call = "close" /\ ThePipe!About(p) = "fd1"
  BY DEF ThePipe!Does, ThePipe!About, ThePipe!PipeParent

LEMMA PipeChildDoes ==
  ASSUME NEW p \in ThePipe!Processes, pc[p] \in 1..7, ThePipe!Script(p) = ThePipe!PipeChild
  PROVE  /\ Len(ThePipe!Script(p)) = 3
         /\ \A call : ThePipe!Does(p, call) =>
              \/ pc[p] = 1 /\ call = "close" /\ ThePipe!About(p) = "fd1"
              \/ pc[p] = 2 /\ call = "read"
              \/ pc[p] = 3 /\ call = "close" /\ ThePipe!About(p) = "fd0"
  BY DEF ThePipe!Does, ThePipe!About, ThePipe!PipeChild

LEMMA WcDoes ==
  ASSUME NEW p \in ThePipe!Processes, pc[p] \in 1..7, ThePipe!Script(p) = ThePipe!Wc
  PROVE  /\ Len(ThePipe!Script(p)) = 3
         /\ \A call : ThePipe!Does(p, call) =>
              \/ pc[p] = 1 /\ call = "close" /\ ThePipe!About(p) = "fd1"
              \/ pc[p] = 2 /\ call = "dup2" /\ ThePipe!About(p) = "fd0"
              \/ pc[p] = 3 /\ call = "exec" /\ ThePipe!About(p) = "wc"
  BY DEF ThePipe!Does, ThePipe!About, ThePipe!Wc

LEMMA LsDoes ==
  ASSUME NEW p \in ThePipe!Processes, pc[p] \in 1..7, ThePipe!Script(p) = ThePipe!Ls
  PROVE  /\ Len(ThePipe!Script(p)) = 3
         /\ \A call : ThePipe!Does(p, call) =>
              \/ pc[p] = 1 /\ call = "close" /\ ThePipe!About(p) = "fd0"
              \/ pc[p] = 2 /\ call = "dup2" /\ ThePipe!About(p) = "fd1"
              \/ pc[p] = 3 /\ call = "exec" /\ ThePipe!About(p) = "ls"
  BY DEF ThePipe!Does, ThePipe!About, ThePipe!Ls

LEMMA ForkLsDoes ==
  ASSUME NEW p \in ThePipe!Processes, pc[p] \in 1..7,
         ThePipe!Script(p) = <<<<"fork", "elder">>>> \o ThePipe!Ls
  PROVE  /\ Len(ThePipe!Script(p)) = 4
         /\ \A call : ThePipe!Does(p, call) =>
              \/ pc[p] = 1 /\ call = "fork" /\ ThePipe!About(p) = "elder"
              \/ pc[p] = 2 /\ call = "close" /\ ThePipe!About(p) = "fd0"
              \/ pc[p] = 3 /\ call = "dup2" /\ ThePipe!About(p) = "fd1"
              \/ pc[p] = 4 /\ call = "exec" /\ ThePipe!About(p) = "ls"
<1>. DEFINE Calls == {<<"fork", "elder">>} \cup {ThePipe!Ls[k] : k \in 1..3}
<1>1. <<<<"fork", "elder">>>> \in Seq(Calls) /\ Len(<<<<"fork", "elder">>>>) = 1
  OBVIOUS
<1>2. /\ Len(ThePipe!Ls) = 3 /\ ThePipe!Ls \in Seq(Calls)
      /\ ThePipe!Ls[1] = <<"close", "fd0">>
      /\ ThePipe!Ls[2] = <<"dup2", "fd1">> /\ ThePipe!Ls[3] = <<"exec", "ls">>
  BY DEF ThePipe!Ls
<1>. HIDE DEF Calls
<1>3. /\ Len(ThePipe!Script(p)) = 4
      /\ \A k \in 1..4 : ThePipe!Script(p)[k] = IF k <= 1 THEN <<<<"fork", "elder">>>>[k]
                                                ELSE ThePipe!Ls[k - 1]
  <2>. DEFINE s == <<<<"fork", "elder">>>> \o ThePipe!Ls
  <2>1. /\ Len(s) = Len(<<<<"fork", "elder">>>>) + Len(ThePipe!Ls)
        /\ \A k \in 1..(Len(<<<<"fork", "elder">>>>) + Len(ThePipe!Ls)) :
             s[k] = IF k <= Len(<<<<"fork", "elder">>>>) THEN <<<<"fork", "elder">>>>[k]
                    ELSE ThePipe!Ls[k - Len(<<<<"fork", "elder">>>>)]
    BY <1>1, <1>2, ConcatProperties, Zenon
  <2>. HIDE DEF s
  <2>2. 1 + 3 = 4
    OBVIOUS
  <2>3. Len(s) = 4 /\ \A k \in 1..4 : s[k] = IF k <= 1 THEN <<<<"fork", "elder">>>>[k]
                                             ELSE ThePipe!Ls[k - 1]
    BY <1>1, <1>2, <2>1, <2>2
  <2>. QED
    BY <2>3 DEF s
<1>4. /\ ThePipe!Script(p)[1] = <<"fork", "elder">> /\ ThePipe!Script(p)[2] = <<"close", "fd0">>
      /\ ThePipe!Script(p)[3] = <<"dup2", "fd1">> /\ ThePipe!Script(p)[4] = <<"exec", "ls">>
  BY <1>2, <1>3
<1>5. Len(ThePipe!Script(p)) = 4
  BY <1>3
<1>. QED
  BY <1>4, <1>5 DEF ThePipe!Does, ThePipe!About

LEMMA BroParentDoes ==
  ASSUME NEW p \in ThePipe!Processes, pc[p] \in 1..7, ThePipe!Script(p) = ThePipe!BroParent
  PROVE  /\ Len(ThePipe!Script(p)) = 6
         /\ \A call : ThePipe!Does(p, call) =>
              \/ pc[p] = 1 /\ call = "fork" /\ ThePipe!About(p) = "elder"
              \/ pc[p] = 2 /\ call = "fork" /\ ThePipe!About(p) = "younger"
              \/ pc[p] = 3 /\ call = "close" /\ ThePipe!About(p) = "fd0"
              \/ pc[p] = 4 /\ call = "close" /\ ThePipe!About(p) = "fd1"
              \/ pc[p] \in {5, 6} /\ call = "wait"
  BY DEF ThePipe!Does, ThePipe!About, ThePipe!BroParent

LEMMA OthersDo ==
  ASSUME NEW p \in ThePipe!Processes, pc[p] \in 1..7, program \in {"fork_exec", "wait_test"}
  PROVE  /\ Len(ThePipe!Script(p)) <= 2
         /\ \A call : ThePipe!Does(p, call) =>
              \/ call = "fork" /\ ThePipe!About(p) = "elder"
              \/ call = "exec" /\ ThePipe!About(p) = "ls"
              \/ call = "wait"
<1>1. CASE ThePipe!Script(p) = <<<<"fork", "elder">>>>
  BY <1>1 DEF ThePipe!Does, ThePipe!About
<1>2. CASE ThePipe!Script(p) = <<<<"exec", "ls">>>>
  BY <1>2 DEF ThePipe!Does, ThePipe!About
<1>3. CASE ThePipe!Script(p) = <<<<"fork", "elder">>, <<"wait", "any">>>>
  BY <1>3 DEF ThePipe!Does, ThePipe!About
<1>4. CASE ThePipe!Script(p) = <<>>
  BY <1>4 DEF ThePipe!Does, ThePipe!About
<1>. QED
  BY <1>1, <1>2, <1>3, <1>4, OtherScripts

\* Process p is then in state s, at step n, with the ends e
Moves(p, s, n, e) ==
  /\ at' = [at EXCEPT ![p] = s]
  /\ pc' = [pc EXCEPT ![p] = n]
  /\ ends' = [ends EXCEPT ![p] = e]

LEMMA Moved ==
  ASSUME PipeTypes, NEW p \in ThePipe!Processes, NEW n \in 1..7,
         NEW s \in {"none", "script", "wc", "ls", "ended", "killed"},
         NEW e \in SUBSET {"fd0", "fd1", "in", "out"},
         Moves(p, s, n, e)
  PROVE  /\ at' \in [ThePipe!Processes -> {"none", "script", "wc", "ls", "ended", "killed"}]
         /\ pc' \in [ThePipe!Processes -> 1..7]
         /\ ends' \in [ThePipe!Processes -> SUBSET {"fd0", "fd1", "in", "out"}]
         /\ at'[p] = s /\ pc'[p] = n /\ ends'[p] = e
         /\ \A q \in ThePipe!Processes : q # p =>
              at'[q] = at[q] /\ pc'[q] = pc[q] /\ ends'[q] = ends[q]
<1>1. /\ at' \in [ThePipe!Processes -> {"none", "script", "wc", "ls", "ended", "killed"}]
      /\ at'[p] = s
      /\ \A q \in ThePipe!Processes : q # p => at'[q] = at[q]
  BY DEF PipeTypes, Moves
<1>2. /\ pc' \in [ThePipe!Processes -> 1..7] /\ pc'[p] = n
      /\ \A q \in ThePipe!Processes : q # p => pc'[q] = pc[q]
  BY DEF PipeTypes, Moves
<1>3. /\ ends' \in [ThePipe!Processes -> SUBSET {"fd0", "fd1", "in", "out"}] /\ ends'[p] = e
      /\ \A q \in ThePipe!Processes : q # p => ends'[q] = ends[q]
  BY DEF PipeTypes, Moves
<1>. QED
  BY <1>1, <1>2, <1>3

\* What a process keeps it may be said to move to
LEMMA Kept ==
  ASSUME PipeTypes, NEW p \in ThePipe!Processes
  PROVE  /\ at = [at EXCEPT ![p] = at[p]]
         /\ pc = [pc EXCEPT ![p] = pc[p]]
         /\ ends = [ends EXCEPT ![p] = ends[p]]
         /\ at[p] \in {"none", "script", "wc", "ls", "ended", "killed"} /\ pc[p] \in 1..7
         /\ ends[p] \in SUBSET {"fd0", "fd1", "in", "out"}
<1>1. \A S : \A f \in [ThePipe!Processes -> S] : f = [f EXCEPT ![p] = f[p]] /\ f[p] \in S
  OBVIOUS
<1>. QED
  BY <1>1, Zenon DEF PipeTypes

LEMMA PipeTypesKept ==
  ASSUME PipeTypes, NEW p \in ThePipe!Processes, NEW n \in 1..7,
         NEW s \in {"script", "wc", "ls", "ended", "killed"},
         NEW e \in SUBSET {"fd0", "fd1", "in", "out"},
         Moves(p, s, n, e), s \in {"ended", "killed"} => e = {},
         program' = program, reaped' \subseteq ThePipe!Children,
         inPipe' \in 0..PipeSize /\ written' \in Nat /\ got' \in Nat /\ printed' \in -1..got',
         written' = got' + inPipe'
  PROVE  PipeTypes'
<1>1. s \in {"none", "script", "wc", "ls", "ended", "killed"}
  OBVIOUS
<1>2. /\ at' \in [ThePipe!Processes -> {"none", "script", "wc", "ls", "ended", "killed"}]
      /\ pc' \in [ThePipe!Processes -> 1..7]
      /\ ends' \in [ThePipe!Processes -> SUBSET {"fd0", "fd1", "in", "out"}]
      /\ at'[p] = s /\ ends'[p] = e
      /\ \A q \in ThePipe!Processes : q # p => at'[q] = at[q] /\ ends'[q] = ends[q]
  BY <1>1, Moved
<1>3. \A q \in ThePipe!Processes : at'[q] \in {"none", "ended", "killed"} => ends'[q] = {}
  BY <1>2 DEF PipeTypes
<1>. QED
  BY <1>2, <1>3 DEF PipeTypes

\* The steps of the process that runs wc
LEMMA WcShape ==
  ASSUME PipeTypes, WcRole("elder"), ThePipe!Script("elder") = ThePipe!Wc, ThePipe!Step("elder")
  PROVE  /\ at["elder"] \in {"script", "wc"} /\ UNCHANGED <<program, written, reaped>>
         /\ \/ /\ UNCHANGED <<inPipe, got, printed>>
               /\ \/ Moves("elder", "script", 2, {"fd0"})
                  \/ Moves("elder", "script", 3, {"fd0", "in"})
                  \/ Moves("elder", "wc", 4, {"fd0", "in"})
                  \/ Moves("elder", "ended", 3, {})
            \/ /\ Moves("elder", "wc", 4, {"fd0", "in"})
               /\ got' = got + inPipe /\ inPipe' = 0 /\ UNCHANGED printed
            \/ /\ Moves("elder", "ended", 4, {})
               /\ inPipe = 0 /\ ~ThePipe!WriteEndOpen
               /\ printed' = got /\ UNCHANGED <<got, inPipe>>
<1>1. "elder" \in ThePipe!Processes /\ pc["elder"] \in 1..7
  BY DEF ThePipe!Processes, PipeTypes
<1>2. /\ at = [at EXCEPT !["elder"] = at["elder"]]
      /\ pc = [pc EXCEPT !["elder"] = pc["elder"]]
      /\ ends = [ends EXCEPT !["elder"] = ends["elder"]]
  BY <1>1, Kept
<1>3. CASE ThePipe!CloseEnd("elder")
  <2>1. pc["elder"] = 1 /\ ThePipe!About("elder") = "fd1" /\ at["elder"] = "script"
    BY <1>1, <1>3, WcDoes DEF ThePipe!CloseEnd, ThePipe!Does
  <2>2. ends["elder"] = {"fd0", "fd1"} /\ {"fd0", "fd1"} \ {"fd1"} = {"fd0"} /\ pc["elder"] + 1 = 2
    BY <2>1 DEF WcRole
  <2>. QED
    BY <1>2, <1>3, <2>1, <2>2 DEF ThePipe!CloseEnd, ThePipe!Goes, ThePipe!data, Moves
<1>4. CASE ThePipe!Dup2("elder")
  <2>1. pc["elder"] = 2 /\ ThePipe!About("elder") = "fd0" /\ at["elder"] = "script"
    BY <1>1, <1>4, WcDoes DEF ThePipe!Dup2, ThePipe!Does
  <2>2. ends["elder"] = {"fd0"} /\ {"fd0"} \cup {"in"} = {"fd0", "in"} /\ pc["elder"] + 1 = 3
    BY <2>1 DEF WcRole
  <2>. QED
    BY <1>2, <1>4, <2>1, <2>2 DEF ThePipe!Dup2, ThePipe!Goes, ThePipe!data, Moves
<1>5. CASE ThePipe!Exec("elder")
  <2>1. pc["elder"] = 3 /\ ThePipe!About("elder") = "wc" /\ at["elder"] = "script"
    BY <1>1, <1>5, WcDoes DEF ThePipe!Exec, ThePipe!Does
  <2>2. ends["elder"] = {"fd0", "in"} /\ pc["elder"] + 1 = 4
    BY <2>1 DEF WcRole
  <2>. QED
    BY <1>2, <1>5, <2>1, <2>2 DEF ThePipe!Exec, ThePipe!Leaves, ThePipe!Goes, ThePipe!data, Moves
<1>6. CASE ThePipe!RunWc("elder")
  <2>1. at["elder"] = "wc" /\ pc["elder"] = 4 /\ ends["elder"] = {"fd0", "in"}
    BY <1>6 DEF ThePipe!RunWc, WcRole
  <2>. QED
    BY <1>2, <1>6, <2>1 DEF ThePipe!RunWc, ThePipe!Leaves, Moves
<1>7. ~ThePipe!Exit("elder")
  <2>1. at["elder"] = "script" => pc["elder"] <= 3
    BY DEF WcRole
  <2>2. Len(ThePipe!Script("elder")) = 3
    BY <1>1, WcDoes
  <2>3. \A n \in 1..7 : n <= 3 => ~(n > 3)
    OBVIOUS
  <2>. QED
    BY <1>1, <2>1, <2>2, <2>3, Zenon DEF ThePipe!Exit
<1>8. ~ThePipe!RunLs("elder")
  BY DEF ThePipe!RunLs, WcRole
<1>9. \A call \in {"fork", "wait", "write", "read"} : ~ThePipe!Does("elder", call)
  BY <1>1, WcDoes
<1>. QED
  BY <1>3, <1>4, <1>5, <1>6, <1>7, <1>8, <1>9
  DEF ThePipe!Step, ThePipe!Fork, ThePipe!Wait, ThePipe!ReadOnce

LEMMA WcKeeps ==
  ASSUME PipeTypes, WcRole("elder"), Counted,
         ThePipe!Script("elder") = ThePipe!Wc, ThePipe!Step("elder")
  PROVE  /\ PipeTypes' /\ WcRole("elder")' /\ Counted'
         /\ UNCHANGED <<program, written>>
         /\ at["elder"] \in {"script", "wc"} /\ at'["elder"] # "none"
         /\ \A q \in ThePipe!Processes : q # "elder" =>
              at'[q] = at[q] /\ pc'[q] = pc[q] /\ ends'[q] = ends[q]
<1>1. /\ "elder" \in ThePipe!Processes /\ {} \in SUBSET {"fd0", "fd1", "in", "out"}
      /\ {"fd0"} \in SUBSET {"fd0", "fd1", "in", "out"}
      /\ {"fd0", "in"} \in SUBSET {"fd0", "fd1", "in", "out"}
  BY DEF ThePipe!Processes
<1>2. at["elder"] \in {"script", "wc"} /\ UNCHANGED <<program, written, reaped>>
  BY WcShape
<1>3. reaped' \subseteq ThePipe!Children /\ printed < 0 /\ printed = -1
  BY <1>2 DEF PipeTypes, Counted
<1>4. PICK i \in 0..PipeSize, w \in Nat, g \in Nat :
        i = inPipe /\ w = written /\ g = got /\ w = g + i
  BY DEF PipeTypes
<1>5. /\ 0 \in 0..PipeSize /\ g + i \in Nat /\ -1 \in -1..g /\ -1 \in -1..(g + i) /\ g \in -1..g
      /\ (g + i) + 0 = w /\ ~(-1 >= 0)
  BY PipesAssumed, <1>4
<1>6. /\ inPipe' \in 0..PipeSize /\ written' \in Nat /\ got' \in Nat /\ printed' \in -1..got'
      /\ written' = got' + inPipe'
  <2>1. CASE UNCHANGED <<inPipe, got, printed>>
    BY <1>2, <2>1 DEF PipeTypes
  <2>2. CASE got' = got + inPipe /\ inPipe' = 0 /\ UNCHANGED printed
    BY <1>2, <1>3, <1>4, <1>5, <2>2
  <2>3. CASE printed' = got /\ UNCHANGED <<got, inPipe>>
    BY <1>2, <1>4, <1>5, <2>3
  <2>. QED
    BY <2>1, <2>2, <2>3, WcShape
<1>7. PICK s \in {"script", "wc", "ended"}, n \in {2, 3, 4}, e \in SUBSET {"fd0", "fd1", "in", "out"} :
        /\ Moves("elder", s, n, e)
        /\ s = "ended" => e = {}
        /\ s = "script" => (n = 2 /\ e = {"fd0"}) \/ (n = 3 /\ e = {"fd0", "in"})
        /\ s = "wc" => n = 4 /\ e = {"fd0", "in"}
  <2>1. CASE Moves("elder", "script", 2, {"fd0"})
    BY <1>1, <2>1
  <2>2. CASE Moves("elder", "script", 3, {"fd0", "in"})
    BY <1>1, <2>2
  <2>3. CASE Moves("elder", "wc", 4, {"fd0", "in"})
    BY <1>1, <2>3
  <2>4. CASE Moves("elder", "ended", 3, {})
    BY <1>1, <2>4
  <2>5. CASE Moves("elder", "ended", 4, {})
    BY <1>1, <2>5
  <2>. QED
    BY <2>1, <2>2, <2>3, <2>4, <2>5, WcShape
<1>8. n \in 1..7 /\ s \in {"none", "script", "wc", "ls", "ended", "killed"}
      /\ s \in {"script", "wc", "ls", "ended", "killed"}
  OBVIOUS
<1>9. PipeTypes'
  BY <1>1, <1>2, <1>3, <1>6, <1>7, <1>8, PipeTypesKept
<1>10. /\ at'["elder"] = s /\ pc'["elder"] = n /\ ends'["elder"] = e
       /\ \A q \in ThePipe!Processes : q # "elder" =>
            at'[q] = at[q] /\ pc'[q] = pc[q] /\ ends'[q] = ends[q]
  BY <1>1, <1>7, <1>8, Moved
<1>11. WcRole("elder")'
  BY <1>7, <1>10 DEF WcRole
<1>12. Counted'
  <2>1. written' <= Lines
    BY <1>2 DEF Counted
  <2>2. CASE UNCHANGED printed
    BY <1>3, <1>5, <2>1, <2>2 DEF Counted
  <2>3. CASE /\ Moves("elder", "ended", 4, {}) /\ inPipe = 0 /\ ~ThePipe!WriteEndOpen
             /\ printed' = got /\ UNCHANGED <<got, inPipe>>
    <3>1. at'["elder"] = "ended" /\ ends'["elder"] = {}
      BY <1>1, <2>3, Moved
    <3>2. ~ThePipe!WriteEndOpen'
      BY <1>10, <2>3, <3>1 DEF ThePipe!WriteEndOpen
    <3>3. printed' = written'
      BY <1>2, <1>4, <1>5, <2>3
    <3>. QED
      BY <2>1, <3>1, <3>2, <3>3 DEF Counted
  <2>. QED
    BY <2>2, <2>3, WcShape
<1>. QED
  BY <1>2, <1>7, <1>9, <1>10, <1>11, <1>12

\* The steps of the process that runs ls, once it has come to its part of the script
ReachedLs(p, k) ==
  /\ pc[p] > k
  /\ Len(ThePipe!Script(p)) = k + 3
  /\ \A call : ThePipe!Does(p, call) =>
       \/ pc[p] = k + 1 /\ call = "close" /\ ThePipe!About(p) = "fd0"
       \/ pc[p] = k + 2 /\ call = "dup2" /\ ThePipe!About(p) = "fd1"
       \/ pc[p] = k + 3 /\ call = "exec" /\ ThePipe!About(p) = "ls"

LEMMA LsShape ==
  ASSUME PipeTypes, NEW p \in {"parent", "younger"}, NEW k \in {0, 1},
         LsRole(p, k), ReachedLs(p, k), ThePipe!Step(p)
  PROVE  /\ at[p] \in {"script", "ls"} /\ UNCHANGED <<program, got, printed, reaped>>
         /\ \/ /\ UNCHANGED <<inPipe, written>>
               /\ \/ Moves(p, "script", k + 2, {"fd1"})
                  \/ Moves(p, "script", k + 3, {"fd1", "out"})
                  \/ Moves(p, "ls", k + 4, {"fd1", "out"})
                  \/ Moves(p, "ended", k + 3, {})
                  \/ Moves(p, "ended", k + 4, {}) /\ ~ThePipe!MoreLines
                  \/ Moves(p, "killed", k + 4, {}) /\ ~ThePipe!ReadEndOpen /\ "out" \in ends[p]
            \/ /\ Moves(p, "ls", k + 4, {"fd1", "out"}) /\ "out" \in ends[p]
               /\ ThePipe!MoreLines /\ inPipe < PipeSize
               /\ inPipe' = inPipe + 1 /\ written' = written + 1
<1>1. p \in ThePipe!Processes /\ pc[p] \in 1..7
  BY DEF ThePipe!Processes, PipeTypes
<1>2. /\ at = [at EXCEPT ![p] = at[p]]
      /\ pc = [pc EXCEPT ![p] = pc[p]]
      /\ ends = [ends EXCEPT ![p] = ends[p]]
  BY <1>1, Kept
<1>3. CASE ThePipe!CloseEnd(p)
  <2>1. pc[p] = k + 1 /\ ThePipe!About(p) = "fd0" /\ at[p] = "script"
    BY <1>1, <1>3 DEF ReachedLs, ThePipe!CloseEnd, ThePipe!Does
  <2>2. ends[p] = {"fd0", "fd1"} /\ {"fd0", "fd1"} \ {"fd0"} = {"fd1"} /\ pc[p] + 1 = k + 2
    BY <2>1 DEF LsRole
  <2>. QED
    BY <1>2, <1>3, <2>1, <2>2 DEF ThePipe!CloseEnd, ThePipe!Goes, ThePipe!data, Moves
<1>4. CASE ThePipe!Dup2(p)
  <2>1. pc[p] = k + 2 /\ ThePipe!About(p) = "fd1" /\ at[p] = "script"
    BY <1>1, <1>4 DEF ReachedLs, ThePipe!Dup2, ThePipe!Does
  <2>2. ends[p] = {"fd1"} /\ {"fd1"} \cup {"out"} = {"fd1", "out"} /\ pc[p] + 1 = k + 3
    BY <2>1 DEF LsRole
  <2>. QED
    BY <1>2, <1>4, <2>1, <2>2 DEF ThePipe!Dup2, ThePipe!Goes, ThePipe!data, Moves
<1>5. CASE ThePipe!Exec(p)
  <2>1. pc[p] = k + 3 /\ ThePipe!About(p) = "ls" /\ at[p] = "script"
    BY <1>1, <1>5 DEF ReachedLs, ThePipe!Exec, ThePipe!Does
  <2>2. ends[p] = {"fd1", "out"} /\ pc[p] + 1 = k + 4
    BY <2>1 DEF LsRole
  <2>. QED
    BY <1>2, <1>5, <2>1, <2>2 DEF ThePipe!Exec, ThePipe!Leaves, ThePipe!Goes, ThePipe!data, Moves
<1>6. CASE ThePipe!RunLs(p)
  <2>1. at[p] = "ls" /\ pc[p] = k + 4 /\ ends[p] = {"fd1", "out"} /\ "out" \in ends[p]
    BY <1>6 DEF ThePipe!RunLs, LsRole
  <2>2. CASE ThePipe!MoreLines /\ ThePipe!Write(p)
    BY <1>2, <2>1, <2>2 DEF ThePipe!Write, ThePipe!Leaves, Moves
  <2>3. CASE ~ThePipe!MoreLines /\ ThePipe!Leaves(p, "ended") /\ UNCHANGED <<program, pc, ThePipe!data, reaped>>
    BY <1>2, <2>1, <2>3 DEF ThePipe!Leaves, ThePipe!data, Moves
  <2>. QED
    BY <1>6, <2>1, <2>2, <2>3 DEF ThePipe!RunLs
<1>7. ~ThePipe!Exit(p)
  <2>1. at[p] = "script" => pc[p] <= k + 3
    BY DEF LsRole
  <2>2. Len(ThePipe!Script(p)) = k + 3
    BY DEF ReachedLs
  <2>3. \A n \in 1..7 : n <= k + 3 => ~(n > k + 3)
    OBVIOUS
  <2>. QED
    BY <1>1, <2>1, <2>2, <2>3, Zenon DEF ThePipe!Exit
<1>8. ~ThePipe!RunWc(p)
  BY DEF ThePipe!RunWc, LsRole
<1>9. \A call \in {"fork", "wait", "write", "read"} : ~ThePipe!Does(p, call)
  BY DEF ReachedLs
<1>. QED
  BY <1>3, <1>4, <1>5, <1>6, <1>7, <1>8, <1>9
  DEF ThePipe!Step, ThePipe!Fork, ThePipe!Wait, ThePipe!ReadOnce

LEMMA LsKeeps ==
  ASSUME PipeTypes, NEW p \in {"parent", "younger"}, NEW k \in {0, 1},
         LsRole(p, k), ReachedLs(p, k), WcRole("elder"), at["elder"] # "none", Counted,
         ThePipe!Step(p)
  PROVE  /\ PipeTypes' /\ LsRole(p, k)' /\ Counted' /\ UNCHANGED program
         /\ at'[p] # "none" /\ pc'[p] > k + 1
         /\ \A q \in ThePipe!Processes : q # p =>
              at'[q] = at[q] /\ pc'[q] = pc[q] /\ ends'[q] = ends[q]
<1>1. /\ p \in ThePipe!Processes /\ "elder" \in ThePipe!Processes /\ p # "elder"
      /\ {} \in SUBSET {"fd0", "fd1", "in", "out"}
      /\ {"fd1"} \in SUBSET {"fd0", "fd1", "in", "out"}
      /\ {"fd1", "out"} \in SUBSET {"fd0", "fd1", "in", "out"}
  BY DEF ThePipe!Processes
<1>2. at[p] \in {"script", "ls"} /\ UNCHANGED <<program, got, printed, reaped>>
  BY LsShape
<1>3. printed = -1 /\ printed' = -1 /\ reaped' \subseteq ThePipe!Children
  <2>1. "fd1" \in ends[p]
    BY <1>2 DEF LsRole
  <2>2. ThePipe!WriteEndOpen
    BY <1>1, <2>1 DEF ThePipe!WriteEndOpen
  <2>3. ~(printed >= 0)
    BY <2>2 DEF Counted
  <2>4. printed = -1
    BY <2>3 DEF PipeTypes
  <2>. QED
    BY <1>2, <2>4 DEF PipeTypes
<1>4. PICK i \in 0..PipeSize, w \in Nat, g \in Nat :
        i = inPipe /\ w = written /\ g = got /\ w = g + i
  BY DEF PipeTypes
<1>5. /\ i < PipeSize => i + 1 \in 0..PipeSize
      /\ w + 1 \in Nat /\ -1 \in -1..g /\ w + 1 = g + (i + 1) /\ ~(-1 >= 0)
  BY PipesAssumed, <1>4
<1>6. /\ inPipe' \in 0..PipeSize /\ written' \in Nat /\ got' \in Nat /\ printed' \in -1..got'
      /\ written' = got' + inPipe' /\ written' <= Lines
  <2>1. CASE UNCHANGED <<inPipe, written>>
    BY <1>2, <2>1 DEF PipeTypes, Counted
  <2>2. CASE /\ ThePipe!MoreLines /\ inPipe < PipeSize
             /\ inPipe' = inPipe + 1 /\ written' = written + 1
    <3>1. w + 1 <= Lines
      BY <1>4, <2>2, PipesAssumed DEF ThePipe!MoreLines
    <3>2. i < PipeSize
      BY <1>4, <2>2
    <3>. QED
      BY <1>2, <1>3, <1>4, <1>5, <2>2, <3>1, <3>2
  <2>. QED
    BY <2>1, <2>2, LsShape
<1>7. k + 2 \in 1..7 /\ k + 3 \in 1..7 /\ k + 4 \in 1..7
  OBVIOUS
<1>8. PICK s \in {"script", "ls", "ended", "killed"}, n \in {k + 2, k + 3, k + 4},
           e \in SUBSET {"fd0", "fd1", "in", "out"} :
        /\ Moves(p, s, n, e)
        /\ s \in {"ended", "killed"} => e = {}
        /\ s = "script" => (n = k + 2 /\ e = {"fd1"}) \/ (n = k + 3 /\ e = {"fd1", "out"})
        /\ s = "ls" => n = k + 4 /\ e = {"fd1", "out"}
        /\ s = "ended" /\ n = k + 4 => ~ThePipe!MoreLines /\ UNCHANGED written
        /\ s = "killed" => ~ThePipe!ReadEndOpen
  <2>1. CASE Moves(p, "script", k + 2, {"fd1"})
    BY <1>1, <2>1
  <2>2. CASE Moves(p, "script", k + 3, {"fd1", "out"})
    BY <1>1, <2>2
  <2>3. CASE Moves(p, "ls", k + 4, {"fd1", "out"})
    BY <1>1, <2>3
  <2>4. CASE Moves(p, "ended", k + 3, {})
    BY <1>1, <2>4
  <2>5. CASE Moves(p, "ended", k + 4, {}) /\ ~ThePipe!MoreLines /\ UNCHANGED written
    BY <1>1, <2>5
  <2>6. CASE Moves(p, "killed", k + 4, {}) /\ ~ThePipe!ReadEndOpen
    BY <1>1, <2>6
  <2>. QED
    BY <2>1, <2>2, <2>3, <2>4, <2>5, <2>6, LsShape
<1>9. n \in 1..7 /\ s \in {"none", "script", "wc", "ls", "ended", "killed"}
      /\ s \in {"script", "wc", "ls", "ended", "killed"}
  BY <1>7
<1>10. PipeTypes'
  BY <1>1, <1>2, <1>3, <1>6, <1>8, <1>9, PipeTypesKept
<1>11. /\ at'[p] = s /\ pc'[p] = n /\ ends'[p] = e
       /\ \A q \in ThePipe!Processes : q # p =>
            at'[q] = at[q] /\ pc'[q] = pc[q] /\ ends'[q] = ends[q]
  BY <1>1, <1>8, <1>9, Moved
<1>12. s = "killed" => at'["elder"] = "ended"
  <2>. SUFFICES ASSUME s = "killed" PROVE at["elder"] = "ended"
    BY <1>1, <1>11
  <2>1. "fd0" \notin ends["elder"]
    BY <1>1, <1>8 DEF ThePipe!ReadEndOpen
  <2>. QED
    BY <2>1 DEF WcRole
<1>13. s = "ended" /\ n = k + 4 => written' = Lines
  BY <1>4, <1>8, PipesAssumed DEF ThePipe!MoreLines, Counted
<1>14. LsRole(p, k)'
  <2>1. /\ n <= k + 4
        /\ s = "script" => n <= k + 3 /\ e = CASE n <= k + 1 -> {"fd0", "fd1"}
                                               [] n = k + 2 -> {"fd1"}
                                               [] OTHER -> {"fd1", "out"}
    BY <1>8
  <2>. QED
    BY <1>3, <1>8, <1>11, <1>12, <1>13, <2>1 DEF LsRole
<1>15. Counted'
  BY <1>3, <1>5, <1>6 DEF Counted
<1>16. s # "none" /\ n > k + 1
  OBVIOUS
<1>. QED
  BY <1>2, <1>10, <1>11, <1>14, <1>15, <1>16

\* A process that is not of the program takes no step
LEMMA NotThere ==
  ASSUME NEW p \in ThePipe!Processes, at[p] \notin {"script", "wc", "ls"}
  PROVE  ~ThePipe!Step(p)
  BY DEF ThePipe!Step, ThePipe!Fork, ThePipe!CloseEnd, ThePipe!Dup2, ThePipe!Exec, ThePipe!Wait,
     ThePipe!Exit, ThePipe!ReadOnce, ThePipe!RunLs, ThePipe!RunWc, ThePipe!Does

\* The parent starts another process, which inherits its ends, or cannot and ends
LEMMA Forked ==
  ASSUME PipeTypes, NEW c \in ThePipe!Children, NEW n \in {1, 2}, pc["parent"] = n,
         ThePipe!Fork("parent"), ThePipe!About("parent") = c
  PROVE  /\ PipeTypes' /\ UNCHANGED <<program, inPipe, written, got, printed>>
         /\ at["parent"] = "script"
         /\ \/ /\ at'["parent"] = "ended" /\ ends'["parent"] = {} /\ pc'["parent"] = n
               /\ \A q \in ThePipe!Children :
                    at'[q] = at[q] /\ pc'[q] = pc[q] /\ ends'[q] = ends[q]
            \/ /\ at'["parent"] = "script" /\ ends'["parent"] = ends["parent"]
               /\ pc'["parent"] = n + 1
               /\ at'[c] = "script" /\ ends'[c] = ends["parent"]
               /\ \A q \in ThePipe!Children : pc'[q] = pc[q]
               /\ \A q \in ThePipe!Children : q # c => at'[q] = at[q] /\ ends'[q] = ends[q]
<1>1. /\ "parent" \in ThePipe!Processes /\ ThePipe!Children \subseteq ThePipe!Processes
      /\ "parent" \notin ThePipe!Children
      /\ \A q \in ThePipe!Processes : q = "parent" \/ q \in ThePipe!Children
  BY DEF ThePipe!Processes, ThePipe!Children
<1>2. UNCHANGED <<program, inPipe, written, got, printed, reaped>> /\ at["parent"] = "script"
  BY DEF ThePipe!Fork, ThePipe!data, ThePipe!Does
<1>3. n + 1 \in 1..7 /\ n \in 1..7
  OBVIOUS
<1>4. /\ pc = [pc EXCEPT !["parent"] = pc["parent"]]
      /\ ends["parent"] \in SUBSET {"fd0", "fd1", "in", "out"}
  BY <1>1, Kept
<1>5. CASE ThePipe!Leaves("parent", "ended") /\ UNCHANGED pc
  <2>1. Moves("parent", "ended", n, {})
    BY <1>4, <1>5 DEF ThePipe!Leaves, Moves
  <2>2. /\ {} \in SUBSET {"fd0", "fd1", "in", "out"} /\ reaped' \subseteq ThePipe!Children
        /\ inPipe' \in 0..PipeSize /\ written' \in Nat /\ got' \in Nat /\ printed' \in -1..got'
        /\ written' = got' + inPipe'
    BY <1>2 DEF PipeTypes
  <2>3. PipeTypes'
    BY <1>1, <1>2, <1>3, <2>1, <2>2, PipeTypesKept
  <2>4. /\ at'["parent"] = "ended" /\ pc'["parent"] = n /\ ends'["parent"] = {}
        /\ \A q \in ThePipe!Processes : q # "parent" =>
             at'[q] = at[q] /\ pc'[q] = pc[q] /\ ends'[q] = ends[q]
    BY <1>1, <1>3, <2>1, <2>2, Moved
  <2>. QED
    BY <1>1, <1>2, <2>3, <2>4
<1>6. CASE /\ at' = [at EXCEPT ![c] = "script"] /\ ends' = [ends EXCEPT ![c] = ends["parent"]]
           /\ pc' = [pc EXCEPT !["parent"] = n + 1]
  <2>1. /\ at' \in [ThePipe!Processes -> {"none", "script", "wc", "ls", "ended", "killed"}]
        /\ at'[c] = "script" /\ \A q \in ThePipe!Processes : q # c => at'[q] = at[q]
    BY <1>1, <1>6 DEF PipeTypes
  <2>2. /\ pc' \in [ThePipe!Processes -> 1..7] /\ pc'["parent"] = n + 1
        /\ \A q \in ThePipe!Processes : q # "parent" => pc'[q] = pc[q]
    BY <1>1, <1>3, <1>6 DEF PipeTypes
  <2>3. /\ ends' \in [ThePipe!Processes -> SUBSET {"fd0", "fd1", "in", "out"}]
        /\ ends'[c] = ends["parent"] /\ \A q \in ThePipe!Processes : q # c => ends'[q] = ends[q]
    BY <1>1, <1>4, <1>6 DEF PipeTypes
  <2>4. PipeTypes'
    BY <1>2, <2>1, <2>2, <2>3 DEF PipeTypes
  <2>. QED
    BY <1>1, <1>2, <2>1, <2>2, <2>3, <2>4
<1>. QED
  BY <1>5, <1>6 DEF ThePipe!Fork, ThePipe!Goes

LEMMA LsWcStep ==
  ASSUME PipeTypes, LsWc, program = "ls-wc-l", ThePipe!Next
  PROVE  PipeTypes' /\ LsWc' /\ program' = program
<1>1. PICK p \in ThePipe!Processes : ThePipe!Step(p)
  BY DEF ThePipe!Next
<1>2. /\ "parent" \in ThePipe!Processes /\ "elder" \in ThePipe!Processes
      /\ "younger" \in ThePipe!Processes /\ pc["parent"] \in 1..7
  BY DEF ThePipe!Processes, PipeTypes
<1>3. CASE p = "elder"
  <2>1. ThePipe!Script("elder") = ThePipe!Wc
    BY LsWcScripts
  <2>2. /\ PipeTypes' /\ WcRole("elder")' /\ Counted' /\ UNCHANGED <<program, written>>
        /\ at["elder"] \in {"script", "wc"} /\ at'["elder"] # "none"
        /\ \A q \in ThePipe!Processes : q # "elder" =>
             at'[q] = at[q] /\ pc'[q] = pc[q] /\ ends'[q] = ends[q]
    BY <1>1, <1>3, <2>1, WcKeeps DEF LsWc
  <2>3. /\ at'["parent"] = at["parent"] /\ pc'["parent"] = pc["parent"]
        /\ ends'["parent"] = ends["parent"] /\ at'["younger"] = at["younger"]
    BY <1>2, <2>2
  <2>4. at["parent"] # "killed"
    BY <2>2 DEF LsWc, LsRole
  <2>5. LsRole("parent", 1)'
    BY <2>2, <2>3, <2>4 DEF LsWc, LsRole
  <2>. QED
    BY <2>2, <2>3, <2>5 DEF LsWc
<1>4. CASE p = "parent" /\ pc["parent"] > 1
  <2>1. ReachedLs("parent", 1)
    <3>1. ThePipe!Script("parent") = <<<<"fork", "elder">>>> \o ThePipe!Ls
      BY LsWcScripts
    <3>2. /\ Len(ThePipe!Script("parent")) = 4
          /\ \A call : ThePipe!Does("parent", call) =>
               \/ pc["parent"] = 1 /\ call = "fork" /\ ThePipe!About("parent") = "elder"
               \/ pc["parent"] = 2 /\ call = "close" /\ ThePipe!About("parent") = "fd0"
               \/ pc["parent"] = 3 /\ call = "dup2" /\ ThePipe!About("parent") = "fd1"
               \/ pc["parent"] = 4 /\ call = "exec" /\ ThePipe!About("parent") = "ls"
      BY <1>2, <3>1, ForkLsDoes
    <3>3. pc["parent"] # 1 /\ 1 + 1 = 2 /\ 1 + 2 = 3 /\ 1 + 3 = 4
      BY <1>2, <1>4
    <3>. QED
      BY <1>4, <3>2, <3>3, Zenon DEF ReachedLs
  <2>2. at["elder"] # "none"
    BY <1>4 DEF LsWc
  <2>3. /\ PipeTypes' /\ LsRole("parent", 1)' /\ Counted' /\ UNCHANGED program
        /\ at'["parent"] # "none" /\ pc'["parent"] > 1 + 1
        /\ \A q \in ThePipe!Processes : q # "parent" =>
             at'[q] = at[q] /\ pc'[q] = pc[q] /\ ends'[q] = ends[q]
    BY <1>1, <1>4, <2>1, <2>2, LsKeeps DEF LsWc
  <2>4. /\ at'["elder"] = at["elder"] /\ pc'["elder"] = pc["elder"]
        /\ ends'["elder"] = ends["elder"] /\ at'["younger"] = at["younger"]
    BY <1>2, <2>3
  <2>5. WcRole("elder")'
    BY <2>4 DEF LsWc, WcRole
  <2>6. pc'["parent"] # 1
    BY <2>3
  <2>. QED
    BY <2>2, <2>3, <2>4, <2>5, <2>6 DEF LsWc
<1>5. CASE p = "parent" /\ ~(pc["parent"] > 1)
  <2>1. pc["parent"] = 1 /\ at["elder"] = "none" /\ at["parent"] = "script"
    <3>1. pc["parent"] = 1
      BY <1>2, <1>5
    <3>2. at["parent"] \in {"script", "wc", "ls"}
      BY <1>1, <1>5, NotThere
    <3>. QED
      BY <3>1, <3>2 DEF LsWc, LsRole
  <2>2. /\ ThePipe!Fork("parent") /\ ThePipe!About("parent") = "elder"
        /\ "elder" \in ThePipe!Children
    <3>1. ThePipe!Script("parent") = <<<<"fork", "elder">>>> \o ThePipe!Ls
      BY LsWcScripts
    <3>2. /\ Len(ThePipe!Script("parent")) = 4
          /\ \A call : ThePipe!Does("parent", call) => call = "fork" /\ ThePipe!About("parent") = "elder"
      BY <1>2, <2>1, <3>1, ForkLsDoes
    <3>3. ~ThePipe!Exit("parent")
      BY <2>1, <3>2 DEF ThePipe!Exit
    <3>4. \A call \in {"close", "dup2", "exec", "wait", "write", "read"} : ~ThePipe!Does("parent", call)
      BY <3>2
    <3>5. ThePipe!Fork("parent")
      BY <1>1, <1>5, <2>1, <3>3, <3>4
      DEF ThePipe!Step, ThePipe!CloseEnd, ThePipe!Dup2, ThePipe!Exec, ThePipe!Wait,
          ThePipe!ReadOnce, ThePipe!RunLs, ThePipe!RunWc
    <3>. QED
      BY <3>2, <3>5 DEF ThePipe!Fork, ThePipe!Children, ThePipe!Processes
  <2>3. /\ PipeTypes' /\ UNCHANGED <<program, inPipe, written, got, printed>>
        /\ \/ /\ at'["parent"] = "ended" /\ ends'["parent"] = {} /\ pc'["parent"] = 1
              /\ \A q \in ThePipe!Children :
                   at'[q] = at[q] /\ pc'[q] = pc[q] /\ ends'[q] = ends[q]
           \/ /\ at'["parent"] = "script" /\ ends'["parent"] = ends["parent"]
              /\ pc'["parent"] = 1 + 1
              /\ at'["elder"] = "script" /\ ends'["elder"] = ends["parent"]
              /\ \A q \in ThePipe!Children : pc'[q] = pc[q]
              /\ \A q \in ThePipe!Children : q # "elder" => at'[q] = at[q] /\ ends'[q] = ends[q]
    BY <2>1, <2>2, Forked
  <2>4. /\ "elder" \in ThePipe!Children /\ "younger" \in ThePipe!Children /\ "younger" # "elder"
        /\ 1 + 1 = 2
    BY DEF ThePipe!Children, ThePipe!Processes
  <2>5. Counted'
    <3>1. written <= Lines /\ ~(printed >= 0)
      BY <2>1 DEF LsWc, Counted
    <3>. QED
      BY <2>3, <3>1 DEF Counted
  <2>6. ends["parent"] = {"fd0", "fd1"} /\ pc["elder"] = 1 /\ at["younger"] = "none"
    BY <2>1 DEF LsWc, WcRole, LsRole
  <2>7. WcRole("elder")'
    BY <2>1, <2>3, <2>4, <2>6 DEF WcRole
  <2>8. LsRole("parent", 1)'
    BY <2>1, <2>3, <2>4, <2>6 DEF LsRole
  <2>. QED
    BY <2>1, <2>3, <2>4, <2>5, <2>6, <2>7, <2>8 DEF LsWc
<1>6. CASE p = "younger"
  BY <1>1, <1>6, NotThere DEF LsWc
<1>. QED
  BY <1>3, <1>4, <1>5, <1>6 DEF ThePipe!Processes

LEMMA BroForks ==
  ASSUME PipeTypes, Brothers, program = "pipe_bro", ThePipe!Fork("parent")
  PROVE  PipeTypes' /\ Brothers' /\ program' = program
<1>1. /\ "parent" \in ThePipe!Processes /\ pc["parent"] \in 1..7
      /\ "elder" \in ThePipe!Children /\ "younger" \in ThePipe!Children
      /\ \A q \in ThePipe!Children : q \in {"elder", "younger"}
  BY DEF ThePipe!Processes, ThePipe!Children, PipeTypes
<1>2. ThePipe!Does("parent", "fork") /\ at["parent"] = "script"
  BY DEF ThePipe!Fork, ThePipe!Does
<1>3. PICK n \in {1, 2}, c \in ThePipe!Children :
        /\ pc["parent"] = n /\ ThePipe!About("parent") = c
        /\ n = 1 => c = "elder"
        /\ n = 2 => c = "younger"
  BY <1>1, <1>2, BroScripts, BroParentDoes
<1>4. /\ PipeTypes' /\ UNCHANGED <<program, inPipe, written, got, printed>>
      /\ \/ /\ at'["parent"] = "ended" /\ ends'["parent"] = {} /\ pc'["parent"] = n
            /\ \A q \in ThePipe!Children :
                 at'[q] = at[q] /\ pc'[q] = pc[q] /\ ends'[q] = ends[q]
         \/ /\ at'["parent"] = "script" /\ ends'["parent"] = ends["parent"]
            /\ pc'["parent"] = n + 1
            /\ at'[c] = "script" /\ ends'[c] = ends["parent"]
            /\ \A q \in ThePipe!Children : pc'[q] = pc[q]
            /\ \A q \in ThePipe!Children : q # c => at'[q] = at[q] /\ ends'[q] = ends[q]
  BY <1>3, Forked
<1>5. ends["parent"] = {"fd0", "fd1"}
  BY <1>2, <1>3 DEF Brothers
<1>6. Counted'
  <2>1. ThePipe!WriteEndOpen
    BY <1>1, <1>5 DEF ThePipe!WriteEndOpen
  <2>2. written <= Lines /\ ~(printed >= 0)
    BY <2>1 DEF Brothers, Counted
  <2>. QED
    BY <1>4, <2>2 DEF Counted
<1>7. CASE n = 1
  <2>1. /\ c = "elder" /\ at["elder"] = "none" /\ at["younger"] = "none"
        /\ pc["elder"] = 1 /\ pc["younger"] = 1
    BY <1>3, <1>7 DEF Brothers, WcRole, LsRole
  <2>2. at'["younger"] = "none" /\ pc'["younger"] = 1 /\ at'["parent"] \in {"script", "ended"}
    BY <1>1, <1>4, <2>1
  <2>3. WcRole("elder")'
    <3>1. /\ pc'["elder"] = 1
          /\ \/ at'["elder"] = "none"
             \/ at'["elder"] = "script" /\ ends'["elder"] = {"fd0", "fd1"}
      BY <1>1, <1>4, <1>5, <2>1
    <3>2. CASE at'["elder"] = "none"
      BY <3>1, <3>2 DEF WcRole
    <3>3. CASE at'["elder"] = "script" /\ ends'["elder"] = {"fd0", "fd1"}
      BY <3>1, <3>3 DEF WcRole
    <3>. QED
      BY <3>1, <3>2, <3>3
  <2>4. LsRole("younger", 0)'
    BY <2>2 DEF LsRole
  <2>5. (at'["elder"] = "none") <=> (pc'["parent"] = 1)
    BY <1>1, <1>4, <1>7, <2>1
  <2>6. pc'["parent"] <= 2 /\ (at'["parent"] = "script" => ends'["parent"] = {"fd0", "fd1"})
    BY <1>4, <1>5, <1>7
  <2>7. pc'["parent"] <= 3 /\ at'["younger"] = "none"
    BY <1>4, <1>7, <2>2
  <2>. QED
    BY <1>4, <1>6, <2>2, <2>3, <2>4, <2>5, <2>6, <2>7 DEF Brothers
<1>8. CASE n = 2
  <2>1. /\ c = "younger" /\ at["elder"] # "none" /\ at["younger"] = "none" /\ pc["younger"] = 1
    BY <1>3, <1>8 DEF Brothers, LsRole
  <2>2. /\ at'["elder"] = at["elder"] /\ pc'["elder"] = pc["elder"] /\ ends'["elder"] = ends["elder"]
        /\ at'["parent"] \in {"script", "ended"}
    BY <1>1, <1>4, <2>1
  <2>3. WcRole("elder")'
    BY <2>2 DEF Brothers, WcRole
  <2>4. LsRole("younger", 0)'
    <3>1. /\ pc'["younger"] = 1
          /\ \/ at'["younger"] = "none"
             \/ at'["younger"] = "script" /\ ends'["younger"] = {"fd0", "fd1"}
      BY <1>1, <1>4, <1>5, <2>1
    <3>2. 1 <= 0 + 4 /\ 1 <= 0 + 3 /\ 1 <= 0 + 1
      OBVIOUS
    <3>. QED
      BY <3>1, <3>2 DEF LsRole
  <2>5. /\ (at'["younger"] = "none") <=> (pc'["parent"] <= 2)
        /\ pc'["parent"] # 1 /\ pc'["parent"] <= 3
        /\ at'["parent"] = "script" => ends'["parent"] = {"fd0", "fd1"}
    BY <1>1, <1>4, <1>5, <1>8, <2>1
  <2>. QED
    BY <1>4, <1>6, <2>1, <2>2, <2>3, <2>4, <2>5 DEF Brothers
<1>. QED
  BY <1>7, <1>8

LEMMA BroGoesOn ==
  ASSUME PipeTypes, Brothers, program = "pipe_bro", ThePipe!Step("parent"),
         ~ThePipe!Fork("parent")
  PROVE  PipeTypes' /\ Brothers' /\ program' = program
<1>1. /\ "parent" \in ThePipe!Processes /\ pc["parent"] \in 1..7
      /\ "elder" \in ThePipe!Processes /\ "younger" \in ThePipe!Processes
      /\ {} \in SUBSET {"fd0", "fd1", "in", "out"} /\ {"fd1"} \in SUBSET {"fd0", "fd1", "in", "out"}
  BY DEF ThePipe!Processes, PipeTypes
<1>2. at["parent"] = "script"
  BY <1>1, NotThere DEF Brothers
<1>3. /\ at = [at EXCEPT !["parent"] = at["parent"]]
      /\ ends = [ends EXCEPT !["parent"] = ends["parent"]]
      /\ pc = [pc EXCEPT !["parent"] = pc["parent"]]
  BY <1>1, Kept
<1>4. /\ Len(ThePipe!Script("parent")) = 6
      /\ \A call : ThePipe!Does("parent", call) =>
           \/ pc["parent"] = 1 /\ call = "fork" /\ ThePipe!About("parent") = "elder"
           \/ pc["parent"] = 2 /\ call = "fork" /\ ThePipe!About("parent") = "younger"
           \/ pc["parent"] = 3 /\ call = "close" /\ ThePipe!About("parent") = "fd0"
           \/ pc["parent"] = 4 /\ call = "close" /\ ThePipe!About("parent") = "fd1"
           \/ pc["parent"] \in {5, 6} /\ call = "wait"
  BY <1>1, BroScripts, BroParentDoes
<1>5. /\ UNCHANGED <<program, inPipe, written, got, printed>> /\ reaped' \subseteq ThePipe!Children
      /\ \/ Moves("parent", "script", 4, {"fd1"}) /\ pc["parent"] = 3
         \/ Moves("parent", "script", 5, {}) /\ pc["parent"] = 4
         \/ Moves("parent", "script", 6, {}) /\ pc["parent"] = 5
         \/ Moves("parent", "script", 7, {}) /\ pc["parent"] = 6
         \/ Moves("parent", "ended", 7, {}) /\ pc["parent"] = 7
  <2>1. CASE ThePipe!CloseEnd("parent")
    <3>1. CASE pc["parent"] = 3 /\ ThePipe!About("parent") = "fd0"
      <4>1. ends["parent"] = {"fd0", "fd1"} /\ {"fd0", "fd1"} \ {"fd0"} = {"fd1"} /\ 3 + 1 = 4
        BY <1>2, <3>1 DEF Brothers
      <4>. QED
        BY <1>2, <1>3, <2>1, <3>1, <4>1
        DEF ThePipe!CloseEnd, ThePipe!Goes, ThePipe!data, Moves, PipeTypes
    <3>2. CASE pc["parent"] = 4 /\ ThePipe!About("parent") = "fd1"
      <4>1. ends["parent"] = {"fd1"} /\ {"fd1"} \ {"fd1"} = {} /\ 4 + 1 = 5
        BY <1>2, <3>2 DEF Brothers
      <4>. QED
        BY <1>2, <1>3, <2>1, <3>2, <4>1
        DEF ThePipe!CloseEnd, ThePipe!Goes, ThePipe!data, Moves, PipeTypes
    <3>. QED
      BY <1>4, <2>1, <3>1, <3>2 DEF ThePipe!CloseEnd
  <2>2. CASE ThePipe!Wait("parent")
    <3>1. pc["parent"] \in {5, 6} /\ 5 + 1 = 6 /\ 6 + 1 = 7
      BY <1>4, <2>2 DEF ThePipe!Wait
    <3>2. ends["parent"] = {}
      BY <1>2, <3>1 DEF Brothers
    <3>3. pc' = [pc EXCEPT !["parent"] = pc["parent"] + 1] /\ UNCHANGED <<program, at, ends, ThePipe!data>>
      BY <2>2 DEF ThePipe!Wait, ThePipe!Goes
    <3>4. reaped' \subseteq ThePipe!Children
      BY <2>2 DEF ThePipe!Wait, PipeTypes
    <3>. QED
      BY <1>2, <1>3, <3>1, <3>2, <3>3, <3>4 DEF Moves, ThePipe!data
  <2>3. CASE ThePipe!Exit("parent")
    <3>1. pc["parent"] > 6
      BY <1>4, <2>3 DEF ThePipe!Exit
    <3>2. pc["parent"] = 7
      BY <1>1, <3>1
    <3>. QED
      BY <1>3, <2>3, <3>2 DEF ThePipe!Exit, ThePipe!Leaves, ThePipe!data, Moves, PipeTypes
  <2>4. \A call \in {"dup2", "exec", "write", "read"} : ~ThePipe!Does("parent", call)
    BY <1>4
  <2>. QED
    BY <1>2, <2>1, <2>2, <2>3, <2>4
    DEF ThePipe!Step, ThePipe!Dup2, ThePipe!Exec, ThePipe!ReadOnce, ThePipe!RunLs, ThePipe!RunWc
<1>6. PICK s \in {"script", "ended"}, n \in {4, 5, 6, 7}, e \in SUBSET {"fd0", "fd1", "in", "out"} :
        /\ Moves("parent", s, n, e) /\ pc["parent"] \in 3..7
        /\ s = "ended" => e = {}
        /\ n = 4 => e = {"fd1"} /\ pc["parent"] = 3
        /\ n # 4 => e = {}
  <2>1. CASE Moves("parent", "script", 4, {"fd1"}) /\ pc["parent"] = 3
    BY <1>1, <2>1
  <2>2. CASE Moves("parent", "script", 5, {}) /\ pc["parent"] = 4
    BY <1>1, <2>2
  <2>3. CASE Moves("parent", "script", 6, {}) /\ pc["parent"] = 5
    BY <1>1, <2>3
  <2>4. CASE Moves("parent", "script", 7, {}) /\ pc["parent"] = 6
    BY <1>1, <2>4
  <2>5. CASE Moves("parent", "ended", 7, {}) /\ pc["parent"] = 7
    BY <1>1, <2>5
  <2>. QED
    BY <1>5, <2>1, <2>2, <2>3, <2>4, <2>5
<1>7. n \in 1..7 /\ s \in {"none", "script", "wc", "ls", "ended", "killed"}
      /\ s \in {"script", "wc", "ls", "ended", "killed"}
  OBVIOUS
<1>8. /\ inPipe' \in 0..PipeSize /\ written' \in Nat /\ got' \in Nat /\ printed' \in -1..got'
      /\ written' = got' + inPipe'
  BY <1>5 DEF PipeTypes
<1>9. PipeTypes'
  BY <1>1, <1>5, <1>6, <1>7, <1>8, PipeTypesKept
<1>10. /\ at'["parent"] = s /\ pc'["parent"] = n /\ ends'["parent"] = e
       /\ \A q \in ThePipe!Processes : q # "parent" =>
            at'[q] = at[q] /\ pc'[q] = pc[q] /\ ends'[q] = ends[q]
  BY <1>1, <1>6, <1>7, Moved
<1>11. /\ at'["elder"] = at["elder"] /\ pc'["elder"] = pc["elder"] /\ ends'["elder"] = ends["elder"]
       /\ at'["younger"] = at["younger"] /\ pc'["younger"] = pc["younger"]
       /\ ends'["younger"] = ends["younger"]
  BY <1>1, <1>10
<1>12. at["elder"] # "none" /\ at["younger"] # "none"
  BY <1>6 DEF Brothers
<1>13. WcRole("elder")'
  BY <1>11 DEF Brothers, WcRole
<1>14. LsRole("younger", 0)'
  BY <1>5, <1>11 DEF Brothers, LsRole
<1>15. Counted'
  <2>1. ThePipe!WriteEndOpen' => ThePipe!WriteEndOpen
    <3>. SUFFICES ASSUME NEW q \in ThePipe!Processes, ends'[q] \cap {"fd1", "out"} # {}
                  PROVE  ThePipe!WriteEndOpen
      BY DEF ThePipe!WriteEndOpen
    <3>1. CASE q = "parent"
      <4>1. n = 4 /\ pc["parent"] = 3
        BY <1>6, <1>10, <3>1
      <4>2. ends["parent"] = {"fd0", "fd1"}
        BY <1>2, <4>1 DEF Brothers
      <4>. QED
        BY <1>1, <4>2 DEF ThePipe!WriteEndOpen
    <3>2. CASE q # "parent"
      BY <1>10, <3>2 DEF ThePipe!WriteEndOpen
    <3>. QED
      BY <3>1, <3>2
  <2>. QED
    BY <1>5, <1>11, <2>1 DEF Brothers, Counted
<1>16. /\ n # 1 /\ ~(n <= 2)
       /\ s = "script" => e = CASE n <= 3 -> {"fd0", "fd1"} [] n = 4 -> {"fd1"} [] OTHER -> {}
  BY <1>6
<1>. QED
  BY <1>5, <1>9, <1>10, <1>11, <1>12, <1>13, <1>14, <1>15, <1>16 DEF Brothers

LEMMA BroStep ==
  ASSUME PipeTypes, Brothers, program = "pipe_bro", ThePipe!Next
  PROVE  PipeTypes' /\ Brothers' /\ program' = program
<1>1. PICK p \in ThePipe!Processes : ThePipe!Step(p)
  BY DEF ThePipe!Next
<1>2. /\ "parent" \in ThePipe!Processes /\ "elder" \in ThePipe!Processes
      /\ "younger" \in ThePipe!Processes /\ pc["parent"] \in 1..7 /\ pc["younger"] \in 1..7
  BY DEF ThePipe!Processes, PipeTypes
<1>3. CASE p = "elder"
  <2>1. ThePipe!Script("elder") = ThePipe!Wc
    BY BroScripts
  <2>2. /\ PipeTypes' /\ WcRole("elder")' /\ Counted' /\ UNCHANGED <<program, written>>
        /\ at["elder"] \in {"script", "wc"} /\ at'["elder"] # "none"
        /\ \A q \in ThePipe!Processes : q # "elder" =>
             at'[q] = at[q] /\ pc'[q] = pc[q] /\ ends'[q] = ends[q]
    BY <1>1, <1>3, <2>1, WcKeeps DEF Brothers
  <2>3. /\ at'["parent"] = at["parent"] /\ pc'["parent"] = pc["parent"]
        /\ ends'["parent"] = ends["parent"]
        /\ at'["younger"] = at["younger"] /\ pc'["younger"] = pc["younger"]
        /\ ends'["younger"] = ends["younger"]
    BY <1>2, <2>2
  <2>4. at["younger"] # "killed"
    BY <2>2 DEF Brothers, LsRole
  <2>5. LsRole("younger", 0)'
    BY <2>2, <2>3, <2>4 DEF Brothers, LsRole
  <2>. QED
    BY <2>2, <2>3, <2>5 DEF Brothers
<1>4. CASE p = "younger"
  <2>1. ReachedLs("younger", 0)
    <3>1. /\ Len(ThePipe!Script("younger")) = 3
          /\ \A call : ThePipe!Does("younger", call) =>
               \/ pc["younger"] = 1 /\ call = "close" /\ ThePipe!About("younger") = "fd0"
               \/ pc["younger"] = 2 /\ call = "dup2" /\ ThePipe!About("younger") = "fd1"
               \/ pc["younger"] = 3 /\ call = "exec" /\ ThePipe!About("younger") = "ls"
      BY <1>2, BroScripts, LsDoes
    <3>2. pc["younger"] > 0 /\ 0 + 1 = 1 /\ 0 + 2 = 2 /\ 0 + 3 = 3
      BY <1>2
    <3>. QED
      BY <3>1, <3>2, Zenon DEF ReachedLs
  <2>2. at["younger"] # "none" /\ at["elder"] # "none"
    <3>1. at["younger"] # "none"
      BY <1>1, <1>4, NotThere
    <3>. QED
      BY <1>2, <3>1 DEF Brothers
  <2>3. /\ PipeTypes' /\ LsRole("younger", 0)' /\ Counted' /\ UNCHANGED program
        /\ at'["younger"] # "none"
        /\ \A q \in ThePipe!Processes : q # "younger" =>
             at'[q] = at[q] /\ pc'[q] = pc[q] /\ ends'[q] = ends[q]
    BY <1>1, <1>4, <2>1, <2>2, LsKeeps DEF Brothers
  <2>4. /\ at'["parent"] = at["parent"] /\ pc'["parent"] = pc["parent"]
        /\ ends'["parent"] = ends["parent"]
        /\ at'["elder"] = at["elder"] /\ pc'["elder"] = pc["elder"] /\ ends'["elder"] = ends["elder"]
    BY <1>2, <2>3
  <2>5. WcRole("elder")'
    BY <2>4 DEF Brothers, WcRole
  <2>. QED
    BY <2>2, <2>3, <2>4, <2>5 DEF Brothers
<1>5. CASE p = "parent"
  BY <1>1, <1>5, BroForks, BroGoesOn
<1>. QED
  BY <1>3, <1>4, <1>5 DEF ThePipe!Processes

LEMMA OnePipeForks ==
  ASSUME PipeTypes, OnePipe, program = "pipe", ThePipe!Fork("parent")
  PROVE  PipeTypes' /\ OnePipe' /\ program' = program
<1>1. /\ "parent" \in ThePipe!Processes /\ pc["parent"] \in 1..7 /\ "elder" \in ThePipe!Children
      /\ "younger" \in ThePipe!Children /\ "younger" # "elder" /\ 1 + 1 = 2
  BY DEF ThePipe!Processes, ThePipe!Children, PipeTypes
<1>2. ThePipe!Does("parent", "fork") /\ at["parent"] = "script"
  BY DEF ThePipe!Fork, ThePipe!Does
<1>3. pc["parent"] = 1 /\ ThePipe!About("parent") = "elder"
  BY <1>1, <1>2, PipeScripts, PipeParentDoes
<1>4. /\ PipeTypes' /\ UNCHANGED <<program, inPipe, written, got, printed>>
      /\ \/ /\ at'["parent"] = "ended" /\ ends'["parent"] = {} /\ pc'["parent"] = 1
            /\ \A q \in ThePipe!Children :
                 at'[q] = at[q] /\ pc'[q] = pc[q] /\ ends'[q] = ends[q]
         \/ /\ at'["parent"] = "script" /\ ends'["parent"] = ends["parent"]
            /\ pc'["parent"] = 1 + 1
            /\ at'["elder"] = "script" /\ ends'["elder"] = ends["parent"]
            /\ \A q \in ThePipe!Children : pc'[q] = pc[q]
            /\ \A q \in ThePipe!Children : q # "elder" => at'[q] = at[q] /\ ends'[q] = ends[q]
  BY <1>1, <1>3, Forked
<1>5. /\ ends["parent"] = {"fd0", "fd1"} /\ at["elder"] = "none" /\ pc["elder"] = 1
      /\ at["younger"] = "none" /\ written = 0 /\ got = 0 /\ printed = -1
  BY <1>2, <1>3 DEF OnePipe
<1>6. /\ at'["younger"] = "none" /\ pc'["elder"] = 1
      /\ \/ at'["parent"] = "ended" /\ pc'["parent"] = 1 /\ at'["elder"] = "none"
         \/ /\ at'["parent"] = "script" /\ ends'["parent"] = {"fd0", "fd1"} /\ pc'["parent"] = 2
            /\ at'["elder"] = "script" /\ ends'["elder"] = {"fd0", "fd1"}
  BY <1>1, <1>4, <1>5
<1>7. written' = 0 /\ got' = 0 /\ printed' = -1
  BY <1>4, <1>5
<1>. QED
  BY <1>4, <1>6, <1>7 DEF OnePipe

LEMMA OnePipeParent ==
  ASSUME PipeTypes, OnePipe, program = "pipe", ThePipe!Step("parent"), ~ThePipe!Fork("parent")
  PROVE  PipeTypes' /\ OnePipe' /\ program' = program
<1>1. /\ "parent" \in ThePipe!Processes /\ pc["parent"] \in 1..7 /\ pc["elder"] \in 1..7
      /\ "elder" \in ThePipe!Processes /\ "younger" \in ThePipe!Processes
      /\ {} \in SUBSET {"fd0", "fd1", "in", "out"} /\ {"fd1"} \in SUBSET {"fd0", "fd1", "in", "out"}
  BY DEF ThePipe!Processes, PipeTypes
<1>2. at["parent"] = "script" /\ pc["parent"] <= 5
  BY <1>1, NotThere DEF OnePipe
<1>3. /\ at = [at EXCEPT !["parent"] = at["parent"]]
      /\ ends = [ends EXCEPT !["parent"] = ends["parent"]]
      /\ pc = [pc EXCEPT !["parent"] = pc["parent"]]
  BY <1>1, Kept
<1>4. /\ Len(ThePipe!Script("parent")) = 4
      /\ \A call : ThePipe!Does("parent", call) =>
           \/ pc["parent"] = 1 /\ call = "fork" /\ ThePipe!About("parent") = "elder"
           \/ pc["parent"] = 2 /\ call = "close" /\ ThePipe!About("parent") = "fd0"
           \/ pc["parent"] = 3 /\ call = "write"
           \/ pc["parent"] = 4 /\ call = "close" /\ ThePipe!About("parent") = "fd1"
  BY <1>1, PipeScripts, PipeParentDoes
<1>5. pc["parent"] = 3 => at["elder"] = "script" /\ "fd0" \in ends["elder"] /\ inPipe = 0 /\ got = 0
  <2>. SUFFICES ASSUME pc["parent"] = 3
                PROVE  at["elder"] = "script" /\ "fd0" \in ends["elder"] /\ inPipe = 0 /\ got = 0
    OBVIOUS
  <2>1. written = 0 /\ at["elder"] # "none"
    BY DEF OnePipe
  <2>2. got = 0 /\ inPipe = 0
    BY <2>1 DEF PipeTypes
  <2>3. pc["elder"] <= 2
    BY <2>2 DEF OnePipe
  <2>4. at["elder"] = "script"
    BY <2>1, <2>3 DEF OnePipe
  <2>5. "fd0" \in ends["elder"]
    BY <1>1, <2>3, <2>4 DEF OnePipe
  <2>. QED
    BY <2>2, <2>4, <2>5
<1>6. /\ UNCHANGED <<program, got, printed, reaped>>
      /\ \/ Moves("parent", "script", 3, {"fd1"}) /\ pc["parent"] = 2 /\ UNCHANGED <<inPipe, written>>
         \/ /\ Moves("parent", "script", 4, {"fd1"}) /\ pc["parent"] = 3
            /\ inPipe' = inPipe + 1 /\ written' = written + 1
         \/ Moves("parent", "script", 5, {}) /\ pc["parent"] = 4 /\ UNCHANGED <<inPipe, written>>
         \/ Moves("parent", "ended", 5, {}) /\ pc["parent"] = 5 /\ UNCHANGED <<inPipe, written>>
  <2>1. CASE ThePipe!CloseEnd("parent")
    <3>1. CASE pc["parent"] = 2 /\ ThePipe!About("parent") = "fd0"
      <4>1. ends["parent"] = {"fd0", "fd1"} /\ {"fd0", "fd1"} \ {"fd0"} = {"fd1"} /\ 2 + 1 = 3
        BY <1>2, <3>1 DEF OnePipe
      <4>. QED
        BY <1>2, <1>3, <2>1, <3>1, <4>1 DEF ThePipe!CloseEnd, ThePipe!Goes, ThePipe!data, Moves
    <3>2. CASE pc["parent"] = 4 /\ ThePipe!About("parent") = "fd1"
      <4>1. ends["parent"] = {"fd1"} /\ {"fd1"} \ {"fd1"} = {} /\ 4 + 1 = 5
        BY <1>2, <3>2 DEF OnePipe
      <4>. QED
        BY <1>2, <1>3, <2>1, <3>2, <4>1 DEF ThePipe!CloseEnd, ThePipe!Goes, ThePipe!data, Moves
    <3>. QED
      BY <1>4, <2>1, <3>1, <3>2 DEF ThePipe!CloseEnd
  <2>2. CASE ThePipe!Does("parent", "write") /\ ThePipe!Write("parent")
    <3>1. pc["parent"] = 3 /\ 3 + 1 = 4
      BY <1>4, <2>2
    <3>2. ends["parent"] = {"fd1"}
      BY <1>2, <3>1 DEF OnePipe
    <3>3. ThePipe!ReadEndOpen
      BY <1>1, <1>5, <3>1 DEF ThePipe!ReadEndOpen
    <3>. QED
      BY <1>2, <1>3, <2>2, <3>1, <3>2, <3>3 DEF ThePipe!Write, ThePipe!Goes, Moves
  <2>3. CASE ThePipe!Exit("parent")
    <3>1. pc["parent"] > 4
      BY <1>4, <2>3 DEF ThePipe!Exit
    <3>2. pc["parent"] = 5
      BY <1>1, <1>2, <3>1
    <3>. QED
      BY <1>3, <2>3, <3>2 DEF ThePipe!Exit, ThePipe!Leaves, ThePipe!data, Moves
  <2>4. \A call \in {"dup2", "exec", "wait", "read"} : ~ThePipe!Does("parent", call)
    BY <1>4
  <2>. QED
    BY <1>2, <2>1, <2>2, <2>3, <2>4
    DEF ThePipe!Step, ThePipe!Dup2, ThePipe!Exec, ThePipe!Wait, ThePipe!ReadOnce, ThePipe!RunLs,
        ThePipe!RunWc
<1>7. PICK s \in {"script", "ended"}, n \in {3, 4, 5}, e \in SUBSET {"fd0", "fd1", "in", "out"} :
        /\ Moves("parent", s, n, e) /\ pc["parent"] \in 2..5
        /\ s = "ended" => e = {} /\ n = 5
        /\ s = "script" => e = IF n \in {3, 4} THEN {"fd1"} ELSE {}
        /\ n = 3 <=> pc["parent"] = 2
        /\ n = 4 <=> pc["parent"] = 3
  <2>1. CASE Moves("parent", "script", 3, {"fd1"}) /\ pc["parent"] = 2
    BY <1>1, <2>1
  <2>2. CASE Moves("parent", "script", 4, {"fd1"}) /\ pc["parent"] = 3
    BY <1>1, <2>2
  <2>3. CASE Moves("parent", "script", 5, {}) /\ pc["parent"] = 4
    BY <1>1, <2>3
  <2>4. CASE Moves("parent", "ended", 5, {}) /\ pc["parent"] = 5
    BY <1>1, <2>4
  <2>. QED
    BY <1>6, <2>1, <2>2, <2>3, <2>4
<1>8. n \in 1..7 /\ s \in {"none", "script", "wc", "ls", "ended", "killed"}
      /\ s \in {"script", "wc", "ls", "ended", "killed"}
  OBVIOUS
<1>9. /\ inPipe' \in 0..PipeSize /\ written' \in Nat /\ got' \in Nat /\ printed' \in -1..got'
      /\ written' = got' + inPipe' /\ written' = IF n <= 3 THEN 0 ELSE 1
  <2>1. CASE n = 4
    <3>1. written = 0 /\ got = 0 /\ inPipe = 0 /\ printed = -1
      BY <1>5, <1>7, <2>1 DEF OnePipe, PipeTypes
    <3>2. 0 + 1 = 1 /\ 1 \in 0..PipeSize /\ -1 \in -1..0 /\ ~(4 <= 3)
      BY PipesAssumed
    <3>3. written' = 1 /\ inPipe' = 1 /\ got' = 0 /\ printed' = -1
      BY <1>6, <1>7, <2>1, <3>1, <3>2
    <3>. QED
      BY <2>1, <3>2, <3>3
  <2>2. CASE n # 4
    <3>1. UNCHANGED <<inPipe, written, got, printed>>
      BY <1>6, <1>7, <2>2
    <3>2. written = IF n <= 3 THEN 0 ELSE 1
      BY <1>1, <1>7, <2>2 DEF OnePipe
    <3>. QED
      BY <3>1, <3>2 DEF PipeTypes
  <2>. QED
    BY <2>1, <2>2
<1>10. PipeTypes'
  <2>1. reaped' \subseteq ThePipe!Children
    BY <1>6 DEF PipeTypes
  <2>. QED
    BY <1>1, <1>6, <1>7, <1>8, <1>9, <2>1, PipeTypesKept
<1>11. /\ at'["parent"] = s /\ pc'["parent"] = n /\ ends'["parent"] = e
       /\ \A q \in ThePipe!Processes : q # "parent" =>
            at'[q] = at[q] /\ pc'[q] = pc[q] /\ ends'[q] = ends[q]
  <2>1. Moves("parent", s, n, e)
    BY <1>7
  <2>. QED
    BY <1>1, <1>8, <2>1, Moved
<1>12. /\ at'["elder"] = at["elder"] /\ pc'["elder"] = pc["elder"] /\ ends'["elder"] = ends["elder"]
       /\ at'["younger"] = at["younger"]
  BY <1>1, <1>11
<1>13. /\ at["elder"] # "none" /\ n # 1 /\ n <= 5
       /\ s = "script" => e = CASE n <= 2 -> {"fd0", "fd1"} [] n \in {3, 4} -> {"fd1"} [] OTHER -> {}
  BY <1>7 DEF OnePipe
<1>. QED
  BY <1>6, <1>7, <1>9, <1>10, <1>11, <1>12, <1>13 DEF OnePipe

LEMMA OnePipeChild ==
  ASSUME PipeTypes, OnePipe, program = "pipe", ThePipe!Step("elder")
  PROVE  PipeTypes' /\ OnePipe' /\ program' = program
<1>1. /\ "parent" \in ThePipe!Processes /\ pc["parent"] \in 1..7 /\ pc["elder"] \in 1..7
      /\ "elder" \in ThePipe!Processes /\ "younger" \in ThePipe!Processes
      /\ {} \in SUBSET {"fd0", "fd1", "in", "out"} /\ {"fd0"} \in SUBSET {"fd0", "fd1", "in", "out"}
  BY DEF ThePipe!Processes, PipeTypes
<1>2. at["elder"] = "script" /\ pc["elder"] <= 4 /\ pc["parent"] # 1
  <2>1. at["elder"] = "script" /\ pc["elder"] <= 4
    BY <1>1, NotThere DEF OnePipe
  <2>. QED
    BY <2>1 DEF OnePipe
<1>3. /\ at = [at EXCEPT !["elder"] = at["elder"]]
      /\ ends = [ends EXCEPT !["elder"] = ends["elder"]]
      /\ pc = [pc EXCEPT !["elder"] = pc["elder"]]
  BY <1>1, Kept
<1>4. /\ Len(ThePipe!Script("elder")) = 3
      /\ \A call : ThePipe!Does("elder", call) =>
           \/ pc["elder"] = 1 /\ call = "close" /\ ThePipe!About("elder") = "fd1"
           \/ pc["elder"] = 2 /\ call = "read"
           \/ pc["elder"] = 3 /\ call = "close" /\ ThePipe!About("elder") = "fd0"
  BY <1>1, PipeScripts, PipeChildDoes
<1>5. /\ UNCHANGED <<program, written, reaped>>
      /\ \/ Moves("elder", "script", 2, {"fd0"}) /\ pc["elder"] = 1 /\ UNCHANGED <<inPipe, got, printed>>
         \/ /\ Moves("elder", "script", 3, {"fd0"}) /\ pc["elder"] = 2
            /\ inPipe > 0 \/ ~ThePipe!WriteEndOpen
            /\ got' = got + inPipe /\ printed' = got + inPipe /\ inPipe' = 0
         \/ Moves("elder", "script", 4, {}) /\ pc["elder"] = 3 /\ UNCHANGED <<inPipe, got, printed>>
         \/ Moves("elder", "ended", 4, {}) /\ pc["elder"] = 4 /\ UNCHANGED <<inPipe, got, printed>>
  <2>1. CASE ThePipe!CloseEnd("elder")
    <3>1. CASE pc["elder"] = 1 /\ ThePipe!About("elder") = "fd1"
      <4>1. ends["elder"] = {"fd0", "fd1"} /\ {"fd0", "fd1"} \ {"fd1"} = {"fd0"} /\ 1 + 1 = 2
        BY <1>2, <3>1 DEF OnePipe
      <4>. QED
        BY <1>2, <1>3, <2>1, <3>1, <4>1 DEF ThePipe!CloseEnd, ThePipe!Goes, ThePipe!data, Moves
    <3>2. CASE pc["elder"] = 3 /\ ThePipe!About("elder") = "fd0"
      <4>1. ends["elder"] = {"fd0"} /\ {"fd0"} \ {"fd0"} = {} /\ 3 + 1 = 4
        BY <1>2, <3>2 DEF OnePipe
      <4>. QED
        BY <1>2, <1>3, <2>1, <3>2, <4>1 DEF ThePipe!CloseEnd, ThePipe!Goes, ThePipe!data, Moves
    <3>. QED
      BY <1>4, <2>1, <3>1, <3>2 DEF ThePipe!CloseEnd
  <2>2. CASE ThePipe!ReadOnce("elder")
    <3>1. pc["elder"] = 2 /\ 2 + 1 = 3
      BY <1>4, <2>2 DEF ThePipe!ReadOnce
    <3>2. ends["elder"] = {"fd0"}
      BY <1>2, <3>1 DEF OnePipe
    <3>. QED
      BY <1>2, <1>3, <2>2, <3>1, <3>2 DEF ThePipe!ReadOnce, ThePipe!Goes, Moves
  <2>3. CASE ThePipe!Exit("elder")
    <3>1. pc["elder"] > 3
      BY <1>4, <2>3 DEF ThePipe!Exit
    <3>2. pc["elder"] = 4
      BY <1>1, <1>2, <3>1
    <3>. QED
      BY <1>3, <2>3, <3>2 DEF ThePipe!Exit, ThePipe!Leaves, ThePipe!data, Moves
  <2>4. \A call \in {"fork", "dup2", "exec", "wait", "write"} : ~ThePipe!Does("elder", call)
    BY <1>4
  <2>. QED
    BY <1>2, <2>1, <2>2, <2>3, <2>4
    DEF ThePipe!Step, ThePipe!Fork, ThePipe!Dup2, ThePipe!Exec, ThePipe!Wait, ThePipe!RunLs,
        ThePipe!RunWc
<1>6. PICK s \in {"script", "ended"}, n \in {2, 3, 4}, e \in SUBSET {"fd0", "fd1", "in", "out"} :
        /\ Moves("elder", s, n, e)
        /\ s = "ended" => e = {} /\ n = 4
        /\ s = "script" => e = IF n \in {2, 3} THEN {"fd0"} ELSE {}
        /\ n = 2 <=> pc["elder"] = 1
        /\ n = 3 <=> pc["elder"] = 2
  <2>1. CASE Moves("elder", "script", 2, {"fd0"}) /\ pc["elder"] = 1
    BY <1>1, <2>1
  <2>2. CASE Moves("elder", "script", 3, {"fd0"}) /\ pc["elder"] = 2
    BY <1>1, <2>2
  <2>3. CASE Moves("elder", "script", 4, {}) /\ pc["elder"] = 3
    BY <1>1, <2>3
  <2>4. CASE Moves("elder", "ended", 4, {}) /\ pc["elder"] = 4
    BY <1>1, <2>4
  <2>. QED
    BY <1>5, <2>1, <2>2, <2>3, <2>4
<1>7. n \in 1..7 /\ s \in {"none", "script", "wc", "ls", "ended", "killed"}
      /\ s \in {"script", "wc", "ls", "ended", "killed"}
  OBVIOUS
<1>8. /\ inPipe' \in 0..PipeSize /\ written' \in Nat /\ got' \in Nat /\ printed' \in -1..got'
      /\ written' = got' + inPipe'
      /\ IF n <= 2 THEN got' = 0 /\ printed' = -1 ELSE got' = 1 /\ printed' = 1
  <2>1. CASE n = 3
    <3>1. /\ pc["elder"] = 2 /\ got = 0
          /\ inPipe > 0 \/ ~ThePipe!WriteEndOpen
          /\ got' = got + inPipe /\ printed' = got + inPipe /\ inPipe' = 0 /\ UNCHANGED written
      BY <1>5, <1>6, <2>1 DEF OnePipe
    <3>2. PICK i \in 0..PipeSize : i = inPipe /\ written = i
      <4>1. written = got + inPipe /\ inPipe \in 0..PipeSize
        BY DEF PipeTypes
      <4>2. 0 + inPipe = inPipe
        BY <4>1, PipesAssumed
      <4>. QED
        BY <3>1, <4>1, <4>2
    <3>3. written = 1
      <4>1. CASE inPipe > 0
        BY <3>2, <4>1 DEF OnePipe
      <4>2. CASE ~ThePipe!WriteEndOpen
        <5>1. "fd1" \notin ends["parent"]
          BY <1>1, <4>2 DEF ThePipe!WriteEndOpen
        <5>2. at["parent"] = "ended" => pc["parent"] = 5
          BY <1>2 DEF OnePipe
        <5>3. at["parent"] = "script" => ~(pc["parent"] <= 2) /\ pc["parent"] \notin {3, 4}
          BY <5>1 DEF OnePipe
        <5>4. ~(pc["parent"] <= 3)
          BY <1>1, <5>2, <5>3 DEF OnePipe
        <5>. QED
          BY <5>4 DEF OnePipe
      <4>. QED
        BY <3>1, <4>1, <4>2
    <3>4. inPipe = 1 /\ 0 + 1 = 1 /\ 0 \in 0..PipeSize /\ 1 \in -1..1 /\ 1 = 1 + 0 /\ ~(3 <= 2)
      BY <3>2, <3>3, PipesAssumed
    <3>5. got' = 1 /\ printed' = 1 /\ inPipe' = 0 /\ written' = 1
      BY <3>1, <3>3, <3>4
    <3>. QED
      BY <2>1, <3>4, <3>5
  <2>2. CASE n # 3
    <3>1. UNCHANGED <<inPipe, written, got, printed>>
      BY <1>5, <1>6, <2>2
    <3>2. IF n <= 2 THEN got = 0 /\ printed = -1 ELSE got = 1 /\ printed = 1
      <4>1. CASE n = 2
        BY <1>6, <4>1 DEF OnePipe
      <4>2. CASE n = 4
        <5>1. ~(pc["elder"] <= 2)
          BY <1>1, <1>6, <4>2
        <5>. QED
          BY <4>2, <5>1 DEF OnePipe
      <4>. QED
        BY <2>2, <4>1, <4>2
    <3>. QED
      BY <3>1, <3>2 DEF PipeTypes
  <2>. QED
    BY <2>1, <2>2
<1>9. PipeTypes'
  <2>1. reaped' \subseteq ThePipe!Children
    BY <1>5 DEF PipeTypes
  <2>. QED
    BY <1>1, <1>5, <1>6, <1>7, <1>8, <2>1, PipeTypesKept
<1>10. /\ at'["elder"] = s /\ pc'["elder"] = n /\ ends'["elder"] = e
       /\ \A q \in ThePipe!Processes : q # "elder" =>
            at'[q] = at[q] /\ pc'[q] = pc[q] /\ ends'[q] = ends[q]
  BY <1>1, <1>6, <1>7, Moved
<1>11. /\ at'["parent"] = at["parent"] /\ pc'["parent"] = pc["parent"]
       /\ ends'["parent"] = ends["parent"] /\ at'["younger"] = at["younger"]
  BY <1>1, <1>10
<1>12. /\ n <= 4
       /\ s = "script" => e = CASE n = 1 -> {"fd0", "fd1"} [] n \in {2, 3} -> {"fd0"} [] OTHER -> {}
  BY <1>6
<1>. QED
  BY <1>2, <1>5, <1>6, <1>8, <1>9, <1>10, <1>11, <1>12 DEF OnePipe

LEMMA OnePipeStep ==
  ASSUME PipeTypes, OnePipe, program = "pipe", ThePipe!Next
  PROVE  PipeTypes' /\ OnePipe' /\ program' = program
<1>1. PICK p \in ThePipe!Processes : ThePipe!Step(p)
  BY DEF ThePipe!Next
<1>2. p # "younger"
  BY <1>1, NotThere DEF OnePipe
<1>. QED
  BY <1>1, <1>2, OnePipeForks, OnePipeParent, OnePipeChild DEF ThePipe!Processes

\* Without a pipe nothing is written
LEMMA NoEndsStep ==
  ASSUME PipeTypes, NoEnds, program \in {"fork_exec", "wait_test"}, ThePipe!Next
  PROVE  PipeTypes' /\ NoEnds' /\ program' = program
<1>1. PICK p \in ThePipe!Processes : ThePipe!Step(p)
  BY DEF ThePipe!Next
<1>2. /\ Len(ThePipe!Script(p)) <= 2
      /\ \A call : ThePipe!Does(p, call) =>
           \/ call = "fork" /\ ThePipe!About(p) = "elder"
           \/ call = "exec" /\ ThePipe!About(p) = "ls"
           \/ call = "wait"
  BY OthersDo DEF PipeTypes
<1>3. /\ UNCHANGED <<program, inPipe, written, got, printed>> /\ reaped' \subseteq ThePipe!Children
      /\ pc' = pc \/ (pc' = [pc EXCEPT ![p] = pc[p] + 1] /\ pc[p] <= Len(ThePipe!Script(p)))
      /\ \E q \in ThePipe!Processes, s \in {"script", "ls", "ended"} :
           /\ at' = [at EXCEPT ![q] = s] \/ at' = at
           /\ ends' = [ends EXCEPT ![q] = {}] \/ ends' = ends
  <2>1. CASE ThePipe!Fork(p)
    <3>1. ThePipe!About(p) = "elder" /\ ends[p] = {} /\ "elder" \in ThePipe!Processes
      BY <1>2, <2>1 DEF ThePipe!Fork, ThePipe!Processes, NoEnds
    <3>2. pc[p] <= Len(ThePipe!Script(p))
      BY <2>1 DEF ThePipe!Fork, ThePipe!Does
    <3>. QED
      BY <2>1, <3>1, <3>2
      DEF ThePipe!Fork, ThePipe!Leaves, ThePipe!Goes, ThePipe!data, PipeTypes
  <2>2. CASE ThePipe!Exec(p)
    <3>1. ThePipe!About(p) = "ls"
      BY <1>2, <2>2 DEF ThePipe!Exec
    <3>2. pc[p] <= Len(ThePipe!Script(p))
      BY <2>2 DEF ThePipe!Exec, ThePipe!Does
    <3>. QED
      BY <2>2, <3>1, <3>2
      DEF ThePipe!Exec, ThePipe!Leaves, ThePipe!Goes, ThePipe!data, PipeTypes
  <2>3. CASE ThePipe!Wait(p)
    <3>1. pc[p] <= Len(ThePipe!Script(p)) /\ reaped' \subseteq ThePipe!Children
      BY <2>3 DEF ThePipe!Wait, ThePipe!Does, PipeTypes
    <3>. QED
      BY <2>3, <3>1 DEF ThePipe!Wait, ThePipe!Goes, ThePipe!data
  <2>4. CASE ThePipe!Exit(p)
    BY <2>4 DEF ThePipe!Exit, ThePipe!Leaves, ThePipe!data, PipeTypes
  <2>5. CASE ThePipe!RunLs(p)
    <3>1. "out" \notin ends[p]
      BY DEF NoEnds
    <3>. QED
      BY <2>5, <3>1 DEF ThePipe!RunLs, ThePipe!Leaves, ThePipe!data, PipeTypes
  <2>6. ~ThePipe!RunWc(p)
    BY DEF ThePipe!RunWc, NoEnds
  <2>7. \A call \in {"close", "dup2", "write", "read"} : ~ThePipe!Does(p, call)
    BY <1>2
  <2>. QED
    BY <1>1, <2>1, <2>2, <2>3, <2>4, <2>5, <2>6, <2>7
    DEF ThePipe!Step, ThePipe!CloseEnd, ThePipe!Dup2, ThePipe!ReadOnce
<1>4. pc' \in [ThePipe!Processes -> 1..7]
  <2>1. PICK n \in 1..7 : n = pc[p]
    BY DEF PipeTypes
  <2>2. n <= Len(ThePipe!Script(p)) => n + 1 \in 1..7
    BY <1>2
  <2>3. pc' = pc \/ (pc' = [pc EXCEPT ![p] = n + 1] /\ n + 1 \in 1..7)
    BY <1>3, <2>1, <2>2
  <2>. QED
    BY <2>3 DEF PipeTypes
<1>5. /\ at' \in [ThePipe!Processes -> {"none", "script", "wc", "ls", "ended", "killed"}]
      /\ \A q \in ThePipe!Processes : at'[q] \notin {"wc", "killed"}
  BY <1>3 DEF PipeTypes, NoEnds
<1>6. /\ ends' \in [ThePipe!Processes -> SUBSET {"fd0", "fd1", "in", "out"}]
      /\ \A q \in ThePipe!Processes : ends'[q] = {}
  BY <1>3 DEF PipeTypes, NoEnds
<1>. QED
  BY <1>3, <1>4, <1>5, <1>6 DEF PipeTypes, NoEnds

LEMMA PipeStep ==
  ASSUME PipeInv, ThePipe!Next
  PROVE  PipeInv' /\ program' = program
<1>1. program \in {"pipe", "ls-wc-l", "pipe_bro", "fork_exec", "wait_test"} /\ PipeTypes
  BY DEF PipeInv, PipeTypes, ThePipe!PipePrograms
<1>2. CASE program = "pipe"
  BY <1>1, <1>2, OnePipeStep DEF PipeInv
<1>3. CASE program = "ls-wc-l"
  BY <1>1, <1>3, LsWcStep DEF PipeInv
<1>4. CASE program = "pipe_bro"
  BY <1>1, <1>4, BroStep DEF PipeInv
<1>5. CASE program \in {"fork_exec", "wait_test"}
  BY <1>1, <1>5, NoEndsStep DEF PipeInv
<1>. QED
  BY <1>1, <1>2, <1>3, <1>4, <1>5

LEMMA PipeInit ==
  ASSUME ThePipe!Init
  PROVE  PipeInv
<1>1. /\ "parent" \in ThePipe!Processes /\ "elder" \in ThePipe!Processes
      /\ "younger" \in ThePipe!Processes
  BY DEF ThePipe!Processes
<1>2. /\ at["parent"] = "script" /\ at["elder"] = "none" /\ at["younger"] = "none"
      /\ pc["parent"] = 1 /\ pc["elder"] = 1 /\ pc["younger"] = 1
      /\ ends["elder"] = {} /\ ends["younger"] = {}
      /\ IF program \in {"fork_exec", "wait_test"} THEN ends["parent"] = {}
         ELSE ends["parent"] = {"fd0", "fd1"}
      /\ inPipe = 0 /\ written = 0 /\ got = 0 /\ printed = -1 /\ reaped = {}
  BY <1>1 DEF ThePipe!Init
<1>3. /\ at \in [ThePipe!Processes -> {"none", "script", "wc", "ls", "ended", "killed"}]
      /\ pc \in [ThePipe!Processes -> 1..7]
      /\ ends \in [ThePipe!Processes -> SUBSET {"fd0", "fd1", "in", "out"}]
  BY DEF ThePipe!Init
<1>4. \A p \in ThePipe!Processes : p \in {"parent", "elder", "younger"}
  BY DEF ThePipe!Processes
<1>5. 0 \in 0..PipeSize /\ 0 \in Nat /\ -1 \in -1..0 /\ 0 = 0 + 0 /\ ~(-1 >= 0) /\ 0 <= Lines
  BY PipesAssumed
<1>6. PipeTypes
  BY <1>2, <1>3, <1>4, <1>5 DEF PipeTypes, ThePipe!Init
<1>7. Counted
  BY <1>2, <1>5 DEF Counted
<1>8. program = "pipe" => OnePipe
  BY <1>2 DEF OnePipe
<1>9. WcRole("elder") /\ LsRole("younger", 0)
  BY <1>2 DEF WcRole, LsRole
<1>10. program = "ls-wc-l" => LsWc
  BY <1>2, <1>7, <1>9 DEF LsWc, LsRole
<1>11. program = "pipe_bro" => Brothers
  BY <1>2, <1>7, <1>9 DEF Brothers
<1>12. program \in {"fork_exec", "wait_test"} => NoEnds
  BY <1>2, <1>4 DEF NoEnds
<1>. QED
  BY <1>6, <1>8, <1>10, <1>11, <1>12 DEF PipeInv

-----------------------------------------------------------------------------
(* FileTree *)

LEMMA TreeAssumed ==
  /\ Depth \in Nat /\ FirstNames \in [Paths -> Nat] /\ MaxMoves \in Nat
  /\ \A p \in Paths : /\ p = <<p[1], p[2]>> /\ p[1] \in 0..Depth
                      /\ p[2] \notin {".", "sub"} /\ p[2] \in TheTree!FileNames
  BY ExchangesAssumption DEF TheTree!TreeAssumption, TheTree!FileNames

\* Where the walk and mymv are
LEMMA TreeAt ==
  ASSUME TreeInv
  PROVE  /\ at \in [{"ls-R", "mymv"} -> {"off", "read", "stat", "ended", "link", "unlink"}]
         /\ at["ls-R"] \in {"off", "read", "stat", "ended"}
         /\ at["mymv"] \in {"off", "link", "unlink"}
         /\ name \in [Paths -> TheTree!Files \cup {0}]
         /\ shown \in [Paths -> Nat]
         /\ frames \in Seq(Frame) /\ Len(frames) \in 0..(Depth + 1)
         /\ DOMAIN frames = 1..Len(frames)
         /\ \A k \in 1..Len(frames) : frames[k] \in Frame /\ frames[k].dir = k - 1
<1>1. frames \in Seq(Frame) /\ Len(frames) <= Depth + 1
  BY DEF TreeInv, Stack
<1>2. \A k \in 1..Len(frames) : frames[k] \in Frame
  BY <1>1, ElementOfSeq
<1>3. \A k \in 1..Len(frames) : frames[k].dir = k - 1
  BY DEF TreeInv, Stack
<1>4. Len(frames) \in 0..(Depth + 1) /\ DOMAIN frames = 1..Len(frames)
  BY <1>1, TreeAssumed
<1>. QED
  BY <1>1, <1>2, <1>3, <1>4 DEF TreeInv, TheTree!TypeOK

LEMMA TreeInit ==
  ASSUME TheTree!Init
  PROVE  TreeInv
<1>1. /\ at \in [{"ls-R", "mymv"} -> {"off", "read", "stat", "ended", "link", "unlink"}]
      /\ at["ls-R"] = "off" /\ at["mymv"] = "off"
  BY DEF TheTree!Init
<1>2. name \in [Paths -> TheTree!Files \cup {0}]
  BY TreeAssumed DEF TheTree!Init, TheTree!Files
<1>3. shown \in [Paths -> Nat] /\ \A p \in Paths : shown[p] = 0
  BY DEF TheTree!Init
<1>4. frames = <<>> /\ Len(<<>>) = 0 /\ <<>> \in Seq(Frame) /\ 0 <= Depth + 1
  BY TreeAssumed DEF TheTree!Init
<1>5. TheTree!TypeOK
  BY <1>1, <1>2, <1>3, <1>4, TreeAssumed DEF TheTree!Init, TheTree!TypeOK
<1>6. TheTree!KeepsAName
  BY DEF TheTree!Init, TheTree!KeepsAName, TheTree!Files
<1>7. Stack
  BY <1>1, <1>4 DEF Stack
<1>8. ShownOnce
  BY <1>3, <1>4, TreeAssumed DEF ShownOnce, TheTree!Init
<1>9. StaysShown
  <2>1. \A p \in Paths : ~(p[1] < 0)
    BY TreeAssumed
  <2>. QED
    BY <1>1, <1>4, <2>1 DEF StaysShown, Begun
<1>. QED
  BY <1>1, <1>5, <1>6, <1>7, <1>8, <1>9 DEF TreeInv, Moving

\* The walk changes nothing of what mymv works on
LEMMA WalkLeaves ==
  ASSUME TreeInv, TheTree!StartWalk \/ TheTree!Walk
  PROVE  /\ UNCHANGED <<name, move, touched, forgotten, starts>>
         /\ at' \in [{"ls-R", "mymv"} -> {"off", "read", "stat", "ended", "link", "unlink"}]
         /\ at'["mymv"] = at["mymv"] /\ Moving' /\ TheTree!KeepsAName'
<1>1. UNCHANGED <<name, move, touched, forgotten, starts>>
  BY DEF TheTree!StartWalk, TheTree!Walk, TheTree!ReadName, TheTree!isFile, TheTree!LeaveDir
<1>2. \/ UNCHANGED at
      \/ \E s \in {"read", "stat", "ended"} : at' = [at EXCEPT !["ls-R"] = s]
  BY DEF TheTree!StartWalk, TheTree!Walk, TheTree!ReadName, TheTree!isFile, TheTree!LeaveDir,
     TheTree!Enter, TheTree!Goes
<1>3. /\ at' \in [{"ls-R", "mymv"} -> {"off", "read", "stat", "ended", "link", "unlink"}]
      /\ at'["mymv"] = at["mymv"]
  BY <1>2, TreeAt
<1>. QED
  BY <1>1, <1>3 DEF TreeInv, Moving, TheTree!KeepsAName

\* mymv leaves the walk where it is
LEMMA MoveLeaves ==
  ASSUME TreeInv, NEW s \in {"off", "link", "unlink"}, TheTree!Goes("mymv", s)
  PROVE  /\ at' \in [{"ls-R", "mymv"} -> {"off", "read", "stat", "ended", "link", "unlink"}]
         /\ at'["mymv"] = s /\ at'["ls-R"] = at["ls-R"]
  BY TreeAt DEF TheTree!Goes

\* Nothing of the walk changes
LEMMA WalkStays ==
  ASSUME TreeInv, at'["ls-R"] = at["ls-R"],
         UNCHANGED <<name, frames, entry, shown, unopened, touched>>
  PROVE  Stack' /\ ShownOnce' /\ StaysShown'
<1>1. Stack'
  BY DEF TreeInv, Stack
<1>2. ShownOnce'
  BY DEF TreeInv, ShownOnce, Begun, InnerDone, Looks
<1>3. StaysShown'
  BY DEF TreeInv, StaysShown, Stays, Begun, InnerDone, Looks
<1>. QED
  BY <1>1, <1>2, <1>3

LEMMA MoveStarts ==
  ASSUME TreeInv, TheTree!StartMove \/ TheTree!StopMove
  PROVE  TreeInv'
<1>1. UNCHANGED <<name, frames, entry, shown, unopened, touched, forgotten>>
  BY DEF TheTree!StartMove, TheTree!StopMove, TheTree!walk
<1>2. PICK s \in {"off", "link"} :
        /\ TheTree!Goes("mymv", s)
        /\ s = "link" => move' \in Arguments /\ ~move'.linked
        /\ starts' \in 0..MaxMoves
  <2>1. CASE TheTree!StartMove
    <3>1. move' \in Arguments /\ ~move'.linked
      BY <2>1 DEF TheTree!StartMove, Arguments
    <3>2. PICK n \in 0..MaxMoves : n = starts /\ n < MaxMoves /\ starts' = n + 1
      BY <2>1 DEF TheTree!StartMove, TreeInv, TheTree!TypeOK
    <3>3. n + 1 \in 0..MaxMoves
      BY <3>2, TreeAssumed
    <3>. QED
      BY <2>1, <3>1, <3>2, <3>3 DEF TheTree!StartMove
  <2>2. CASE TheTree!StopMove
    BY <2>2 DEF TheTree!StopMove, TreeInv, TheTree!TypeOK
  <2>. QED
    BY <2>1, <2>2
<1>3. /\ at' \in [{"ls-R", "mymv"} -> {"off", "read", "stat", "ended", "link", "unlink"}]
      /\ at'["mymv"] = s /\ at'["ls-R"] = at["ls-R"]
  BY <1>2, MoveLeaves
<1>4. Stack' /\ ShownOnce' /\ StaysShown'
  BY <1>1, <1>3, WalkStays
<1>5. TheTree!TypeOK'
  BY <1>1, <1>2, <1>3 DEF TreeInv, TheTree!TypeOK
<1>6. Moving' /\ TheTree!KeepsAName'
  BY <1>1, <1>2, <1>3 DEF TreeInv, Moving, TheTree!KeepsAName
<1>. QED
  BY <1>3, <1>4, <1>5, <1>6 DEF TreeInv

\* readdir may return n, or not, and again
Loses(f, n) == [f EXCEPT !.must = @ \ {n}, !.may = @ \cup {n}, !.seen = @ \ {n}]

LEMMA LosesOne ==
  ASSUME NEW f \in Frame, NEW n \in TheTree!FileNames \cup {".", "sub"}
  PROVE  /\ Loses(f, n) \in Frame
         /\ Loses(f, n).dir = f.dir /\ Loses(f, n).seen = f.seen \ {n}
         /\ Loses(f, n).must = f.must \ {n} /\ Loses(f, n).may = f.may \cup {n}
<1>1. Loses(f, n).dir = f.dir
  BY DEF Loses, Frame
<1>2. Loses(f, n).seen = f.seen \ {n}
  BY DEF Loses, Frame
<1>3. Loses(f, n).must = f.must \ {n}
  BY DEF Loses, Frame
<1>4. Loses(f, n).may = f.may \cup {n}
  BY DEF Loses, Frame
<1>5. Loses(f, n) \in Frame
  <2>1. f.must \ {n} \in SUBSET (TheTree!FileNames \cup {".", "sub"})
    BY DEF Frame
  <2>2. f.may \cup {n} \in SUBSET (TheTree!FileNames \cup {".", "sub"})
    BY DEF Frame
  <2>3. PICK g \in Frame : g = [f EXCEPT !.must = f.must \ {n}]
    BY <2>1 DEF Frame
  <2>4. PICK h \in Frame : h = [g EXCEPT !.may = f.may \cup {n}]
    BY <2>2 DEF Frame
  <2>5. f.seen \ {n} \in SUBSET (TheTree!FileNames \cup {".", "sub"})
    BY DEF Frame
  <2>6. [h EXCEPT !.seen = f.seen \ {n}] \in Frame
    BY <2>5 DEF Frame
  <2>. QED
    BY <2>3, <2>4, <2>6, Zenon DEF Loses
<1>. QED
  BY <1>1, <1>2, <1>3, <1>4, <1>5

\* A name that comes or goes
LEMMA ChangesName ==
  ASSUME NEW path \in Paths, NEW n, TheTree!Changes(path, n)
  PROVE  /\ name' = [name EXCEPT ![path] = n]
         /\ touched' = IF at["ls-R"] = "off" THEN {} ELSE touched \cup {path}
         /\ frames' = [k \in DOMAIN frames |->
                         IF frames[k].dir # path[1] THEN frames[k] ELSE Loses(frames[k], path[2])]
  BY Zenon DEF TheTree!Changes, Loses

\* What is being read when a name comes or goes
LEMMA ChangedFrames ==
  ASSUME TreeInv, NEW path \in Paths, NEW n, TheTree!Changes(path, n)
  PROVE  /\ frames' \in Seq(Frame) /\ Len(frames') = Len(frames)
         /\ \A k \in 1..Len(frames) :
              /\ frames'[k].dir = k - 1
              /\ k # path[1] + 1 => frames'[k] = frames[k]
              /\ k = path[1] + 1 => /\ frames'[k].must = frames[k].must \ {path[2]}
                                    /\ frames'[k].may = frames[k].may \cup {path[2]}
                                    /\ frames'[k].seen = frames[k].seen \ {path[2]}
<1>1. PICK L \in 0..(Depth + 1) : L = Len(frames) /\ DOMAIN frames = 1..L
  <2>1. Len(frames) \in 0..(Depth + 1) /\ DOMAIN frames = 1..Len(frames)
    BY TreeAt
  <2>. QED
    BY <2>1, Zenon
<1>2. \A k \in 1..L : frames[k] \in Frame /\ frames[k].dir = k - 1
  BY <1>1, TreeAt
<1>3. path[1] \in Int /\ path[2] \in TheTree!FileNames \cup {".", "sub"}
  BY TreeAssumed
<1>4. \A k \in 1..L : k - 1 # path[1] <=> k # path[1] + 1
  BY <1>1, <1>3, TreeAssumed
<1>5. frames' = [k \in 1..L |-> IF frames[k].dir # path[1] THEN frames[k] ELSE Loses(frames[k], path[2])]
  BY <1>1, ChangesName
<1>6. \A k \in 1..L : frames'[k] = IF k # path[1] + 1 THEN frames[k] ELSE Loses(frames[k], path[2])
  BY <1>2, <1>4, <1>5
<1>7. \A k \in 1..L : frames'[k] \in Frame
  BY <1>2, <1>3, <1>6, LosesOne
<1>8. L \in Nat /\ frames' \in [1..L -> Frame]
  <2>1. DOMAIN frames' = 1..L
    BY <1>5
  <2>2. frames' = [k \in 1..L |-> frames'[k]]
    BY <1>5
  <2>3. L \in Nat
    BY <1>1, TreeAssumed
  <2>. QED
    BY <1>7, <2>2, <2>3
<1>9. frames' \in Seq(Frame)
  BY <1>8, SeqDef
<1>10. Len(frames') = L
  <2>1. Len(frames') \in Nat /\ DOMAIN frames' = 1..Len(frames') /\ DOMAIN frames' = 1..L
    BY <1>8, <1>9, LenProperties
  <2>. QED
    BY <1>8, <2>1
<1>11. ASSUME NEW k \in 1..L
       PROVE  /\ frames'[k].dir = k - 1
              /\ k # path[1] + 1 => frames'[k] = frames[k]
              /\ k = path[1] + 1 => /\ frames'[k].must = frames[k].must \ {path[2]}
                                    /\ frames'[k].may = frames[k].may \cup {path[2]}
                                    /\ frames'[k].seen = frames[k].seen \ {path[2]}
  <2>1. CASE k # path[1] + 1
    BY <1>2, <1>6, <2>1
  <2>2. CASE k = path[1] + 1
    <3>1. frames'[k] = Loses(frames[k], path[2])
      BY <1>6, <2>2
    <3>. QED
      BY <1>2, <1>3, <2>2, <3>1, LosesOne
  <2>. QED
    BY <2>1, <2>2
<1>. QED
  BY <1>1, <1>9, <1>10, <1>11

\* The walk still meets what stays
LEMMA Changed ==
  ASSUME TreeInv, NEW path \in Paths, NEW n \in TheTree!Files \cup {0}, TheTree!Changes(path, n),
         at'["ls-R"] = at["ls-R"], UNCHANGED <<entry, shown, unopened>>
  PROVE  /\ Stack' /\ ShownOnce' /\ StaysShown'
         /\ name' \in [Paths -> TheTree!Files \cup {0}] /\ touched' \subseteq Paths
<1>1. PICK L \in 0..(Depth + 1) : L = Len(frames) /\ L = Len(frames')
  <2>1. Len(frames) \in 0..(Depth + 1)
    BY TreeAt
  <2>2. Len(frames') = Len(frames)
    BY ChangedFrames
  <2>. QED
    BY <2>1, <2>2, Zenon
<1>2. frames' \in Seq(Frame)
  BY ChangedFrames
<1>3. \A k \in 1..L : /\ frames'[k].dir = k - 1
                      /\ k # path[1] + 1 => frames'[k] = frames[k]
                      /\ k = path[1] + 1 => /\ frames'[k].must = frames[k].must \ {path[2]}
                                            /\ frames'[k].may = frames[k].may \cup {path[2]}
                                            /\ frames'[k].seen = frames[k].seen \ {path[2]}
  BY <1>1, ChangedFrames
<1>4. /\ path[1] \in 0..Depth /\ path[2] \notin {".", "sub"}
      /\ \A p \in Paths : p[1] \in 0..Depth /\ p = <<p[1], p[2]>>
  BY TreeAssumed
<1>5. name' \in [Paths -> TheTree!Files \cup {0}] /\ \A p \in Paths \ {path} : name'[p] = name[p]
  <2>1. name' = [name EXCEPT ![path] = n]
    BY ChangesName
  <2>2. name \in [Paths -> TheTree!Files \cup {0}]
    BY TreeAt
  <2>. QED
    BY <2>1, <2>2
<1>6. touched' = IF at["ls-R"] = "off" THEN {} ELSE touched \cup {path}
  BY ChangesName, Zenon
<1>7. touched' \subseteq Paths
  BY <1>6 DEF TreeInv, TheTree!TypeOK
<1>8. frames' = <<>> <=> frames = <<>>
  BY <1>1, <1>2, TreeAt, EmptySeq
<1>9. frames # <<>> => L \in 1..L
  BY <1>1, TreeAt, EmptySeq
<1>10. \A k \in 1..L : k \in 1..(Depth + 1) /\ k - 1 \in 0..Depth /\ (k = path[1] + 1 => path[1] = k - 1)
  BY <1>1, <1>4, TreeAssumed
<1>18. \A k \in 1..L : /\ frames[k].may \subseteq frames'[k].may
                       /\ frames'[k].seen \subseteq frames[k].seen
                       /\ "sub" \in frames'[k].seen <=> "sub" \in frames[k].seen
  BY <1>3, <1>4
<1>11. Stack'
  <2>1. L <= Depth + 1
    BY <1>1, TreeAssumed
  <2>2. at'["ls-R"] \in {"off", "ended"} <=> frames' = <<>>
    BY <1>8 DEF TreeInv, Stack
  <2>3. ASSUME NEW k \in 1..L
        PROVE  /\ frames'[k].dir = k - 1
               /\ frames'[k].may \subseteq Entries(k - 1) /\ frames'[k].seen \subseteq frames'[k].may
               /\ k - 1 < Depth => "sub" \in frames'[k].must
               /\ k < L => "sub" \in frames'[k].seen
    <3>1. /\ frames[k].may \subseteq Entries(k - 1) /\ frames[k].seen \subseteq frames[k].may
          /\ k - 1 < Depth => "sub" \in frames[k].must
          /\ k < L => "sub" \in frames[k].seen
      BY <1>1 DEF TreeInv, Stack
    <3>2. CASE k # path[1] + 1
      BY <1>3, <3>1, <3>2
    <3>3. CASE k = path[1] + 1
      <4>1. path[2] \in Entries(k - 1)
        BY <1>10, <3>3 DEF Entries
      <4>. QED
        BY <1>3, <1>4, <3>1, <3>3, <4>1
    <3>. QED
      BY <3>2, <3>3
  <2>4. at'["ls-R"] = "stat" =>
          /\ entry' \in frames'[L].may \ {"."}
          /\ entry' = "sub" => entry' \in frames'[L].seen
    <3>1. at["ls-R"] = "stat" => frames # <<>>
      BY DEF TreeInv, Stack
    <3>. QED
      BY <1>1, <1>9, <1>18, <3>1 DEF TreeInv, Stack
  <2>. QED
    BY <1>1, <1>2, <2>1, <2>2, <2>3, <2>4 DEF Stack
<1>12. \A p \in Paths : p[1] < L => p[1] + 1 \in 1..L
  BY <1>1, <1>4, TreeAssumed
<1>13. /\ frames # <<>> => (InnerDone' <=> InnerDone)
       /\ Begun' <=> Begun
       /\ \A e : Looks(e)' <=> Looks(e)
  BY <1>1, <1>8, <1>9, <1>18 DEF InnerDone, Looks, Begun
<1>19. ASSUME NEW p \in Paths \ touched', L # 0
       PROVE  /\ p \in Paths \ touched /\ p # path
              /\ \A k \in 1..L : k = p[1] + 1 /\ p[2] \in frames[k].seen => p[2] \in frames'[k].seen
  <2>1. frames # <<>>
    BY <1>1, <1>19, EmptySeq
  <2>2. at["ls-R"] # "off"
    BY <2>1 DEF TreeInv, Stack
  <2>3. p \in Paths \ touched /\ p # path
    BY <1>6, <1>19, <2>2
  <2>4. p[1] + 1 = path[1] + 1 => p[2] # path[2]
    <3>1. p[1] + 1 = path[1] + 1 => p[1] = path[1]
      BY <1>4
    <3>. QED
      BY <1>4, <2>3, <3>1
  <2>. QED
    BY <1>3, <2>3, <2>4
<1>14. ShownOnce'
  <2>1. at["ls-R"] = "off" => touched' = {}
    BY <1>6
  <2>2. \A p \in Paths \ touched' : p \in Paths /\ shown[p] \in {0, 1}
    BY <1>6 DEF TreeInv, ShownOnce
  <2>3. ASSUME NEW p \in Paths \ touched', p[1] < L, p[2] \notin frames'[p[1] + 1].seen
        PROVE  shown[p] = 0
    <3>1. p \in Paths /\ p[1] + 1 \in 1..L /\ L # 0
      BY <1>4, <1>12, <2>3
    <3>2. p \in Paths \ touched /\ p[2] \notin frames[p[1] + 1].seen
      BY <1>19, <2>3, <3>1
    <3>. QED
      BY <1>1, <2>3, <3>2 DEF TreeInv, ShownOnce
  <2>4. ASSUME NEW p \in Paths \ touched', Begun', p[1] = L - 1, Looks(p[2])'
        PROVE  shown[p] = 0 /\ p[2] \in frames'[L].seen
    <3>1. Begun /\ frames # <<>> /\ L # 0 /\ L \in 1..L
      BY <1>1, <1>9, <1>13, <2>4, TreeAt, EmptySeq DEF Begun
    <3>2. p \in Paths \ touched /\ (p[2] \in frames[L].seen => p[2] \in frames'[L].seen)
      <4>1. L = p[1] + 1
        BY <1>1, <2>4
      <4>. QED
        BY <1>19, <3>1, <4>1
    <3>. QED
      BY <1>1, <1>13, <2>4, <3>1, <3>2 DEF TreeInv, ShownOnce
  <2>5. ASSUME NEW p \in Paths \ touched', Begun', p[1] >= L, ~InnerDone'
        PROVE  shown[p] = 0
    <3>1. Begun /\ frames # <<>> /\ L # 0
      BY <1>1, <1>9, <1>13, <2>5, TreeAt, EmptySeq DEF Begun
    <3>2. p \in Paths \ touched /\ ~InnerDone
      BY <1>13, <1>19, <2>5, <3>1
    <3>. QED
      BY <1>1, <2>5, <3>1, <3>2 DEF TreeInv, ShownOnce
  <2>6. at'["ls-R"] = "off" =>
          touched' = {} /\ unopened' = {} /\ \A p \in Paths : shown'[p] = 0
    BY <2>1 DEF TreeInv, ShownOnce
  <2>. QED
    BY <1>1, <2>2, <2>3, <2>4, <2>5, <2>6 DEF ShownOnce
<1>15. at["ls-R"] # "off" => \A p \in Paths : Stays(p)' => Stays(p) /\ p # path
  BY <1>5, <1>6 DEF Stays
<1>16. at["ls-R"] = "off" => frames' = <<>>
  BY <1>8 DEF TreeInv, Stack
<1>17. StaysShown'
  <2>1. ASSUME NEW p \in Paths, Stays(p)', p[1] < L
        PROVE  /\ p[2] \in frames'[p[1] + 1].must
               /\ p[2] \in frames'[p[1] + 1].seen =>
                    shown[p] = 1 \/ (p[1] = L - 1 /\ Looks(p[2])')
    <3>1. p[1] + 1 \in 1..L
      BY <1>12, <2>1
    <3>2. at["ls-R"] # "off"
      <4>1. frames # <<>>
        BY <1>1, <3>1, TreeAt, EmptySeq
      <4>. QED
        BY <4>1 DEF TreeInv, Stack
    <3>3. Stays(p) /\ p # path
      BY <1>15, <2>1, <3>2
    <3>4. /\ p[2] \in frames[p[1] + 1].must
          /\ p[2] \in frames[p[1] + 1].seen =>
               shown[p] = 1 \/ (p[1] = L - 1 /\ Looks(p[2]))
      BY <1>1, <2>1, <3>3 DEF TreeInv, StaysShown
    <3>5. p[1] + 1 = path[1] + 1 => p[2] # path[2]
      <4>1. p[1] + 1 = path[1] + 1 => p[1] = path[1]
        BY <1>4
      <4>. QED
        BY <1>4, <3>3, <4>1
    <3>6. p[2] \in frames'[p[1] + 1].must
      BY <1>3, <3>1, <3>4, <3>5
    <3>7. frames'[p[1] + 1].seen \subseteq frames[p[1] + 1].seen
      BY <1>18, <3>1
    <3>. QED
      BY <1>13, <3>4, <3>6, <3>7
  <2>2. ASSUME NEW p \in Paths, Stays(p)', Begun', p[1] >= L, InnerDone'
        PROVE  shown[p] = 1
    BY <1>1, <1>13, <1>15, <2>2 DEF TreeInv, StaysShown, Stack, Begun
  <2>3. ASSUME NEW p \in Paths, Stays(p)', at'["ls-R"] = "ended"
        PROVE  shown[p] = 1
    BY <1>15, <2>3 DEF TreeInv, StaysShown
  <2>. QED
    BY <1>1, <2>1, <2>2, <2>3 DEF StaysShown
<1>. QED
  BY <1>5, <1>7, <1>11, <1>14, <1>17

LEMMA MoveLinks ==
  ASSUME TreeInv, TheTree!Link
  PROVE  TreeInv'
<1>1. /\ at' \in [{"ls-R", "mymv"} -> {"off", "read", "stat", "ended", "link", "unlink"}]
      /\ at'["mymv"] = "unlink" /\ at'["ls-R"] = at["ls-R"]
  BY MoveLeaves DEF TheTree!Link
<1>2. move \in Arguments /\ ~move.linked
  BY DEF TreeInv, Moving, TheTree!Link
<1>3. move.from \in Paths /\ move.to \in Paths
  BY <1>2 DEF Arguments
<1>4. UNCHANGED <<entry, shown, unopened, forgotten, starts>>
  BY DEF TheTree!Link, TheTree!walk
<1>5. name \in [Paths -> TheTree!Files \cup {0}] /\ TheTree!KeepsAName
  BY TreeAt DEF TreeInv
<1>6. CASE name[move.from] # 0 /\ name[move.to] = 0
  <2>1. TheTree!Changes(move.to, name[move.from])
    BY <1>6 DEF TheTree!Link
  <2>2. name[move.from] \in TheTree!Files \cup {0}
    BY <1>3, <1>5
  <2>3. /\ Stack' /\ ShownOnce' /\ StaysShown'
        /\ name' \in [Paths -> TheTree!Files \cup {0}] /\ touched' \subseteq Paths
    BY <1>1, <1>3, <1>4, <2>1, <2>2, Changed
  <2>4. name' = [name EXCEPT ![move.to] = name[move.from]]
    BY <1>3, <2>1, ChangesName
  <2>5. move' = [move EXCEPT !.linked = TRUE]
    BY <1>6 DEF TheTree!Link
  <2>6. move' \in Arguments /\ move'.from = move.from /\ move'.to = move.to
    BY <1>2, <2>5 DEF Arguments
  <2>7. move.from # move.to
    BY <1>6
  <2>8. name'[move.from] = name'[move.to]
    BY <1>3, <1>5, <2>4, <2>7
  <2>9. Moving'
    BY <1>1, <2>6, <2>7, <2>8 DEF Moving
  <2>10. TheTree!KeepsAName'
    <3>. SUFFICES ASSUME NEW f \in TheTree!Files \ forgotten
                  PROVE  \E p \in Paths : name'[p] = f
      BY <1>4 DEF TheTree!KeepsAName
    <3>1. PICK p \in Paths : name[p] = f
      BY <1>5 DEF TheTree!KeepsAName
    <3>2. p # move.to
      BY <1>6, <3>1 DEF TheTree!Files
    <3>. QED
      BY <1>3, <1>5, <2>4, <3>1, <3>2
  <2>11. TheTree!TypeOK'
    BY <1>1, <1>4, <2>3 DEF TreeInv, TheTree!TypeOK, Stack
  <2>. QED
    BY <1>1, <2>3, <2>9, <2>10, <2>11 DEF TreeInv
<1>7. CASE ~(name[move.from] # 0 /\ name[move.to] = 0)
  <2>1. UNCHANGED <<name, touched, frames, move>>
    BY <1>7 DEF TheTree!Link
  <2>2. Stack' /\ ShownOnce' /\ StaysShown'
    BY <1>1, <1>4, <2>1, WalkStays
  <2>3. TheTree!TypeOK'
    BY <1>1, <1>4, <2>1 DEF TreeInv, TheTree!TypeOK
  <2>4. Moving' /\ TheTree!KeepsAName'
    BY <1>1, <1>2, <1>4, <2>1 DEF TreeInv, Moving, TheTree!KeepsAName
  <2>. QED
    BY <1>1, <2>2, <2>3, <2>4 DEF TreeInv
<1>. QED
  BY <1>6, <1>7

LEMMA MoveUnlinks ==
  ASSUME TreeInv, TheTree!Unlink
  PROVE  TreeInv'
<1>1. /\ at' \in [{"ls-R", "mymv"} -> {"off", "read", "stat", "ended", "link", "unlink"}]
      /\ at'["mymv"] = "off" /\ at'["ls-R"] = at["ls-R"]
  BY MoveLeaves DEF TheTree!Unlink
<1>2. move.from \in Paths /\ move.to \in Paths
  BY DEF TreeInv, Moving, TheTree!Unlink, Arguments
<1>3. UNCHANGED <<entry, shown, unopened, starts>>
  BY DEF TheTree!Unlink, TheTree!walk
<1>4. name \in [Paths -> TheTree!Files \cup {0}] /\ TheTree!KeepsAName
  BY TreeAt DEF TreeInv
<1>5. TheTree!Changes(move.from, 0)
  BY DEF TheTree!Unlink
<1>6. /\ Stack' /\ ShownOnce' /\ StaysShown'
      /\ name' \in [Paths -> TheTree!Files \cup {0}] /\ touched' \subseteq Paths
  BY <1>1, <1>2, <1>3, <1>5, Changed
<1>7. name' = [name EXCEPT ![move.from] = 0]
  BY <1>2, <1>5, ChangesName
<1>8. forgotten' = forgotten \cup (IF move.linked THEN {} ELSE {name[move.from]} \ {0})
  BY DEF TheTree!Unlink
<1>9. TheTree!KeepsAName'
  <2>. SUFFICES ASSUME NEW f \in TheTree!Files \ forgotten'
                PROVE  \E p \in Paths : name'[p] = f
    BY DEF TheTree!KeepsAName
  <2>1. PICK p \in Paths : name[p] = f
    BY <1>4, <1>8 DEF TheTree!KeepsAName
  <2>2. CASE p # move.from
    BY <1>2, <1>4, <1>7, <2>1, <2>2
  <2>3. CASE p = move.from
    <3>1. f # 0
      BY DEF TheTree!Files
    <3>2. move.linked
      BY <1>8, <2>1, <2>3, <3>1
    <3>3. move.from # move.to /\ name[move.to] = f
      BY <2>1, <2>3, <3>2 DEF TreeInv, Moving, TheTree!Unlink
    <3>. QED
      BY <1>2, <1>4, <1>7, <3>3
  <2>. QED
    BY <2>2, <2>3
<1>10. forgotten' \subseteq TheTree!Files
  BY <1>2, <1>4, <1>8 DEF TreeInv, TheTree!TypeOK
<1>11. TheTree!TypeOK'
  BY <1>1, <1>3, <1>6, <1>10 DEF TreeInv, TheTree!TypeOK, Stack
<1>. QED
  BY <1>1, <1>6, <1>9, <1>11 DEF TreeInv, Moving

\* What of a step of the walk is left to show
LEMMA WalkKeeps ==
  ASSUME TreeInv, TheTree!StartWalk \/ TheTree!Walk,
         at'["ls-R"] \in {"off", "read", "stat", "ended"},
         entry' \in TheTree!FileNames \cup {".", "sub"},
         shown' \in [Paths -> Nat], unopened' \subseteq 0..Depth,
         Stack', ShownOnce', StaysShown'
  PROVE  TreeInv'
<1>1. /\ UNCHANGED <<name, move, touched, forgotten, starts>>
      /\ at' \in [{"ls-R", "mymv"} -> {"off", "read", "stat", "ended", "link", "unlink"}]
      /\ at'["mymv"] = at["mymv"] /\ Moving' /\ TheTree!KeepsAName'
  BY WalkLeaves
<1>2. TheTree!TypeOK'
  BY <1>1 DEF TreeInv, TheTree!TypeOK, Stack
<1>. QED
  BY <1>1, <1>2 DEF TreeInv

LEMMA OpenedIs ==
  ASSUME TreeInv, NEW d \in 0..Depth
  PROVE  /\ TheTree!Opened(d) \in Frame
         /\ TheTree!Opened(d).dir = d /\ TheTree!Opened(d).seen = {}
         /\ TheTree!Opened(d).must = TheTree!Names(d) /\ TheTree!Opened(d).may = TheTree!Names(d)
         /\ TheTree!Names(d) \subseteq Entries(d)
         /\ d < Depth => "sub" \in TheTree!Names(d)
         /\ \A p \in Paths : p[1] = d /\ name[p] # 0 => p[2] \in TheTree!Names(d)
<1>1. TheTree!Names(d) \subseteq Entries(d)
  BY DEF TheTree!Names, Entries
<1>2. Entries(d) \subseteq TheTree!FileNames \cup {".", "sub"}
  BY DEF Entries, TheTree!FileNames
<1>3. d < Depth => "sub" \in TheTree!Names(d)
  BY DEF TheTree!Names
<1>4. \A p \in Paths : p[1] = d /\ name[p] # 0 => p[2] \in TheTree!Names(d)
  BY DEF TheTree!Names
<1>5. TheTree!Opened(d) \in Frame
  BY <1>1, <1>2 DEF TheTree!Opened, Frame
<1>6. /\ TheTree!Opened(d).dir = d /\ TheTree!Opened(d).seen = {}
      /\ TheTree!Opened(d).must = TheTree!Names(d) /\ TheTree!Opened(d).may = TheTree!Names(d)
  BY DEF TheTree!Opened
<1>. QED
  BY <1>1, <1>3, <1>4, <1>5, <1>6

\* Below the directory that is about to be opened, nothing has been shown
LEMMA NothingBelow ==
  ASSUME TreeInv, at["ls-R"] = "off" \/ Looks("sub"), NEW p \in Paths
  PROVE  /\ p \notin touched /\ p[1] >= Len(frames) => shown[p] = 0
         /\ Stays(p) /\ p[1] < Len(frames) =>
              /\ p[2] \in frames[p[1] + 1].must
              /\ p[2] \in frames[p[1] + 1].seen => shown[p] = 1
<1>1. p[2] # "sub"
  BY TreeAssumed
<1>2. CASE at["ls-R"] = "off"
  <2>1. frames = <<>> /\ shown[p] = 0
    BY <1>2 DEF TreeInv, Stack, ShownOnce
  <2>2. ~(p[1] < Len(frames))
    BY <2>1, TreeAssumed
  <2>. QED
    BY <2>1, <2>2
<1>3. CASE Looks("sub")
  <2>1. Begun /\ ~InnerDone /\ ~Looks(p[2])
    BY <1>1, <1>3 DEF TreeInv, Stack, Begun, InnerDone, Looks
  <2>. QED
    BY <2>1 DEF TreeInv, ShownOnce, StaysShown
<1>. QED
  BY <1>2, <1>3

\* read_dir opens the directory
LEMMA Pushes ==
  ASSUME TreeInv, at["ls-R"] = "off" \/ Looks("sub"), Len(frames) \in 0..Depth,
         frames' = Append(frames, TheTree!Opened(Len(frames))), at'["ls-R"] = "read",
         UNCHANGED <<name, touched, unopened, shown>>
  PROVE  Stack' /\ ShownOnce' /\ StaysShown'
<1>1. PICK L \in 0..Depth : L = Len(frames)
  OBVIOUS
<1>2. PICK e \in Frame : e = TheTree!Opened(L)
  BY <1>1, OpenedIs
<1>3. /\ e.dir = L /\ e.seen = {} /\ e.may \subseteq Entries(L) /\ (L < Depth => "sub" \in e.must)
      /\ \A p \in Paths : p[1] = L /\ name[p] # 0 => p[2] \in e.must
  BY <1>1, <1>2, OpenedIs
<1>4. frames \in Seq(Frame) /\ frames' = Append(frames, e)
  BY <1>1, <1>2, TreeAt
<1>5. frames' \in Seq(Frame) /\ Len(frames') = L + 1
  BY <1>1, <1>4, AppendProperties
<1>6. frames'[L + 1] = e /\ \A k \in 1..L : frames'[k] = frames[k]
  BY <1>1, <1>4, AppendProperties
<1>7. /\ L + 1 <= Depth + 1 /\ L + 1 # 0 /\ L < L + 1 /\ (L + 1) - 1 = L
      /\ \A k \in 1..(L + 1) : k = L + 1 \/ k \in 1..L
      /\ \A k \in 1..L : k < L \/ k = L
      /\ \A p \in Paths : /\ p[1] < L + 1 => (p[1] < L /\ p[1] + 1 \in 1..L) \/ p[1] = L
                          /\ p[1] >= L + 1 => p[1] >= L
  BY <1>1, TreeAssumed
<1>8. frames' # <<>>
  BY <1>5, <1>7, EmptySeq
<1>9. \A p \in Paths : /\ p \notin touched /\ p[1] >= L => shown[p] = 0
                       /\ Stays(p) /\ p[1] < L =>
                            /\ p[2] \in frames[p[1] + 1].must
                            /\ p[2] \in frames[p[1] + 1].seen => shown[p] = 1
  BY <1>1, NothingBelow
<1>10. Stack'
  <2>1. ASSUME NEW k \in 1..(L + 1)
        PROVE  /\ frames'[k].dir = k - 1
               /\ frames'[k].may \subseteq Entries(k - 1) /\ frames'[k].seen \subseteq frames'[k].may
               /\ k - 1 < Depth => "sub" \in frames'[k].must
               /\ k < L + 1 => "sub" \in frames'[k].seen
    <3>1. CASE k = L + 1
      <4>1. ~(k < L + 1)
        BY <1>7, <3>1
      <4>. QED
        BY <1>3, <1>6, <1>7, <3>1, <4>1
    <3>2. CASE k \in 1..L
      <4>1. /\ frames[k].dir = k - 1
            /\ frames[k].may \subseteq Entries(k - 1) /\ frames[k].seen \subseteq frames[k].may
            /\ k - 1 < Depth => "sub" \in frames[k].must
            /\ k < L => "sub" \in frames[k].seen
        BY <1>1, <3>2 DEF TreeInv, Stack
      <4>2. k = L => "sub" \in frames[k].seen
        <5>1. frames # <<>>
          BY <1>1, <3>2, TreeAt, EmptySeq
        <5>2. Looks("sub")
          BY <5>1 DEF TreeInv, Stack
        <5>. QED
          BY <1>1, <5>2 DEF TreeInv, Stack, Looks
      <4>. QED
        BY <1>6, <1>7, <3>2, <4>1, <4>2
    <3>. QED
      BY <1>7, <3>1, <3>2
  <2>. QED
    BY <1>5, <1>7, <1>8, <2>1 DEF Stack
<1>11. ~InnerDone' /\ \A n : ~Looks(n)'
  BY <1>3, <1>5, <1>6 DEF InnerDone, Looks
<1>12. ShownOnce'
  <2>1. \A p \in Paths \ touched :
          p[1] < L + 1 /\ p[2] \notin frames'[p[1] + 1].seen => shown[p] = 0
    <3>. SUFFICES ASSUME NEW p \in Paths \ touched, p[1] < L + 1, p[2] \notin frames'[p[1] + 1].seen
                  PROVE  shown[p] = 0
      OBVIOUS
    <3>1. CASE p[1] = L
      BY <1>7, <1>9, <3>1
    <3>2. CASE p[1] < L /\ p[1] + 1 \in 1..L
      BY <1>1, <1>6, <3>2 DEF TreeInv, ShownOnce
    <3>. QED
      BY <1>7, <3>1, <3>2
  <2>. QED
    BY <1>5, <1>7, <1>9, <1>11, <2>1 DEF TreeInv, ShownOnce
<1>13. StaysShown'
  <2>1. \A p \in Paths : Stays(p)' <=> Stays(p)
    BY DEF Stays
  <2>2. ASSUME NEW p \in Paths, Stays(p), p[1] < L + 1
        PROVE  /\ p[2] \in frames'[p[1] + 1].must
               /\ p[2] \in frames'[p[1] + 1].seen => shown[p] = 1
    <3>1. CASE p[1] = L
      BY <1>3, <1>6, <2>2, <3>1 DEF Stays
    <3>2. CASE p[1] < L /\ p[1] + 1 \in 1..L
      BY <1>6, <1>9, <2>2, <3>2
    <3>. QED
      BY <1>7, <2>2, <3>1, <3>2
  <2>. QED
    BY <1>5, <1>11, <2>1, <2>2 DEF StaysShown
<1>. QED
  BY <1>10, <1>12, <1>13

\* read_dir passes over a directory that it cannot open
LEMMA Misses ==
  ASSUME TreeInv, at["ls-R"] = "off" \/ Looks("sub"), Len(frames) \in 0..Depth,
         frames' = frames, unopened' = unopened \cup {Len(frames)},
         at'["ls-R"] = IF frames = <<>> THEN "ended" ELSE "read",
         UNCHANGED <<name, touched, shown>>
  PROVE  Stack' /\ ShownOnce' /\ StaysShown'
<1>1. PICK L \in 0..Depth : L = Len(frames)
  OBVIOUS
<1>2. \A n : ~Looks(n)'
  BY DEF Looks
<1>3. Stack'
  BY DEF TreeInv, Stack
<1>4. \A p \in Paths : /\ p \notin touched /\ p[1] >= L => shown[p] = 0
                       /\ Stays(p) /\ p[1] < L =>
                            /\ p[2] \in frames[p[1] + 1].must
                            /\ p[2] \in frames[p[1] + 1].seen => shown[p] = 1
  BY <1>1, NothingBelow
<1>5. ShownOnce'
  BY <1>1, <1>2, <1>4 DEF TreeInv, ShownOnce
<1>6. ASSUME NEW p \in Paths, Stays(p)'
      PROVE  Stays(p) /\ ~(p[1] >= L)
  <2>1. Stays(p) /\ L \notin 0..p[1]
    BY <1>1, <1>6 DEF Stays
  <2>. QED
    BY <2>1, TreeAssumed
<1>7. at'["ls-R"] = "ended" => L = 0
  BY <1>1
<1>8. \A p \in Paths : p[1] >= 0
  BY TreeAssumed
<1>9. StaysShown'
  BY <1>1, <1>2, <1>4, <1>6, <1>7, <1>8 DEF StaysShown
<1>. QED
  BY <1>3, <1>5, <1>9

LEMMA WalkBegins ==
  ASSUME TreeInv, TheTree!StartWalk
  PROVE  TreeInv'
<1>1. /\ at["ls-R"] = "off" /\ frames = <<>> /\ Len(<<>>) = 0 /\ 0 \in 0..Depth
      /\ at \in [{"ls-R", "mymv"} -> {"off", "read", "stat", "ended", "link", "unlink"}]
  BY TreeAssumed DEF TreeInv, Stack, TheTree!StartWalk
<1>2. UNCHANGED <<name, touched, entry, shown>>
  BY DEF TheTree!StartWalk
<1>3. TheTree!Enter(0, <<>>)
  BY DEF TheTree!StartWalk
<1>4. CASE frames' = Append(<<>>, TheTree!Opened(0)) /\ TheTree!Goes("ls-R", "read") /\ UNCHANGED unopened
  <2>1. at'["ls-R"] = "read"
    BY <1>1, <1>4 DEF TheTree!Goes
  <2>2. Len(frames) = 0
    BY <1>1
  <2>3. frames' = Append(frames, TheTree!Opened(Len(frames))) /\ Len(frames) \in 0..Depth
    BY <1>1, <1>4, <2>2
  <2>4. Stack' /\ ShownOnce' /\ StaysShown'
    BY <1>1, <1>2, <1>4, <2>1, <2>3, Pushes
  <2>. QED
    BY <1>2, <1>4, <2>1, <2>4, WalkKeeps DEF TreeInv, TheTree!TypeOK
<1>5. CASE frames' = <<>> /\ unopened' = unopened \cup {0} /\ TheTree!Goes("ls-R", "ended")
  <2>1. at'["ls-R"] = "ended"
    BY <1>1, <1>5 DEF TheTree!Goes
  <2>2. frames' = frames /\ unopened' = unopened \cup {Len(frames)} /\ Len(frames) \in 0..Depth
    BY <1>1, <1>5
  <2>3. Stack' /\ ShownOnce' /\ StaysShown'
    BY <1>1, <1>2, <2>1, <2>2, Misses
  <2>4. unopened' \subseteq 0..Depth
    BY <1>1, <1>5 DEF TreeInv, TheTree!TypeOK
  <2>. QED
    BY <1>2, <2>1, <2>3, <2>4, WalkKeeps DEF TreeInv, TheTree!TypeOK
<1>. QED
  BY <1>3, <1>4, <1>5 DEF TheTree!Enter

\* readdir returns n
Sees(f, n) == [f EXCEPT !.seen = @ \cup {n}]

LEMMA SeesOne ==
  ASSUME NEW f \in Frame, NEW n \in TheTree!FileNames \cup {".", "sub"}
  PROVE  /\ Sees(f, n) \in Frame
         /\ Sees(f, n).dir = f.dir /\ Sees(f, n).must = f.must /\ Sees(f, n).may = f.may
         /\ Sees(f, n).seen = f.seen \cup {n}
<1>1. f.seen \cup {n} \in SUBSET (TheTree!FileNames \cup {".", "sub"})
  BY DEF Frame
<1>2. Sees(f, n) \in Frame
  BY <1>1 DEF Sees, Frame
<1>3. Sees(f, n).dir = f.dir
  BY DEF Sees, Frame
<1>4. Sees(f, n).must = f.must
  BY DEF Sees, Frame
<1>5. Sees(f, n).may = f.may
  BY DEF Sees, Frame
<1>6. Sees(f, n).seen = f.seen \cup {n}
  BY DEF Sees, Frame
<1>. QED
  BY <1>2, <1>3, <1>4, <1>5, <1>6

\* The innermost directory, while the walk goes on
LEMMA Innermost ==
  ASSUME TreeInv, at["ls-R"] \in {"read", "stat"}
  PROVE  /\ Begun /\ Len(frames) \in 1..(Depth + 1) /\ Len(frames) - 1 \in 0..Depth
         /\ TheTree!Last(frames) = frames[Len(frames)]
         /\ frames[Len(frames)] \in Frame
         /\ frames[Len(frames)].dir = Len(frames) - 1
         /\ frames[Len(frames)].seen \subseteq frames[Len(frames)].may
         /\ frames[Len(frames)].may \subseteq Entries(Len(frames) - 1)
<1>1. Begun
  BY DEF TreeInv, Stack, Begun
<1>2. PICK L \in 1..(Depth + 1) : L = Len(frames)
  <2>1. Len(frames) \in 0..(Depth + 1) /\ frames \in Seq(Frame)
    BY TreeAt
  <2>2. Len(frames) # 0
    BY <1>1, <2>1, EmptySeq DEF Begun
  <2>3. \A n \in 0..(Depth + 1) : n # 0 => n \in 1..(Depth + 1)
    BY TreeAssumed
  <2>. QED
    BY <2>1, <2>2, <2>3
<1>3. L \in 1..L /\ L - 1 \in 0..Depth
  BY <1>2, TreeAssumed
<1>4. frames[L] \in Frame /\ frames[L].dir = L - 1
  BY <1>2, <1>3, TreeAt
<1>5. frames[L].seen \subseteq frames[L].may /\ frames[L].may \subseteq Entries(L - 1)
  BY <1>2, <1>3 DEF TreeInv, Stack
<1>6. TheTree!Last(frames) = frames[Len(frames)]
  BY DEF TheTree!Last
<1>. QED
  BY <1>1, <1>2, <1>3, <1>4, <1>5, <1>6

LEMMA WalkReads ==
  ASSUME TreeInv, TheTree!ReadName
  PROVE  TreeInv'
<1>1. at["ls-R"] = "read" /\ UNCHANGED <<name, shown, unopened, touched>>
  BY DEF TheTree!ReadName
<1>2. PICK L \in 1..(Depth + 1) : L = Len(frames)
  BY <1>1, Innermost
<1>3. /\ Begun /\ TheTree!Last(frames) = frames[L] /\ frames[L] \in Frame
      /\ frames[L].seen \subseteq frames[L].may /\ frames[L].may \subseteq Entries(L - 1)
  BY <1>1, <1>2, Innermost
<1>4. PICK n \in frames[L].may \ frames[L].seen :
         /\ frames' = [frames EXCEPT ![Len(frames)].seen = @ \cup {n}]
         /\ entry' = IF TheTree!Skipped(n) THEN entry ELSE n
         /\ IF TheTree!Skipped(n) THEN UNCHANGED at ELSE TheTree!Goes("ls-R", "stat")
  BY <1>3 DEF TheTree!ReadName
<1>5. n \in TheTree!FileNames \cup {".", "sub"}
  BY <1>3 DEF Frame
<1>6. frames' = [frames EXCEPT ![L] = Sees(frames[L], n)]
  BY <1>2, <1>4, Zenon DEF Sees
<1>7. PICK e \in Frame :
        /\ e = Sees(frames[L], n) /\ e.dir = frames[L].dir /\ e.must = frames[L].must
        /\ e.may = frames[L].may /\ e.seen = frames[L].seen \cup {n}
  BY <1>3, <1>5, SeesOne
<1>8. frames \in Seq(Frame) /\ L \in 1..Len(frames) /\ frames' = [frames EXCEPT ![L] = e]
  <2>1. L \in 1..L
    BY TreeAssumed
  <2>. QED
    BY <1>2, <1>6, <1>7, <2>1, TreeAt
<1>9. frames' \in Seq(Frame) /\ Len(frames') = L /\ \A k \in 1..L : frames'[k] = IF k = L THEN e ELSE frames[k]
  BY <1>2, <1>8, ExceptSeq
<1>10. /\ L <= Depth + 1 /\ L # 0 /\ L \in 1..L /\ (L - 1) + 1 = L /\ L - 1 < L
       /\ \A k \in 1..L : k < L => k # L
       /\ \A p \in Paths : p[1] < L => p[1] + 1 \in 1..L /\ (p[1] = L - 1 <=> p[1] + 1 = L)
       /\ \A p \in Paths : p[1] = L - 1 => p[1] < L
  BY TreeAssumed
<1>11. at'["ls-R"] = IF n = "." THEN "read" ELSE "stat"
  BY <1>1, <1>4, TreeAt DEF TheTree!Goes, TheTree!Skipped
<1>12. n # "." => entry' = n
  BY <1>4 DEF TheTree!Skipped
<1>13. \A m : /\ Looks(m)' <=> n # "." /\ m = n
              /\ ~Looks(m)
  BY <1>1, <1>11, <1>12 DEF Looks
<1>14. frames'[L] = e
  BY <1>9, <1>10
<1>15. \A k \in 1..L : k # L => frames'[k] = frames[k]
  BY <1>9
<1>16. frames' # <<>> /\ Begun'
  BY <1>9, <1>10, EmptySeq DEF Begun
<1>17. Stack'
  <2>1. ASSUME NEW k \in 1..L
        PROVE  /\ frames'[k].dir = k - 1
               /\ frames'[k].may \subseteq Entries(k - 1) /\ frames'[k].seen \subseteq frames'[k].may
               /\ k - 1 < Depth => "sub" \in frames'[k].must
               /\ k < L => "sub" \in frames'[k].seen
    <3>1. /\ frames[k].dir = k - 1
          /\ frames[k].may \subseteq Entries(k - 1) /\ frames[k].seen \subseteq frames[k].may
          /\ k - 1 < Depth => "sub" \in frames[k].must
          /\ k < L => "sub" \in frames[k].seen
      BY <1>2 DEF TreeInv, Stack
    <3>2. CASE k = L
      BY <1>4, <1>7, <1>14, <3>1, <3>2
    <3>3. CASE k # L
      BY <1>15, <3>1, <3>3
    <3>. QED
      BY <3>2, <3>3
  <2>2. at'["ls-R"] = "stat" =>
          /\ entry' \in frames'[L].may \ {"."}
          /\ entry' = "sub" => entry' \in frames'[L].seen
    BY <1>4, <1>7, <1>11, <1>12, <1>14
  <2>3. at'["ls-R"] \notin {"off", "ended"}
    BY <1>11
  <2>. QED
    BY <1>9, <1>10, <1>16, <2>1, <2>2, <2>3 DEF Stack
<1>18. \A p \in Paths \ touched :
         p[1] < L /\ p[2] \notin frames[p[1] + 1].seen => shown[p] = 0
  BY <1>2 DEF TreeInv, ShownOnce
<1>19. ShownOnce'
  <2>1. \A p \in Paths \ touched :
          p[1] < L /\ p[2] \notin frames'[p[1] + 1].seen => shown[p] = 0
    <3>. SUFFICES ASSUME NEW p \in Paths \ touched, p[1] < L, p[2] \notin frames'[p[1] + 1].seen
                  PROVE  shown[p] = 0
      OBVIOUS
    <3>1. p[2] \notin frames[p[1] + 1].seen
      BY <1>7, <1>10, <1>14, <1>15
    <3>. QED
      BY <1>18, <3>1
  <2>2. \A p \in Paths \ touched :
          p[1] = L - 1 /\ Looks(p[2])' => shown[p] = 0 /\ p[2] \in frames'[L].seen
    BY <1>4, <1>7, <1>10, <1>13, <1>14, <1>18
  <2>3. \A p \in Paths \ touched : p[1] >= L /\ ~InnerDone' => shown[p] = 0
    <3>1. ~InnerDone' => ~InnerDone
      BY <1>2, <1>4, <1>7, <1>9, <1>13, <1>14 DEF InnerDone
    <3>. QED
      BY <1>2, <1>3, <3>1 DEF TreeInv, ShownOnce
  <2>4. at'["ls-R"] # "off"
    BY <1>11
  <2>. QED
    BY <1>1, <1>9, <2>1, <2>2, <2>3, <2>4 DEF TreeInv, ShownOnce
<1>20. StaysShown'
  <2>1. \A p \in Paths : Stays(p)' <=> Stays(p)
    BY <1>1 DEF Stays
  <2>2. ASSUME NEW p \in Paths, Stays(p), p[1] < L
        PROVE  /\ p[2] \in frames'[p[1] + 1].must
               /\ p[2] \in frames'[p[1] + 1].seen =>
                    shown[p] = 1 \/ (p[1] = L - 1 /\ Looks(p[2])')
    <3>1. /\ p[2] \in frames[p[1] + 1].must
          /\ p[2] \in frames[p[1] + 1].seen => shown[p] = 1
      BY <1>2, <1>13, <2>2 DEF TreeInv, StaysShown
    <3>2. CASE p[1] + 1 = L
      <4>1. p[2] # "." /\ p[1] = L - 1
        BY <1>10, <2>2, <3>2, TreeAssumed
      <4>. QED
        BY <1>7, <1>13, <1>14, <3>1, <3>2, <4>1
    <3>3. CASE p[1] + 1 # L
      BY <1>10, <1>15, <2>2, <3>1, <3>3
    <3>. QED
      BY <3>2, <3>3
  <2>3. ASSUME NEW p \in Paths, Stays(p), p[1] >= L, InnerDone'
        PROVE  shown[p] = 1
    <3>1. InnerDone
      BY <1>2, <1>7, <1>9, <1>13, <1>14, <2>3 DEF InnerDone
    <3>. QED
      BY <1>2, <1>3, <2>3, <3>1 DEF TreeInv, StaysShown
  <2>4. at'["ls-R"] # "ended"
    BY <1>11
  <2>. QED
    BY <1>1, <1>9, <2>1, <2>2, <2>3, <2>4 DEF StaysShown
<1>21. entry' \in TheTree!FileNames \cup {".", "sub"}
  BY <1>4, <1>5 DEF TreeInv, TheTree!TypeOK
<1>22. shown' \in [Paths -> Nat] /\ unopened' \subseteq 0..Depth
  BY <1>1 DEF TreeInv, TheTree!TypeOK
<1>23. at'["ls-R"] \in {"off", "read", "stat", "ended"}
  BY <1>11
<1>. QED
  BY <1>17, <1>19, <1>20, <1>21, <1>22, <1>23, WalkKeeps DEF TheTree!Walk

\* isFile is called with a name of the innermost directory
LEMMA EntryIs ==
  ASSUME TreeInv, at["ls-R"] = "stat"
  PROVE  /\ entry \in frames[Len(frames)].may
         /\ entry \notin TheTree!FileNames => Looks("sub") /\ Len(frames) \in 0..Depth
         /\ entry \in TheTree!FileNames =>
              /\ <<Len(frames) - 1, entry>> \in Paths
              /\ <<Len(frames) - 1, entry>> \notin touched =>
                   /\ shown[<<Len(frames) - 1, entry>>] = 0
                   /\ entry \in frames[Len(frames)].seen
              /\ ~Looks("sub")
<1>1. PICK L \in 1..(Depth + 1) : L = Len(frames)
  BY Innermost
<1>2. entry \in frames[L].may /\ entry # "." /\ Begun
  BY <1>1, Innermost DEF TreeInv, Stack
<1>3. entry \in Entries(L - 1)
  BY <1>1, <1>2, Innermost
<1>4. "sub" \notin TheTree!FileNames
  BY TreeAssumed DEF TheTree!FileNames
<1>5. ASSUME entry \notin TheTree!FileNames
      PROVE  Looks("sub") /\ L \in 0..Depth
  <2>1. entry = "sub" /\ L - 1 < Depth
    BY <1>2, <1>3, <1>5 DEF Entries, TheTree!FileNames
  <2>2. \A n \in 1..(Depth + 1) : n - 1 < Depth => n \in 0..Depth
    BY TreeAssumed
  <2>. QED
    BY <2>1, <2>2 DEF Looks
<1>6. ASSUME entry \in TheTree!FileNames
      PROVE  /\ <<L - 1, entry>> \in Paths
             /\ <<L - 1, entry>> \notin touched =>
                  shown[<<L - 1, entry>>] = 0 /\ entry \in frames[L].seen
             /\ ~Looks("sub")
  <2>1. PICK p \in Paths : p[1] = L - 1 /\ p[2] = entry
    BY <1>2, <1>3, <1>4, <1>6 DEF Entries
  <2>2. p = <<L - 1, entry>>
    BY <2>1, TreeAssumed
  <2>3. p \notin touched => shown[p] = 0 /\ entry \in frames[L].seen
    BY <1>1, <1>2, <2>1 DEF TreeInv, ShownOnce, Looks
  <2>. QED
    BY <1>4, <1>6, <2>2, <2>3 DEF Looks
<1>. QED
  BY <1>1, <1>2, <1>5, <1>6

LEMMA WalkShows ==
  ASSUME TreeInv, TheTree!isFile
  PROVE  TreeInv'
<1>1. at["ls-R"] = "stat" /\ entry' = "." /\ UNCHANGED <<name, touched>>
  BY DEF TheTree!isFile
<1>2. PICK L \in 1..(Depth + 1) : L = Len(frames)
  BY <1>1, Innermost
<1>3. /\ Begun /\ TheTree!Last(frames).dir = L - 1 /\ L - 1 \in Int
      /\ at \in [{"ls-R", "mymv"} -> {"off", "read", "stat", "ended", "link", "unlink"}]
  BY <1>1, <1>2, Innermost, TreeAt
<1>4. CASE entry \notin TheTree!FileNames
  <2>1. Looks("sub") /\ entry = "sub" /\ L \in 0..Depth
    BY <1>1, <1>2, <1>4, EntryIs DEF Looks
  <2>2. TheTree!Enter(L, frames) /\ UNCHANGED shown
    <3>1. /\ TheTree!Enter(IF entry = "sub" THEN <<TheTree!Last(frames).dir, entry>>[1] + 1
                           ELSE <<TheTree!Last(frames).dir, entry>>[1], frames)
          /\ UNCHANGED shown
      BY <1>4 DEF TheTree!isFile
    <3>2. (IF entry = "sub" THEN <<TheTree!Last(frames).dir, entry>>[1] + 1
           ELSE <<TheTree!Last(frames).dir, entry>>[1]) = L
      BY <1>3, <2>1
    <3>. QED
      BY <3>1, <3>2
  <2>3. CASE frames' = Append(frames, TheTree!Opened(L)) /\ TheTree!Goes("ls-R", "read") /\ UNCHANGED unopened
    <3>1. at'["ls-R"] = "read"
      BY <1>3, <2>3 DEF TheTree!Goes
    <3>2. Stack' /\ ShownOnce' /\ StaysShown'
      BY <1>1, <1>2, <2>1, <2>2, <2>3, <3>1, Pushes
    <3>. QED
      BY <1>1, <2>2, <2>3, <3>1, <3>2, WalkKeeps DEF TreeInv, TheTree!TypeOK, TheTree!Walk
  <2>4. CASE frames' = frames /\ unopened' = unopened \cup {L} /\ TheTree!Goes("ls-R", "read")
    <3>1. at'["ls-R"] = IF frames = <<>> THEN "ended" ELSE "read"
      BY <1>3, <2>4 DEF TheTree!Goes, Begun
    <3>2. Stack' /\ ShownOnce' /\ StaysShown'
      BY <1>1, <1>2, <2>1, <2>2, <2>4, <3>1, Misses
    <3>3. unopened' \subseteq 0..Depth
      BY <2>1, <2>4 DEF TreeInv, TheTree!TypeOK
    <3>. QED
      BY <1>1, <2>2, <2>4, <3>1, <3>2, <3>3, WalkKeeps DEF TreeInv, TheTree!TypeOK, TheTree!Walk
  <2>. QED
    BY <1>3, <2>2, <2>3, <2>4 DEF TheTree!Enter, Begun
<1>5. CASE entry \in TheTree!FileNames
  <2>1. PICK q \in Paths :
          /\ q = <<L - 1, entry>>
          /\ q \notin touched => shown[q] = 0 /\ entry \in frames[L].seen
    BY <1>1, <1>2, <1>5, EntryIs
  <2>2. q[1] = L - 1 /\ q[2] = entry /\ ~Looks("sub")
    BY <1>1, <1>2, <1>5, <2>1, EntryIs
  <2>3. "sub" \notin TheTree!FileNames
    BY TreeAssumed DEF TheTree!FileNames
  <2>4. /\ \/ /\ shown' = [shown EXCEPT ![<<TheTree!Last(frames).dir, entry>>] =
                             IF name[<<TheTree!Last(frames).dir, entry>>] = 0 THEN @ ELSE @ + 1]
              /\ UNCHANGED unopened
           \/ /\ unopened' = unopened \cup {<<TheTree!Last(frames).dir, entry>>[1]}
              /\ UNCHANGED shown
        /\ TheTree!Goes("ls-R", "read") /\ UNCHANGED frames
    <3>1. ~(entry \notin TheTree!FileNames)
      BY <1>5
    <3>. QED
      BY <3>1, Zenon DEF TheTree!isFile
  <2>5. <<TheTree!Last(frames).dir, entry>> = q
    BY <1>3, <2>1
  <2>6. \/ /\ shown' = [shown EXCEPT ![q] = IF name[q] = 0 THEN shown[q] ELSE shown[q] + 1]
           /\ unopened' = unopened
        \/ shown' = shown /\ unopened' = unopened \cup {L - 1}
    <3>1. <<TheTree!Last(frames).dir, entry>>[1] = L - 1
      BY <1>3
    <3>. QED
      BY <2>4, <2>5, <3>1
  <2>7. /\ shown' \in [Paths -> Nat]
        /\ q \notin touched => shown'[q] \in {0, 1}
        /\ q \notin touched /\ name[q] # 0 => shown'[q] = 1 \/ L - 1 \in unopened'
        /\ \A p \in Paths : p # q => shown'[p] = shown[p]
    <3>1. CASE shown' = [shown EXCEPT ![q] = IF name[q] = 0 THEN shown[q] ELSE shown[q] + 1]
      BY <2>1, <3>1, TreeAt
    <3>2. CASE shown' = shown /\ unopened' = unopened \cup {L - 1}
      <4>1. L - 1 \in unopened'
        BY <3>2
      <4>2. q \notin touched => shown'[q] \in {0, 1}
        BY <2>1, <3>2
      <4>3. shown' \in [Paths -> Nat] /\ \A p \in Paths : shown'[p] = shown[p]
        BY <3>2, TreeAt
      <4>. QED
        BY <4>1, <4>2, <4>3
    <3>. QED
      BY <2>6, <3>1, <3>2
  <2>8. at'["ls-R"] = "read"
    BY <1>3, <2>4 DEF TheTree!Goes
  <2>9. \A n : ~Looks(n)'
    BY <2>8 DEF Looks
  <2>10. Stack'
    BY <1>1, <2>4, <2>8 DEF TreeInv, Stack
  <2>11. Begun' /\ (InnerDone' <=> InnerDone)
    BY <1>3, <2>2, <2>4, <2>9 DEF Begun, InnerDone
  <2>12. /\ \A p \in Paths : p[1] = L - 1 /\ p[2] = entry => p = q
         /\ (L - 1) + 1 = L /\ ~(L - 1 >= L)
         /\ \A p \in Paths : p[1] >= L => L - 1 \in 0..p[1]
         /\ L - 1 \in 0..(L - 1) /\ L - 1 \in 0..Depth
    BY <2>1, TreeAssumed
  <2>13. ShownOnce'
    <3>1. \A p \in Paths \ touched : shown'[p] \in {0, 1}
      BY <2>7 DEF TreeInv, ShownOnce
    <3>2. \A p \in Paths \ touched :
            p[1] < L /\ p[2] \notin frames[p[1] + 1].seen => shown'[p] = 0
      <4>. SUFFICES ASSUME NEW p \in Paths \ touched,
                           p[1] < L, p[2] \notin frames[p[1] + 1].seen
                    PROVE  shown'[p] = 0
        OBVIOUS
      <4>1. p # q
        BY <2>1, <2>2, <2>12
      <4>. QED
        BY <1>2, <2>7, <4>1 DEF TreeInv, ShownOnce
    <3>3. \A p \in Paths \ touched : p[1] >= L /\ ~InnerDone => shown'[p] = 0
      BY <1>2, <1>3, <2>2, <2>7, <2>12 DEF TreeInv, ShownOnce
    <3>. QED
      BY <1>1, <1>2, <2>4, <2>8, <2>9, <2>11, <3>1, <3>2, <3>3 DEF ShownOnce
  <2>14. \A p \in Paths : Stays(p)' =>
           Stays(p) /\ (0..p[1]) \cap unopened' = {} /\ p \notin touched /\ name[p] # 0
    BY <1>1, <2>6 DEF Stays
  <2>15. StaysShown'
    <3>1. ASSUME NEW p \in Paths, Stays(p)', p[1] < L
          PROVE  /\ p[2] \in frames[p[1] + 1].must
                 /\ p[2] \in frames[p[1] + 1].seen => shown'[p] = 1
      <4>1. Stays(p) /\ (0..p[1]) \cap unopened' = {} /\ p \notin touched /\ name[p] # 0
        BY <2>14, <3>1
      <4>2. CASE p = q
        <5>1. L - 1 \notin unopened'
          BY <2>2, <2>12, <4>1, <4>2
        <5>. QED
          BY <1>2, <2>7, <3>1, <4>1, <4>2, <5>1 DEF TreeInv, StaysShown
      <4>3. CASE p # q
        <5>1. ~(p[1] = L - 1 /\ Looks(p[2]))
          BY <2>12, <4>3 DEF Looks
        <5>. QED
          BY <1>2, <2>7, <3>1, <4>1, <4>3, <5>1 DEF TreeInv, StaysShown
      <4>. QED
        BY <4>2, <4>3
    <3>2. ASSUME NEW p \in Paths, Stays(p)', p[1] >= L, InnerDone
          PROVE  shown'[p] = 1
      BY <1>2, <1>3, <2>2, <2>7, <2>12, <2>14, <3>2 DEF TreeInv, StaysShown
    <3>. QED
      BY <1>2, <2>4, <2>8, <2>9, <2>11, <3>1, <3>2 DEF StaysShown
  <2>16. unopened' \subseteq 0..Depth
    BY <2>6, <2>12 DEF TreeInv, TheTree!TypeOK
  <2>. QED
    BY <1>1, <2>7, <2>8, <2>10, <2>13, <2>15, <2>16, WalkKeeps DEF TreeInv, TheTree!TypeOK, TheTree!Walk
<1>. QED
  BY <1>4, <1>5

LEMMA WalkBacks ==
  ASSUME TreeInv, TheTree!LeaveDir
  PROVE  TreeInv'
<1>1. /\ at["ls-R"] = "read" /\ UNCHANGED <<name, touched, entry, shown, unopened>>
      /\ TheTree!Last(frames).must \subseteq TheTree!Last(frames).seen
      /\ frames' = SubSeq(frames, 1, Len(frames) - 1)
      /\ TheTree!Goes("ls-R", IF Len(frames) = 1 THEN "ended" ELSE "read")
  BY DEF TheTree!LeaveDir, TheTree!walk, TheTree!Front
<1>2. PICK L \in 1..(Depth + 1) : L = Len(frames)
  BY <1>1, Innermost
<1>3. /\ Begun /\ frames[L].must \subseteq frames[L].seen
      /\ \A n : ~Looks(n)
  BY <1>1, <1>2, Innermost DEF Looks
<1>4. PICK M \in 0..Depth : M = L - 1
  <2>1. L - 1 \in 0..Depth
    BY TreeAssumed
  <2>. QED
    BY <2>1
<1>5. /\ M \in Int /\ 1 \in Int /\ M - 1 + 1 = M /\ M + 1 = L /\ M <= Depth + 1
      /\ (IF 1 <= M THEN M - 1 + 1 ELSE 0) = M
      /\ \A k \in 1..M : k \in 1..L /\ k < L /\ 1 + k - 1 = k
      /\ M = 0 <=> L = 1
      /\ M # 0 => M \in 1..M
      /\ \A p \in Paths : /\ p[1] >= M => p[1] = M \/ (p[1] >= L /\ M < Depth)
                          /\ p[1] < M => p[1] < L /\ p[1] # L - 1 /\ p[1] + 1 \in 1..M
                          /\ p[1] >= 0
  BY <1>4, TreeAssumed
<1>6. \A k \in 1..M : frames[k] \in Frame
  BY <1>2, <1>5, TreeAt
<1>7. /\ SubSeq(frames, 1, M) \in Seq(Frame)
      /\ Len(SubSeq(frames, 1, M)) = IF 1 <= M THEN M - 1 + 1 ELSE 0
      /\ \A k \in 1..(M - 1 + 1) : SubSeq(frames, 1, M)[k] = frames[1 + k - 1]
  BY <1>5, <1>6, SubSeqProperties
<1>8. frames' \in Seq(Frame) /\ Len(frames') = M /\ \A k \in 1..M : frames'[k] = frames[k]
  BY <1>1, <1>2, <1>4, <1>5, <1>7
<1>9. at'["ls-R"] = IF M = 0 THEN "ended" ELSE "read"
  BY <1>1, <1>2, <1>5, TreeAt DEF TheTree!Goes
<1>10. frames' = <<>> <=> M = 0
  BY <1>8, EmptySeq
<1>11. Stack'
  <2>1. ASSUME NEW k \in 1..M
        PROVE  /\ frames[k].dir = k - 1
               /\ frames[k].may \subseteq Entries(k - 1) /\ frames[k].seen \subseteq frames[k].may
               /\ k - 1 < Depth => "sub" \in frames[k].must
               /\ k < M => "sub" \in frames[k].seen
    BY <1>2, <1>5 DEF TreeInv, Stack
  <2>. QED
    BY <1>5, <1>8, <1>9, <1>10, <2>1 DEF Stack
<1>12. \A n : ~Looks(n)'
  BY <1>9 DEF Looks
<1>13. Begun' => InnerDone'
  <2>1. M # 0 => "sub" \in frames[M].seen
    BY <1>2, <1>5 DEF TreeInv, Stack
  <2>. QED
    BY <1>5, <1>8, <1>10, <1>12, <2>1 DEF Begun, InnerDone
<1>14. ShownOnce'
  <2>1. \A p \in Paths \ touched :
          p[1] < M /\ p[2] \notin frames'[p[1] + 1].seen => shown[p] = 0
    BY <1>2, <1>5, <1>8 DEF TreeInv, ShownOnce
  <2>. QED
    BY <1>1, <1>8, <1>9, <1>12, <1>13, <2>1 DEF TreeInv, ShownOnce
<1>15. \A p \in Paths : Stays(p)' <=> Stays(p)
  BY <1>1 DEF Stays
<1>16. ASSUME NEW p \in Paths, Stays(p), p[1] >= M
       PROVE  shown[p] = 1
  <2>1. CASE p[1] = M
    <3>1. p[1] < L /\ p[1] + 1 = L
      BY <1>4, <1>5, <2>1
    <3>2. /\ p[2] \in frames[L].must
          /\ p[2] \in frames[L].seen => shown[p] = 1
      BY <1>2, <1>3, <1>16, <3>1 DEF TreeInv, StaysShown
    <3>. QED
      BY <1>3, <3>2
  <2>2. CASE p[1] >= L /\ M < Depth
    <3>1. "sub" \in frames[L].must
      <4>1. L \in 1..L /\ L - 1 < Depth
        BY <1>4, <2>2
      <4>. QED
        BY <1>2, <4>1 DEF TreeInv, Stack
    <3>2. InnerDone
      BY <1>2, <1>3, <3>1 DEF InnerDone
    <3>. QED
      BY <1>2, <1>3, <1>16, <2>2, <3>2 DEF TreeInv, StaysShown
  <2>. QED
    BY <1>5, <1>16, <2>1, <2>2
<1>17. StaysShown'
  <2>1. ASSUME NEW p \in Paths, Stays(p), p[1] < M
        PROVE  /\ p[2] \in frames'[p[1] + 1].must
               /\ p[2] \in frames'[p[1] + 1].seen => shown[p] = 1
    BY <1>2, <1>5, <1>8, <2>1 DEF TreeInv, StaysShown
  <2>2. at'["ls-R"] = "ended" => \A p \in Paths : p[1] >= M
    BY <1>5, <1>9
  <2>. QED
    BY <1>1, <1>8, <1>15, <1>16, <2>1, <2>2 DEF StaysShown
<1>. QED
  BY <1>1, <1>9, <1>11, <1>14, <1>17, WalkKeeps DEF TreeInv, TheTree!TypeOK, TheTree!Walk

LEMMA TreeStep ==
  ASSUME TreeInv, TheTree!Next
  PROVE  TreeInv'
  BY WalkBegins, WalkReads, WalkShows, WalkBacks, MoveStarts, MoveLinks, MoveUnlinks
  DEF TheTree!Next, TheTree!Walk

-----------------------------------------------------------------------------
(* What the invariants say of the pipes and of the walk *)

LEMMA PipeTypeOK ==
  ASSUME PipeInv
  PROVE  ThePipe!TypeOK
<1>1. PICK w \in Nat, g \in Nat, i \in 0..PipeSize : w = written /\ g = got /\ i = inPipe /\ w = g + i
  BY DEF PipeInv, PipeTypes
<1>2. w <= (IF program = "pipe" THEN 1 ELSE Lines)
  <2>1. CASE program = "pipe"
    <3>1. w = 0 \/ w = 1
      BY <1>1, <2>1 DEF PipeInv, OnePipe
    <3>. QED
      BY <2>1, <3>1
  <2>2. CASE program \in {"ls-wc-l", "pipe_bro"}
    BY <1>1, <2>2 DEF PipeInv, LsWc, Brothers, Counted
  <2>3. CASE program \in {"fork_exec", "wait_test"}
    BY <1>1, <2>3, PipesAssumed DEF PipeInv, NoEnds
  <2>. QED
    BY <2>1, <2>2, <2>3 DEF PipeInv, PipeTypes, ThePipe!PipePrograms
<1>3. w \in 0..(IF program = "pipe" THEN 1 ELSE Lines) /\ g \in 0..w
  BY <1>1, <1>2, PipesAssumed
<1>. QED
  BY <1>1, <1>3 DEF PipeInv, PipeTypes, ThePipe!TypeOK

\* What wc has shown is all, once ls was run by p
LEMMA CountsAll ==
  ASSUME PipeTypes, Counted, NEW p \in {"parent", "younger"}, NEW k \in 0..1, LsRole(p, k),
         Len(ThePipe!Script(p)) = k + 3, printed >= 0
  PROVE  /\ printed = written /\ ~ThePipe!WriteEndOpen
         /\ ThePipe!Executed(p) => printed = Lines
<1>1. printed = written /\ ~ThePipe!WriteEndOpen
  BY DEF Counted
<1>2. PICK n \in 1..7 : n = pc[p]
  BY DEF PipeTypes, ThePipe!Processes
<1>3. ASSUME ThePipe!Executed(p)
      PROVE  printed = Lines
  <2>1. n > k + 3 /\ n <= k + 4
    BY <1>2, <1>3 DEF ThePipe!Executed, LsRole
  <2>2. n = k + 4 /\ ~(n <= k + 3) /\ n # 1
    BY <2>1
  <2>3. at[p] # "killed"
    BY DEF LsRole
  <2>4. at[p] # "ls"
    BY <1>1 DEF LsRole, ThePipe!WriteEndOpen, ThePipe!Processes
  <2>5. at[p] = "ended"
    BY <1>2, <2>2, <2>3, <2>4 DEF LsRole
  <2>. QED
    BY <1>1, <1>2, <2>2, <2>5 DEF LsRole
<1>. QED
  BY <1>1, <1>3

LEMMA PipeReadsAll ==
  ASSUME PipeInv
  PROVE  ThePipe!ReadsAll
<1>. SUFFICES ASSUME printed >= 0
              PROVE  /\ printed = written
                     /\ IF program = "pipe" THEN printed = 1
                        ELSE ~ThePipe!WriteEndOpen
                             /\ (ThePipe!Executed(ThePipe!Writer) => printed = Lines)
  BY DEF ThePipe!ReadsAll
<1>1. program \in {"pipe", "ls-wc-l", "pipe_bro", "fork_exec", "wait_test"} /\ PipeTypes
  BY DEF PipeInv, PipeTypes, ThePipe!PipePrograms
<1>2. pc["parent"] \in 1..7 /\ pc["younger"] \in 1..7
      /\ "parent" \in ThePipe!Processes /\ "younger" \in ThePipe!Processes
  BY <1>1 DEF PipeTypes, ThePipe!Processes
<1>3. CASE program = "pipe"
  <2>1. PICK w \in Nat, g \in Nat, i \in 0..PipeSize :
           w = written /\ g = got /\ i = inPipe /\ w = g + i
    BY <1>1 DEF PipeTypes
  <2>2. (g = 0 /\ printed = -1) \/ (g = 1 /\ printed = 1)
    BY <1>3, <2>1 DEF PipeInv, OnePipe
  <2>3. w = 0 \/ w = 1
    BY <1>3, <2>1 DEF PipeInv, OnePipe
  <2>4. g = 1 /\ printed = 1
    BY <2>2
  <2>5. w = 1
    BY <2>1, <2>3, <2>4
  <2>. QED
    BY <1>3, <2>1, <2>4, <2>5
<1>4. CASE program = "ls-wc-l"
  <2>1. Counted /\ LsRole("parent", 1)
    BY <1>4 DEF PipeInv, LsWc
  <2>2. Len(ThePipe!Script("parent")) = 1 + 3
    <3>1. Len(ThePipe!Script("parent")) = 4
      BY <1>2, <1>4, LsWcScripts, ForkLsDoes
    <3>. QED
      BY <3>1
  <2>3. 1 \in 0..1 /\ "parent" \in {"parent", "younger"}
    OBVIOUS
  <2>4. /\ printed = written /\ ~ThePipe!WriteEndOpen
        /\ ThePipe!Executed("parent") => printed = Lines
    BY <1>1, <2>1, <2>2, <2>3, CountsAll
  <2>5. ThePipe!Writer = "parent"
    BY <1>4 DEF ThePipe!Writer
  <2>. QED
    BY <1>4, <2>4, <2>5
<1>5. CASE program = "pipe_bro"
  <2>1. Counted /\ LsRole("younger", 0)
    BY <1>5 DEF PipeInv, Brothers
  <2>2. Len(ThePipe!Script("younger")) = 0 + 3
    <3>1. Len(ThePipe!Script("younger")) = 3
      BY <1>2, <1>5, BroScripts, LsDoes
    <3>. QED
      BY <3>1
  <2>3. 0 \in 0..1 /\ "younger" \in {"parent", "younger"}
    OBVIOUS
  <2>4. /\ printed = written /\ ~ThePipe!WriteEndOpen
        /\ ThePipe!Executed("younger") => printed = Lines
    BY <1>1, <2>1, <2>2, <2>3, CountsAll
  <2>5. ThePipe!Writer = "younger"
    BY <1>5 DEF ThePipe!Writer
  <2>. QED
    BY <1>5, <2>4, <2>5
<1>6. CASE program \in {"fork_exec", "wait_test"}
  BY <1>6 DEF PipeInv, NoEnds
<1>. QED
  BY <1>1, <1>3, <1>4, <1>5, <1>6

LEMMA PipeKills ==
  ASSUME PipeInv
  PROVE  ThePipe!KilledForAReason
<1>1. program \in {"pipe", "ls-wc-l", "pipe_bro", "fork_exec", "wait_test"}
  BY DEF PipeInv, PipeTypes, ThePipe!PipePrograms
<1>2. \A p \in ThePipe!Processes : p \in {"parent", "elder", "younger"}
  BY DEF ThePipe!Processes
<1>3. CASE program = "pipe"
  BY <1>2, <1>3 DEF PipeInv, OnePipe, ThePipe!KilledForAReason
<1>4. CASE program = "ls-wc-l"
  BY <1>2, <1>4 DEF PipeInv, LsWc, LsRole, WcRole, ThePipe!KilledForAReason
<1>5. CASE program = "pipe_bro"
  BY <1>2, <1>5 DEF PipeInv, Brothers, LsRole, WcRole, ThePipe!KilledForAReason
<1>6. CASE program \in {"fork_exec", "wait_test"}
  BY <1>6 DEF PipeInv, NoEnds, ThePipe!KilledForAReason
<1>. QED
  BY <1>1, <1>3, <1>4, <1>5, <1>6

LEMMA WalkSees ==
  ASSUME TreeInv
  PROVE  TheTree!SeesWhatStays
<1>1. \A p \in Paths \ touched : shown[p] <= 1
  BY DEF TreeInv, ShownOnce
<1>2. at["ls-R"] = "ended" => \A p \in Paths \ touched :
         name[p] # 0 /\ (0..p[1]) \cap unopened = {} => shown[p] = 1
  BY DEF TreeInv, StaysShown, Stays
<1>. QED
  BY <1>1, <1>2 DEF TheTree!SeesWhatStays

-----------------------------------------------------------------------------
(* Whichever programs run *)

\* Only one group of programs runs
LEMMA OneRuns ==
  /\ RunsPipe => ~RunsMap /\ ~RunsFifo /\ ~RunsDatagrams /\ ~RunsTree
  /\ RunsMap => ~RunsPipe /\ ~RunsFifo /\ ~RunsDatagrams /\ ~RunsTree
  /\ RunsFifo => ~RunsPipe /\ ~RunsMap /\ ~RunsDatagrams /\ ~RunsTree
  /\ RunsDatagrams => ~RunsPipe /\ ~RunsMap /\ ~RunsFifo /\ ~RunsTree
  /\ RunsTree => ~RunsPipe /\ ~RunsMap /\ ~RunsFifo /\ ~RunsDatagrams
  BY DEF RunsPipe, RunsMap, RunsFifo, RunsDatagrams, RunsTree, ThePipe!PipePrograms

LEMMA OneStays ==
  ASSUME program' = program
  PROVE  /\ RunsPipe' <=> RunsPipe
         /\ RunsMap' <=> RunsMap
         /\ RunsFifo' <=> RunsFifo
         /\ RunsDatagrams' <=> RunsDatagrams
         /\ RunsTree' <=> RunsTree
         /\ program \in Programs => program' \in Programs
  BY DEF RunsPipe, RunsMap, RunsFifo, RunsDatagrams, RunsTree

LEMMA InvInit ==
  ASSUME Init
  PROVE  Inv
<1>1. CASE ThePipe!Init
  <2>1. RunsPipe /\ program \in Programs
    BY <1>1 DEF ThePipe!Init, RunsPipe, Programs
  <2>. QED
    BY <1>1, <2>1, OneRuns, PipeInit DEF Inv
<1>2. CASE RunsMap /\ TheMap!Init
  <2>1. program \in Programs
    BY <1>2 DEF RunsMap, Programs
  <2>. QED
    BY <1>2, <2>1, OneRuns, MapInit DEF Inv
<1>3. CASE RunsFifo /\ TheFifo!Init
  <2>1. program \in Programs
    BY <1>3 DEF RunsFifo, Programs
  <2>. QED
    BY <1>3, <2>1, OneRuns, FifoInit DEF Inv
<1>4. CASE RunsDatagrams /\ TheDatagrams!Init
  <2>1. program \in Programs
    BY <1>4 DEF RunsDatagrams, Programs
  <2>. QED
    BY <1>4, <2>1, OneRuns, DatagramInit DEF Inv
<1>5. CASE RunsTree /\ TheTree!Init
  <2>1. program \in Programs
    BY <1>5 DEF RunsTree, Programs
  <2>. QED
    BY <1>5, <2>1, OneRuns, TreeInit DEF Inv
<1>. QED
  BY <1>1, <1>2, <1>3, <1>4, <1>5 DEF Init

LEMMA InvStep ==
  ASSUME Inv, Next
  PROVE  Inv'
<1>1. CASE OfPipe /\ ThePipe!Next
  BY <1>1, OneRuns, OneStays, PipeStep DEF Inv, OfPipe
<1>2. CASE OfMap /\ TheMap!Next
  <2>1. program' = program
    BY <1>2 DEF OfMap
  <2>. QED
    BY <1>2, <2>1, OneRuns, OneStays, MapStep DEF Inv, OfMap
<1>3. CASE OfFifo /\ TheFifo!Next
  <2>1. program' = program
    BY <1>3 DEF OfFifo
  <2>. QED
    BY <1>3, <2>1, OneRuns, OneStays, FifoStep DEF Inv, OfFifo
<1>4. CASE OfDatagrams /\ TheDatagrams!Next
  <2>1. program' = program
    BY <1>4 DEF OfDatagrams
  <2>. QED
    BY <1>4, <2>1, OneRuns, OneStays, DatagramStep DEF Inv, OfDatagrams
<1>5. CASE OfTree /\ TheTree!Next
  <2>1. program' = program
    BY <1>5 DEF OfTree
  <2>. QED
    BY <1>5, <2>1, OneRuns, OneStays, TreeStep DEF Inv, OfTree
<1>. QED
  BY <1>1, <1>2, <1>3, <1>4, <1>5 DEF Next

LEMMA InvStutter ==
  ASSUME Inv, UNCHANGED vars
  PROVE  Inv'
<1>1. /\ UNCHANGED <<program, at, shown, starts>> /\ UNCHANGED <<pc, ends, inPipe, written, got, printed, reaped>>
      /\ UNCHANGED <<file, record, id, seen, whole, disturbed>>
      /\ UNCHANGED <<myfifo, opened, content, num, since>>
      /\ UNCHANGED <<arrived, client_addr, shortLength, buf, asked, answers, answer, unanswerable>>
      /\ UNCHANGED <<name, move, frames, entry, touched, unopened, forgotten>>
  BY DEF vars, pipeVars, mapVars, fifoVars, datagramVars, treeVars
<1>2. ASSUME PipeInv PROVE PipeInv'
  <2>1. PipeTypes'
    BY <1>1, <1>2 DEF PipeInv, PipeTypes
  <2>2. OnePipe' <=> OnePipe
    BY <1>1 DEF OnePipe
  <2>3. Counted' <=> Counted
    BY <1>1 DEF Counted, ThePipe!WriteEndOpen
  <2>4. /\ WcRole("elder")' <=> WcRole("elder")
        /\ LsRole("parent", 1)' <=> LsRole("parent", 1)
        /\ LsRole("younger", 0)' <=> LsRole("younger", 0)
    BY <1>1 DEF WcRole, LsRole
  <2>5. LsWc => LsWc'
    BY <1>1, <2>3, <2>4 DEF LsWc
  <2>6. Brothers => Brothers'
    BY <1>1, <2>3, <2>4 DEF Brothers
  <2>7. NoEnds => NoEnds'
    BY <1>1 DEF NoEnds
  <2>. QED
    BY <1>1, <1>2, <2>1, <2>2, <2>5, <2>6, <2>7 DEF PipeInv
<1>3. ASSUME MapInv PROVE MapInv'
  BY <1>1, <1>3 DEF MapInv, TheMap!TypeOK, TheMap!KilledForAReason, TheMap!PrintsWritten
<1>4. ASSUME FifoInv PROVE FifoInv'
  BY <1>1, <1>4 DEF FifoInv, TheFifo!TypeOK, TheFifo!ReadsFresh
<1>5. ASSUME DatagramInv PROVE DatagramInv'
  <2>1. \A q : OnItsWay(q)' <=> OnItsWay(q)
    BY <1>1 DEF OnItsWay, Latest
  <2>2. InHand' <=> InHand
    BY <1>1 DEF InHand, OnItsWay, Latest
  <2>3. TheDatagrams!TypeOK' /\ TheDatagrams!AnswersMatch'
    BY <1>1, <1>5 DEF DatagramInv, TheDatagrams!TypeOK, TheDatagrams!AnswersMatch
  <2>. QED
    BY <1>1, <1>5, <2>1, <2>2, <2>3 DEF DatagramInv, Latest
<1>6. ASSUME TreeInv PROVE TreeInv'
  <2>1. at'["ls-R"] = at["ls-R"] /\ UNCHANGED <<name, frames, entry, shown, unopened, touched>>
    BY <1>1
  <2>2. Stack' /\ ShownOnce' /\ StaysShown'
    BY <1>6, <2>1, WalkStays
  <2>3. TheTree!TypeOK' /\ Moving' /\ TheTree!KeepsAName'
    BY <1>1, <1>6 DEF TreeInv, TheTree!TypeOK, Moving, TheTree!KeepsAName
  <2>. QED
    BY <1>1, <1>6, <2>2, <2>3 DEF TreeInv
<1>7. program' = program
  BY <1>1
<1>. QED
  BY <1>2, <1>3, <1>4, <1>5, <1>6, <1>7, OneStays DEF Inv

LEMMA InvTypes ==
  ASSUME Inv
  PROVE  TypeOK
  BY PipeTypeOK DEF Inv, TypeOK, MapInv, FifoInv, DatagramInv, TreeInv

LEMMA InvReads ==
  ASSUME Inv
  PROVE  ReadsWhatWasWritten
  BY PipeReadsAll, WalkSees DEF Inv, ReadsWhatWasWritten, MapInv, FifoInv, DatagramInv, TreeInv

LEMMA InvKills ==
  ASSUME Inv
  PROVE  KilledForAReason
  BY PipeKills DEF Inv, KilledForAReason, MapInv

\* The variables of the programs that run keep their types and bounds: a pipe never holds more
\* than fits, no more is read than was written, no walk goes deeper than the tree.
THEOREM TypeCorrect == Spec => []TypeOK
<1>1. Init => Inv
  BY InvInit
<1>2. Inv /\ [Next]_vars => Inv'
  BY InvStep, InvStutter
<1>3. Inv => TypeOK
  BY InvTypes
<1>. QED
  BY <1>1, <1>2, <1>3, PTL DEF Spec

\* wc counts every line of an ls that was run, the reader of the mapping prints a whole record
\* once there is one, a reader of the fifo gets only what was written since it was started, a
\* UDP client prints the answer to its latest question, mymv takes a file's last name only
\* where link had failed, and ls-R shows what stays, once.
THEOREM WhatIsReadWasWritten == Spec => []ReadsWhatWasWritten
<1>1. Init => Inv
  BY InvInit
<1>2. Inv /\ [Next]_vars => Inv'
  BY InvStep, InvStutter
<1>3. Inv => ReadsWhatWasWritten
  BY InvReads
<1>. QED
  BY <1>1, <1>2, <1>3, PTL DEF Spec

\* SIGPIPE reaches ls only where wc could not be run.  SIGBUS reaches only who had test_map open
\* when a writer truncated it, or opened it before that writer had extended it.
THEOREM KilledOnlyForAReason == Spec => []KilledForAReason
<1>1. Init => Inv
  BY InvInit
<1>2. Inv /\ [Next]_vars => Inv'
  BY InvStep, InvStutter
<1>3. Inv => KilledForAReason
  BY InvKills
<1>. QED
  BY <1>1, <1>2, <1>3, PTL DEF Spec

=============================================================================
