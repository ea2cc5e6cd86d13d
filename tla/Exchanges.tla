------------------------------ MODULE Exchanges ------------------------------
(***************************************************************************)
(* Processes that hand data to one another: through a pipe (Pipes), a      *)
(* mapping of a file (SharedMap), a named pipe (Fifo), datagrams           *)
(* (Datagrams) and a tree of directories (FileTree).  One of these is      *)
(* started; what is asked of them is the same:                             *)
(* that what is read is what was written, that nobody is killed but for a  *)
(* reason, and that nobody waits for ever.  Variables that the programs at *)
(* hand do not have stay as they are.                                      *)
(***************************************************************************)
EXTENDS Integers, Sequences, FiniteSets

CONSTANTS
  Lines, PipeSize, CallsFail,                 \* Pipes
  MapWriters, MaxId,                          \* SharedMap
  MaxMessages,                                \* Fifo
  Askers, Nobody, MaxQuestions, BufferSize,   \* Datagrams
  MaxStarts,                                  \* the last three
  Depth, Paths, FirstNames, MaxMoves          \* FileTree

VARIABLES
  program, at,
  pc, ends, inPipe, written, got, printed, reaped,
  file, record, id, seen, whole, disturbed,
  myfifo, opened, content, num, since,
  arrived, client_addr, shortLength, buf, asked, answers, answer, unanswerable,
  name, move, frames, entry, touched, unopened, forgotten,
  shown, starts

ThePipe == INSTANCE Pipes
TheMap == INSTANCE SharedMap
TheFifo == INSTANCE Fifo
TheDatagrams == INSTANCE Datagrams
TheTree == INSTANCE FileTree

ASSUME ExchangesAssumption ==
  /\ ThePipe!PipesAssumption /\ TheMap!MapAssumption
  /\ TheFifo!FifoAssumption /\ TheDatagrams!DatagramsAssumption
  /\ TheTree!TreeAssumption

pipeVars == <<pc, ends, inPipe, written, got, printed, reaped>>
mapVars == <<file, record, id, seen, whole, disturbed>>
fifoVars == <<myfifo, opened, content, num, since>>
datagramVars == <<arrived, client_addr, shortLength, buf, asked, answers, answer, unanswerable>>
treeVars == <<name, move, frames, entry, touched, unopened, forgotten>>
vars == <<program, at, pipeVars, mapVars, fifoVars, datagramVars, treeVars, shown, starts>>

RunsPipe == program \in ThePipe!PipePrograms
RunsMap == program = "mmap"
RunsFifo == program = "fifo"
RunsDatagrams == program = "udp"
RunsTree == program = "ls-R"

NoPipe ==
  /\ pc = <<>> /\ ends = <<>> /\ inPipe = 0 /\ written = 0 /\ got = 0 /\ printed = -1
  /\ reaped = {}
NoMap == file = "" /\ record = <<>> /\ id = <<>> /\ seen = 0 /\ whole = <<>> /\ disturbed = {}
NoFifo == myfifo = 0 /\ opened = <<>> /\ content = <<>> /\ num = 0 /\ since = 0
NoDatagrams ==
  /\ arrived = <<>> /\ client_addr = Nobody /\ shortLength = FALSE /\ buf = <<>>
  /\ asked = <<>> /\ answers = <<>> /\ answer = <<>> /\ unanswerable = {}
NoTree ==
  /\ name = <<>> /\ move = <<>> /\ frames = <<>> /\ entry = "" /\ touched = {}
  /\ unopened = {} /\ forgotten = {}

Init ==
  \/ ThePipe!Init /\ NoMap /\ NoFifo /\ NoDatagrams /\ NoTree /\ shown = 0 /\ starts = 0
  \/ RunsMap /\ TheMap!Init /\ NoPipe /\ NoFifo /\ NoDatagrams /\ NoTree
  \/ RunsFifo /\ TheFifo!Init /\ NoPipe /\ NoMap /\ NoDatagrams /\ NoTree
  \/ RunsDatagrams /\ TheDatagrams!Init /\ NoPipe /\ NoMap /\ NoFifo /\ NoTree /\ shown = 0
  \/ RunsTree /\ TheTree!Init /\ NoPipe /\ NoMap /\ NoFifo /\ NoDatagrams

\* The rest while the programs at hand take a step
OfPipe == RunsPipe /\ UNCHANGED <<mapVars, fifoVars, datagramVars, treeVars, shown, starts>>
OfMap == RunsMap /\ UNCHANGED <<program, pipeVars, fifoVars, datagramVars, treeVars>>
OfFifo == RunsFifo /\ UNCHANGED <<program, pipeVars, mapVars, datagramVars, treeVars>>
OfDatagrams == RunsDatagrams /\ UNCHANGED <<program, pipeVars, mapVars, fifoVars, treeVars, shown>>
OfTree == RunsTree /\ UNCHANGED <<program, pipeVars, mapVars, fifoVars, datagramVars>>

Next ==
  \/ OfPipe /\ ThePipe!Next
  \/ OfMap /\ TheMap!Next
  \/ OfFifo /\ TheFifo!Next
  \/ OfDatagrams /\ TheDatagrams!Next
  \/ OfTree /\ TheTree!Next

Spec == Init /\ [][Next]_vars

\* Every process that runs is scheduled.  None has to be started or stopped, no client
\* has to ask.
FairSpec ==
  /\ Spec
  /\ \A p \in ThePipe!Processes : WF_vars(OfPipe /\ ThePipe!Step(p))
  /\ \A p \in MapWriters \cup {"reader"} : WF_vars(OfMap /\ TheMap!Step(p))
  /\ WF_vars(OfFifo /\ TheFifo!Reader) /\ WF_vars(OfFifo /\ TheFifo!write_cb)
  /\ WF_vars(OfDatagrams /\ TheDatagrams!Serve)
  /\ \A c \in Askers : WF_vars(OfDatagrams /\ TheDatagrams!PrintAnswer(c))
  /\ WF_vars(OfTree /\ TheTree!Walk)

-----------------------------------------------------------------------------

\* Every variable of the programs that run keeps its type.
TypeOK ==
  /\ RunsPipe => ThePipe!TypeOK
  /\ RunsMap => TheMap!TypeOK
  /\ RunsFifo => TheFifo!TypeOK
  /\ RunsDatagrams => TheDatagrams!TypeOK
  /\ RunsTree => TheTree!TypeOK

\* What is read is what was written, all of it and nothing old: wc counts every line, the
\* record is whole, a new reader gets new messages, an answer belongs to its question, a
\* file keeps a name and ls-R shows what keeps its name.
ReadsWhatWasWritten ==
  /\ RunsPipe => ThePipe!ReadsAll
  /\ RunsMap => TheMap!PrintsWritten
  /\ RunsFifo => TheFifo!ReadsFresh
  /\ RunsDatagrams => TheDatagrams!AnswersMatch
  /\ RunsTree => TheTree!KeepsAName /\ TheTree!SeesWhatStays

\* The UDP server answers whoever asked.
SentBack == RunsDatagrams => TheDatagrams!SentBack

\* SIGPIPE and SIGBUS reach only whom the code exposes to them.
KilledForAReason ==
  /\ RunsPipe => ThePipe!KilledForAReason
  /\ RunsMap => TheMap!KilledForAReason

\* Nobody waits for ever: the processes around a pipe end, what stays in the mapping is
\* shown, what is written to the fifo is read, a question is answered unless it is lost, a
\* walk ends.
NobodyWaitsForEver ==
  /\ <>(RunsPipe => ThePipe!NobodyLeft)
  /\ \A k \in 1..MaxId : (RunsMap /\ TheMap!Pending(k)) ~> ~(RunsMap /\ TheMap!Pending(k))
  /\ (RunsFifo /\ TheFifo!Unread) ~> ~(RunsFifo /\ TheFifo!Unread)
  /\ \A c \in Askers :
       (RunsDatagrams /\ TheDatagrams!Unanswered(c)) ~> ~(RunsDatagrams /\ TheDatagrams!Unanswered(c))
  /\ (RunsTree /\ TheTree!Walking) ~> ~(RunsTree /\ TheTree!Walking)

=============================================================================
