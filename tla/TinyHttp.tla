------------------------------ MODULE TinyHttp ------------------------------
(***************************************************************************)
(* http_server/tinyhttp.c: one process serves files over HTTP, driven by   *)
(* epoll; the listening socket is level-triggered, the connections are     *)
(* non-blocking and edge-triggered.                                        *)
(*                                                                         *)
(* Each recv, stat, open and send of the server is a step, so that what    *)
(* the clients, the network and the file system do falls in between.  What *)
(* a client sends is a sequence of tokens: "GET" (the method), "path" (the *)
(* rest of the request line), "hdr" (the text of a header), "CR" and "LF"; *)
(* the network may cut it where Cuts allows.  A client may send a request  *)
(* before it has the answer to the one before.  A file is so many blocks   *)
(* of the size that send_file reads.  A connection has the name of its     *)
(* client.  Lines longer than the 1023 bytes get_line takes, and more than *)
(* MAXSIZE events at once, are left out.                                   *)
(***************************************************************************)
EXTENDS Integers, Sequences, FiniteSets, SequencesExt

CONSTANTS
  Clients,
  Stream,        \* what a client sends, as tokens: its requests, one behind the other
  Cuts,          \* client -> the lengths of Stream after which it may pause, or the network cut
  MaxSize,       \* bound: blocks of a file
  MaxFds,        \* connections the process may have open
  Closers,       \* the clients that may close their connection at any time
  BufferFills,   \* TRUE: a send may take less than it is given, or nothing (EAGAIN)
  FilesVanish    \* TRUE: files may be removed at any time

ASSUME HttpAssumption ==
  /\ Stream \in Seq({"GET", "path", "hdr", "CR", "LF"})
  /\ Cuts \in [Clients -> SUBSET (1..Len(Stream))]
  /\ MaxSize \in Nat /\ MaxFds \in Nat
  /\ BufferFills \in BOOLEAN /\ FilesVanish \in BOOLEAN

VARIABLES
  server,   \* where the process is, see ServerStates
  ep,       \* the part of all_events still to be handled; Listener is lfd
  cfd,      \* the connection being handled
  header,   \* do_read is in its loop over the header lines
  line,     \* the first token in get_line's buffer, and whether "path" follows "GET"
  method,   \* the first token of the request line
  want,     \* the file named by path: "asked", or "other" when path was not read whole
  pos,      \* blocks send_file has read
  conn,     \* client -> "none", "queued" (not accepted), "open" (in the epoll set),
            \*   "unwatched" (epoll_ctl failed), "closed"
  edge,     \* client -> its socket is on epoll's ready list
  inbox,    \* client -> the tokens that have arrived and are not read
  peer,     \* client -> "open", "half" (shut its writing side), "gone", "reset"
  sent,     \* client -> tokens sent
  answer,   \* client -> the answer it has received last; lost are the blocks of it that
            \*   send did not take whole
  kind,     \* file -> "missing" (stat fails), "regular" or "dir"
  size,     \* file -> its blocks
  torn,     \* history: clients a line of whom ended before its newline had arrived
  left,     \* history: clients of whom there was more to be read when do_read, in their
            \*   latest turn, had read the blank line
  answered  \* history: client -> answers given to the end

reading == <<header, line, method, want>>
file == <<kind, size>>
clients == <<inbox, peer, sent>>
past == <<torn, left, answered>>

vars == <<server, ep, cfd, reading, pos, conn, edge, clients, answer, file, past>>

Listener == "lfd"

ASSUME ClientsAssumption == IsFiniteSet(Clients) /\ Listener \notin Clients

ServerStates == {"wait", "events", "recv", "peek", "stat", "request", "open", "send", "dead"}
Kinds == {"missing", "regular", "dir"}

\* The file the clients name, and whatever another name may lead to
Files == {"asked", "other"}
FileStates ==
  {f \in [kind : [Files -> Kinds], size : [Files -> 0..MaxSize]] :
     \A n \in Files : f.kind[n] # "regular" => f.size[n] = 0}

NoLine == [first |-> "none", path |-> FALSE]
NoAnswer == [status |-> "none", of |-> "none", len |-> 0, got |-> 0, lost |-> 0,
             whole |-> FALSE]

Init ==
  /\ server = "wait" /\ ep = <<>> /\ cfd \in Clients
  /\ header = FALSE /\ line = NoLine /\ method = "none" /\ want = "other"
  /\ pos = 0
  /\ conn = [c \in Clients |-> "none"]
  /\ edge = [c \in Clients |-> FALSE]
  /\ inbox = [c \in Clients |-> <<>>]
  /\ peer = [c \in Clients |-> "open"]
  /\ sent = [c \in Clients |-> 0]
  /\ answer = [c \in Clients |-> NoAnswer]
  /\ \E f \in FileStates : kind = f.kind /\ size = f.size
  /\ torn = {} /\ left = {} /\ answered = [c \in Clients |-> 0]

-----------------------------------------------------------------------------
(* epoll_run *)

Open == {c \in Clients : conn[c] = "open"}
Queued == {c \in Clients : conn[c] = "queued"}

\* What recv would not answer with EAGAIN
Readable(c) == inbox[c] # <<>> \/ peer[c] # "open"

\* epoll_wait: the sockets on the ready list that are readable, in any order
EpollWait ==
  /\ server = "wait"
  /\ LET ready == {c \in Open : edge[c] /\ Readable(c)}
                    \cup (IF Queued # {} THEN {Listener} ELSE {})
     IN  /\ ready # {}
         /\ ep' \in SetToSeqs(ready)
  /\ edge' = [c \in Clients |-> FALSE]
  /\ server' = "events"
  /\ UNCHANGED <<cfd, reading, pos, conn, clients, answer, file, past>>

EventsDone ==
  /\ server = "events" /\ ep = <<>>
  /\ server' = "wait"
  /\ UNCHANGED <<ep, cfd, reading, pos, conn, edge, clients, answer, file, past>>

\* do_accept.  Adding a socket that is readable already raises its edge; accept and
\* epoll_ctl end the process if they fail.
Accept ==
  /\ server = "events" /\ ep # <<>> /\ Head(ep) = Listener
  /\ ep' = Tail(ep)
  /\ IF Cardinality(Open) < MaxFds
       THEN \E c \in Queued :
              \/ /\ conn' = [conn EXCEPT ![c] = "open"]
                 /\ edge' = [edge EXCEPT ![c] = Readable(c)]
                 /\ UNCHANGED server
              \/ /\ conn' = [conn EXCEPT ![c] = "unwatched"]
                 /\ server' = "dead"
                 /\ UNCHANGED edge
       ELSE server' = "dead" /\ UNCHANGED <<conn, edge>>
  /\ UNCHANGED <<cfd, reading, pos, clients, answer, file, past>>

\* do_read begins, with get_line of the request line
DoRead ==
  /\ server = "events" /\ ep # <<>> /\ Head(ep) # Listener
  /\ ep' = Tail(ep)
  /\ cfd' = Head(ep)
  /\ header' = FALSE /\ line' = NoLine /\ method' = "none" /\ want' = "other"
  /\ server' = "recv"
  /\ left' = left \ {Head(ep)}
  /\ UNCHANGED <<pos, conn, edge, clients, answer, file, torn, answered>>

-----------------------------------------------------------------------------
(* get_line, and what do_read does with its result *)

\* Mutant: a line of one character counts as none
NothingReadShort(l) == l.first \in {"none", "LF"}

\* len == 0
NothingRead(l) == l.first = "none"

\* epoll_ctl and close
Disconnect ==
  /\ conn' = [conn EXCEPT ![cfd] = "closed"]
  /\ edge' = [edge EXCEPT ![cfd] = FALSE]
  /\ server' = "events"
  /\ UNCHANGED <<reading, left>>

\* Mutant: the header lines are not read
RequestLineOnly(l) ==
  /\ method' = l.first
  /\ want' = IF l.path THEN "asked" ELSE "other"
  /\ line' = NoLine
  /\ server' = IF l.first = "GET" THEN "stat" ELSE "events"
  /\ UNCHANGED <<header, conn, edge, left>>

\* sscanf takes the request line apart
RequestLine(l) ==
  /\ method' = l.first
  /\ want' = IF l.path THEN "asked" ELSE "other"
  /\ header' = TRUE
  /\ line' = NoLine
  /\ server' = "recv"
  /\ UNCHANGED <<conn, edge, left>>

\* Mutant: the loop also ends when nothing was read
HeadersOverOrEmpty(l) == l.first \in {"LF", "none"}

\* buf[0] == '\n'; the other exit, len == -1, is never taken
HeadersOver(l) == l.first = "LF"

\* Mutant: the comparison is the wrong way round
NextUnlessGet == IF method # "GET" THEN "stat" ELSE "events"

\* strncasecmp(method, "GET", 3)
NextAfterHeaders == IF method = "GET" THEN "stat" ELSE "events"

\* One line of the header has been read
HeaderLine(l) ==
  /\ line' = NoLine
  /\ server' = IF HeadersOver(l) THEN NextAfterHeaders ELSE "recv"
  /\ left' = IF HeadersOver(l) /\ (inbox'[cfd] # <<>> \/ peer[cfd] # "open")
               THEN left \cup {cfd} ELSE left
  /\ UNCHANGED <<header, method, want, conn, edge>>

LineEnds(l) ==
  IF header THEN HeaderLine(l)
            ELSE IF NothingRead(l) THEN Disconnect ELSE RequestLine(l)

\* Mutant: what follows the first character is not kept
WithTokenFirst(l, t) == IF l.first = "none" THEN [l EXCEPT !.first = t] ELSE l

WithToken(l, t) ==
  IF l.first = "none" THEN [l EXCEPT !.first = t]
                      ELSE [l EXCEPT !.path = l.path \/ (t = "path" /\ l.first = "GET")]

\* A line that ends with a newline; a blank one consists of it
WithNewline(l) == WithToken(l, "LF")

Consume == inbox' = [inbox EXCEPT ![cfd] = Tail(@)]

\* recv takes a token
RecvToken ==
  /\ server = "recv" /\ inbox[cfd] # <<>>
  /\ Consume
  /\ LET t == Head(inbox[cfd])
     IN  \/ t = "LF" /\ LineEnds(WithNewline(line))
         \/ t = "CR" /\ server' = "peek" /\ UNCHANGED <<reading, conn, edge, left>>
         \/ /\ t \notin {"CR", "LF"}
            /\ line' = WithToken(line, t)
            /\ UNCHANGED <<server, header, method, want, conn, edge, left>>
  /\ UNCHANGED <<ep, cfd, pos, peer, sent, answer, file, torn, answered>>

\* recv with MSG_PEEK behind a "CR": the line ends, whatever there is to be seen
Peek ==
  /\ server = "peek"
  /\ IF inbox[cfd] # <<>> /\ Head(inbox[cfd]) = "LF"
       THEN Consume /\ UNCHANGED torn
       ELSE torn' = torn \cup {cfd} /\ UNCHANGED inbox
  /\ LineEnds(WithNewline(line))
  /\ UNCHANGED <<ep, cfd, pos, peer, sent, answer, file, answered>>

\* recv fails (EAGAIN) or finds the end of the stream: the line ends as it is.  In the
\* header loop nothing changes then: the process goes round the loop.
RecvNothing ==
  /\ server = "recv" /\ inbox[cfd] = <<>>
  /\ torn' = IF line.first = "none" THEN torn ELSE torn \cup {cfd}
  /\ UNCHANGED <<ep, cfd, pos, clients, answer, file, answered>>
  /\ LineEnds(line)

-----------------------------------------------------------------------------
(* The answer.  It is given to the end when all of it has been handed to send, which for  *)
(* a connection that does not block need not take it.                                      *)

\* Where the process is after a send: a client that is gone answers with a reset, and a
\* send after that ends the process, by SIGPIPE or by exit(1).
AfterSend(next) ==
  CASE peer[cfd] = "reset" -> {"dead"}
    [] peer[cfd] = "gone"  -> {next, "dead"}
    [] OTHER               -> {next}

AnswerGiven == answered' = [answered EXCEPT ![cfd] = @ + 1]

\* send_error
SendError(next) ==
  /\ answer' = [answer EXCEPT ![cfd] = [status |-> "404", of |-> want, len |-> -1,
                                        got |-> 0, lost |-> 0, whole |-> TRUE]]
  /\ AnswerGiven
  /\ server' \in AfterSend(next)

\* stat in do_read
Stat ==
  /\ server = "stat"
  /\ IF kind[want] = "missing" THEN SendError("events")
                               ELSE server' = "request" /\ UNCHANGED <<answer, answered>>
  /\ UNCHANGED <<ep, cfd, reading, pos, conn, edge, clients, file, torn, left>>

\* http_request: stat again, and send_respond.  Of a directory nothing is sent.
HttpRequest ==
  /\ server = "request"
  /\ \/ kind[want] = "missing" /\ SendError("dead")
     \/ kind[want] = "dir" /\ server' = "events" /\ UNCHANGED <<answer, answered>>
     \/ /\ kind[want] = "regular"
        /\ answer' = [answer EXCEPT ![cfd] = [status |-> "200", of |-> want, len |-> size[want],
                                              got |-> 0, lost |-> 0, whole |-> FALSE]]
        /\ server' \in AfterSend("open")
        /\ UNCHANGED answered
  /\ UNCHANGED <<ep, cfd, reading, pos, conn, edge, clients, file, torn, left>>

\* open in send_file.  It may fail for a file that is there, too (one that may not be read,
\* no descriptor left); that ends the process.
OpenFile ==
  /\ server = "open"
  /\ \/ SendError("dead")
     \/ kind[want] # "missing" /\ server' = "send" /\ UNCHANGED <<answer, answered>>
  /\ pos' = 0
  /\ UNCHANGED <<ep, cfd, reading, conn, edge, clients, file, torn, left>>

\* Mutant: one turn too many
SendBlockMore ==
  /\ server = "send"
  /\ pos <= size[want]
  /\ pos' = pos + 1
  /\ answer' = [answer EXCEPT ![cfd].got = @ + 1]
  /\ server' \in AfterSend("send")
  /\ UNCHANGED <<ep, cfd, reading, conn, edge, clients, file, past>>

\* Mutant: EAGAIN is an error like any other
SendBlockOrExit ==
  /\ server = "send"
  /\ pos < size[want]
  /\ pos' = pos + 1
  /\ \/ /\ answer' = [answer EXCEPT ![cfd].got = @ + 1]
        /\ server' \in AfterSend("send")
     \/ BufferFills /\ UNCHANGED answer /\ server' = "dead"
  /\ UNCHANGED <<ep, cfd, reading, conn, edge, clients, file, past>>

\* One turn of the loop in send_file.  What a send does not take is not sent again.
SendBlock ==
  /\ server = "send"
  /\ pos < size[want]
  /\ pos' = pos + 1
  /\ \/ answer' = [answer EXCEPT ![cfd].got = @ + 1]
     \/ BufferFills /\ answer' = [answer EXCEPT ![cfd].lost = @ + 1]
  /\ server' \in AfterSend("send")
  /\ UNCHANGED <<ep, cfd, reading, conn, edge, clients, file, past>>

\* Mutant: the last block is left out
FileSentEarly ==
  /\ server = "send"
  /\ pos + 1 >= size[want]
  /\ answer' = [answer EXCEPT ![cfd].whole = TRUE]
  /\ AnswerGiven
  /\ pos' = 0
  /\ server' = "events"
  /\ UNCHANGED <<ep, cfd, reading, conn, edge, clients, file, torn, left>>

\* read returns 0, or fails (of a directory)
FileSent ==
  /\ server = "send"
  /\ pos >= size[want]
  /\ answer' = [answer EXCEPT ![cfd].whole = TRUE]
  /\ AnswerGiven
  /\ pos' = 0
  /\ server' = "events"
  /\ UNCHANGED <<ep, cfd, reading, conn, edge, clients, file, torn, left>>

Server ==
  \/ EpollWait \/ EventsDone \/ Accept \/ DoRead
  \/ RecvToken \/ Peek \/ RecvNothing
  \/ Stat \/ HttpRequest \/ OpenFile \/ SendBlock \/ FileSent

-----------------------------------------------------------------------------
(* Clients, network and file system.  What they do when the process has ended is left out. *)

Connect(c) ==
  /\ server # "dead" /\ conn[c] = "none"
  /\ conn' = [conn EXCEPT ![c] = "queued"]
  /\ UNCHANGED <<server, ep, cfd, reading, pos, edge, clients, answer, file, past>>

\* Connections that are not closed at the server
Standing == {c \in Clients : conn[c] \in {"queued", "open"}}

\* Something arrives: a socket in the epoll set gets on the ready list
RaiseEdge(c) == edge' = [edge EXCEPT ![c] = @ \/ conn[c] = "open"]

Send(c) ==
  /\ server # "dead" /\ c \in Standing /\ peer[c] = "open"
  /\ \E e \in Cuts[c] :
       /\ e > sent[c]
       /\ inbox' = [inbox EXCEPT ![c] = @ \o SubSeq(Stream, sent[c] + 1, e)]
       /\ sent' = [sent EXCEPT ![c] = e]
  /\ RaiseEdge(c)
  /\ UNCHANGED <<server, ep, cfd, reading, pos, conn, peer, answer, file, past>>

Close(c) ==
  /\ server # "dead" /\ c \in Closers \cap Standing
  /\ \/ peer[c] = "open" /\ peer' = [peer EXCEPT ![c] = "half"]
     \/ peer[c] \in {"open", "half"} /\ peer' = [peer EXCEPT ![c] = "gone"]
  /\ RaiseEdge(c)
  /\ UNCHANGED <<server, ep, cfd, reading, pos, conn, inbox, sent, answer, file, past>>

\* The host of a client that is gone answers to what was sent to it
ResetArrives(c) ==
  /\ server # "dead" /\ peer[c] = "gone" /\ answer[c] # NoAnswer
  /\ peer' = [peer EXCEPT ![c] = "reset"]
  /\ RaiseEdge(c)
  /\ UNCHANGED <<server, ep, cfd, reading, pos, conn, inbox, sent, answer, file, past>>

\* A file is removed.  What becomes of its name while send_file has it open cannot be
\* told from what becomes of it later.
FileVanishes(n) ==
  /\ FilesVanish /\ server \notin {"send", "dead"}
  /\ kind[n] # "missing"
  /\ kind' = [kind EXCEPT ![n] = "missing"]
  /\ size' = [size EXCEPT ![n] = 0]
  /\ UNCHANGED <<server, ep, cfd, reading, pos, conn, edge, clients, answer, past>>

-----------------------------------------------------------------------------

Next ==
  \/ Server
  \/ \E c \in Clients : Connect(c) \/ Send(c) \/ Close(c) \/ ResetArrives(c)
  \/ \E n \in Files : FileVanishes(n)

Spec == Init /\ [][Next]_vars

\* Where in its stream a request of a client ends: behind a blank line
Ends ==
  {p \in 3..Len(Stream) : Stream[p - 2] = "LF" /\ Stream[p - 1] = "CR" /\ Stream[p] = "LF"}

\* The process is scheduled, and a client that has begun a request goes on with it
\* unless it closes.  Nothing is assumed of connecting, of beginning, of closing.
Fairness ==
  /\ WF_vars(Server)
  /\ \A c \in Clients : WF_vars(sent[c] \notin Ends \cup {0} /\ Send(c))

FairSpec == Spec /\ Fairness

-----------------------------------------------------------------------------

\* Every variable keeps its type.
TypeOK ==
  /\ server \in ServerStates
  /\ ep \in Seq(Clients \cup {Listener}) /\ cfd \in Clients
  /\ header \in BOOLEAN
  /\ line \in [first : {"none", "GET", "path", "hdr", "LF"}, path : BOOLEAN]
  /\ method \in {"none", "GET", "path", "hdr", "LF"}
  /\ want \in {"asked", "other"}
  /\ pos \in 0..MaxSize
  /\ conn \in [Clients -> {"none", "queued", "open", "unwatched", "closed"}]
  /\ edge \in [Clients -> BOOLEAN]
  /\ inbox \in [Clients -> Seq({"GET", "path", "hdr", "CR", "LF"})]
  /\ peer \in [Clients -> {"open", "half", "gone", "reset"}]
  /\ sent \in [Clients -> 0..Len(Stream)]
  /\ answer \in [Clients -> [status : {"none", "200", "404"}, of : {"none", "asked", "other"},
                             len : -1..MaxSize, got : 0..MaxSize, lost : 0..MaxSize,
                             whole : BOOLEAN]]
  /\ kind \in [Files -> Kinds] /\ size \in [Files -> 0..MaxSize]
  /\ torn \subseteq Clients /\ left \subseteq Clients /\ answered \in [Clients -> Nat]

\* A line of length 0 is taken to mean that the client has closed its connection: the
\* server never disconnects a client that has not, however its request is cut up.
DisconnectsOnlyClosed == \A c \in Clients : conn[c] = "closed" => peer[c] # "open"

\* With edge-triggered events a socket that is not read dry may be forgotten.  When the
\* server goes to wait, what it has not read of a client, or the end of its connection,
\* has raised an edge of its own, unless do_read stopped in front of it at a blank line.
NothingForgotten ==
  server = "wait" => \A c \in Open \ left : Readable(c) => edge[c]

\* No request ends the process: only the client it is answering does, by the reset that
\* follows its going, or a file that is gone or cannot be opened behind a stat that found
\* it, whose client then has the error page; or the lack of a descriptor or of room in the
\* epoll set for a new client.
DiesForAReason ==
  server = "dead" =>
     \/ peer[cfd] \in {"gone", "reset"}
     \/ answer[cfd].status = "404"
     \/ Cardinality(Open) = MaxFds /\ Queued # {}
     \/ \E c \in Clients : conn[c] = "unwatched"

Complete == {c \in Clients : answer[c].whole /\ answer[c].status = "200"}

\* send_respond: Content-Length, if it is sent, must be exact.
LengthExact == \A c \in Complete : answer[c].got = answer[c].len

\* What a complete answer has less than its Content-Length says is what send did not take,
\* block by block; also when files vanish.
LengthAccounted == \A c \in Complete : answer[c].got + answer[c].lost = answer[c].len

\* What the server has read of a client
Taken(c) == sent[c] - Len(inbox[c])

\* do_read: reading the blank line means that the whole request has been read.
BlankLineIsTheEnd == server = "stat" => Taken(cfd) \in Ends

\* The same of a client none of whose lines was ended by a gap in what had arrived, however
\* its requests are cut up and whatever else it has sent behind them.
BlankLineUnlessTorn == server = "stat" /\ cfd \notin torn => Taken(cfd) \in Ends

\* An answer is about the file the client named.
AnswersWhatWasAsked == \A c \in Clients : answer[c].of # "other"

\* The same of a client none of whose lines was ended by a gap in what had arrived.
NameUnlessTorn == \A c \in Clients \ torn : answer[c].of # "other"

\* do_read: a read error, and so the end of the connection, ends the loop over the headers.
ReadErrorEnds ==
  \A c \in Clients :
     (header /\ server = "recv" /\ cfd = c /\ peer[c] # "open")
        ~> ~(header /\ server = "recv" /\ cfd = c)

\* The process is in the header loop of a client from which no more need come.
Stuck ==
  header /\ server = "recv" /\ inbox[cfd] = <<>> /\ (peer[cfd] # "open" \/ cfd \in torn)

\* The requests that a client has sent to their end
RequestsSent(c) == Cardinality({p \in Ends : p <= sent[c]})

Answering(c) == cfd = c /\ server \in {"stat", "request", "open", "send"}

\* Every request that was sent to its end is answered to the end, unless it is for a
\* directory: of each client, whether it waits for the answer to the one before or not, and
\* whatever the others do.  In the way are only the header loop, which a client that ends its
\* connection or whose lines were torn does not let go; a line of the client's own that was
\* torn; what lies behind a blank line; and the end of the process.
RequestAnswered ==
  kind["asked"] # "dir" =>
     \A c \in Clients :
        answered[c] < RequestsSent(c) ~>
           \/ answered[c] >= RequestsSent(c)
           \/ server = "dead" \/ Stuck
           \/ c \in torn \/ (c \in left /\ ~Answering(c))

=============================================================================
