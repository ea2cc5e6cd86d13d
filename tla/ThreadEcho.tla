----------------------------- MODULE ThreadEcho -----------------------------
(***************************************************************************)
(* socket_test/mul_pthread_sever.c: main accepts and gives each connection *)
(* a thread of its own, which reads from it and writes to it until the end *)
(* of the stream.  An entry of ts[] is never used a second time.           *)
(***************************************************************************)
EXTENDS EchoNet

CONSTANT TsSize   \* entries of ts[]

VARIABLES
  server,   \* main: "call", "accept", or the process is "dead"
  connfd,   \* the descriptor its accept will return
  ts        \* an entry for each accept: its connfd, and where its thread is and what n it has

main == <<server, connfd, ts>>
vars == <<net, main>>

Init ==
  /\ InitNet
  /\ server = "call" /\ connfd = lfd
  /\ ts = <<>>

Die == server' = "dead" /\ UNCHANGED <<net, connfd, ts>>

\* accept takes its descriptor before it waits for a connection, and fails without one
AcceptCall ==
  /\ server = "call"
  /\ IF NoFdLeft
       THEN Die
       ELSE /\ server' = "accept" /\ connfd' = LowestFd
            /\ UNCHANGED <<net, ts>>

\* Behind ts[] the store may do no harm, or end the process
AcceptReturns ==
  /\ server = "accept"
  /\ Accept(connfd)
  /\ ts' = Append(ts, [connfd |-> connfd, at |-> "read", n |-> 0])
  /\ connfd' = lfd
  /\ server' \in IF Len(ts) < TsSize THEN {"call"} ELSE {"call", "dead"}

Main == AcceptCall \/ AcceptReturns

-----------------------------------------------------------------------------
(* The thread of entry k, do_work *)

ReadEnd(k) ==
  /\ ts[k].at = "read" /\ Readable(ts[k].connfd) /\ ReadResult(ts[k].connfd) = 0
  /\ Close(ts[k].connfd)
  /\ ts' = [ts EXCEPT ![k].at = "ended"]
  /\ UNCHANGED <<server, connfd>>

\* -1 is not 0: the loop goes on, and a Write of -1 bytes is refused
ReadError(k) ==
  /\ ts[k].at = "read" /\ Readable(ts[k].connfd) /\ ReadResult(ts[k].connfd) = -1
  /\ Read(ts[k].connfd)
  /\ UNCHANGED main

ReadData(k) ==
  /\ ts[k].at = "read" /\ Readable(ts[k].connfd) /\ ReadResult(ts[k].connfd) > 0
  /\ Read(ts[k].connfd)
  /\ ts' = [ts EXCEPT ![k].at = "write", ![k].n = ReadResult(ts[k].connfd)]
  /\ UNCHANGED <<server, connfd>>

WriteBack(k) ==
  /\ ts[k].at = "write"
  /\ IF WriteKills(ts[k].connfd)
       THEN Die
       ELSE /\ Write(ts[k].connfd, ts[k].n)
            /\ ts' = [ts EXCEPT ![k].at = "read", ![k].n = 0]
            /\ UNCHANGED <<server, connfd>>

Thread(k) ==
  /\ server # "dead" /\ k \in DOMAIN ts
  /\ ReadEnd(k) \/ ReadError(k) \/ ReadData(k) \/ WriteBack(k)

Server == Main \/ \E k \in DOMAIN ts : Thread(k)

-----------------------------------------------------------------------------

Next == Server \/ (NetStep /\ UNCHANGED main)

Spec == Init /\ [][Next]_vars

-----------------------------------------------------------------------------

\* Every variable keeps its type.
TypeOK ==
  /\ NetTypeOK
  /\ server \in {"call", "accept", "dead"}
  /\ connfd \in Fds \cup {lfd}
  /\ ts \in Seq([connfd : Fds, at : {"read", "write", "ended"}, n : 0..MaxSegments])

\* Each open connection has one thread, through one entry of ts[], and each thread an
\* open connection, though descriptors are handed out again while entries are not; and
\* the descriptor main waits for is nobody's.
WatchesAll ==
  /\ \A k \in DOMAIN ts : ts[k].at # "ended" => ts[k].connfd \in OpenFds
  /\ server # "dead" =>
       \A fd \in OpenFds :
          Cardinality({k \in DOMAIN ts : ts[k].connfd = fd /\ ts[k].at # "ended"}) = 1
  /\ connfd \notin OpenFds

\* The process ends when there is no descriptor for another connection, by writing to a
\* connection that is broken, or once more than TsSize connections have been accepted.
EndsForAReason ==
  server = "dead" =>
     \/ NoFdLeft
     \/ Len(ts) > TsSize
     \/ \E c \in Clients : peer[c] \in {"reset", "broken"}

=============================================================================
