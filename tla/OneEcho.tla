------------------------------ MODULE OneEcho ------------------------------
(***************************************************************************)
(* socket_test/server.c: an echo server that accepts once.  It looks at no *)
(* result: at the end of the stream it goes on reading and writing nothing *)
(* for ever, unless that kills it, and it never closes.                    *)
(***************************************************************************)
EXTENDS EchoNet

VARIABLES
  server,   \* "accept", "read", "write", "dead"
  connfd,   \* cfd
  n         \* ret

main == <<server, connfd, n>>
vars == <<net, main>>

Init ==
  /\ InitNet
  /\ server = "accept" /\ connfd = lfd /\ n = 0

AcceptOnce ==
  /\ server = "accept" /\ ~NoFdLeft
  /\ Accept(LowestFd)
  /\ connfd' = LowestFd
  /\ server' = "read"
  /\ UNCHANGED n

\* A turn that reads -1 has its write refused, whatever the connection
ReadError ==
  /\ server = "read" /\ Readable(connfd) /\ ReadResult(connfd) = -1
  /\ Read(connfd)
  /\ UNCHANGED main

\* 0 as well, at the end of the stream
ReadBytes ==
  /\ server = "read" /\ Readable(connfd) /\ ReadResult(connfd) >= 0
  /\ Read(connfd)
  /\ n' = ReadResult(connfd)
  /\ server' = "write"
  /\ UNCHANGED connfd

\* Writing 0 bytes sends nothing, and to a broken connection it may raise SIGPIPE
WriteBack ==
  /\ server = "write"
  /\ \/ /\ WriteKills(connfd)
        /\ server' = "dead" /\ UNCHANGED net
     \/ /\ n > 0 /\ ~WriteKills(connfd)
        /\ server' = "read" /\ Write(connfd, n)
     \/ /\ n = 0
        /\ server' = "read" /\ UNCHANGED net
  /\ UNCHANGED <<connfd, n>>

Server == AcceptOnce \/ ReadError \/ ReadBytes \/ WriteBack

-----------------------------------------------------------------------------

Next == Server \/ (NetStep /\ UNCHANGED main)

Spec == Init /\ [][Next]_vars

-----------------------------------------------------------------------------

\* Every variable keeps its type.
TypeOK ==
  /\ NetTypeOK
  /\ server \in {"accept", "read", "write", "dead"}
  /\ connfd \in Fds \cup {lfd} /\ n \in 0..MaxSegments

\* The one connection is the one that is served.
WatchesAll == OpenFds = {connfd} \ {lfd}

\* The process ends only by writing to a connection that is broken.
EndsForAReason ==
  server = "dead" => \E c \in Clients : peer[c] \in {"reset", "broken"}

=============================================================================
