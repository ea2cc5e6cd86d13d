------------------------------- MODULE EchoNet -------------------------------
(***************************************************************************)
(* What the echo servers of socket_test stand on: the wrappers of wrap.c,  *)
(* and TCP as the servers see it, with the clients behind it.  A client    *)
(* sends segments and may shut its writing side, close, or abort its       *)
(* connection; it always reads what it is sent, so a write never blocks.   *)
(* When the server closes a connection its client may connect again, and   *)
(* the descriptor is handed out again, the lowest free one first.          *)
(***************************************************************************)
EXTENDS Integers, Sequences, FiniteSets, FiniteSetsExt

CONSTANTS
  Clients,
  None,          \* no client
  MaxFds,        \* descriptors the process has for connections
  MaxSegments,   \* bound: segments sent on a connection
  MaySend,       \* client -> how many of them it may send
  MaxCalls,      \* bound: connections a client makes
  MayEnd         \* client -> the ways in which it may end a connection, see Endings

\* Shut the writing side; close; reset
Endings == {"shut", "close", "abort"}

ASSUME EchoAssumption ==
  /\ None \notin Clients
  /\ MaxFds \in Nat /\ MaxSegments \in Nat /\ MaxCalls \in Nat
  /\ MaySend \in [Clients -> 0..MaxSegments]
  /\ MayEnd \in [Clients -> SUBSET Endings]

Fds == 1..MaxFds
lfd == 0

VARIABLES
  sock,     \* fd -> the client connected to it, or None
  queue,    \* clients connected and not yet accepted, first come first
  peer,     \* client -> the state of its connection, see PeerStates
  unread,   \* client -> segments that have arrived and are not read
  sent,     \* client -> segments it has sent
  echoed,   \* client -> segments written back to it
  calls     \* client -> connections it has made

net == <<sock, queue, peer, unread, sent, echoed, calls>>

(***************************************************************************)
(* half: has shut its writing side.  gone: has closed.  hit: has closed,   *)
(* and something was written to it.  reset: the answer to that has come.   *)
(* aborted: has reset a connection it had not closed.  broken: the error   *)
(* has been reported, the socket is still there.                           *)
(***************************************************************************)
PeerStates == {"none", "open", "half", "gone", "hit", "reset", "aborted", "broken"}

InitNet ==
  /\ sock = [fd \in Fds |-> None]
  /\ queue = <<>>
  /\ peer = [c \in Clients |-> "none"]
  /\ unread = [c \in Clients |-> 0]
  /\ sent = [c \in Clients |-> 0]
  /\ echoed = [c \in Clients |-> 0]
  /\ calls = [c \in Clients |-> 0]

OpenFds == {fd \in Fds : sock[fd] # None}

\* A read of the socket would not block
Readable(fd) == unread[sock[fd]] > 0 \/ peer[sock[fd]] # "open"

-----------------------------------------------------------------------------
(* wrap.c *)

NoFdLeft == OpenFds = Fds

LowestFd == Min(Fds \ OpenFds)

\* Accept, of a connection that is there; without a descriptor it fails and the process
\* ends
Accept(fd) ==
  /\ queue # <<>>
  /\ sock' = [sock EXCEPT ![fd] = Head(queue)]
  /\ queue' = Tail(queue)
  /\ UNCHANGED <<peer, unread, sent, echoed, calls>>

\* What Read returns: segments, 0 for the end of the stream, -1 for an error.  Behind a reset of a
\* client that had closed, POSIX allows the error; Linux reports the end of the stream.
ReadResult(fd) ==
  IF unread[sock[fd]] > 0 THEN unread[sock[fd]]
  ELSE IF peer[sock[fd]] \in {"reset", "aborted"} THEN -1 ELSE 0

\* Read, of a socket that is readable.  An error is reported once.
Read(fd) ==
  /\ Readable(fd)
  /\ unread' = [unread EXCEPT ![sock[fd]] = 0]
  /\ peer' = [peer EXCEPT ![sock[fd]] = IF ReadResult(fd) = -1 THEN "broken" ELSE @]
  /\ UNCHANGED <<sock, queue, sent, echoed, calls>>

\* SIGPIPE ends a process that writes to a broken connection
WriteKills(fd) == peer[sock[fd]] \in {"reset", "broken"}

\* Write; the servers ignore its result
Write(fd, n) ==
  /\ peer' = [peer EXCEPT ![sock[fd]] = CASE @ = "gone"    -> "hit"
                                          [] @ = "aborted" -> "broken"
                                          [] OTHER         -> @]
  /\ echoed' = [echoed EXCEPT ![sock[fd]] =
                  IF peer[sock[fd]] \in {"open", "half"} THEN @ + n ELSE @]
  /\ UNCHANGED <<sock, queue, unread, sent, calls>>

\* Close; the client may connect again
Close(fd) ==
  /\ sock' = [sock EXCEPT ![fd] = None]
  /\ peer' = [peer EXCEPT ![sock[fd]] = "none"]
  /\ unread' = [unread EXCEPT ![sock[fd]] = 0]
  /\ sent' = [sent EXCEPT ![sock[fd]] = 0]
  /\ echoed' = [echoed EXCEPT ![sock[fd]] = 0]
  /\ UNCHANGED <<queue, calls>>

-----------------------------------------------------------------------------
(* Clients and network *)

Connect(c) ==
  /\ peer[c] = "none" /\ calls[c] < MaxCalls
  /\ peer' = [peer EXCEPT ![c] = "open"]
  /\ queue' = Append(queue, c)
  /\ calls' = [calls EXCEPT ![c] = @ + 1]
  /\ UNCHANGED <<sock, unread, sent, echoed>>

Send(c) ==
  /\ peer[c] = "open" /\ sent[c] < MaySend[c]
  /\ sent' = [sent EXCEPT ![c] = @ + 1]
  /\ unread' = [unread EXCEPT ![c] = @ + 1]
  /\ UNCHANGED <<sock, queue, peer, echoed, calls>>

EndsConnection(c) ==
  /\ \/ /\ "shut" \in MayEnd[c] /\ peer[c] = "open"
        /\ peer' = [peer EXCEPT ![c] = "half"]
     \/ /\ "close" \in MayEnd[c] /\ peer[c] \in {"open", "half"}
        /\ peer' = [peer EXCEPT ![c] = "gone"]
     \/ /\ peer[c] = "hit"
        /\ peer' = [peer EXCEPT ![c] = "reset"]
     \/ /\ "abort" \in MayEnd[c] /\ peer[c] = "open"
        /\ peer' = [peer EXCEPT ![c] = "aborted"]
  /\ UNCHANGED <<sock, queue, unread, sent, echoed, calls>>

NetStep == \E c \in Clients : Connect(c) \/ Send(c) \/ EndsConnection(c)

NetTypeOK ==
  /\ sock \in [Fds -> Clients \cup {None}]
  /\ queue \in Seq(Clients)
  /\ peer \in [Clients -> PeerStates]
  /\ unread \in [Clients -> 0..MaxSegments]
  /\ sent \in [Clients -> 0..MaxSegments]
  /\ echoed \in [Clients -> 0..MaxSegments]
  /\ calls \in [Clients -> 0..MaxCalls]

=============================================================================
