----------------------------- MODULE EpollEcho -----------------------------
(***************************************************************************)
(* socket_test/epoll_server.c: the echo server around a level-triggered    *)
(* epoll.  Events are handled one by one, in the order in which epoll_wait *)
(* put them into ep, an accept among them.                                 *)
(***************************************************************************)
EXTENDS EchoNet, SequencesExt

VARIABLES
  server,   \* "wait", "event", "write", "dead"
  tree,     \* the descriptors in the epoll set
  ep,       \* the events still to be handled, the current one first
  n         \* what the last Read returned

main == <<server, tree, ep, n>>
vars == <<net, main>>

Init ==
  /\ InitNet
  /\ server = "wait"
  /\ tree = {lfd}
  /\ ep = <<>> /\ n = 0

Ready == {fd \in tree : IF fd = lfd THEN queue # <<>> ELSE Readable(fd)}

EpollWait ==
  /\ server = "wait" /\ Ready # {}
  /\ ep' \in SetToSeqs(Ready)
  /\ server' = "event"
  /\ UNCHANGED <<net, tree, n>>

\* The next event, or epoll_wait again
NextEvent ==
  /\ ep' = Tail(ep)
  /\ server' = IF Tail(ep) = <<>> THEN "wait" ELSE "event"

Die == server' = "dead" /\ UNCHANGED <<net, tree, ep, n>>

\* epoll_ctl may refuse to add the new connection, which ends the process as well
AcceptNew ==
  /\ server = "event" /\ Head(ep) = lfd
  /\ \/ NoFdLeft /\ Die
     \/ /\ ~NoFdLeft /\ Accept(LowestFd) /\ UNCHANGED n
        /\ \/ tree' = tree \cup {LowestFd} /\ NextEvent
           \/ UNCHANGED tree /\ ep' = Tail(ep) /\ server' = "dead"

\* Mutant: the result 1 is taken for the end as well
EndsEarly(result) == result <= 1

Ends(result) == result <= 0

CloseAndDelete(fd) == Close(fd) /\ tree' = tree \ {fd}

ReadEnd ==
  /\ server = "event" /\ Head(ep) # lfd
  /\ Readable(Head(ep)) /\ Ends(ReadResult(Head(ep)))
  /\ CloseAndDelete(Head(ep))
  /\ NextEvent
  /\ UNCHANGED n

ReadData ==
  /\ server = "event" /\ Head(ep) # lfd
  /\ Readable(Head(ep)) /\ ~Ends(ReadResult(Head(ep)))
  /\ Read(Head(ep))
  /\ n' = ReadResult(Head(ep))
  /\ server' = "write"
  /\ UNCHANGED <<tree, ep>>

WriteBack ==
  /\ server = "write"
  /\ IF WriteKills(Head(ep))
       THEN Die
       ELSE Write(Head(ep), n) /\ n' = 0 /\ NextEvent /\ UNCHANGED tree

Server == EpollWait \/ AcceptNew \/ ReadEnd \/ ReadData \/ WriteBack

-----------------------------------------------------------------------------

Next == Server \/ (NetStep /\ UNCHANGED main)

Spec == Init /\ [][Next]_vars

-----------------------------------------------------------------------------

\* Every variable keeps its type.
TypeOK ==
  /\ NetTypeOK
  /\ server \in {"wait", "event", "write", "dead"}
  /\ tree \subseteq Fds \cup {lfd}
  /\ ep \in Seq(Fds \cup {lfd})
  /\ n \in 0..MaxSegments

\* A connection accepted between two events may get a descriptor closed by the first of
\* them; still the events to come are those of open connections whose read does not block.
NeverBlocks ==
  \A k \in 1..Len(ep) :
     ep[k] # lfd /\ (k > 1 \/ server = "event")
        => ep[k] \in OpenFds /\ Readable(ep[k])

\* While the process lives, the epoll set is the open connections and lfd.
WatchesAll == server # "dead" => tree = OpenFds \cup {lfd}

\* The process ends only when there is no descriptor for another connection, when the
\* epoll set does not take it, or by writing to a connection that is broken.
EndsForAReason ==
  server = "dead" =>
     \/ queue # <<>> /\ NoFdLeft
     \/ OpenFds \ tree # {}
     \/ \E c \in Clients : peer[c] \in {"reset", "broken"}

=============================================================================
