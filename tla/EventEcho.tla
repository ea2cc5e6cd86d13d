----------------------------- MODULE EventEcho -----------------------------
(***************************************************************************)
(* libevent_test/ev_server.c: a server made of callbacks, which answers    *)
(* what it reads by a fixed text.  libevent, which calls them, is not part *)
(* of the repository: its loop waits, activates the events that are ready  *)
(* and handles each, reading into and writing from the bufferevent of the  *)
(* connection; the order among them is left open.                          *)
(***************************************************************************)
EXTENDS EchoNet

VARIABLES
  server,   \* the loop: "wait", "event", "accept" while the listener accepts; or "dead"
  bev,      \* the descriptors that have a bufferevent
  output,   \* fd -> answers in the output buffer of its bufferevent
  active    \* the events still to be handled, <<fd, "read" or "write">>

main == <<server, bev, output, active>>
vars == <<net, main>>

Init ==
  /\ InitNet
  /\ server = "wait"
  /\ bev = {} /\ output = [fd \in Fds |-> 0]
  /\ active = {}

listening == <<lfd, "read">>

Ready ==
  {<<fd, "read">> : fd \in {f \in bev : Readable(f)}}
    \cup {<<fd, "write">> : fd \in {f \in bev : output[f] > 0}}
    \cup (IF queue # <<>> THEN {listening} ELSE {})

Dispatch ==
  /\ server = "wait" /\ Ready # {}
  /\ active' = Ready
  /\ server' = "event"
  /\ UNCHANGED <<net, bev, output>>

\* The events gone have been handled
Go(gone) ==
  /\ active' = active \ gone
  /\ server' = IF active \subseteq gone THEN "wait" ELSE "event"

\* The listener accepts all that wait, one after the other, and gives up for now without a
\* descriptor; cb_listener makes each a bufferevent that reads
cb_listener ==
  /\ server \in {"event", "accept"} /\ listening \in active
  /\ IF queue = <<>> \/ NoFdLeft
       THEN Go({listening}) /\ UNCHANGED <<net, bev, output>>
       ELSE /\ Accept(LowestFd)
            /\ bev' = bev \cup {LowestFd}
            /\ server' = "accept"
            /\ UNCHANGED <<output, active>>

\* bufferevent_free closes the connection, and forgets its events and the answers in it
event_cb(fd) ==
  /\ Close(fd)
  /\ bev' = bev \ {fd}
  /\ output' = [output EXCEPT ![fd] = 0]
  /\ Go({<<fd, "read">>, <<fd, "write">>})

\* However much was read, one answer; what does not fit into buf stays for the next time
read_cb(fd) ==
  /\ Read(fd)
  /\ output' = [output EXCEPT ![fd] = @ + 1]
  /\ Go({<<fd, "read">>})
  /\ UNCHANGED bev

ReadEvent(fd) ==
  /\ server = "event" /\ <<fd, "read">> \in active
  /\ IF ReadResult(fd) <= 0 THEN event_cb(fd) ELSE read_cb(fd)

\* All of the output is written.  libevent does not keep SIGPIPE off; the error of a
\* connection that was reset goes to event_cb.
WriteEvent(fd) ==
  /\ server = "event" /\ <<fd, "write">> \in active
  /\ IF WriteKills(fd) THEN server' = "dead" /\ UNCHANGED <<net, bev, output, active>>
     ELSE IF peer[sock[fd]] = "aborted" THEN event_cb(fd)
     ELSE /\ Write(fd, output[fd])
          /\ output' = [output EXCEPT ![fd] = 0]
          /\ Go({<<fd, "write">>})
          /\ UNCHANGED bev

Server == Dispatch \/ cb_listener \/ \E fd \in Fds : ReadEvent(fd) \/ WriteEvent(fd)

-----------------------------------------------------------------------------

Next == Server \/ (NetStep /\ UNCHANGED main)

Spec == Init /\ [][Next]_vars

-----------------------------------------------------------------------------

\* Every variable keeps its type.
TypeOK ==
  /\ NetTypeOK
  /\ server \in {"wait", "event", "accept", "dead"}
  /\ bev \subseteq Fds
  /\ output \in [Fds -> 0..MaxSegments]
  /\ active \subseteq (Fds \cup {lfd}) \X {"read", "write"}

\* An event that is still to be handled is that of a bufferevent that was not freed, and
\* what it announced is still so, although connections were freed and accepted since.
NeverBlocks ==
  \A fd \in Fds :
     /\ <<fd, "read">> \in active => fd \in bev /\ Readable(fd)
     /\ <<fd, "write">> \in active => fd \in bev /\ output[fd] > 0

\* Each open connection has a bufferevent, and answers wait only for those.
WatchesAll ==
  /\ bev = OpenFds
  /\ \A fd \in Fds : output[fd] > 0 => fd \in OpenFds

\* The process ends only by writing to a connection that is broken.
EndsForAReason ==
  server = "dead" => \E c \in Clients : peer[c] \in {"reset", "broken"}

=============================================================================
