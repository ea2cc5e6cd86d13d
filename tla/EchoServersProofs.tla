-------------------------- MODULE EchoServersProofs --------------------------
(***************************************************************************)
(* What holds of each of the echo servers, for any number of clients,      *)
(* descriptors, segments and entries.                                      *)
(***************************************************************************)
EXTENDS EchoServers, FiniteSetTheorems, SequenceTheorems, WellFoundedInduction, TLAPS

-----------------------------------------------------------------------------
(* The connections *)

\* e segments echoed, u unread and x held by the server are no more than the s sent; and
\* are all of them while the connection lives, except that ev_server.c answers several at
\* once
Fits(e, u, x, s, p) ==
  /\ e + u + x <= s
  /\ RunsEvents \/ p \notin {"open", "half"} \/ e + u + x = s

\* x segments read from fd are to be written back
Owes(fd, x) ==
  Fits(echoed[sock[fd]], unread[sock[fd]], x, sent[sock[fd]], peer[sock[fd]])

Connected(c) == \E fd \in Fds : sock[fd] = c

OneSocketEach == \A fd, g \in OpenFds : sock[fd] = sock[g] => fd = g

InLine ==
  /\ \A j, k \in 1..Len(queue) : queue[j] = queue[k] => j = k
  /\ \A k \in 1..Len(queue) : ~Connected(queue[k])

Unconnected ==
  \A c \in Clients : peer[c] = "none" =>
     /\ ~Connected(c)
     /\ \A k \in 1..Len(queue) : queue[k] # c
     /\ sent[c] = 0 /\ unread[c] = 0 /\ echoed[c] = 0

Settled ==
  \A c \in Clients : ~Connected(c) => Fits(echoed[c], unread[c], 0, sent[c], peer[c])

\* What was echoed and what is unread has been sent
Covers(s, e, u) == e + u <= s
AllCovered == \A c \in Clients : Covers(sent[c], echoed[c], unread[c])

NetInv == NetTypeOK /\ OneSocketEach /\ InLine /\ Unconnected /\ Settled /\ AllCovered

\* fd is open and a read of it does not block
CanRead(fd) == fd \in OpenFds /\ Readable(fd)

-----------------------------------------------------------------------------
(* The programs *)

\* What select_sever.c and select_effective.c still have to look at
SelectPending ==
  /\ server = "accept" => queue # <<>>
  /\ server \in {"accept", "scan"} => \A fd \in rset \ {lfd} : CanRead(fd)
  /\ server \in {"read", "write"} =>
       /\ i \in SelectServer!FirstIndex..SelectServer!LastIndex
       /\ SelectServer!FdAt(i) \in OpenFds
       /\ server = "read" => Readable(SelectServer!FdAt(i))
       /\ \A s \in (i + 1)..SelectServer!LastIndex :
            SelectServer!FdAt(s) \in rset => CanRead(SelectServer!FdAt(s))
  /\ server \in {"accept", "scan", "read", "write"} => nready >= 1

SelectOwes ==
  \A fd \in OpenFds :
     Owes(fd, IF server = "write" /\ fd = SelectServer!FdAt(i) THEN n ELSE 0)

SelectInv ==
  /\ SelectServer!TypeOK /\ SelectServer!WatchesAll /\ SelectServer!EndsForAReason
  /\ SelectPending /\ SelectOwes

\* The entries from which server_poll.c still has to read are as many as nready says, and
\* lie before the entry whose revents nobody has written
PollLeft(todo) ==
  /\ todo \subseteq 1..maxi
  /\ nready = Cardinality(todo) + (IF server = "accept" THEN 1 ELSE 0)
  /\ \A s \in todo : revents[s] /\ client[s] \in OpenFds
  /\ \A s \in todo : Readable(client[s]) \/ (server = "write" /\ s = i)
  /\ server = "accept" => \A s \in 1..maxi : revents[s] => s \in todo
  /\ server = "scan" => todo # {}
  /\ server \in {"read", "write"} => i \in todo /\ \A s \in todo : i <= s
  /\ \A s \in 1..maxi : revents[s] /\ client[s] >= 0 /\ s \notin todo
       => \/ \A g \in todo : g < s
          \/ server \in {"read", "write"} /\ s < i

PollPending ==
  /\ server = "accept" => queue # <<>>
  /\ server \in {"accept", "scan", "read", "write"} =>
       \E todo \in SUBSET (1..maxi) : PollLeft(todo)

PollOwes ==
  \A fd \in OpenFds : Owes(fd, IF server = "write" /\ fd = client[i] THEN n ELSE 0)

PollInv ==
  /\ PollServer!TypeOK /\ PollServer!WatchesAll /\ PollServer!EndsForAReason
  /\ PollPending /\ PollOwes

\* The events to come
EpollPending ==
  /\ \A j, k \in 1..Len(ep) : ep[j] = ep[k] => j = k
  /\ server \in {"event", "write"} => ep # <<>>
  /\ server = "write" => Head(ep) \in OpenFds
  /\ \A k \in 1..Len(ep) : ep[k] = lfd => queue # <<>>
  /\ \A k \in 1..Len(ep) : ep[k] # lfd /\ (k > 1 \/ server = "event") => CanRead(ep[k])

EpollOwes ==
  \A fd \in OpenFds : Owes(fd, IF server = "write" /\ fd = Head(ep) THEN n ELSE 0)

EpollInv ==
  /\ EpollServer!TypeOK /\ EpollServer!WatchesAll /\ EpollServer!EndsForAReason
  /\ EpollPending /\ EpollOwes

Entries == [connfd : Fds, at : {"read", "write", "ended"}, n : 0..MaxSegments]

\* One thread for each connection
ThreadPending ==
  /\ \A j, k \in DOMAIN ts :
       ts[j].at # "ended" /\ ts[k].at # "ended" /\ ts[j].connfd = ts[k].connfd => j = k
  /\ \A k \in DOMAIN ts : ts[k].at # "ended" => ts[k].connfd \in OpenFds
  /\ \A fd \in OpenFds : \E k \in DOMAIN ts : ts[k].at # "ended" /\ ts[k].connfd = fd
  /\ \A k \in DOMAIN ts : ts[k].at = "read" => ts[k].n = 0
  /\ server = "accept" => connfd \in Fds
  /\ connfd \notin OpenFds

ThreadOwes ==
  \A k \in DOMAIN ts, fd \in Fds, x \in 0..MaxSegments :
     ts[k].at # "ended" /\ ts[k].connfd = fd /\ ts[k].n = x => Owes(fd, x)

ThreadInv ==
  /\ ThreadServer!TypeOK /\ ThreadServer!EndsForAReason
  /\ ThreadPending /\ ThreadOwes

\* What the events still to be handled announced is still so
EventPending ==
  /\ \A fd \in Fds : <<fd, "read">> \in active => CanRead(fd)
  /\ \A fd \in Fds : <<fd, "write">> \in active => fd \in OpenFds /\ output[fd] > 0

EventOwes == \A fd \in OpenFds : Owes(fd, output[fd])

EventInv ==
  /\ EventServer!TypeOK /\ EventServer!WatchesAll /\ EventServer!EndsForAReason
  /\ EventPending /\ EventOwes

OneOwes == \A fd \in OpenFds : Owes(fd, IF server = "write" THEN n ELSE 0)

OneInv ==
  /\ OneServer!TypeOK /\ OneServer!WatchesAll /\ OneServer!EndsForAReason
  /\ server = "accept" <=> connfd = lfd
  /\ OneOwes

Programs ==
  {"select_sever", "select_effective", "server_poll", "epoll_server",
   "mul_pthread_sever", "ev_server", "server"}

Inv ==
  /\ program \in Programs
  /\ NetInv
  /\ RunsSelect => SelectInv
  /\ RunsPoll => PollInv
  /\ RunsEpoll => EpollInv
  /\ RunsThreads => ThreadInv
  /\ RunsEvents => EventInv
  /\ RunsOne => OneInv

-----------------------------------------------------------------------------
(* The same words in each of the programs *)

LEMMA SelectNet ==
  /\ SelectServer!Fds = Fds /\ SelectServer!lfd = lfd /\ SelectServer!PeerStates = PeerStates
  /\ SelectServer!OpenFds = OpenFds /\ SelectServer!OpenFds' = OpenFds'
  /\ SelectServer!NoFdLeft = NoFdLeft /\ SelectServer!NoFdLeft' = NoFdLeft'
  /\ SelectServer!LowestFd = LowestFd
  /\ \A fd : /\ SelectServer!Readable(fd) <=> Readable(fd)
             /\ SelectServer!ReadResult(fd) = ReadResult(fd)
             /\ SelectServer!WriteKills(fd) <=> WriteKills(fd)
             /\ SelectServer!Accept(fd) <=> Accept(fd)
             /\ SelectServer!Read(fd) <=> Read(fd)
             /\ SelectServer!Close(fd) <=> Close(fd)
  /\ \A fd, k : SelectServer!Write(fd, k) <=> Write(fd, k)
  /\ SelectServer!NetTypeOK <=> NetTypeOK
  /\ SelectServer!NetTypeOK' <=> NetTypeOK'
  /\ SelectServer!InitNet <=> InitNet
<1>1. SelectServer!Fds = Fds /\ SelectServer!lfd = lfd /\ SelectServer!PeerStates = PeerStates
  BY DEF SelectServer!Fds, Fds, SelectServer!lfd, lfd, SelectServer!PeerStates, PeerStates
<1>2. SelectServer!OpenFds = OpenFds /\ SelectServer!OpenFds' = OpenFds'
  BY <1>1 DEF SelectServer!OpenFds, OpenFds
<1>3. /\ SelectServer!NoFdLeft = NoFdLeft /\ SelectServer!NoFdLeft' = NoFdLeft'
      /\ SelectServer!LowestFd = LowestFd
  BY <1>1, <1>2
    DEF SelectServer!NoFdLeft, NoFdLeft, SelectServer!LowestFd, LowestFd, SelectServer!Min, Min
<1>4. \A fd : /\ SelectServer!Readable(fd) <=> Readable(fd)
              /\ SelectServer!ReadResult(fd) = ReadResult(fd)
              /\ SelectServer!WriteKills(fd) <=> WriteKills(fd)
  BY DEF SelectServer!Readable, Readable, SelectServer!ReadResult, ReadResult,
         SelectServer!WriteKills, WriteKills
<1>5. \A fd : SelectServer!Accept(fd) <=> Accept(fd)
  BY DEF SelectServer!Accept, Accept
<1>6. \A fd : SelectServer!Read(fd) <=> Read(fd)
  BY <1>4 DEF SelectServer!Read, Read
<1>7. \A fd : SelectServer!Close(fd) <=> Close(fd)
  BY DEF SelectServer!Close, Close
<1>8. \A fd, k : SelectServer!Write(fd, k) <=> Write(fd, k)
  BY DEF SelectServer!Write, Write
<1>9. (SelectServer!NetTypeOK <=> NetTypeOK) /\ (SelectServer!NetTypeOK' <=> NetTypeOK')
  BY <1>1 DEF SelectServer!NetTypeOK, NetTypeOK
<1>10. SelectServer!InitNet <=> InitNet
  BY <1>1 DEF SelectServer!InitNet, InitNet
<1>. QED
  BY <1>1, <1>2, <1>3, <1>4, <1>5, <1>6, <1>7, <1>8, <1>9, <1>10

LEMMA PollNet ==
  /\ PollServer!Fds = Fds /\ PollServer!lfd = lfd /\ PollServer!PeerStates = PeerStates
  /\ PollServer!OpenFds = OpenFds /\ PollServer!OpenFds' = OpenFds'
  /\ PollServer!NoFdLeft = NoFdLeft /\ PollServer!NoFdLeft' = NoFdLeft'
  /\ PollServer!LowestFd = LowestFd
  /\ \A fd : /\ PollServer!Readable(fd) <=> Readable(fd)
             /\ PollServer!ReadResult(fd) = ReadResult(fd)
             /\ PollServer!WriteKills(fd) <=> WriteKills(fd)
             /\ PollServer!Accept(fd) <=> Accept(fd)
             /\ PollServer!Read(fd) <=> Read(fd)
             /\ PollServer!Close(fd) <=> Close(fd)
  /\ \A fd, k : PollServer!Write(fd, k) <=> Write(fd, k)
  /\ PollServer!NetTypeOK <=> NetTypeOK
  /\ PollServer!NetTypeOK' <=> NetTypeOK'
  /\ PollServer!InitNet <=> InitNet
<1>1. PollServer!Fds = Fds /\ PollServer!lfd = lfd /\ PollServer!PeerStates = PeerStates
  BY DEF PollServer!Fds, Fds, PollServer!lfd, lfd, PollServer!PeerStates, PeerStates
<1>2. PollServer!OpenFds = OpenFds /\ PollServer!OpenFds' = OpenFds'
  BY <1>1 DEF PollServer!OpenFds, OpenFds
<1>3. /\ PollServer!NoFdLeft = NoFdLeft /\ PollServer!NoFdLeft' = NoFdLeft'
      /\ PollServer!LowestFd = LowestFd
  BY <1>1, <1>2
    DEF PollServer!NoFdLeft, NoFdLeft, PollServer!LowestFd, LowestFd, PollServer!Min, Min
<1>4. \A fd : /\ PollServer!Readable(fd) <=> Readable(fd)
              /\ PollServer!ReadResult(fd) = ReadResult(fd)
              /\ PollServer!WriteKills(fd) <=> WriteKills(fd)
  BY DEF PollServer!Readable, Readable, PollServer!ReadResult, ReadResult,
         PollServer!WriteKills, WriteKills
<1>5. \A fd : PollServer!Accept(fd) <=> Accept(fd)
  BY DEF PollServer!Accept, Accept
<1>6. \A fd : PollServer!Read(fd) <=> Read(fd)
  BY <1>4 DEF PollServer!Read, Read
<1>7. \A fd : PollServer!Close(fd) <=> Close(fd)
  BY DEF PollServer!Close, Close
<1>8. \A fd, k : PollServer!Write(fd, k) <=> Write(fd, k)
  BY DEF PollServer!Write, Write
<1>9. (PollServer!NetTypeOK <=> NetTypeOK) /\ (PollServer!NetTypeOK' <=> NetTypeOK')
  BY <1>1 DEF PollServer!NetTypeOK, NetTypeOK
<1>10. PollServer!InitNet <=> InitNet
  BY <1>1 DEF PollServer!InitNet, InitNet
<1>. QED
  BY <1>1, <1>2, <1>3, <1>4, <1>5, <1>6, <1>7, <1>8, <1>9, <1>10

LEMMA EpollNet ==
  /\ EpollServer!Fds = Fds /\ EpollServer!lfd = lfd /\ EpollServer!PeerStates = PeerStates
  /\ EpollServer!OpenFds = OpenFds /\ EpollServer!OpenFds' = OpenFds'
  /\ EpollServer!NoFdLeft = NoFdLeft /\ EpollServer!NoFdLeft' = NoFdLeft'
  /\ EpollServer!LowestFd = LowestFd
  /\ \A fd : /\ EpollServer!Readable(fd) <=> Readable(fd)
             /\ EpollServer!ReadResult(fd) = ReadResult(fd)
             /\ EpollServer!WriteKills(fd) <=> WriteKills(fd)
             /\ EpollServer!Accept(fd) <=> Accept(fd)
             /\ EpollServer!Read(fd) <=> Read(fd)
             /\ EpollServer!Close(fd) <=> Close(fd)
  /\ \A fd, k : EpollServer!Write(fd, k) <=> Write(fd, k)
  /\ EpollServer!NetTypeOK <=> NetTypeOK
  /\ EpollServer!NetTypeOK' <=> NetTypeOK'
  /\ EpollServer!InitNet <=> InitNet
<1>1. EpollServer!Fds = Fds /\ EpollServer!lfd = lfd /\ EpollServer!PeerStates = PeerStates
  BY DEF EpollServer!Fds, Fds, EpollServer!lfd, lfd, EpollServer!PeerStates, PeerStates
<1>2. EpollServer!OpenFds = OpenFds /\ EpollServer!OpenFds' = OpenFds'
  BY <1>1 DEF EpollServer!OpenFds, OpenFds
<1>3. /\ EpollServer!NoFdLeft = NoFdLeft /\ EpollServer!NoFdLeft' = NoFdLeft'
      /\ EpollServer!LowestFd = LowestFd
  BY <1>1, <1>2
    DEF EpollServer!NoFdLeft, NoFdLeft, EpollServer!LowestFd, LowestFd, EpollServer!Min, Min
<1>4. \A fd : /\ EpollServer!Readable(fd) <=> Readable(fd)
              /\ EpollServer!ReadResult(fd) = ReadResult(fd)
              /\ EpollServer!WriteKills(fd) <=> WriteKills(fd)
  BY DEF EpollServer!Readable, Readable, EpollServer!ReadResult, ReadResult,
         EpollServer!WriteKills, WriteKills
<1>5. \A fd : EpollServer!Accept(fd) <=> Accept(fd)
  BY DEF EpollServer!Accept, Accept
<1>6. \A fd : EpollServer!Read(fd) <=> Read(fd)
  BY <1>4 DEF EpollServer!Read, Read
<1>7. \A fd : EpollServer!Close(fd) <=> Close(fd)
  BY DEF EpollServer!Close, Close
<1>8. \A fd, k : EpollServer!Write(fd, k) <=> Write(fd, k)
  BY DEF EpollServer!Write, Write
<1>9. (EpollServer!NetTypeOK <=> NetTypeOK) /\ (EpollServer!NetTypeOK' <=> NetTypeOK')
  BY <1>1 DEF EpollServer!NetTypeOK, NetTypeOK
<1>10. EpollServer!InitNet <=> InitNet
  BY <1>1 DEF EpollServer!InitNet, InitNet
<1>. QED
  BY <1>1, <1>2, <1>3, <1>4, <1>5, <1>6, <1>7, <1>8, <1>9, <1>10

LEMMA ThreadNet ==
  /\ ThreadServer!Fds = Fds /\ ThreadServer!lfd = lfd /\ ThreadServer!PeerStates = PeerStates
  /\ ThreadServer!OpenFds = OpenFds /\ ThreadServer!OpenFds' = OpenFds'
  /\ ThreadServer!NoFdLeft = NoFdLeft /\ ThreadServer!NoFdLeft' = NoFdLeft'
  /\ ThreadServer!LowestFd = LowestFd
  /\ \A fd : /\ ThreadServer!Readable(fd) <=> Readable(fd)
             /\ ThreadServer!ReadResult(fd) = ReadResult(fd)
             /\ ThreadServer!WriteKills(fd) <=> WriteKills(fd)
             /\ ThreadServer!Accept(fd) <=> Accept(fd)
             /\ ThreadServer!Read(fd) <=> Read(fd)
             /\ ThreadServer!Close(fd) <=> Close(fd)
  /\ \A fd, k : ThreadServer!Write(fd, k) <=> Write(fd, k)
  /\ ThreadServer!NetTypeOK <=> NetTypeOK
  /\ ThreadServer!NetTypeOK' <=> NetTypeOK'
  /\ ThreadServer!InitNet <=> InitNet
<1>1. ThreadServer!Fds = Fds /\ ThreadServer!lfd = lfd /\ ThreadServer!PeerStates = PeerStates
  BY DEF ThreadServer!Fds, Fds, ThreadServer!lfd, lfd, ThreadServer!PeerStates, PeerStates
<1>2. ThreadServer!OpenFds = OpenFds /\ ThreadServer!OpenFds' = OpenFds'
  BY <1>1 DEF ThreadServer!OpenFds, OpenFds
<1>3. /\ ThreadServer!NoFdLeft = NoFdLeft /\ ThreadServer!NoFdLeft' = NoFdLeft'
      /\ ThreadServer!LowestFd = LowestFd
  BY <1>1, <1>2
    DEF ThreadServer!NoFdLeft, NoFdLeft, ThreadServer!LowestFd, LowestFd, ThreadServer!Min, Min
<1>4. \A fd : /\ ThreadServer!Readable(fd) <=> Readable(fd)
              /\ ThreadServer!ReadResult(fd) = ReadResult(fd)
              /\ ThreadServer!WriteKills(fd) <=> WriteKills(fd)
  BY DEF ThreadServer!Readable, Readable, ThreadServer!ReadResult, ReadResult,
         ThreadServer!WriteKills, WriteKills
<1>5. \A fd : ThreadServer!Accept(fd) <=> Accept(fd)
  BY DEF ThreadServer!Accept, Accept
<1>6. \A fd : ThreadServer!Read(fd) <=> Read(fd)
  BY <1>4 DEF ThreadServer!Read, Read
<1>7. \A fd : ThreadServer!Close(fd) <=> Close(fd)
  BY DEF ThreadServer!Close, Close
<1>8. \A fd, k : ThreadServer!Write(fd, k) <=> Write(fd, k)
  BY DEF ThreadServer!Write, Write
<1>9. (ThreadServer!NetTypeOK <=> NetTypeOK) /\ (ThreadServer!NetTypeOK' <=> NetTypeOK')
  BY <1>1 DEF ThreadServer!NetTypeOK, NetTypeOK
<1>10. ThreadServer!InitNet <=> InitNet
  BY <1>1 DEF ThreadServer!InitNet, InitNet
<1>. QED
  BY <1>1, <1>2, <1>3, <1>4, <1>5, <1>6, <1>7, <1>8, <1>9, <1>10

LEMMA EventNet ==
  /\ EventServer!Fds = Fds /\ EventServer!lfd = lfd /\ EventServer!PeerStates = PeerStates
  /\ EventServer!OpenFds = OpenFds /\ EventServer!OpenFds' = OpenFds'
  /\ EventServer!NoFdLeft = NoFdLeft /\ EventServer!NoFdLeft' = NoFdLeft'
  /\ EventServer!LowestFd = LowestFd
  /\ \A fd : /\ EventServer!Readable(fd) <=> Readable(fd)
             /\ EventServer!ReadResult(fd) = ReadResult(fd)
             /\ EventServer!WriteKills(fd) <=> WriteKills(fd)
             /\ EventServer!Accept(fd) <=> Accept(fd)
             /\ EventServer!Read(fd) <=> Read(fd)
             /\ EventServer!Close(fd) <=> Close(fd)
  /\ \A fd, k : EventServer!Write(fd, k) <=> Write(fd, k)
  /\ EventServer!NetTypeOK <=> NetTypeOK
  /\ EventServer!NetTypeOK' <=> NetTypeOK'
  /\ EventServer!InitNet <=> InitNet
<1>1. EventServer!Fds = Fds /\ EventServer!lfd = lfd /\ EventServer!PeerStates = PeerStates
  BY DEF EventServer!Fds, Fds, EventServer!lfd, lfd, EventServer!PeerStates, PeerStates
<1>2. EventServer!OpenFds = OpenFds /\ EventServer!OpenFds' = OpenFds'
  BY <1>1 DEF EventServer!OpenFds, OpenFds
<1>3. /\ EventServer!NoFdLeft = NoFdLeft /\ EventServer!NoFdLeft' = NoFdLeft'
      /\ EventServer!LowestFd = LowestFd
  BY <1>1, <1>2
    DEF EventServer!NoFdLeft, NoFdLeft, EventServer!LowestFd, LowestFd, EventServer!Min, Min
<1>4. \A fd : /\ EventServer!Readable(fd) <=> Readable(fd)
              /\ EventServer!ReadResult(fd) = ReadResult(fd)
              /\ EventServer!WriteKills(fd) <=> WriteKills(fd)
  BY DEF EventServer!Readable, Readable, EventServer!ReadResult, ReadResult,
         EventServer!WriteKills, WriteKills
<1>5. \A fd : EventServer!Accept(fd) <=> Accept(fd)
  BY DEF EventServer!Accept, Accept
<1>6. \A fd : EventServer!Read(fd) <=> Read(fd)
  BY <1>4 DEF EventServer!Read, Read
<1>7. \A fd : EventServer!Close(fd) <=> Close(fd)
  BY DEF EventServer!Close, Close
<1>8. \A fd, k : EventServer!Write(fd, k) <=> Write(fd, k)
  BY DEF EventServer!Write, Write
<1>9. (EventServer!NetTypeOK <=> NetTypeOK) /\ (EventServer!NetTypeOK' <=> NetTypeOK')
  BY <1>1 DEF EventServer!NetTypeOK, NetTypeOK
<1>10. EventServer!InitNet <=> InitNet
  BY <1>1 DEF EventServer!InitNet, InitNet
<1>. QED
  BY <1>1, <1>2, <1>3, <1>4, <1>5, <1>6, <1>7, <1>8, <1>9, <1>10

LEMMA OneNet ==
  /\ OneServer!Fds = Fds /\ OneServer!lfd = lfd /\ OneServer!PeerStates = PeerStates
  /\ OneServer!OpenFds = OpenFds /\ OneServer!OpenFds' = OpenFds'
  /\ OneServer!NoFdLeft = NoFdLeft /\ OneServer!NoFdLeft' = NoFdLeft'
  /\ OneServer!LowestFd = LowestFd
  /\ \A fd : /\ OneServer!Readable(fd) <=> Readable(fd)
             /\ OneServer!ReadResult(fd) = ReadResult(fd)
             /\ OneServer!WriteKills(fd) <=> WriteKills(fd)
             /\ OneServer!Accept(fd) <=> Accept(fd)
             /\ OneServer!Read(fd) <=> Read(fd)
             /\ OneServer!Close(fd) <=> Close(fd)
  /\ \A fd, k : OneServer!Write(fd, k) <=> Write(fd, k)
  /\ OneServer!NetTypeOK <=> NetTypeOK
  /\ OneServer!NetTypeOK' <=> NetTypeOK'
  /\ OneServer!InitNet <=> InitNet
<1>1. OneServer!Fds = Fds /\ OneServer!lfd = lfd /\ OneServer!PeerStates = PeerStates
  BY DEF OneServer!Fds, Fds, OneServer!lfd, lfd, OneServer!PeerStates, PeerStates
<1>2. OneServer!OpenFds = OpenFds /\ OneServer!OpenFds' = OpenFds'
  BY <1>1 DEF OneServer!OpenFds, OpenFds
<1>3. /\ OneServer!NoFdLeft = NoFdLeft /\ OneServer!NoFdLeft' = NoFdLeft'
      /\ OneServer!LowestFd = LowestFd
  BY <1>1, <1>2
    DEF OneServer!NoFdLeft, NoFdLeft, OneServer!LowestFd, LowestFd, OneServer!Min, Min
<1>4. \A fd : /\ OneServer!Readable(fd) <=> Readable(fd)
              /\ OneServer!ReadResult(fd) = ReadResult(fd)
              /\ OneServer!WriteKills(fd) <=> WriteKills(fd)
  BY DEF OneServer!Readable, Readable, OneServer!ReadResult, ReadResult, OneServer!WriteKills,
         WriteKills
<1>5. \A fd : OneServer!Accept(fd) <=> Accept(fd)
  BY DEF OneServer!Accept, Accept
<1>6. \A fd : OneServer!Read(fd) <=> Read(fd)
  BY <1>4 DEF OneServer!Read, Read
<1>7. \A fd : OneServer!Close(fd) <=> Close(fd)
  BY DEF OneServer!Close, Close
<1>8. \A fd, k : OneServer!Write(fd, k) <=> Write(fd, k)
  BY DEF OneServer!Write, Write
<1>9. (OneServer!NetTypeOK <=> NetTypeOK) /\ (OneServer!NetTypeOK' <=> NetTypeOK')
  BY <1>1 DEF OneServer!NetTypeOK, NetTypeOK
<1>10. OneServer!InitNet <=> InitNet
  BY <1>1 DEF OneServer!InitNet, InitNet
<1>. QED
  BY <1>1, <1>2, <1>3, <1>4, <1>5, <1>6, <1>7, <1>8, <1>9, <1>10

-----------------------------------------------------------------------------
(* What each operation on the connections keeps *)

\* A set of numbers that is not empty has a least one: among the sets 0..x there is a
\* smallest.
LEMMA MinIs ==
  ASSUME NEW S, S \subseteq Nat, S # {}
  PROVE  Min(S) \in S /\ \A y \in S : Min(S) <= y
<1>. DEFINE R == StrictSubsetOrdering(Nat)
            T == {0..x : x \in S}
<1>1. IsWellFoundedOn(R, FiniteSubsetsOf(Nat))
  BY FS_StrictSubsetOrderingWellFounded
<1>2. \A x \in S : 0..x \in SUBSET Nat /\ IsFiniteSet(0..x)
  BY FS_Interval
<1>3. T \subseteq FiniteSubsetsOf(Nat) /\ T # {}
  BY <1>2 DEF FiniteSubsetsOf
<1>4. \A x, y \in S : y < x => <<0..y, 0..x>> \in R
  <2>. SUFFICES ASSUME NEW x \in S, NEW y \in S, y < x PROVE <<0..y, 0..x>> \in R
    OBVIOUS
  <2>1. x \in 0..x /\ x \notin 0..y /\ 0..y \subseteq 0..x
    OBVIOUS
  <2>. QED
    BY <2>1, <1>2 DEF StrictSubsetOrdering
<1>. HIDE DEF R
<1>5. PICK s \in T : \A t \in T : ~(<<t, s>> \in R)
  <2>. HIDE DEF T
  <2>. QED BY <1>1, <1>3, WFMin
<1>6. PICK x \in S : s = 0..x
  BY <1>5
<1>7. \A y \in S : x <= y
  <2>. SUFFICES ASSUME NEW y \in S, y < x PROVE FALSE
    OBVIOUS
  <2>1. <<0..y, 0..x>> \in R /\ 0..y \in T
    BY <1>4
  <2>. QED BY <2>1, <1>5, <1>6
<1>. QED
  BY <1>7 DEF Min

LEMMA LowestIsFree ==
  ASSUME ~NoFdLeft
  PROVE  LowestFd \in Fds /\ LowestFd \notin OpenFds
<1>1. Fds \ OpenFds \subseteq Nat /\ Fds \ OpenFds # {}
  BY EchoAssumption DEF NoFdLeft, Fds, OpenFds
<1>. QED
  BY <1>1, MinIs DEF LowestFd

LEMMA OpenFacts ==
  ASSUME NetInv, NEW fd \in OpenFds
  PROVE  /\ fd \in Fds /\ fd \in Nat /\ fd >= 1 /\ fd # lfd /\ fd # -1
         /\ sock[fd] \in Clients /\ Connected(sock[fd])
         /\ peer[sock[fd]] # "none" /\ peer[sock[fd]] \in PeerStates
         /\ unread[sock[fd]] \in 0..MaxSegments /\ sent[sock[fd]] \in 0..MaxSegments
         /\ echoed[sock[fd]] \in 0..MaxSegments
         /\ ReadResult(fd) \in -1..MaxSegments
<1>1. fd \in Fds /\ fd \in Nat /\ fd >= 1 /\ fd # lfd /\ fd # -1
  BY EchoAssumption DEF OpenFds, Fds, lfd
<1>2. sock[fd] \in Clients /\ Connected(sock[fd])
  BY <1>1 DEF NetInv, NetTypeOK, OpenFds, Connected
<1>3. peer[sock[fd]] # "none"
  BY <1>2 DEF NetInv, Unconnected
<1>4. /\ peer[sock[fd]] \in PeerStates
      /\ unread[sock[fd]] \in 0..MaxSegments /\ sent[sock[fd]] \in 0..MaxSegments
      /\ echoed[sock[fd]] \in 0..MaxSegments
  BY <1>2 DEF NetInv, NetTypeOK
<1>5. ReadResult(fd) \in -1..MaxSegments
  BY <1>4, EchoAssumption DEF ReadResult
<1>. QED
  BY <1>1, <1>2, <1>3, <1>4, <1>5

\* A read of an open connection that goes on returns something
LEMMA ReadMeans ==
  ASSUME NetInv, NEW fd \in OpenFds, Readable(fd)
  PROVE  /\ ReadResult(fd) > 0 <=> unread[sock[fd]] > 0
         /\ ReadResult(fd) > 0 => ReadResult(fd) = unread[sock[fd]]
         /\ ReadResult(fd) = -1 => peer[sock[fd]] \in {"reset", "aborted"}
         /\ ReadResult(fd) <= 0 => unread[sock[fd]] = 0
         /\ ReadResult(fd) <= 0 => ReadResult(fd) \in {0, -1}
  BY OpenFacts, EchoAssumption DEF ReadResult

\* Nothing of a connection changes but for what the step says
Same(c) ==
  /\ echoed'[c] = echoed[c] /\ unread'[c] = unread[c]
  /\ sent'[c] = sent[c] /\ peer'[c] = peer[c]

LEMMA SameOwes ==
  ASSUME NEW fd, NEW x, UNCHANGED program, sock'[fd] = sock[fd], Same(sock[fd]), Owes(fd, x)
  PROVE  Owes(fd, x)'
  BY DEF Owes, Same, Fits, RunsEvents

LEMMA SameReadable ==
  ASSUME NEW fd, sock'[fd] = sock[fd], Same(sock[fd])
  PROVE  /\ Readable(fd) <=> Readable(fd)'
         /\ ReadResult(fd)' = ReadResult(fd)
         /\ sock[fd] # None => (CanRead(fd) <=> CanRead(fd)')
  BY DEF Readable, Same, CanRead, OpenFds, ReadResult, Fds

LEMMA AcceptKeeps ==
  ASSUME NetInv, NEW fd \in Fds, fd \notin OpenFds, Accept(fd), UNCHANGED program
  PROVE  /\ NetInv' /\ queue # <<>>
         /\ OpenFds' = OpenFds \cup {fd}
         /\ \A g \in OpenFds : g # fd /\ sock'[g] = sock[g]
         /\ \A c : Same(c)
         /\ Owes(fd, 0)'
<1>. DEFINE c0 == Head(queue)
<1>1. /\ sock \in [Fds -> Clients \cup {None}] /\ queue \in Seq(Clients) /\ queue # <<>>
      /\ sock[fd] = None
  BY DEF NetInv, NetTypeOK, Accept, OpenFds
<1>2. /\ c0 \in Clients /\ c0 = queue[1] /\ Len(queue) \in Nat /\ Len(queue) >= 1
      /\ c0 # None /\ ~Connected(c0)
  BY <1>1, EchoAssumption DEF NetInv, InLine
<1>3. /\ Tail(queue) \in Seq(Clients) /\ Len(Tail(queue)) = Len(queue) - 1
      /\ \A k \in 1..Len(Tail(queue)) : Tail(queue)[k] = queue[k + 1]
  BY <1>1
<1>. DEFINE q == Tail(queue)
<1>4. \A k \in 1..Len(q) : k + 1 \in 1..Len(queue) /\ k + 1 # 1 /\ 1 \in 1..Len(queue)
  BY <1>2, <1>3
<1>5. \A j, k \in 1..Len(q) : j + 1 = k + 1 => j = k
  OBVIOUS
<1>. HIDE DEF q, c0
<1>6. /\ sock' = [sock EXCEPT ![fd] = c0] /\ queue' = q
      /\ peer' = peer /\ unread' = unread /\ sent' = sent /\ echoed' = echoed /\ calls' = calls
  BY DEF Accept, q, c0
<1>7. \A k \in 1..Len(q) : q[k] = queue[k + 1]
  BY <1>3 DEF q
<1>8. q \in Seq(Clients)
  BY <1>3 DEF q
<1>9. OpenFds' = OpenFds \cup {fd}
  BY <1>1, <1>2, <1>6 DEF OpenFds, Fds
<1>10. \A g \in OpenFds : g # fd /\ sock'[g] = sock[g]
  BY <1>1, <1>6 DEF OpenFds
<1>11. \A c : Same(c)
  BY <1>6 DEF Same
<1>12. \A c \in Clients : Connected(c)' <=> Connected(c) \/ c = c0
  BY <1>1, <1>2, <1>6, EchoAssumption DEF Connected, Fds
<1>13. NetTypeOK'
  BY <1>1, <1>2, <1>6, <1>8 DEF NetInv, NetTypeOK, Fds, PeerStates
<1>14. OneSocketEach'
  <2>1. \A g \in OpenFds : sock[g] # c0
    BY <1>2 DEF Connected, OpenFds
  <2>2. sock'[fd] = c0
    BY <1>1, <1>6
  <2>. QED
    BY <1>9, <1>10, <2>1, <2>2 DEF NetInv, OneSocketEach
<1>15. InLine'
  <2>1. \A j, k \in 1..Len(q) : q[j] = q[k] => j = k
    BY <1>4, <1>5, <1>7 DEF NetInv, InLine
  <2>2. \A k \in 1..Len(q) : q[k] \in Clients /\ ~Connected(q[k]) /\ q[k] # c0
    BY <1>2, <1>4, <1>7, <1>8 DEF NetInv, InLine
  <2>3. \A k \in 1..Len(q) : \A g \in Fds : sock'[g] # q[k]
    BY <1>1, <1>6, <2>2 DEF Connected
  <2>. QED
    BY <1>6, <2>1, <2>3 DEF InLine, Connected, Fds
<1>16. Unconnected'
  <2>1. peer[c0] # "none"
    BY <1>2, <1>4 DEF NetInv, Unconnected
  <2>2. \A c \in Clients : peer[c] = "none" =>
          ~Connected(c)' /\ (\A k \in 1..Len(q) : q[k] # c)
          /\ sent[c] = 0 /\ unread[c] = 0 /\ echoed[c] = 0
    BY <1>4, <1>7, <1>12, <2>1 DEF NetInv, Unconnected
  <2>. QED
    BY <1>6, <2>2 DEF Unconnected, Connected, Fds
<1>17. Settled'
  <2>1. \A c \in Clients : ~Connected(c)' => Fits(echoed[c], unread[c], 0, sent[c], peer[c])
    BY <1>12 DEF NetInv, Settled
  <2>. QED
    BY <1>6, <2>1 DEF Settled, Connected, Fds, Fits, RunsEvents
<1>19. AllCovered'
  BY <1>6 DEF NetInv, AllCovered
<1>18. Owes(fd, 0)'
  <2>1. Fits(echoed[c0], unread[c0], 0, sent[c0], peer[c0])
    BY <1>2 DEF NetInv, Settled
  <2>2. sock'[fd] = c0
    BY <1>1, <1>6
  <2>. QED
    BY <1>6, <2>1, <2>2 DEF Owes, Fits, RunsEvents
<1>. QED
  BY <1>1, <1>9, <1>10, <1>11, <1>13, <1>14, <1>15, <1>16, <1>17, <1>18, <1>19 DEF NetInv

\* A step that leaves sockets and queue alone, and every client but one
LEMMA OneClientChanges ==
  ASSUME NetInv, UNCHANGED program, UNCHANGED <<sock, queue>>, NEW c \in Clients,
         \A d \in Clients : d # c => Same(d),
         NetTypeOK',
         peer'[c] # "none", peer[c] # "none",
         Covers(sent'[c], echoed'[c], unread'[c]),
         ~Connected(c) => Fits(echoed[c], unread[c], 0, sent[c], peer[c])'
  PROVE  /\ NetInv'
         /\ OpenFds' = OpenFds
         /\ \A fd \in OpenFds : sock[fd] # c => Same(sock[fd]) /\ sock'[fd] = sock[fd]
<1>1. OpenFds' = OpenFds
  BY DEF OpenFds, Fds
<1>2. \A fd \in OpenFds : sock[fd] \in Clients /\ sock'[fd] = sock[fd]
  BY OpenFacts
<1>3. \A d : Connected(d)' <=> Connected(d)
  BY DEF Connected, Fds
<1>4. OneSocketEach'
  BY <1>1 DEF NetInv, OneSocketEach
<1>5. InLine'
  BY DEF NetInv, InLine, Connected, Fds
<1>6. Unconnected'
  <2>1. \A d \in Clients : peer'[d] = "none" =>
          ~Connected(d) /\ (\A k \in 1..Len(queue) : queue[k] # d)
          /\ sent'[d] = 0 /\ unread'[d] = 0 /\ echoed'[d] = 0
    BY DEF NetInv, Unconnected, Same
  <2>. QED
    BY <1>3, <2>1 DEF Unconnected
<1>7. Settled'
  <2>1. \A d \in Clients : ~Connected(d) =>
          Fits(echoed'[d], unread'[d], 0, sent'[d], peer'[d])
    <3>. SUFFICES ASSUME NEW d \in Clients, ~Connected(d)
                  PROVE  Fits(echoed'[d], unread'[d], 0, sent'[d], peer'[d])
      OBVIOUS
    <3>1. CASE d = c
      BY <3>1 DEF Fits, RunsEvents
    <3>2. CASE d # c
      BY <3>2 DEF Same, NetInv, Settled
    <3>. QED BY <3>1, <3>2
  <2>. QED
    BY <1>3, <2>1 DEF Settled, Fits, RunsEvents
<1>8. AllCovered'
  BY DEF NetInv, AllCovered, Same
<1>. QED
  BY <1>1, <1>2, <1>4, <1>5, <1>6, <1>7, <1>8 DEF NetInv

\* Where y is what the server holds after the read, x before
LEMMA ReadKeeps ==
  ASSUME NetInv, NEW fd \in OpenFds, Read(fd), UNCHANGED program
  PROVE  /\ NetInv' /\ queue' = queue
         /\ OpenFds' = OpenFds
         /\ \A g \in OpenFds : sock'[g] = sock[g]
         /\ \A g \in OpenFds \ {fd} : Same(sock[g])
         /\ \A x, y \in Nat :
              Owes(fd, x) /\ x <= y /\ y <= x + unread[sock[fd]]
                /\ (RunsEvents \/ y = x + unread[sock[fd]]) => Owes(fd, y)'
<1>. DEFINE c == sock[fd]
            p == IF ReadResult(fd) = -1 THEN "broken" ELSE peer[c]
<1>1. /\ c \in Clients /\ Connected(c) /\ peer[c] # "none" /\ peer[c] \in PeerStates
      /\ unread[c] \in 0..MaxSegments /\ sent[c] \in 0..MaxSegments
      /\ echoed[c] \in 0..MaxSegments
  BY OpenFacts
<1>2. ReadResult(fd) = -1 => peer[c] \in {"reset", "aborted"}
  BY ReadMeans DEF Read
<1>3. unread[c] \in Nat /\ echoed[c] \in Nat /\ sent[c] \in Nat
  BY <1>1, EchoAssumption
<1>4. 0 \in 0..MaxSegments
  BY EchoAssumption
<1>5. /\ unread \in [Clients -> 0..MaxSegments] /\ peer \in [Clients -> PeerStates]
  BY DEF NetInv, NetTypeOK
<1>6. /\ unread' = [unread EXCEPT ![c] = 0] /\ peer' = [peer EXCEPT ![c] = p]
      /\ UNCHANGED <<sock, queue, sent, echoed, calls>>
  BY DEF Read
<1>7. p \in PeerStates /\ p # "none" /\ (p = peer[c] \/ p = "broken")
  BY <1>1 DEF PeerStates
<1>. HIDE DEF p, c
<1>8. /\ unread'[c] = 0 /\ peer'[c] = p /\ sent'[c] = sent[c] /\ echoed'[c] = echoed[c]
  BY <1>1, <1>5, <1>6
<1>9. \A d \in Clients : d # c => Same(d)
  BY <1>1, <1>5, <1>6 DEF Same
<1>10. NetTypeOK'
  BY <1>1, <1>4, <1>5, <1>6, <1>7 DEF NetInv, NetTypeOK, Fds, PeerStates
<1>11. NetInv' /\ OpenFds' = OpenFds
         /\ \A g \in OpenFds : sock[g] # c => Same(sock[g]) /\ sock'[g] = sock[g]
  <2>1. peer'[c] # "none"
    BY <1>7, <1>8
  <2>2. Covers(sent[c], echoed[c], 0)
    BY <1>1, <1>3 DEF NetInv, AllCovered, Covers
  <2>3. Covers(sent'[c], echoed'[c], unread'[c])
    BY <2>2, <1>8
  <2>. QED
    BY <1>1, <1>6, <1>9, <1>10, <2>1, <2>3, OneClientChanges
<1>12. \A g \in OpenFds \ {fd} : sock[g] # c
  BY DEF NetInv, OneSocketEach, c
<1>13. \A g \in OpenFds : sock'[g] = sock[g]
  BY <1>6
<1>14. ASSUME NEW x \in Nat, NEW y \in Nat,
              Owes(fd, x), x <= y, y <= x + unread[c], RunsEvents \/ y = x + unread[c]
       PROVE  Owes(fd, y)'
  <2>1. Fits(echoed[c], unread[c], x, sent[c], peer[c])
    BY <1>14 DEF Owes, c
  <2>2. Fits(echoed[c], 0, y, sent[c], p)
    BY <1>3, <1>7, <1>14, <2>1 DEF Fits
  <2>3. sock'[fd] = c
    BY <1>13 DEF c
  <2>4. Fits(echoed[c], 0, y, sent[c], p) <=> Fits(echoed'[c], unread'[c], y, sent'[c], peer'[c])
    BY <1>8
  <2>. QED
    BY <2>2, <2>3, <2>4 DEF Owes, Fits, RunsEvents
<1>. QED
  BY <1>6, <1>11, <1>12, <1>13, <1>14 DEF c

LEMMA WriteKeeps ==
  ASSUME NetInv, NEW fd \in OpenFds, NEW x \in Nat, Owes(fd, x), Write(fd, x),
         UNCHANGED program
  PROVE  /\ NetInv' /\ queue' = queue
         /\ OpenFds' = OpenFds
         /\ \A g \in OpenFds : sock'[g] = sock[g]
         /\ \A g \in OpenFds \ {fd} : Same(sock[g])
         /\ Readable(fd) => Readable(fd)'
         /\ Owes(fd, 0)'
<1>. DEFINE c == sock[fd]
            p == CASE peer[c] = "gone" -> "hit" [] peer[c] = "aborted" -> "broken"
                   [] OTHER -> peer[c]
            e == IF peer[c] \in {"open", "half"} THEN echoed[c] + x ELSE echoed[c]
<1>1. /\ c \in Clients /\ Connected(c) /\ peer[c] # "none" /\ peer[c] \in PeerStates
      /\ unread[c] \in 0..MaxSegments /\ sent[c] \in 0..MaxSegments
      /\ echoed[c] \in 0..MaxSegments
  BY OpenFacts
<1>2. Fits(echoed[c], unread[c], x, sent[c], peer[c])
  BY DEF Owes
<1>3. unread[c] \in Nat /\ echoed[c] \in Nat /\ sent[c] \in Nat
  BY <1>1, EchoAssumption
<1>5. /\ echoed \in [Clients -> 0..MaxSegments] /\ peer \in [Clients -> PeerStates]
  BY DEF NetInv, NetTypeOK
<1>6. /\ echoed' = [echoed EXCEPT ![c] = e] /\ peer' = [peer EXCEPT ![c] = p]
      /\ UNCHANGED <<sock, queue, unread, sent, calls>>
  BY <1>1, <1>5 DEF Write
<1>7. /\ p \in PeerStates /\ p # "none" /\ (p \in {"open", "half"} => p = peer[c])
      /\ (p = "open" <=> peer[c] = "open")
  BY <1>1 DEF PeerStates
<1>4. e \in 0..MaxSegments /\ Fits(e, unread[c], 0, sent[c], p)
  BY <1>1, <1>2, <1>3, <1>7, EchoAssumption DEF Fits
<1>. HIDE DEF p, c, e
<1>8. /\ unread'[c] = unread[c] /\ peer'[c] = p /\ sent'[c] = sent[c] /\ echoed'[c] = e
  BY <1>1, <1>5, <1>6
<1>9. \A d \in Clients : d # c => Same(d)
  BY <1>1, <1>5, <1>6 DEF Same
<1>10. NetTypeOK'
  BY <1>1, <1>4, <1>5, <1>6, <1>7 DEF NetInv, NetTypeOK, Fds, PeerStates
<1>11. NetInv' /\ OpenFds' = OpenFds
         /\ \A g \in OpenFds : sock[g] # c => Same(sock[g]) /\ sock'[g] = sock[g]
  <2>1. peer'[c] # "none"
    BY <1>7, <1>8
  <2>2. Covers(sent[c], e, unread[c])
    BY <1>3, <1>4, EchoAssumption DEF Fits, Covers
  <2>3. Covers(sent'[c], echoed'[c], unread'[c])
    BY <2>2, <1>8
  <2>. QED
    BY <1>1, <1>6, <1>9, <1>10, <2>1, <2>3, OneClientChanges
<1>12. \A g \in OpenFds \ {fd} : sock[g] # c
  BY DEF NetInv, OneSocketEach, c
<1>13. \A g \in OpenFds : sock'[g] = sock[g]
  BY <1>6
<1>14. sock'[fd] = c /\ sock[fd] = c
  BY <1>13 DEF c
<1>15. Owes(fd, 0)'
  <2>1. Fits(e, unread[c], 0, sent[c], p) <=> Fits(echoed'[c], unread'[c], 0, sent'[c], peer'[c])
    BY <1>8
  <2>. QED
    BY <1>4, <1>14, <2>1 DEF Owes, Fits, RunsEvents
<1>16. Readable(fd) => Readable(fd)'
  BY <1>7, <1>8, <1>14 DEF Readable
<1>. QED
  BY <1>6, <1>11, <1>12, <1>13, <1>15, <1>16

LEMMA CloseKeeps ==
  ASSUME NetInv, NEW fd \in OpenFds, Close(fd), UNCHANGED program
  PROVE  /\ NetInv' /\ queue' = queue
         /\ OpenFds' = OpenFds \ {fd}
         /\ \A g \in OpenFds \ {fd} : sock'[g] = sock[g] /\ Same(sock[g])
         /\ \A d \in Clients : d # sock[fd] => peer'[d] = peer[d]
<1>. DEFINE c == sock[fd]
<1>1. c \in Clients /\ Connected(c) /\ fd \in Fds
  BY OpenFacts
<1>2. \A g \in Fds : sock[g] = c => g = fd
  BY <1>1, EchoAssumption DEF NetInv, OneSocketEach, OpenFds
<1>3. /\ sock \in [Fds -> Clients \cup {None}]
      /\ peer \in [Clients -> PeerStates]
      /\ unread \in [Clients -> 0..MaxSegments] /\ sent \in [Clients -> 0..MaxSegments]
      /\ echoed \in [Clients -> 0..MaxSegments] /\ 0 \in 0..MaxSegments
  BY EchoAssumption DEF NetInv, NetTypeOK
<1>. HIDE DEF c
<1>4. /\ sock' = [sock EXCEPT ![fd] = None] /\ peer' = [peer EXCEPT ![c] = "none"]
      /\ unread' = [unread EXCEPT ![c] = 0] /\ sent' = [sent EXCEPT ![c] = 0]
      /\ echoed' = [echoed EXCEPT ![c] = 0] /\ UNCHANGED <<queue, calls>>
  BY DEF Close, c
<1>5. OpenFds' = OpenFds \ {fd}
  BY <1>1, <1>3, <1>4 DEF OpenFds, Fds
<1>6. \A g \in Fds : g # fd => sock'[g] = sock[g]
  BY <1>3, <1>4
<1>7. sock'[fd] = None
  BY <1>1, <1>3, <1>4
<1>8. \A d \in Clients : d # c => Same(d)
  BY <1>1, <1>3, <1>4 DEF Same
<1>9. peer'[c] = "none" /\ unread'[c] = 0 /\ sent'[c] = 0 /\ echoed'[c] = 0
  BY <1>1, <1>3, <1>4
<1>10. \A g \in OpenFds \ {fd} : sock'[g] = sock[g] /\ sock[g] # c /\ sock[g] \in Clients
  BY <1>2, <1>6, OpenFacts DEF OpenFds
<1>11. \A d \in Clients : Connected(d)' <=> Connected(d) /\ d # c
  <2>. SUFFICES ASSUME NEW d \in Clients
                PROVE  (\E g \in Fds : sock'[g] = d) <=> Connected(d) /\ d # c
    BY DEF Connected, Fds
  <2>1. d # None
    BY EchoAssumption
  <2>2. (\E g \in Fds : sock'[g] = d) => Connected(d) /\ d # c
    BY <1>2, <1>6, <1>7, <2>1 DEF Connected
  <2>3. Connected(d) /\ d # c => (\E g \in Fds : sock'[g] = d)
    BY <1>6 DEF Connected, c
  <2>. QED BY <2>2, <2>3
<1>12. NetTypeOK'
  BY <1>1, <1>3, <1>4 DEF NetInv, NetTypeOK, Fds, PeerStates
<1>13. OneSocketEach'
  BY <1>5, <1>10 DEF NetInv, OneSocketEach
<1>14. \A k \in 1..Len(queue) : queue[k] \in Clients /\ queue[k] # c /\ ~Connected(queue[k])
  <2>1. queue \in Seq(Clients) /\ InLine
    BY DEF NetInv, NetTypeOK
  <2>2. \A k \in 1..Len(queue) : queue[k] \in Clients
    BY <2>1
  <2>3. \A k \in 1..Len(queue) : ~Connected(queue[k])
    BY <2>1 DEF InLine
  <2>. QED
    BY <1>1, <2>2, <2>3
<1>15. InLine'
  <2>1. \A k \in 1..Len(queue) : \A g \in Fds : sock'[g] # queue[k]
    BY <1>6, <1>7, <1>14, EchoAssumption DEF Connected
  <2>. QED
    BY <1>4, <2>1 DEF NetInv, InLine, Connected, Fds
<1>16. Unconnected'
  <2>1. \A d \in Clients : peer'[d] = "none" =>
          ~Connected(d)' /\ (\A k \in 1..Len(queue) : queue[k] # d)
          /\ sent'[d] = 0 /\ unread'[d] = 0 /\ echoed'[d] = 0
    <3>. SUFFICES ASSUME NEW d \in Clients, peer'[d] = "none"
                  PROVE  ~Connected(d)' /\ (\A k \in 1..Len(queue) : queue[k] # d)
                         /\ sent'[d] = 0 /\ unread'[d] = 0 /\ echoed'[d] = 0
      OBVIOUS
    <3>1. CASE d = c
      BY <3>1, <1>9, <1>11, <1>14
    <3>2. CASE d # c
      BY <3>2, <1>8, <1>11 DEF Same, NetInv, Unconnected
    <3>. QED BY <3>1, <3>2
  <2>. QED
    BY <1>4, <2>1 DEF Unconnected
<1>17. Settled'
  <2>1. \A d \in Clients : ~Connected(d)' =>
          Fits(echoed'[d], unread'[d], 0, sent'[d], peer'[d])
    <3>. SUFFICES ASSUME NEW d \in Clients, ~Connected(d)'
                  PROVE  Fits(echoed'[d], unread'[d], 0, sent'[d], peer'[d])
      OBVIOUS
    <3>1. CASE d = c
      <4>1. Fits(0, 0, 0, 0, "none")
        BY DEF Fits
      <4>. QED BY <3>1, <4>1, <1>9
    <3>2. CASE d # c
      BY <3>2, <1>8, <1>11 DEF Same, NetInv, Settled
    <3>. QED BY <3>1, <3>2
  <2>. QED
    BY <2>1 DEF Settled, Fits, RunsEvents
<1>18. AllCovered'
  <2>1. Covers(0, 0, 0)
    BY DEF Covers
  <2>2. \A d \in Clients : Covers(sent'[d], echoed'[d], unread'[d])
    BY <2>1, <1>8, <1>9 DEF NetInv, AllCovered, Same
  <2>. QED
    BY <2>2 DEF AllCovered
<1>. QED
  BY <1>4, <1>5, <1>8, <1>10, <1>12, <1>13, <1>15, <1>16, <1>17, <1>18 DEF NetInv, Same, c

\* A step of the clients or of the network
NetKeeps ==
  /\ NetInv' /\ OpenFds' = OpenFds
  /\ \A fd \in OpenFds : sock'[fd] = sock[fd]
  /\ queue # <<>> => queue' # <<>>
  /\ \A fd \in OpenFds : Readable(fd) => Readable(fd)'
  /\ \A fd \in OpenFds, x \in Nat : Owes(fd, x) => Owes(fd, x)'
  /\ \A c \in Clients : peer[c] \in {"reset", "broken", "aborted"} => peer'[c] = peer[c]
  /\ \A c \in Clients : peer'[c] = "none" => peer[c] = "none"

LEMMA ConnectKeeps ==
  ASSUME NetInv, NEW c \in Clients, Connect(c), UNCHANGED program
  PROVE  NetKeeps
<1>1. /\ sock \in [Fds -> Clients \cup {None}] /\ queue \in Seq(Clients)
      /\ peer \in [Clients -> PeerStates] /\ calls \in [Clients -> 0..MaxCalls]
      /\ calls[c] + 1 \in 0..MaxCalls
  BY EchoAssumption DEF NetInv, NetTypeOK, Connect
<1>2. /\ peer[c] = "none" /\ ~Connected(c) /\ \A k \in 1..Len(queue) : queue[k] # c
      /\ sent[c] = 0 /\ unread[c] = 0 /\ echoed[c] = 0
  BY DEF NetInv, Unconnected, Connect
<1>. DEFINE q == Append(queue, c)
<1>3. /\ q \in Seq(Clients) /\ q # <<>> /\ Len(q) = Len(queue) + 1 /\ Len(queue) \in Nat
      /\ \A k \in 1..Len(queue) : q[k] = queue[k]
      /\ q[Len(queue) + 1] = c
  BY <1>1, AppendProperties
<1>. HIDE DEF q
<1>4. /\ queue' = q /\ peer' = [peer EXCEPT ![c] = "open"]
      /\ calls' = [calls EXCEPT ![c] = @ + 1]
      /\ UNCHANGED <<sock, unread, sent, echoed>>
  BY DEF Connect, q
<1>5. OpenFds' = OpenFds
  BY <1>4 DEF OpenFds, Fds
<1>6. \A d : Connected(d)' <=> Connected(d)
  BY <1>4 DEF Connected, Fds
<1>7. \A d \in Clients : d # c => Same(d)
  BY <1>1, <1>4 DEF Same
<1>8. peer'[c] = "open"
  BY <1>1, <1>4
<1>9. NetTypeOK'
  BY <1>1, <1>3, <1>4 DEF NetInv, NetTypeOK, Fds, PeerStates
<1>10. OneSocketEach'
  BY <1>4, <1>5 DEF NetInv, OneSocketEach
<1>11. \A k \in 1..Len(q) : q[k] = c \/ (k \in 1..Len(queue) /\ q[k] = queue[k])
  BY <1>3
<1>12. InLine'
  <2>1. \A j, k \in 1..Len(q) : q[j] = q[k] => j = k
    <3>. SUFFICES ASSUME NEW j \in 1..Len(q), NEW k \in 1..Len(q), q[j] = q[k] PROVE j = k
      OBVIOUS
    <3>1. CASE q[j] = c
      <4>1. j \notin 1..Len(queue) /\ k \notin 1..Len(queue)
        BY <3>1, <1>2, <1>3
      <4>. QED BY <4>1, <1>3
    <3>2. CASE q[j] # c
      BY <3>2, <1>11 DEF NetInv, InLine
    <3>. QED BY <3>1, <3>2
  <2>2. \A k \in 1..Len(q) : ~Connected(q[k])
    BY <1>2, <1>11 DEF NetInv, InLine
  <2>. QED
    BY <1>4, <2>1, <2>2 DEF InLine, Connected, Fds
<1>13. Unconnected'
  <2>1. \A d \in Clients : peer'[d] = "none" =>
          ~Connected(d) /\ (\A k \in 1..Len(q) : q[k] # d)
          /\ sent[d] = 0 /\ unread[d] = 0 /\ echoed[d] = 0
    BY <1>7, <1>8, <1>11 DEF NetInv, Unconnected, Same
  <2>. QED
    BY <1>4, <1>6, <2>1 DEF Unconnected
<1>14. Settled'
  <2>1. \A d \in Clients : ~Connected(d) =>
          Fits(echoed[d], unread[d], 0, sent[d], peer'[d])
    <3>. SUFFICES ASSUME NEW d \in Clients, ~Connected(d)
                  PROVE  Fits(echoed[d], unread[d], 0, sent[d], peer'[d])
      OBVIOUS
    <3>1. CASE d = c
      <4>1. Fits(0, 0, 0, 0, "open")
        BY DEF Fits
      <4>. QED BY <3>1, <4>1, <1>2, <1>8
    <3>2. CASE d # c
      BY <3>2, <1>7 DEF Same, NetInv, Settled
    <3>. QED BY <3>1, <3>2
  <2>. QED
    BY <1>4, <1>6, <2>1 DEF Settled, Fits, RunsEvents
<1>15. \A fd \in OpenFds :
          /\ sock[fd] # c /\ sock[fd] \in Clients
          /\ sock'[fd] = sock[fd] /\ Same(sock[fd])
  BY <1>2, <1>4, <1>7, OpenFacts
<1>16. \A fd \in OpenFds : Readable(fd) => Readable(fd)'
  BY <1>15, SameReadable
<1>17. \A fd \in OpenFds, x \in Nat : Owes(fd, x) => Owes(fd, x)'
  BY <1>15, SameOwes
<1>18. /\ \A d \in Clients : peer[d] \in {"reset", "broken", "aborted"} => peer'[d] = peer[d]
       /\ \A d \in Clients : peer'[d] = "none" => peer[d] = "none"
  BY <1>2, <1>7 DEF Same
<1>19. AllCovered'
  BY <1>4 DEF NetInv, AllCovered
<1>. QED
  BY <1>3, <1>4, <1>5, <1>9, <1>10, <1>12, <1>13, <1>14, <1>15, <1>16, <1>17, <1>18, <1>19
  DEF NetKeeps, NetInv

\* A connected client, or one in the queue, sends or goes on to end its connection
LEMMA ClientMoves ==
  ASSUME NetInv, NEW c \in Clients, peer[c] # "none", UNCHANGED program,
         UNCHANGED <<sock, queue>>,
         \A d \in Clients : d # c => Same(d),
         NetTypeOK', peer'[c] # "none", Covers(sent'[c], echoed'[c], unread'[c]),
         \A x \in Nat : Fits(echoed[c], unread[c], x, sent[c], peer[c])
            => Fits(echoed'[c], unread'[c], x, sent'[c], peer'[c]),
         unread[c] > 0 => unread'[c] > 0,
         peer[c] # "open" => peer'[c] # "open",
         peer[c] \in {"reset", "broken", "aborted"} => peer'[c] = peer[c]
  PROVE  NetKeeps
<1>1. ~Connected(c) => Fits(echoed[c], unread[c], 0, sent[c], peer[c])'
  BY DEF NetInv, Settled, Fits, RunsEvents
<1>2. /\ NetInv' /\ OpenFds' = OpenFds
      /\ \A fd \in OpenFds : sock[fd] # c => Same(sock[fd]) /\ sock'[fd] = sock[fd]
  BY <1>1, OneClientChanges
<1>3. \A fd \in OpenFds : sock'[fd] = sock[fd]
  OBVIOUS
<1>4. \A fd \in OpenFds : Readable(fd) => Readable(fd)'
  <2>. SUFFICES ASSUME NEW fd \in OpenFds, Readable(fd) PROVE Readable(fd)'
    OBVIOUS
  <2>1. CASE sock[fd] = c
    BY <2>1, <1>3 DEF Readable
  <2>2. CASE sock[fd] # c
    BY <2>2, <1>2, SameReadable
  <2>. QED BY <2>1, <2>2
<1>5. \A fd \in OpenFds, x \in Nat : Owes(fd, x) => Owes(fd, x)'
  <2>. SUFFICES ASSUME NEW fd \in OpenFds, NEW x \in Nat, Owes(fd, x) PROVE Owes(fd, x)'
    OBVIOUS
  <2>1. CASE sock[fd] = c
    <3>1. Fits(echoed'[c], unread'[c], x, sent'[c], peer'[c])
      BY <2>1 DEF Owes
    <3>2. sock'[fd] = c
      BY <2>1, <1>3
    <3>. QED
      BY <3>1, <3>2 DEF Owes, Fits, RunsEvents
  <2>2. CASE sock[fd] # c
    BY <2>2, <1>2, SameOwes
  <2>. QED BY <2>1, <2>2
<1>6. /\ \A d \in Clients : peer[d] \in {"reset", "broken", "aborted"} => peer'[d] = peer[d]
      /\ \A d \in Clients : peer'[d] = "none" => peer[d] = "none"
  BY DEF Same
<1>. QED
  BY <1>2, <1>3, <1>4, <1>5, <1>6 DEF NetKeeps

LEMMA SendKeeps ==
  ASSUME NetInv, NEW c \in Clients, Send(c), UNCHANGED program
  PROVE  NetKeeps
<1>1. /\ sent \in [Clients -> 0..MaxSegments] /\ unread \in [Clients -> 0..MaxSegments]
      /\ MaySend[c] \in 0..MaxSegments /\ peer[c] = "open" /\ echoed[c] \in 0..MaxSegments
  BY EchoAssumption DEF NetInv, NetTypeOK, Send
<1>2. sent[c] \in Nat /\ unread[c] \in Nat /\ echoed[c] \in Nat
  BY <1>1, EchoAssumption
<1>3. /\ sent[c] + 1 \in 0..MaxSegments /\ unread[c] + 1 \in 0..MaxSegments
      /\ Covers(sent[c] + 1, echoed[c], unread[c] + 1)
  BY <1>1, <1>2, EchoAssumption DEF Send, NetInv, AllCovered, Covers
<1>4. /\ sent' = [sent EXCEPT ![c] = sent[c] + 1]
      /\ unread' = [unread EXCEPT ![c] = unread[c] + 1]
      /\ UNCHANGED <<sock, queue, peer, echoed, calls>>
  BY DEF Send
<1>5. /\ sent'[c] = sent[c] + 1 /\ unread'[c] = unread[c] + 1
      /\ peer'[c] = peer[c] /\ echoed'[c] = echoed[c]
  BY <1>1, <1>4
<1>6. \A d \in Clients : d # c => Same(d)
  BY <1>1, <1>4 DEF Same
<1>7. \A x \in Nat : Fits(echoed[c], unread[c], x, sent[c], peer[c])
            => Fits(echoed[c], unread[c] + 1, x, sent[c] + 1, peer[c])
  BY <1>2 DEF Fits
<1>8. NetTypeOK'
  BY <1>1, <1>3, <1>4 DEF NetInv, NetTypeOK, Fds, PeerStates
<1>9. unread[c] > 0 => unread[c] + 1 > 0
  BY <1>2
<1>10. UNCHANGED <<sock, queue>> /\ peer[c] # "none"
  BY <1>1, <1>4
<1>11. \A x \in Nat : Fits(echoed[c], unread[c], x, sent[c], peer[c])
            => Fits(echoed'[c], unread'[c], x, sent'[c], peer'[c])
  BY <1>5, <1>7
<1>12. Covers(sent'[c], echoed'[c], unread'[c]) /\ (unread[c] > 0 => unread'[c] > 0)
  BY <1>3, <1>5, <1>9
<1>. QED
  BY <1>5, <1>6, <1>8, <1>10, <1>11, <1>12, ClientMoves

LEMMA EndsConnectionKeeps ==
  ASSUME NetInv, NEW c \in Clients, EndsConnection(c), UNCHANGED program
  PROVE  NetKeeps
<1>1. /\ peer \in [Clients -> PeerStates]
      /\ UNCHANGED <<sock, queue, unread, sent, echoed, calls>>
  BY DEF NetInv, NetTypeOK, EndsConnection
<1>2. PICK p \in {"half", "gone", "reset", "aborted"} :
        /\ peer' = [peer EXCEPT ![c] = p]
        /\ peer[c] \in {"open", "half", "hit"}
        /\ p = "half" => peer[c] = "open"
  BY DEF EndsConnection
<1>3. peer'[c] = p
  BY <1>1, <1>2
<1>4. \A d \in Clients : d # c => Same(d)
  BY <1>1, <1>2 DEF Same
<1>5. NetTypeOK'
  BY <1>1, <1>2 DEF NetInv, NetTypeOK, Fds, PeerStates
<1>6. \A x \in Nat : Fits(echoed[c], unread[c], x, sent[c], peer[c])
            => Fits(echoed[c], unread[c], x, sent[c], p)
  BY <1>2 DEF Fits
<1>7. \A x \in Nat : Fits(echoed[c], unread[c], x, sent[c], peer[c])
            => Fits(echoed'[c], unread'[c], x, sent'[c], peer'[c])
  BY <1>1, <1>3, <1>6
<1>8. Covers(sent'[c], echoed'[c], unread'[c]) /\ (unread[c] > 0 => unread'[c] > 0)
  BY <1>1 DEF NetInv, AllCovered
<1>9. /\ peer[c] # "none" /\ peer'[c] # "none"
      /\ peer[c] # "open" => peer'[c] # "open"
      /\ peer[c] \in {"reset", "broken", "aborted"} => peer'[c] = peer[c]
  BY <1>2, <1>3
<1>. QED
  BY <1>1, <1>4, <1>5, <1>7, <1>8, <1>9, ClientMoves

LEMMA NetStepKeeps ==
  ASSUME NetInv, NetStep, UNCHANGED program
  PROVE  NetKeeps
BY ConnectKeeps, SendKeeps, EndsConnectionKeeps DEF NetStep

LEMMA OthersKeep ==
  ASSUME UNCHANGED program, NEW g \in OpenFds, sock'[g] = sock[g], Same(sock[g])
  PROVE  /\ CanRead(g) => CanRead(g)'
         /\ \A x : Owes(g, x) => Owes(g, x)'
  BY SameReadable, SameOwes DEF OpenFds

\* No connection is ended
NobodyDropped == \A c \in Clients : peer'[c] = "none" => peer[c] = "none"

LEMMA ReadDropsNobody ==
  ASSUME NetInv, NEW fd, Read(fd)
  PROVE  NobodyDropped
  BY DEF NobodyDropped, Read, NetInv, NetTypeOK

LEMMA WriteDropsNobody ==
  ASSUME NetInv, NEW fd, NEW x, Write(fd, x)
  PROVE  NobodyDropped
  BY DEF NobodyDropped, Write, NetInv, NetTypeOK

\* A connection that is half closed is ended only when all that came was echoed
NothingCut ==
  \A c \in Clients : peer[c] = "half" /\ peer'[c] = "none" => RunsEvents \/ echoed[c] = sent[c]

LEMMA CloseCutsNothing ==
  ASSUME NetInv, NEW fd \in OpenFds, Close(fd), Readable(fd), ReadResult(fd) <= 0, Owes(fd, 0)
  PROVE  NothingCut
<1>1. /\ sock[fd] \in Clients /\ unread[sock[fd]] = 0
      /\ sent[sock[fd]] \in Nat /\ echoed[sock[fd]] \in Nat
  BY OpenFacts, ReadMeans, EchoAssumption
<1>2. peer[sock[fd]] = "half" => RunsEvents \/ echoed[sock[fd]] = sent[sock[fd]]
  BY <1>1 DEF Owes, Fits
<1>3. \A c \in Clients : c # sock[fd] => peer'[c] = peer[c]
  BY DEF Close, NetInv, NetTypeOK
<1>. QED
  BY <1>2, <1>3 DEF NothingCut

\* Nothing happens at all
LEMMA StutterKeeps ==
  ASSUME NetInv, UNCHANGED net, UNCHANGED program
  PROVE  NetKeeps
<1>. UNCHANGED <<sock, queue, peer, unread, sent, echoed, calls>>
  BY DEF net
<1>1. OpenFds' = OpenFds
  BY DEF OpenFds, Fds
<1>2. NetInv'
  BY <1>1 DEF NetInv, NetTypeOK, OneSocketEach, InLine, Unconnected, Settled, AllCovered,
     Connected, Fits, RunsEvents, Fds, PeerStates
<1>3. \A fd : Readable(fd) => Readable(fd)'
  BY DEF Readable
<1>4. \A fd, x : Owes(fd, x) => Owes(fd, x)'
  BY DEF Owes, Fits, RunsEvents
<1>. QED
  BY <1>1, <1>2, <1>3, <1>4 DEF NetKeeps

LEMMA InitNetInv ==
  ASSUME InitNet
  PROVE  NetInv /\ OpenFds = {}
<1>1. OpenFds = {}
  BY DEF InitNet, OpenFds
<1>2. NetTypeOK
  BY EchoAssumption DEF InitNet, NetTypeOK, PeerStates
<1>3. \A c \in Clients : ~Connected(c)
  BY EchoAssumption DEF InitNet, Connected
<1>4. Fits(0, 0, 0, 0, "none") /\ Covers(0, 0, 0)
  BY DEF Fits, Covers
<1>5. OneSocketEach /\ InLine
  BY <1>1 DEF InitNet, OneSocketEach, InLine
<1>6. Unconnected
  BY <1>3 DEF InitNet, Unconnected
<1>7. Settled /\ AllCovered
  BY <1>4 DEF InitNet, Settled, AllCovered
<1>. QED
  BY <1>1, <1>2, <1>5, <1>6, <1>7 DEF NetInv

-----------------------------------------------------------------------------
(* server.c *)

LEMMA OneInit ==
  ASSUME OneServer!Init, RunsOne
  PROVE  NetInv /\ OneInv
<1>1. NetInv /\ OpenFds = {}
  BY InitNetInv, OneNet DEF OneServer!Init
<1>2. OneServer!TypeOK
  BY <1>1, OneNet, EchoAssumption DEF OneServer!Init, OneServer!TypeOK, NetInv
<1>3. OneServer!WatchesAll /\ OneServer!EndsForAReason /\ (server = "accept" <=> connfd = lfd)
  BY <1>1, OneNet DEF OneServer!Init, OneServer!WatchesAll, OneServer!EndsForAReason
<1>4. OneOwes
  BY <1>1 DEF OneOwes
<1>. QED
  BY <1>1, <1>2, <1>3, <1>4 DEF OneInv

\* The clients and the network, or nobody, did something
LEMMA OneOthers ==
  ASSUME NetInv, OneInv, NetKeeps, UNCHANGED <<program, main>>
  PROVE  OneInv'
<1>. UNCHANGED <<program, server, n, connfd>>
  BY DEF main, threadVars
<1>1. NetInv' /\ OpenFds' = OpenFds
  BY DEF NetKeeps
<1>2. OneServer!TypeOK'
  BY <1>1, OneNet DEF OneInv, OneServer!TypeOK, NetInv, Fds, lfd
<1>3. OneServer!WatchesAll' /\ (server = "accept" <=> connfd = lfd)'
  BY <1>1, OneNet DEF OneInv, OneServer!WatchesAll, OneServer!lfd, lfd
<1>4. OneServer!EndsForAReason'
  BY DEF OneInv, OneServer!EndsForAReason, NetKeeps
<1>5. OneOwes'
  <2>1. n \in Nat
    BY EchoAssumption DEF OneInv, OneServer!TypeOK
  <2>2. \A fd \in OpenFds : Owes(fd, 0) => Owes(fd, 0)'
    BY DEF NetKeeps
  <2>3. \A fd \in OpenFds, x \in Nat : Owes(fd, x) => Owes(fd, x)'
    BY DEF NetKeeps
  <2>. QED
    BY <1>1, <2>1, <2>2, <2>3 DEF OneInv, OneOwes
<1>. QED
  BY <1>2, <1>3, <1>4, <1>5 DEF OneInv

\* Whatever was not echoed to a connection that is broken need not be
LEMMA BrokenOwes ==
  ASSUME NetInv, NEW fd \in OpenFds, NEW x \in Nat, WriteKills(fd), Owes(fd, x)
  PROVE  Owes(fd, 0) /\ sock[fd] \in Clients /\ peer[sock[fd]] \in {"reset", "broken"}
<1>1. /\ sock[fd] \in Clients /\ unread[sock[fd]] \in Nat /\ sent[sock[fd]] \in Nat
      /\ echoed[sock[fd]] \in Nat
  BY OpenFacts, EchoAssumption
<1>. QED
  BY <1>1 DEF WriteKills, Owes, Fits

LEMMA OneStep ==
  ASSUME NetInv, OneInv, OneServer!Server, UNCHANGED program
  PROVE  NetInv' /\ OneInv' /\ \A c \in Clients : peer'[c] = "none" => peer[c] = "none"
<1>. USE DEF OneServer!lfd, lfd
<1>1. /\ server \in {"accept", "read", "write", "dead"}
      /\ connfd \in Fds \cup {lfd} /\ n \in 0..MaxSegments /\ n \in Nat
      /\ OpenFds = {connfd} \ {lfd} /\ (server = "accept" <=> connfd = lfd)
      /\ 0 \in 0..MaxSegments /\ 0 \in Nat
  BY OneNet, EchoAssumption DEF OneInv, OneServer!TypeOK, OneServer!WatchesAll
<1>2. server # "accept" => connfd \in OpenFds
  BY <1>1
<1>. DEFINE Kept == NetInv' /\ OneInv' /\ \A c \in Clients : peer'[c] = "none" => peer[c] = "none"
<1>3. CASE OneServer!AcceptOnce
  <2>. USE <1>3 DEF OneServer!AcceptOnce
  <2>1. PICK fd \in Fds : fd = LowestFd /\ fd \notin OpenFds
    BY OneNet, LowestIsFree
  <2>2. Accept(fd) /\ connfd' = fd /\ fd # lfd
    BY <2>1, OneNet DEF Fds
  <2>3. /\ NetInv' /\ OpenFds' = OpenFds \cup {fd} /\ \A c : Same(c)
        /\ Owes(fd, 0)'
    BY <2>1, <2>2, AcceptKeeps
  <2>4. OneServer!TypeOK'
    BY <1>1, <2>2, <2>3, OneNet DEF OneServer!TypeOK, NetInv, Fds
  <2>5. OneServer!WatchesAll' /\ (server = "accept" <=> connfd = lfd)' /\ OpenFds' = {fd}
    BY <1>1, <2>2, <2>3, OneNet DEF OneServer!WatchesAll
  <2>6. OneServer!EndsForAReason'
    BY DEF OneServer!EndsForAReason
  <2>7. OneOwes'
    BY <2>3, <2>5 DEF OneOwes
  <2>. QED
    BY <2>3, <2>4, <2>5, <2>6, <2>7 DEF OneInv, Same
<1>4. ASSUME NEW fd \in OpenFds, fd = connfd, Read(fd), connfd' = connfd, server = "read",
             server' \in {"read", "write"}, n' \in 0..MaxSegments,
             unread[sock[fd]] = IF server' = "write" THEN n' ELSE 0
      PROVE  Kept
  <2>1. PICK x \in Nat : x = unread[sock[fd]]
    BY OpenFacts, EchoAssumption
  <2>2. Owes(fd, 0)
    BY <1>4 DEF OneInv, OneOwes
  <2>3. /\ NetInv' /\ OpenFds' = OpenFds
        /\ Owes(fd, x)'
    BY <1>4, <2>1, <2>2, ReadKeeps
  <2>4. OneServer!TypeOK'
    BY <1>1, <1>4, <2>3, OneNet DEF OneServer!TypeOK, NetInv, Fds
  <2>5. OneServer!WatchesAll' /\ (server = "accept" <=> connfd = lfd)' /\ OpenFds' = {fd}
    BY <1>1, <1>4, <2>3, OneNet DEF OneServer!WatchesAll
  <2>6. OneServer!EndsForAReason'
    BY <1>4 DEF OneServer!EndsForAReason
  <2>7. OneOwes'
    BY <1>4, <2>1, <2>3, <2>5 DEF OneOwes
  <2>8. \A c \in Clients : peer'[c] = "none" => peer[c] = "none"
    BY <1>4 DEF Read, NetInv, NetTypeOK
  <2>. QED
    BY <2>3, <2>4, <2>5, <2>6, <2>7, <2>8 DEF OneInv
<1>5. CASE OneServer!ReadError
  <2>1. PICK fd \in OpenFds : fd = connfd
    BY <1>2, <1>5 DEF OneServer!ReadError
  <2>2. Read(fd) /\ ReadResult(fd) = -1 /\ server = "read" /\ UNCHANGED <<server, connfd, n>>
    BY <1>5, <2>1, OneNet DEF OneServer!ReadError, OneServer!main
  <2>3. unread[sock[fd]] = 0
    BY <2>2, ReadMeans DEF Read
  <2>. QED
    BY <1>1, <1>4, <2>1, <2>2, <2>3
<1>6. CASE OneServer!ReadBytes
  <2>1. PICK fd \in OpenFds : fd = connfd
    BY <1>2, <1>6 DEF OneServer!ReadBytes
  <2>2. /\ Read(fd) /\ ReadResult(fd) >= 0 /\ n' = ReadResult(fd)
        /\ server = "read" /\ server' = "write" /\ connfd' = connfd
    BY <1>6, <2>1, OneNet DEF OneServer!ReadBytes
  <2>3. ReadResult(fd) = unread[sock[fd]] /\ unread[sock[fd]] \in 0..MaxSegments
    BY <2>2, OpenFacts, EchoAssumption DEF Read, ReadResult
  <2>. QED
    BY <1>4, <2>1, <2>2, <2>3
<1>7. CASE OneServer!WriteBack
  <2>1. PICK fd \in OpenFds : fd = connfd
    BY <1>2, <1>7 DEF OneServer!WriteBack
  <2>2. PICK x \in Nat : x = n
    BY <1>1
  <2>3. Owes(fd, x) /\ UNCHANGED <<connfd, n>> /\ server = "write"
    BY <1>7, <2>1, <2>2 DEF OneServer!WriteBack, OneInv, OneOwes
  <2>4. CASE WriteKills(fd) /\ server' = "dead" /\ UNCHANGED net
    <3>1. server' = "dead" /\ UNCHANGED net
      BY <2>4
    <3>2. NetKeeps
      BY <3>1, StutterKeeps
    <3>3. NetInv' /\ OpenFds' = OpenFds /\ UNCHANGED <<peer, sock>>
      BY <3>1, <3>2 DEF NetKeeps, net
    <3>4. OneServer!TypeOK'
      BY <1>1, <2>3, <3>1, <3>3, OneNet DEF OneServer!TypeOK, NetInv, Fds
    <3>5. OneServer!WatchesAll' /\ (server = "accept" <=> connfd = lfd)' /\ OpenFds' = {fd}
      BY <1>1, <2>1, <2>3, <3>1, <3>3, OneNet DEF OneServer!WatchesAll
    <3>6. /\ Owes(fd, 0) /\ sock[fd] \in Clients /\ peer[sock[fd]] \in {"reset", "broken"}
      BY <2>3, <2>4, BrokenOwes
    <3>7. OneServer!EndsForAReason'
      BY <3>3, <3>6 DEF OneServer!EndsForAReason
    <3>8. Owes(fd, 0)'
      BY <3>2, <3>6 DEF NetKeeps
    <3>9. OneOwes'
      BY <3>1, <3>5, <3>8 DEF OneOwes
    <3>. QED
      BY <3>3, <3>4, <3>5, <3>7, <3>9 DEF OneInv
  <2>5. CASE Write(fd, x) /\ server' = "read"
    <3>1. Write(fd, x) /\ server' = "read"
      BY <2>5
    <3>2. /\ NetInv' /\ OpenFds' = OpenFds /\ Owes(fd, 0)'
      BY <2>3, <3>1, WriteKeeps
    <3>4. OneServer!TypeOK'
      BY <1>1, <2>3, <3>1, <3>2, OneNet DEF OneServer!TypeOK, NetInv, Fds
    <3>5. OneServer!WatchesAll' /\ (server = "accept" <=> connfd = lfd)' /\ OpenFds' = {fd}
      BY <1>1, <2>1, <2>3, <3>1, <3>2, OneNet DEF OneServer!WatchesAll
    <3>6. OneServer!EndsForAReason'
      BY <3>1 DEF OneServer!EndsForAReason
    <3>7. OneOwes'
      BY <3>1, <3>2, <3>5 DEF OneOwes
    <3>8. \A c \in Clients : peer'[c] = "none" => peer[c] = "none"
      BY <3>1 DEF Write, NetInv, NetTypeOK
    <3>. QED
      BY <3>2, <3>4, <3>5, <3>6, <3>7, <3>8 DEF OneInv
  <2>6. CASE x = 0 /\ server' = "read" /\ UNCHANGED net
    <3>1. NetKeeps
      BY <2>6, StutterKeeps
    <3>2. NetInv' /\ OpenFds' = OpenFds /\ UNCHANGED peer
      BY <2>6, <3>1 DEF NetKeeps, net
    <3>3. OneServer!TypeOK'
      BY <1>1, <2>3, <2>6, <3>2, OneNet DEF OneServer!TypeOK, NetInv, Fds
    <3>4. OneServer!WatchesAll' /\ (server = "accept" <=> connfd = lfd)' /\ OpenFds' = {fd}
      BY <1>1, <2>1, <2>3, <2>6, <3>2, OneNet DEF OneServer!WatchesAll
    <3>5. OneServer!EndsForAReason'
      BY <2>6 DEF OneServer!EndsForAReason
    <3>6. Owes(fd, 0)'
      BY <2>3, <2>6, <3>1 DEF NetKeeps
    <3>7. OneOwes'
      BY <2>6, <3>4, <3>6 DEF OneOwes
    <3>. QED
      BY <3>2, <3>3, <3>4, <3>5, <3>7 DEF OneInv
  <2>7. \/ WriteKills(fd) /\ server' = "dead" /\ UNCHANGED net
        \/ Write(fd, x) /\ server' = "read"
        \/ x = 0 /\ server' = "read" /\ UNCHANGED net
    BY <1>7, <2>1, <2>2, OneNet DEF OneServer!WriteBack, OneServer!net, net
  <2>. QED BY <2>4, <2>5, <2>6, <2>7
<1>. QED
  BY <1>3, <1>5, <1>6, <1>7 DEF OneServer!Server

-----------------------------------------------------------------------------
(* epoll_server.c *)

LEMMA EpollInit ==
  ASSUME EpollServer!Init, RunsEpoll
  PROVE  NetInv /\ EpollInv
<1>1. NetInv /\ OpenFds = {}
  BY InitNetInv, EpollNet DEF EpollServer!Init
<1>2. EpollServer!TypeOK
  BY <1>1, EpollNet, EchoAssumption DEF EpollServer!Init, EpollServer!TypeOK, NetInv
<1>3. EpollServer!WatchesAll /\ EpollServer!EndsForAReason
  BY <1>1, EpollNet DEF EpollServer!Init, EpollServer!WatchesAll, EpollServer!EndsForAReason
<1>4. EpollPending
  BY DEF EpollServer!Init, EpollPending
<1>5. EpollOwes
  BY <1>1 DEF EpollOwes
<1>. QED
  BY <1>1, <1>2, <1>3, <1>4, <1>5 DEF EpollInv

LEMMA EpollOthers ==
  ASSUME NetInv, EpollInv, NetKeeps, UNCHANGED <<program, main>>
  PROVE  EpollInv'
<1>. UNCHANGED <<program, server, n, tree, ep>>
  BY DEF main, epollVars
<1>1. NetInv' /\ OpenFds' = OpenFds
  BY DEF NetKeeps
<1>2. EpollServer!TypeOK'
  BY <1>1, EpollNet DEF EpollInv, EpollServer!TypeOK, NetInv, Fds, lfd
<1>3. EpollServer!WatchesAll'
  BY <1>1, EpollNet DEF EpollInv, EpollServer!WatchesAll, lfd
<1>4. EpollServer!EndsForAReason'
  <2>1. NoFdLeft' = NoFdLeft
    BY <1>1 DEF NoFdLeft, Fds
  <2>. QED
    BY <2>1, EpollNet DEF EpollInv, EpollServer!EndsForAReason, NetKeeps
<1>5. EpollPending'
  <2>1. \A fd : CanRead(fd) => CanRead(fd)'
    BY <1>1 DEF NetKeeps, CanRead
  <2>2. PICK q : q = ep
    OBVIOUS
  <2>3. \A k \in 1..Len(q) : q[k] # lfd /\ (k > 1 \/ server = "event") => CanRead(q[k])'
    BY <2>1, <2>2 DEF EpollInv, EpollPending
  <2>4. \A k \in 1..Len(q) :
          q[k] # lfd /\ (k > 1 \/ server = "event") => q[k] \in OpenFds' /\ Readable(q[k])'
    BY <2>3 DEF CanRead
  <2>5. \A k \in 1..Len(ep') :
          ep'[k] # lfd /\ (k > 1 \/ server' = "event") => CanRead(ep[k])'
    BY <2>2, <2>4 DEF CanRead, Readable
  <2>6. \A k \in 1..Len(ep) : ep[k] = lfd => queue' # <<>>
    BY DEF EpollInv, EpollPending, NetKeeps
  <2>. QED
    BY <1>1, <2>5, <2>6 DEF EpollInv, EpollPending, lfd
<1>6. EpollOwes'
  <2>1. n \in Nat
    BY EchoAssumption DEF EpollInv, EpollServer!TypeOK
  <2>2. \A fd \in OpenFds, x \in Nat : Owes(fd, x) => Owes(fd, x)'
    BY DEF NetKeeps
  <2>. QED
    BY <1>1, <2>1, <2>2 DEF EpollInv, EpollOwes
<1>. QED
  BY <1>2, <1>3, <1>4, <1>5, <1>6 DEF EpollInv

LEMMA EpollFacts ==
  ASSUME NetInv, EpollInv
  PROVE  /\ server \in {"wait", "event", "write", "dead"}
         /\ server # "dead" => tree = OpenFds \cup {lfd}
         /\ tree \subseteq Fds \cup {lfd} /\ ep \in Seq(Fds \cup {lfd})
         /\ n \in 0..MaxSegments /\ n \in Nat /\ 0 \in 0..MaxSegments
  BY EpollNet, EchoAssumption DEF EpollInv, EpollServer!TypeOK, EpollServer!WatchesAll

\* The event at the head has been handled, or has ended the process
LEMMA EpollHandled ==
  ASSUME NetInv, EpollInv, server \in {"event", "write"}, ep' = Tail(ep),
         \/ /\ server' = IF Tail(ep) = <<>> THEN "wait" ELSE "event"
            /\ tree' = OpenFds' \cup {lfd}
         \/ /\ server' = "dead"
            /\ tree' \subseteq Fds \cup {lfd} /\ OpenFds' \ tree' # {},
         NetInv',
         \A g \in OpenFds : g # Head(ep) => (CanRead(g) => CanRead(g)'),
         Head(ep) # lfd /\ queue # <<>> => queue' # <<>>, n' \in 0..MaxSegments,
         \A fd \in OpenFds' : Owes(fd, 0)'
  PROVE  EpollInv'
<1>1. /\ ep \in Seq(Fds \cup {lfd}) /\ ep # <<>>
  BY EpollFacts DEF EpollInv, EpollPending
<1>2. PICK q \in Seq(Fds \cup {lfd}) : q = Tail(ep)
  BY <1>1, HeadTailProperties
<1>3. /\ Head(ep) = ep[1] /\ Len(ep) \in Nat /\ Len(ep) >= 1 /\ Len(q) = Len(ep) - 1
      /\ \A k \in 1..Len(q) : q[k] = ep[k + 1]
  BY <1>1, <1>2, HeadTailProperties
<1>4. \A k \in 1..Len(q) : k + 1 \in 1..Len(ep) /\ k + 1 # 1 /\ k + 1 > 1 /\ 1 \in 1..Len(ep)
  BY <1>3
<1>5. \A j, k \in 1..Len(q) : j + 1 = k + 1 => j = k
  OBVIOUS
<1>6. /\ ep' = q
      /\ server' = "dead" \/ server' = IF q = <<>> THEN "wait" ELSE "event"
  BY <1>2
<1>7. \A k \in 1..Len(q) : q[k] # Head(ep)
  BY <1>3, <1>4 DEF EpollInv, EpollPending
<1>8. \A k \in 1..Len(q) : q[k] # lfd => CanRead(q[k])'
  <2>. SUFFICES ASSUME NEW k \in 1..Len(q), q[k] # lfd PROVE CanRead(q[k])'
    OBVIOUS
  <2>1. CanRead(q[k]) /\ q[k] # Head(ep)
    BY <1>3, <1>4, <1>7 DEF EpollInv, EpollPending
  <2>. QED
    BY <2>1 DEF CanRead
<1>9. \A j, k \in 1..Len(q) : q[j] = q[k] => j = k
  BY <1>3, <1>4, <1>5 DEF EpollInv, EpollPending
<1>10. \A k \in 1..Len(q) : q[k] = lfd => queue' # <<>>
  BY <1>3, <1>4, <1>7 DEF EpollInv, EpollPending
<1>11. EpollPending'
  <2>1. \A k \in 1..Len(q) : q[k] # lfd => q[k] \in OpenFds' /\ Readable(q[k])'
    BY <1>8 DEF CanRead
  <2>2. \A k \in 1..Len(ep') : ep'[k] # lfd => CanRead(ep[k])'
    BY <1>6, <2>1 DEF CanRead, Readable
  <2>. QED
    BY <1>6, <1>9, <1>10, <2>2 DEF EpollPending, lfd
<1>12. EpollServer!TypeOK'
  BY <1>6, EpollNet DEF EpollServer!TypeOK, NetInv, OpenFds, Fds, lfd
<1>13. EpollServer!WatchesAll' /\ EpollServer!EndsForAReason'
  BY <1>6, EpollNet DEF EpollServer!WatchesAll, EpollServer!EndsForAReason, lfd
<1>14. EpollOwes'
  BY <1>6 DEF EpollOwes
<1>. QED
  BY <1>11, <1>12, <1>13, <1>14 DEF EpollInv

LEMMA EpollNext ==
  ASSUME NetInv, EpollInv, server \in {"event", "write"}, EpollServer!NextEvent,
         NetInv',
         \A g \in OpenFds : g # Head(ep) => (CanRead(g) => CanRead(g)'),
         Head(ep) # lfd /\ queue # <<>> => queue' # <<>>,
         tree' = OpenFds' \cup {lfd}, n' \in 0..MaxSegments,
         \A fd \in OpenFds' : Owes(fd, 0)'
  PROVE  EpollInv'
<1>1. ep' = Tail(ep) /\ server' = IF Tail(ep) = <<>> THEN "wait" ELSE "event"
  BY DEF EpollServer!NextEvent
<1>. QED
  BY <1>1, EpollHandled

LEMMA EpollDies ==
  ASSUME NetInv, EpollInv, EpollServer!Die, UNCHANGED program, server # "dead",
         \A fd \in OpenFds : Owes(fd, 0),
         (queue # <<>> /\ NoFdLeft) \/ \E c \in Clients : peer[c] \in {"reset", "broken"}
  PROVE  NetInv' /\ EpollInv' /\ NothingCut
<1>1. server' = "dead" /\ UNCHANGED net /\ UNCHANGED <<tree, ep, n>>
  BY DEF EpollServer!Die, EpollServer!net, net
<1>2. NetKeeps
  BY <1>1, StutterKeeps
<1>3. NetInv' /\ OpenFds' = OpenFds /\ UNCHANGED <<peer, queue, sock>>
  BY <1>1, <1>2 DEF NetKeeps, net
<1>4. EpollServer!TypeOK'
  BY <1>1, <1>3, EpollNet DEF EpollInv, EpollServer!TypeOK, NetInv, Fds, lfd
<1>5. EpollServer!WatchesAll'
  BY <1>1, <1>3, EpollNet DEF EpollInv, EpollServer!WatchesAll, lfd
<1>6. NoFdLeft' = NoFdLeft
  BY <1>3 DEF NoFdLeft, Fds
<1>7. EpollServer!EndsForAReason'
  BY <1>3, <1>6, EpollNet DEF EpollServer!EndsForAReason
<1>8. EpollPending'
  <2>1. \A fd : CanRead(fd) => CanRead(fd)'
    BY <1>2 DEF NetKeeps, CanRead
  <2>2. PICK q : q = ep
    OBVIOUS
  <2>3. \A k \in 1..Len(q) : q[k] # lfd /\ k > 1 => CanRead(q[k])'
    BY <2>1, <2>2 DEF EpollInv, EpollPending
  <2>4. \A k \in 1..Len(q) : q[k] # lfd /\ k > 1 => q[k] \in OpenFds' /\ Readable(q[k])'
    BY <2>3 DEF CanRead
  <2>5. \A k \in 1..Len(ep') : ep'[k] # lfd /\ k > 1 => CanRead(ep[k])'
    BY <1>1, <2>2, <2>4 DEF CanRead, Readable
  <2>. QED
    BY <1>1, <1>3, <2>5 DEF EpollInv, EpollPending, lfd
<1>9. EpollOwes'
  BY <1>1, <1>2, <1>3 DEF EpollOwes, NetKeeps
<1>10. NothingCut
  BY <1>3 DEF NothingCut
<1>. QED
  BY <1>3, <1>4, <1>5, <1>7, <1>8, <1>9, <1>10 DEF EpollInv

LEMMA EpollCounts == \A S : EpollServer!Cardinality(S) = Cardinality(S)
  BY DEF EpollServer!Cardinality, Cardinality

LEMMA SelectCounts == \A S : SelectServer!Cardinality(S) = Cardinality(S)
  BY DEF SelectServer!Cardinality, Cardinality

\* What epoll_wait puts into ep
LEMMA EpollReadySeq ==
  ASSUME NetInv, EpollInv, NEW q, server # "dead", EpollServer!Ready # {},
         q \in EpollServer!SetToSeqs(EpollServer!Ready)
  PROVE  /\ q \in Seq(Fds \cup {lfd}) /\ q # <<>>
         /\ \A j, k \in 1..Len(q) : q[j] = q[k] => j = k
         /\ \A k \in 1..Len(q) : q[k] \in EpollServer!Ready
<1>. DEFINE R == EpollServer!Ready
            N == Cardinality(R)
<1>1. R \subseteq Fds \cup {lfd}
  BY EpollFacts DEF EpollServer!Ready, OpenFds
<1>2. Fds \cup {lfd} \subseteq 0..MaxFds
  BY EchoAssumption DEF Fds, lfd
<1>3. IsFiniteSet(0..MaxFds)
  BY FS_Interval, EchoAssumption
<1>4. IsFiniteSet(R) /\ N \in Nat /\ N # 0
  BY <1>1, <1>2, <1>3, FS_Subset, FS_CardinalityType, FS_EmptySet
<1>5. q \in [1..N -> R] /\ \A j, k \in 1..N : j # k => q[j] # q[k]
  BY EpollCounts DEF EpollServer!SetToSeqs
<1>. HIDE DEF R, N
<1>6. q \in Seq(Fds \cup {lfd}) /\ Len(q) = N
  BY <1>1, <1>4, <1>5
<1>. QED
  BY <1>4, <1>5, <1>6 DEF R

LEMMA EpollWaits ==
  ASSUME NetInv, EpollInv, EpollServer!EpollWait, UNCHANGED program
  PROVE  NetInv' /\ EpollInv' /\ NothingCut
<1>. USE DEF EpollServer!EpollWait
<1>1. server' = "event" /\ server = "wait" /\ UNCHANGED net /\ UNCHANGED <<tree, n>>
  BY DEF EpollServer!net, net
<1>2. NetKeeps
  BY <1>1, StutterKeeps
<1>3. NetInv' /\ OpenFds' = OpenFds /\ UNCHANGED <<peer, queue, sock, unread>>
  BY <1>1, <1>2 DEF NetKeeps, net
<1>4. PICK q : q = ep'
  OBVIOUS
<1>5. /\ q \in Seq(Fds \cup {lfd}) /\ q # <<>>
      /\ \A j, k \in 1..Len(q) : q[j] = q[k] => j = k
      /\ \A k \in 1..Len(q) : q[k] \in EpollServer!Ready
  BY <1>4, EpollReadySeq
<1>6. \A fd \in EpollServer!Ready : IF fd = lfd THEN queue # <<>> ELSE CanRead(fd)
  BY EpollNet, EpollFacts DEF EpollServer!Ready, CanRead, lfd
<1>7. EpollServer!TypeOK'
  BY <1>1, <1>3, <1>4, <1>5, EpollNet DEF EpollInv, EpollServer!TypeOK, NetInv, Fds, lfd
<1>8. EpollServer!WatchesAll' /\ EpollServer!EndsForAReason'
  BY <1>1, <1>3, EpollNet DEF EpollInv, EpollServer!WatchesAll, EpollServer!EndsForAReason, lfd
<1>9. EpollPending'
  <2>1. \A fd : CanRead(fd) => CanRead(fd)'
    BY <1>2 DEF NetKeeps, CanRead
  <2>2. \A k \in 1..Len(q) : q[k] # lfd => CanRead(q[k])'
    BY <2>1, <1>5, <1>6
  <2>3. \A k \in 1..Len(q) : q[k] # lfd => q[k] \in OpenFds' /\ Readable(q[k])'
    BY <2>2 DEF CanRead
  <2>4. \A k \in 1..Len(ep') : ep'[k] # lfd => CanRead(ep[k])'
    BY <1>4, <2>3 DEF CanRead, Readable
  <2>5. \A k \in 1..Len(q) : q[k] = lfd => queue # <<>>
    BY <1>5, <1>6
  <2>. QED
    BY <1>1, <1>3, <1>4, <1>5, <2>4, <2>5 DEF EpollPending, lfd
<1>10. EpollOwes'
  BY <1>1, <1>2, <1>3 DEF EpollInv, EpollOwes, NetKeeps
<1>11. NothingCut
  BY <1>3 DEF NothingCut
<1>. QED
  BY <1>3, <1>7, <1>8, <1>9, <1>10, <1>11 DEF EpollInv

LEMMA EpollStep ==
  ASSUME NetInv, EpollInv, EpollServer!Server, UNCHANGED program
  PROVE  NetInv' /\ EpollInv' /\ NothingCut
<1>1. CASE EpollServer!EpollWait
  BY <1>1, EpollWaits
<1>2. CASE EpollServer!AcceptNew
  <2>. USE <1>2 DEF EpollServer!AcceptNew
  <2>1. server = "event" /\ Head(ep) = lfd /\ ep # <<>> /\ ep \in Seq(Fds \cup {lfd})
    BY EpollFacts DEF EpollInv, EpollPending, lfd, EpollServer!lfd
  <2>2. \A fd \in OpenFds : Owes(fd, 0)
    BY <2>1 DEF EpollInv, EpollOwes
  <2>3. queue # <<>>
    <3>1. 1 \in 1..Len(ep) /\ ep[1] = lfd
      BY <2>1
    <3>. QED BY <3>1 DEF EpollInv, EpollPending
  <2>4. CASE NoFdLeft
    BY <2>1, <2>2, <2>3, <2>4, EpollDies, EpollNet
  <2>5. CASE ~NoFdLeft
    <3>1. PICK fd \in Fds : fd = LowestFd /\ fd \notin OpenFds
      BY <2>5, LowestIsFree
    <3>2. /\ Accept(fd) /\ n' = n
          /\ \/ tree' = tree \cup {fd} /\ EpollServer!NextEvent
             \/ tree' = tree /\ ep' = Tail(ep) /\ server' = "dead"
      BY <2>5, <3>1, EpollNet
    <3>3. /\ NetInv' /\ OpenFds' = OpenFds \cup {fd} /\ \A c : Same(c)
          /\ \A g \in OpenFds : sock'[g] = sock[g] /\ Owes(fd, 0)'
      BY <3>1, <3>2, AcceptKeeps
    <3>4. Owes(fd, 0)'
      BY <3>1, <3>2, AcceptKeeps
    <3>5. \A g \in OpenFds : CanRead(g) => CanRead(g)'
      BY <3>3, OthersKeep
    <3>6. \A g \in OpenFds : Owes(g, 0)'
      BY <2>2, <3>3, OthersKeep
    <3>7. tree = OpenFds \cup {lfd} /\ fd # lfd /\ n' \in 0..MaxSegments
      BY <2>1, <3>1, <3>2, EpollFacts DEF Fds, lfd
    <3>8. \A g \in OpenFds' : Owes(g, 0)'
      BY <3>3, <3>4, <3>6
    <3>9. NothingCut
      BY <3>3 DEF NothingCut, Same
    <3>10. CASE tree' = tree \cup {fd} /\ EpollServer!NextEvent
      <4>1. tree' = OpenFds' \cup {lfd}
        BY <3>3, <3>7, <3>10
      <4>. QED
        BY <2>1, <3>3, <3>5, <3>7, <3>8, <3>9, <3>10, <4>1, EpollNext
    <3>11. CASE tree' = tree /\ ep' = Tail(ep) /\ server' = "dead"
      <4>1. tree' \subseteq Fds \cup {lfd} /\ OpenFds' \ tree' # {}
        BY <3>1, <3>3, <3>7, <3>11 DEF OpenFds
      <4>2. EpollInv'
        BY <2>1, <3>3, <3>5, <3>7, <3>8, <3>11, <4>1, EpollHandled
      <4>. QED
        BY <3>3, <3>9, <4>2
    <3>. QED BY <3>2, <3>10, <3>11
  <2>. QED BY <2>1, <2>4, <2>5
<1>3. CASE EpollServer!ReadEnd
  <2>. USE <1>3 DEF EpollServer!ReadEnd
  <2>1. PICK fd \in OpenFds : fd = Head(ep) /\ Head(ep) # lfd /\ server = "event"
    <3>1. server = "event" /\ Head(ep) # lfd /\ ep # <<>> /\ ep \in Seq(Fds \cup {lfd})
      BY EpollFacts DEF EpollInv, EpollPending, lfd, EpollServer!lfd
    <3>2. 1 \in 1..Len(ep) /\ ep[1] = Head(ep)
      BY <3>1
    <3>. QED BY <3>1, <3>2 DEF EpollInv, EpollPending, CanRead
  <2>2. /\ Readable(fd) /\ ReadResult(fd) <= 0 /\ Close(fd) /\ tree' = tree \ {fd}
        /\ EpollServer!NextEvent /\ n' = n
    BY <2>1, EpollNet DEF EpollServer!Ends, EpollServer!CloseAndDelete
  <2>3. \A g \in OpenFds : Owes(g, 0)
    BY <2>1 DEF EpollInv, EpollOwes
  <2>4. /\ NetInv' /\ queue' = queue
        /\ OpenFds' = OpenFds \ {fd}
        /\ \A g \in OpenFds \ {fd} : sock'[g] = sock[g] /\ Same(sock[g])
    BY <2>2, CloseKeeps
  <2>5. \A g \in OpenFds : g # Head(ep) => (CanRead(g) => CanRead(g)')
    BY <2>1, <2>4, OthersKeep
  <2>6. \A g \in OpenFds' : Owes(g, 0)'
    BY <2>3, <2>4, OthersKeep
  <2>7. tree' = OpenFds' \cup {lfd} /\ n' \in 0..MaxSegments
    BY <2>2, <2>4, EpollFacts, OpenFacts
  <2>8. NothingCut
    BY <2>2, <2>3, CloseCutsNothing
  <2>. QED
    BY <2>1, <2>2, <2>4, <2>5, <2>6, <2>7, <2>8, EpollNext
<1>4. CASE EpollServer!ReadData
  <2>. USE <1>4 DEF EpollServer!ReadData
  <2>1. PICK fd \in OpenFds : fd = Head(ep) /\ Head(ep) # lfd /\ server = "event"
    <3>1. server = "event" /\ Head(ep) # lfd /\ ep # <<>> /\ ep \in Seq(Fds \cup {lfd})
      BY EpollFacts DEF EpollInv, EpollPending, lfd, EpollServer!lfd
    <3>2. 1 \in 1..Len(ep) /\ ep[1] = Head(ep)
      BY <3>1
    <3>. QED BY <3>1, <3>2 DEF EpollInv, EpollPending, CanRead
  <2>2. /\ Readable(fd) /\ ReadResult(fd) > 0 /\ Read(fd) /\ tree' = tree /\ ep' = ep
        /\ n' = ReadResult(fd) /\ server' = "write"
    BY <2>1, EpollNet, OpenFacts, EchoAssumption DEF EpollServer!Ends
  <2>3. \A g \in OpenFds : Owes(g, 0)
    BY <2>1 DEF EpollInv, EpollOwes
  <2>4. PICK x \in Nat : x = unread[sock[fd]]
    BY OpenFacts, EchoAssumption
  <2>5. n' = x /\ x \in 0..MaxSegments
    BY <2>2, <2>4, ReadMeans, OpenFacts
  <2>6. /\ NetInv' /\ queue' = queue /\ OpenFds' = OpenFds /\ Owes(fd, x)'
        /\ \A g \in OpenFds \ {fd} : sock'[g] = sock[g] /\ Same(sock[g])
    BY <2>2, <2>3, <2>4, ReadKeeps
  <2>7. \A g \in OpenFds \ {fd} : (CanRead(g) => CanRead(g)') /\ Owes(g, 0)'
    BY <2>3, <2>6, OthersKeep
  <2>8. EpollServer!TypeOK'
    BY <2>2, <2>5, <2>6, EpollNet DEF EpollInv, EpollServer!TypeOK, NetInv, Fds, lfd
  <2>9. EpollServer!WatchesAll' /\ EpollServer!EndsForAReason'
    BY <2>2, <2>6, EpollNet
      DEF EpollInv, EpollServer!WatchesAll, EpollServer!EndsForAReason, lfd
  <2>10. EpollPending'
    <3>1. PICK q : q = ep
      OBVIOUS
    <3>2. \A k \in 1..Len(q) : q[k] # lfd /\ k > 1 => CanRead(q[k])'
      <4>. SUFFICES ASSUME NEW k \in 1..Len(q), q[k] # lfd, k > 1 PROVE CanRead(q[k])'
        OBVIOUS
      <4>1. CanRead(q[k])
        BY <3>1 DEF EpollInv, EpollPending
      <4>2. q[k] # fd
        <5>1. ep \in Seq(Fds \cup {lfd}) /\ ep # <<>>
          BY EpollFacts, <2>1 DEF EpollInv, EpollPending
        <5>2. 1 \in 1..Len(ep) /\ ep[1] = fd /\ k # 1
          BY <5>1, <2>1
        <5>. QED BY <3>1, <5>2 DEF EpollInv, EpollPending
      <4>. QED BY <2>7, <4>1, <4>2 DEF CanRead
    <3>3. \A k \in 1..Len(q) : q[k] # lfd /\ k > 1 => q[k] \in OpenFds' /\ Readable(q[k])'
      BY <3>2 DEF CanRead
    <3>4. \A k \in 1..Len(ep') : ep'[k] # lfd /\ k > 1 => CanRead(ep[k])'
      BY <2>2, <3>1, <3>3 DEF CanRead, Readable
    <3>. QED
      BY <2>1, <2>2, <2>6, <3>4 DEF EpollInv, EpollPending, lfd
  <2>11. EpollOwes'
    BY <2>1, <2>2, <2>5, <2>6, <2>7 DEF EpollOwes
  <2>12. NothingCut
    BY <2>2, ReadDropsNobody DEF NobodyDropped, NothingCut
  <2>. QED
    BY <2>6, <2>8, <2>9, <2>10, <2>11, <2>12 DEF EpollInv
<1>5. CASE EpollServer!WriteBack
  <2>. USE <1>5 DEF EpollServer!WriteBack
  <2>1. PICK fd \in OpenFds : fd = Head(ep) /\ server = "write"
    BY DEF EpollInv, EpollPending
  <2>2. PICK x \in Nat : x = n
    BY EpollFacts
  <2>3. Owes(fd, x) /\ \A g \in OpenFds : g # fd => Owes(g, 0)
    BY <2>1, <2>2 DEF EpollInv, EpollOwes
  <2>4. CASE WriteKills(fd)
    <3>1. Owes(fd, 0) /\ sock[fd] \in Clients /\ peer[sock[fd]] \in {"reset", "broken"}
      BY <2>3, <2>4, BrokenOwes
    <3>2. EpollServer!Die
      BY <2>1, <2>4, EpollNet
    <3>3. \A g \in OpenFds : Owes(g, 0)
      BY <2>3, <3>1
    <3>. QED
      BY <2>1, <3>1, <3>2, <3>3, EpollDies
  <2>5. CASE ~WriteKills(fd)
    <3>1. Write(fd, x) /\ n' = 0 /\ EpollServer!NextEvent /\ tree' = tree
      BY <2>1, <2>2, <2>5, EpollNet
    <3>2. /\ NetInv' /\ queue' = queue /\ OpenFds' = OpenFds /\ Owes(fd, 0)'
          /\ \A g \in OpenFds : sock'[g] = sock[g]
          /\ \A g \in OpenFds \ {fd} : Same(sock[g])
      BY <2>3, <3>1, WriteKeeps
    <3>3. \A g \in OpenFds : g # Head(ep) => (CanRead(g) => CanRead(g)') /\ Owes(g, 0)'
      BY <2>1, <2>3, <3>2, OthersKeep
    <3>4. \A g \in OpenFds' : Owes(g, 0)'
      BY <2>1, <3>2, <3>3
    <3>5. tree' = OpenFds' \cup {lfd} /\ n' \in 0..MaxSegments
      BY <3>1, <3>2, EpollFacts
    <3>6. NothingCut
      BY <3>1, WriteDropsNobody DEF NobodyDropped, NothingCut
    <3>. QED
      BY <2>1, <3>1, <3>2, <3>3, <3>4, <3>5, <3>6, EpollNext
  <2>. QED BY <2>4, <2>5
<1>. QED
  BY <1>1, <1>2, <1>3, <1>4, <1>5 DEF EpollServer!Server

-----------------------------------------------------------------------------
(* ev_server.c *)

LEMMA OwesOutput ==
  ASSUME NEW fd, NEW x, Owes(fd, x)', output'[fd] = x
  PROVE  Owes(fd, output[fd])'
  BY DEF Owes

LEMMA EventFacts ==
  ASSUME NetInv, EventInv
  PROVE  /\ server \in {"wait", "event", "accept", "dead"}
         /\ bev = OpenFds
         /\ output \in [Fds -> 0..MaxSegments] /\ output \in [Fds -> Nat]
         /\ active \subseteq (Fds \cup {lfd}) \X {"read", "write"}
         /\ \A fd \in Fds : output[fd] > 0 => fd \in OpenFds
         /\ \A fd \in OpenFds : Owes(fd, output[fd])
         /\ 0 \in 0..MaxSegments /\ lfd \notin Fds /\ OpenFds \subseteq Fds
         /\ EventServer!listening = <<lfd, "read">>
<1>1. lfd \notin Fds /\ 0 \in 0..MaxSegments /\ OpenFds \subseteq Fds
  BY EchoAssumption DEF lfd, Fds, OpenFds
<1>2. output \in [Fds -> 0..MaxSegments]
  BY EventNet DEF EventInv, EventServer!TypeOK
<1>3. output \in [Fds -> Nat]
  BY <1>2, EchoAssumption
<1>. QED
  BY <1>1, <1>2, <1>3, EventNet
  DEF EventInv, EventServer!TypeOK, EventServer!WatchesAll, EventOwes, EventServer!listening

\* What a step has to show
LEMMA EventNext ==
  ASSUME NetInv', server' \in {"wait", "event", "accept"}, bev' = OpenFds',
         output' \in [Fds -> 0..MaxSegments],
         active' \subseteq (Fds \cup {lfd}) \X {"read", "write"},
         \A fd \in Fds : <<fd, "read">> \in active' => CanRead(fd)',
         \A fd \in Fds : <<fd, "write">> \in active' => fd \in OpenFds' /\ output'[fd] > 0,
         \A fd \in Fds : output'[fd] > 0 => fd \in OpenFds',
         \A fd \in OpenFds' : Owes(fd, output[fd])'
  PROVE  EventInv'
<1>1. EventServer!TypeOK'
  BY EventNet DEF EventServer!TypeOK, NetInv, OpenFds, Fds, lfd
<1>2. EventServer!WatchesAll' /\ EventServer!EndsForAReason'
  BY EventNet DEF EventServer!WatchesAll, EventServer!EndsForAReason, Fds
<1>3. EventPending'
  BY DEF EventPending, Fds, CanRead, Readable
<1>4. EventOwes'
  BY DEF EventOwes
<1>. QED
  BY <1>1, <1>2, <1>3, <1>4 DEF EventInv

LEMMA EventInit ==
  ASSUME EventServer!Init, RunsEvents
  PROVE  NetInv /\ EventInv
<1>1. NetInv /\ OpenFds = {}
  BY InitNetInv, EventNet DEF EventServer!Init
<1>2. EventServer!TypeOK
  BY <1>1, EventNet, EchoAssumption DEF EventServer!Init, EventServer!TypeOK, NetInv
<1>3. EventServer!WatchesAll /\ EventServer!EndsForAReason
  BY <1>1, EventNet DEF EventServer!Init, EventServer!WatchesAll, EventServer!EndsForAReason
<1>4. EventPending /\ EventOwes
  BY <1>1 DEF EventServer!Init, EventPending, EventOwes
<1>. QED
  BY <1>1, <1>2, <1>3, <1>4 DEF EventInv

LEMMA EventOthers ==
  ASSUME NetInv, EventInv, NetKeeps, UNCHANGED <<program, main>>
  PROVE  EventInv'
<1>. UNCHANGED <<program, server, bev, output, active>>
  BY DEF main, eventVars
<1>1. NetInv' /\ OpenFds' = OpenFds
  BY DEF NetKeeps
<1>2. \A fd \in Fds : <<fd, "read">> \in active => CanRead(fd)'
  BY <1>1 DEF EventInv, EventPending, CanRead, NetKeeps
<1>3. \A fd \in OpenFds : Owes(fd, output[fd])'
  <2>. SUFFICES ASSUME NEW fd \in OpenFds PROVE Owes(fd, output[fd])'
    OBVIOUS
  <2>1. PICK x \in Nat : x = output[fd]
    BY EventFacts
  <2>2. Owes(fd, x)'
    BY <2>1, EventFacts DEF NetKeeps
  <2>. QED BY <2>1, <2>2, OwesOutput
<1>4. EventServer!TypeOK'
  BY <1>1, EventNet DEF EventInv, EventServer!TypeOK, NetInv, Fds, lfd
<1>5. EventServer!WatchesAll'
  BY <1>1, EventNet DEF EventInv, EventServer!WatchesAll, Fds
<1>6. EventServer!EndsForAReason'
  BY DEF EventInv, EventServer!EndsForAReason, NetKeeps
<1>7. EventPending'
  BY <1>1, <1>2 DEF EventInv, EventPending, Fds, CanRead, Readable
<1>8. EventOwes'
  BY <1>1, <1>3 DEF EventOwes
<1>. QED
  BY <1>4, <1>5, <1>6, <1>7, <1>8 DEF EventInv

\* An event is done with, the connections as they were
LEMMA EventGoes ==
  ASSUME NetInv, EventInv, UNCHANGED net, UNCHANGED <<program, bev, output>>,
         server' \in {"wait", "event", "accept"},
         active' \subseteq active \/ active' \subseteq EventServer!Ready
  PROVE  NetInv' /\ EventInv'
<1>1. NetKeeps
  BY StutterKeeps
<1>2. NetInv' /\ OpenFds' = OpenFds
  BY <1>1 DEF NetKeeps
<1>3. \A fd \in Fds : CanRead(fd) => CanRead(fd)'
  BY <1>1 DEF CanRead, NetKeeps
<1>4. /\ active' \subseteq (Fds \cup {lfd}) \X {"read", "write"}
      /\ \A fd \in Fds : <<fd, "read">> \in active' => CanRead(fd)
      /\ \A fd \in Fds : <<fd, "write">> \in active' => fd \in OpenFds /\ output[fd] > 0
  <2>1. CASE active' \subseteq active
    BY <2>1, EventFacts DEF EventInv, EventPending
  <2>2. CASE active' \subseteq EventServer!Ready
    <3>1. /\ EventServer!Ready \subseteq (Fds \cup {lfd}) \X {"read", "write"}
      BY EventFacts DEF EventServer!Ready
    <3>2. \A fd \in Fds : <<fd, "read">> \in EventServer!Ready => CanRead(fd)
      BY EventFacts, EventNet DEF EventServer!Ready, CanRead
    <3>3. \A fd \in Fds : <<fd, "write">> \in EventServer!Ready => fd \in OpenFds /\ output[fd] > 0
      BY EventFacts DEF EventServer!Ready
    <3>. QED BY <2>2, <3>1, <3>2, <3>3
  <2>. QED BY <2>1, <2>2
<1>5. \A fd \in OpenFds' : Owes(fd, output[fd])'
  <2>. SUFFICES ASSUME NEW fd \in OpenFds PROVE Owes(fd, output[fd])'
    BY <1>2
  <2>1. PICK x \in Nat : x = output[fd]
    BY EventFacts
  <2>2. Owes(fd, x)'
    BY <1>1, <2>1, EventFacts DEF NetKeeps
  <2>. QED BY <2>1, <2>2, OwesOutput
<1>. QED
  BY <1>2, <1>3, <1>4, <1>5, EventFacts, EventNext

LEMMA EventCloses ==
  ASSUME NetInv, EventInv, RunsEvents, UNCHANGED program, NEW fd \in OpenFds,
         EventServer!event_cb(fd)
  PROVE  NetInv' /\ EventInv'
<1>. USE DEF EventServer!event_cb, EventServer!Go
<1>1. /\ Close(fd) /\ bev' = bev \ {fd} /\ output' = [output EXCEPT ![fd] = 0]
      /\ active' = active \ {<<fd, "read">>, <<fd, "write">>}
      /\ server' \in {"wait", "event", "accept"}
  BY EventNet
<1>2. /\ NetInv' /\ OpenFds' = OpenFds \ {fd}
      /\ \A g \in OpenFds \ {fd} : sock'[g] = sock[g] /\ Same(sock[g])
  BY <1>1, CloseKeeps
<1>3. /\ output'[fd] = 0 /\ \A g \in Fds : g # fd => output'[g] = output[g]
      /\ output' \in [Fds -> 0..MaxSegments]
  BY <1>1, EventFacts, OpenFacts
<1>4. \A g \in OpenFds \ {fd} : (CanRead(g) => CanRead(g)') /\ \A x : Owes(g, x) => Owes(g, x)'
  BY <1>2, OthersKeep
<1>5. \A g \in Fds : <<g, "read">> \in active' => CanRead(g)'
  <2>. SUFFICES ASSUME NEW g \in Fds, <<g, "read">> \in active' PROVE CanRead(g)'
    OBVIOUS
  <2>1. g # fd /\ CanRead(g)
    BY <1>1 DEF EventInv, EventPending
  <2>. QED BY <2>1, <1>4 DEF CanRead
<1>6. \A g \in Fds : <<g, "write">> \in active' => g \in OpenFds' /\ output'[g] > 0
  BY <1>1, <1>2, <1>3 DEF EventInv, EventPending
<1>7. \A g \in Fds : output'[g] > 0 => g \in OpenFds'
  BY <1>2, <1>3, EventFacts
<1>8. \A g \in OpenFds' : Owes(g, output[g])'
  <2>. SUFFICES ASSUME NEW g \in OpenFds, g # fd PROVE Owes(g, output[g])'
    BY <1>2
  <2>1. PICK x \in Nat : x = output[g]
    BY EventFacts
  <2>2. Owes(g, x)' /\ output'[g] = x
    BY <2>1, <1>3, <1>4, EventFacts
  <2>. QED BY <2>2, OwesOutput
<1>9. bev' = OpenFds' /\ active' \subseteq (Fds \cup {lfd}) \X {"read", "write"}
  BY <1>1, <1>2, EventFacts
<1>. QED
  BY <1>1, <1>2, <1>3, <1>5, <1>6, <1>7, <1>8, <1>9, EventNext

\* The same when what was read, or written, changes the output of fd to y
LEMMA EventServes ==
  ASSUME NetInv, EventInv, UNCHANGED program, NEW fd \in OpenFds, NEW y \in Nat,
         NetInv', OpenFds' = OpenFds, bev' = bev,
         \A g \in OpenFds : sock'[g] = sock[g],
         \A g \in OpenFds \ {fd} : Same(sock[g]),
         output' = [output EXCEPT ![fd] = y], Owes(fd, y)',
         active' \subseteq active, server' \in {"wait", "event", "accept"},
         <<fd, "read">> \in active' => CanRead(fd)',
         <<fd, "write">> \in active' => y > 0
  PROVE  EventInv'
<1>1. y \in 0..MaxSegments
  <2>1. /\ sock'[fd] \in Clients /\ echoed' \in [Clients -> 0..MaxSegments]
        /\ sent' \in [Clients -> 0..MaxSegments] /\ unread' \in [Clients -> 0..MaxSegments]
    BY OpenFacts DEF NetInv, NetTypeOK
  <2>2. PICK e, u, s \in 0..MaxSegments :
           e = echoed'[sock'[fd]] /\ u = unread'[sock'[fd]] /\ s = sent'[sock'[fd]]
    BY <2>1
  <2>3. e + u + y <= s
    BY <2>2 DEF Owes, Fits
  <2>. QED BY <2>3, EchoAssumption
<1>2. /\ output'[fd] = y /\ \A g \in Fds : g # fd => output'[g] = output[g]
      /\ output' \in [Fds -> 0..MaxSegments]
  BY <1>1, EventFacts, OpenFacts
<1>3. \A g \in OpenFds \ {fd} : (CanRead(g) => CanRead(g)') /\ \A x : Owes(g, x) => Owes(g, x)'
  BY OthersKeep
<1>4. \A g \in Fds : <<g, "read">> \in active' => CanRead(g)'
  <2>. SUFFICES ASSUME NEW g \in Fds, <<g, "read">> \in active', g # fd PROVE CanRead(g)'
    OBVIOUS
  <2>1. CanRead(g)
    BY DEF EventInv, EventPending
  <2>. QED BY <2>1, <1>3 DEF CanRead
<1>5. \A g \in Fds : <<g, "write">> \in active' => g \in OpenFds' /\ output'[g] > 0
  BY <1>2 DEF EventInv, EventPending
<1>6. \A g \in Fds : output'[g] > 0 => g \in OpenFds'
  BY <1>2, EventFacts
<1>7. \A g \in OpenFds' : Owes(g, output[g])'
  <2>. SUFFICES ASSUME NEW g \in OpenFds PROVE Owes(g, output[g])'
    OBVIOUS
  <2>1. CASE g = fd
    BY <2>1, <1>2, OwesOutput
  <2>2. CASE g # fd
    <3>1. PICK x \in Nat : x = output[g]
      BY EventFacts
    <3>2. Owes(g, x)' /\ output'[g] = x
      BY <2>2, <3>1, <1>2, <1>3, EventFacts
    <3>. QED BY <3>2, OwesOutput
  <2>. QED BY <2>1, <2>2
<1>8. bev' = OpenFds' /\ active' \subseteq (Fds \cup {lfd}) \X {"read", "write"}
  BY EventFacts
<1>. QED
  BY <1>2, <1>4, <1>5, <1>6, <1>7, <1>8, EventNext

LEMMA EventStep ==
  ASSUME NetInv, EventInv, RunsEvents, EventServer!Server, UNCHANGED program
  PROVE  NetInv' /\ EventInv'
<1>1. CASE EventServer!Dispatch
  BY <1>1, EventGoes DEF EventServer!Dispatch, EventServer!net, net
<1>2. CASE EventServer!cb_listener
  <2>. USE <1>2 DEF EventServer!cb_listener, EventServer!Go
  <2>1. CASE queue = <<>> \/ NoFdLeft
    BY <2>1, EventGoes, EventNet DEF EventServer!net, net
  <2>2. CASE ~(queue = <<>> \/ NoFdLeft)
    <3>1. PICK fd \in Fds : fd = LowestFd /\ fd \notin OpenFds
      BY <2>2, LowestIsFree
    <3>2. Accept(fd) /\ bev' = bev \cup {fd} /\ server' = "accept" /\ UNCHANGED <<output, active>>
      BY <2>2, <3>1, EventNet
    <3>3. /\ NetInv' /\ OpenFds' = OpenFds \cup {fd} /\ \A c : Same(c)
          /\ \A g \in OpenFds : sock'[g] = sock[g]
      BY <3>1, <3>2, AcceptKeeps
    <3>4. Owes(fd, 0)'
      BY <3>1, <3>2, AcceptKeeps
    <3>5. \A g \in OpenFds : (CanRead(g) => CanRead(g)') /\ \A x : Owes(g, x) => Owes(g, x)'
      BY <3>3, OthersKeep
    <3>6. \A g \in Fds : <<g, "read">> \in active' => CanRead(g)'
      <4>. SUFFICES ASSUME NEW g \in Fds, <<g, "read">> \in active' PROVE CanRead(g)'
        OBVIOUS
      <4>1. CanRead(g)
        BY <3>2 DEF EventInv, EventPending
      <4>. QED BY <4>1, <3>5 DEF CanRead
    <3>7. \A g \in Fds : <<g, "write">> \in active' => g \in OpenFds' /\ output'[g] > 0
      BY <3>2, <3>3 DEF EventInv, EventPending
    <3>8. output'[fd] = 0 /\ \A g \in Fds : output'[g] > 0 => g \in OpenFds'
      BY <3>1, <3>2, <3>3, EventFacts
    <3>9. \A g \in OpenFds' : Owes(g, output[g])'
      <4>. SUFFICES ASSUME NEW g \in OpenFds \cup {fd} PROVE Owes(g, output[g])'
        BY <3>3
      <4>1. CASE g = fd
        BY <4>1, <3>4, <3>8, OwesOutput
      <4>2. CASE g # fd
        <5>1. PICK x \in Nat : x = output[g]
          BY <4>2, EventFacts
        <5>2. Owes(g, x)' /\ output'[g] = x
          BY <4>2, <5>1, <3>2, <3>5, EventFacts
        <5>. QED BY <5>2, OwesOutput
      <4>. QED BY <4>1, <4>2
    <3>10. bev' = OpenFds' /\ output' \in [Fds -> 0..MaxSegments]
           /\ active' \subseteq (Fds \cup {lfd}) \X {"read", "write"}
      BY <3>2, <3>3, EventFacts
    <3>. QED
      BY <3>2, <3>3, <3>6, <3>7, <3>8, <3>9, <3>10, EventNext
  <2>. QED BY <2>1, <2>2
<1>3. ASSUME NEW fd \in Fds, EventServer!ReadEvent(fd)
      PROVE  NetInv' /\ EventInv'
  <2>. USE <1>3 DEF EventServer!ReadEvent
  <2>1. fd \in OpenFds /\ Readable(fd)
    BY EventNet DEF EventInv, EventPending, CanRead
  <2>2. CASE ReadResult(fd) <= 0
    BY <2>1, <2>2, EventNet, EventCloses
  <2>3. CASE ~(ReadResult(fd) <= 0)
    <3>. USE DEF EventServer!read_cb, EventServer!Go
    <3>1. PICK x \in Nat : x = output[fd]
      BY EventFacts
    <3>2. /\ Read(fd) /\ output' = [output EXCEPT ![fd] = x + 1] /\ bev' = bev
          /\ active' = active \ {<<fd, "read">>} /\ server' \in {"wait", "event", "accept"}
      BY <2>3, <3>1, EventNet
    <3>3. Owes(fd, x)
      BY <2>1, <3>1, EventFacts
    <3>4. x <= x + 1 /\ x + 1 <= x + unread[sock[fd]] /\ x + 1 \in Nat
      BY <2>1, <2>3, ReadMeans, OpenFacts, EchoAssumption
    <3>5. /\ NetInv' /\ OpenFds' = OpenFds /\ Owes(fd, x + 1)'
          /\ \A g \in OpenFds : sock'[g] = sock[g]
          /\ \A g \in OpenFds \ {fd} : Same(sock[g])
      BY <2>1, <3>2, <3>3, <3>4, ReadKeeps
    <3>6. x + 1 > 0
      OBVIOUS
    <3>. QED
      BY <2>1, <3>2, <3>4, <3>5, <3>6, EventServes
  <2>. QED BY <2>2, <2>3
<1>4. ASSUME NEW fd \in Fds, EventServer!WriteEvent(fd)
      PROVE  NetInv' /\ EventInv'
  <2>. USE <1>4 DEF EventServer!WriteEvent
  <2>1. fd \in OpenFds
    BY EventNet DEF EventInv, EventPending
  <2>2. CASE WriteKills(fd)
    <3>1. server' = "dead" /\ UNCHANGED net /\ UNCHANGED <<bev, output, active>>
      BY <2>2, EventNet DEF EventServer!net, net
    <3>2. NetKeeps
      BY <3>1, StutterKeeps
    <3>3. NetInv' /\ OpenFds' = OpenFds /\ UNCHANGED <<peer, sock, unread>>
      BY <3>1, <3>2 DEF NetKeeps, net
    <3>4. sock[fd] \in Clients /\ peer[sock[fd]] \in {"reset", "broken"}
      BY <2>1, <2>2, OpenFacts DEF WriteKills
    <3>5. EventServer!TypeOK'
      BY <3>1, <3>3, EventNet DEF EventInv, EventServer!TypeOK, NetInv, Fds, lfd
    <3>6. EventServer!WatchesAll' /\ EventServer!EndsForAReason'
      BY <3>1, <3>3, <3>4, EventNet
      DEF EventInv, EventServer!WatchesAll, EventServer!EndsForAReason, Fds
    <3>7. EventPending'
      BY <3>1, <3>3 DEF EventInv, EventPending, Fds, CanRead, Readable
    <3>8. EventOwes'
      BY <3>1, <3>3 DEF EventInv, EventOwes, Owes, Fits, RunsEvents, net
    <3>. QED
      BY <3>3, <3>5, <3>6, <3>7, <3>8 DEF EventInv
  <2>3. CASE ~WriteKills(fd) /\ peer[sock[fd]] = "aborted"
    BY <2>1, <2>3, EventNet, EventCloses
  <2>4. CASE ~WriteKills(fd) /\ peer[sock[fd]] # "aborted"
    <3>. USE DEF EventServer!Go
    <3>1. PICK x \in Nat : x = output[fd]
      BY EventFacts
    <3>2. /\ Write(fd, x) /\ output' = [output EXCEPT ![fd] = 0] /\ bev' = bev
          /\ active' = active \ {<<fd, "write">>} /\ server' \in {"wait", "event", "accept"}
      BY <2>4, <3>1, EventNet
    <3>3. Owes(fd, x)
      BY <2>1, <3>1, EventFacts
    <3>4. /\ NetInv' /\ OpenFds' = OpenFds /\ Owes(fd, 0)'
          /\ \A g \in OpenFds : sock'[g] = sock[g]
          /\ \A g \in OpenFds \ {fd} : Same(sock[g])
          /\ Readable(fd) => Readable(fd)'
      BY <2>1, <3>2, <3>3, WriteKeeps
    <3>5. <<fd, "read">> \in active' => CanRead(fd)'
      BY <2>1, <3>2, <3>4 DEF EventInv, EventPending, CanRead
    <3>6. 0 \in Nat /\ ~(<<fd, "write">> \in active')
      BY <3>2
    <3>. QED
      BY <2>1, <3>2, <3>4, <3>5, <3>6, EventServes
  <2>. QED BY <2>2, <2>3, <2>4
<1>. QED
  BY <1>1, <1>2, <1>3, <1>4, EventNet DEF EventServer!Server

-----------------------------------------------------------------------------
(* mul_pthread_sever.c *)

LEMMA ThreadFacts ==
  ASSUME NetInv, ThreadInv
  PROVE  /\ server \in {"call", "accept", "dead"}
         /\ connfd \in Fds \cup {lfd} /\ ts \in Seq(Entries)
         /\ Len(ts) \in Nat /\ DOMAIN ts = 1..Len(ts) /\ ts \in [1..Len(ts) -> Entries]
         /\ 0 \in 0..MaxSegments /\ lfd \notin Fds /\ lfd \notin OpenFds /\ OpenFds \subseteq Fds
<1>1. lfd \notin Fds /\ 0 \in 0..MaxSegments /\ OpenFds \subseteq Fds
  BY EchoAssumption DEF lfd, Fds, OpenFds
<1>2. ts \in Seq(Entries)
  BY ThreadNet DEF ThreadInv, ThreadServer!TypeOK, Entries
<1>. QED
  BY <1>1, <1>2, ThreadNet DEF ThreadInv, ThreadServer!TypeOK

LEMMA ThreadTypes ==
  ASSUME NetInv', server' \in {"call", "accept", "dead"}, connfd' \in Fds \cup {lfd},
         ts' \in Seq(Entries)
  PROVE  ThreadServer!TypeOK'
  BY ThreadNet DEF ThreadServer!TypeOK, NetInv, Entries, Fds, lfd

LEMMA ThreadInit ==
  ASSUME ThreadServer!Init, RunsThreads
  PROVE  NetInv /\ ThreadInv
<1>. USE DEF ThreadServer!Init
<1>1. NetInv /\ OpenFds = {}
  BY InitNetInv, ThreadNet
<1>2. ThreadServer!TypeOK
  BY <1>1, ThreadNet, EchoAssumption DEF ThreadServer!TypeOK, NetInv
<1>3. ThreadServer!EndsForAReason
  BY DEF ThreadServer!EndsForAReason
<1>4. ThreadPending /\ ThreadOwes
  BY <1>1 DEF ThreadPending, ThreadOwes
<1>. QED
  BY <1>1, <1>2, <1>3, <1>4 DEF ThreadInv

LEMMA ThreadOthers ==
  ASSUME NetInv, ThreadInv, NetKeeps, UNCHANGED <<program, main>>
  PROVE  ThreadInv'
<1>. UNCHANGED <<program, server, connfd, ts>>
  BY DEF main, threadVars
<1>1. NetInv' /\ OpenFds' = OpenFds
  BY DEF NetKeeps
<1>2. ThreadServer!TypeOK'
  BY <1>1, ThreadFacts, ThreadTypes
<1>3. NoFdLeft' = NoFdLeft
  BY <1>1 DEF NoFdLeft, Fds
<1>4. ThreadServer!EndsForAReason'
  BY <1>3, ThreadNet DEF ThreadInv, ThreadServer!EndsForAReason, NetKeeps
<1>5. ThreadPending'
  BY <1>1 DEF ThreadInv, ThreadPending, Fds
<1>6. ThreadOwes'
  <2>1. \A k \in DOMAIN ts, fd \in Fds, x \in 0..MaxSegments :
          ts[k].at # "ended" /\ ts[k].connfd = fd /\ ts[k].n = x => Owes(fd, x)'
    BY EchoAssumption DEF ThreadInv, ThreadPending, ThreadOwes, NetKeeps
  <2>. QED
    BY <2>1 DEF ThreadOwes, Fds
<1>. QED
  BY <1>2, <1>4, <1>5, <1>6 DEF ThreadInv

\* A step of main that leaves the connections as they are
LEMMA ThreadMainMoves ==
  ASSUME NetInv, ThreadInv, UNCHANGED net, UNCHANGED <<program, ts>>,
         server' \in {"accept", "dead"}, connfd' \in Fds \cup {lfd}, connfd' \notin OpenFds,
         server' = "accept" => connfd' \in Fds,
         server' = "dead" => NoFdLeft \/ \E c \in Clients : peer[c] \in {"reset", "broken"}
  PROVE  NetInv' /\ ThreadInv' /\ NothingCut
<1>1. NetKeeps
  BY StutterKeeps
<1>2. NetInv' /\ OpenFds' = OpenFds /\ UNCHANGED <<peer, sock>>
  BY <1>1 DEF NetKeeps, net
<1>3. ThreadServer!TypeOK'
  BY <1>2, ThreadFacts, ThreadTypes
<1>4. NoFdLeft' = NoFdLeft
  BY <1>2 DEF NoFdLeft, Fds
<1>5. ThreadServer!EndsForAReason'
  BY <1>2, <1>4, ThreadNet DEF ThreadServer!EndsForAReason
<1>6. ThreadPending'
  BY <1>2 DEF ThreadInv, ThreadPending, Fds
<1>7. ThreadOwes'
  <2>1. \A k \in DOMAIN ts, fd \in Fds, x \in 0..MaxSegments :
          ts[k].at # "ended" /\ ts[k].connfd = fd /\ ts[k].n = x => Owes(fd, x)'
    BY <1>1, EchoAssumption DEF ThreadInv, ThreadPending, ThreadOwes, NetKeeps
  <2>. QED
    BY <2>1 DEF ThreadOwes, Fds
<1>8. NothingCut
  BY <1>2 DEF NothingCut
<1>. QED
  BY <1>2, <1>3, <1>5, <1>6, <1>7, <1>8 DEF ThreadInv

LEMMA ThreadAccepts ==
  ASSUME NetInv, ThreadInv, ThreadServer!AcceptReturns, UNCHANGED program
  PROVE  NetInv' /\ ThreadInv' /\ NothingCut
<1>1. PICK fd \in Fds : fd = connfd /\ fd \notin OpenFds
  BY DEF ThreadServer!AcceptReturns, ThreadInv, ThreadPending
<1>2. Accept(fd) /\ connfd' = lfd /\ server' \in {"call", "dead"}
      /\ (server' = "dead" => ~(Len(ts) < TsSize))
  BY <1>1, ThreadNet DEF ThreadServer!AcceptReturns
<1>3. /\ NetInv' /\ OpenFds' = OpenFds \cup {fd} /\ \A c : Same(c)
      /\ \A g \in OpenFds : sock'[g] = sock[g]
  BY <1>1, <1>2, AcceptKeeps
<1>4. Owes(fd, 0)'
  BY <1>1, <1>2, AcceptKeeps
<1>5. \A g \in OpenFds : \A x : Owes(g, x) => Owes(g, x)'
  BY <1>3, OthersKeep
<1>. DEFINE r == [connfd |-> fd, at |-> "read", n |-> 0]
<1>6. r \in Entries /\ r.connfd = fd /\ r.at = "read" /\ r.n = 0
  BY <1>1, ThreadFacts DEF Entries
<1>. HIDE DEF r
<1>7. PICK t \in Seq(Entries) : t = Append(ts, r)
  BY <1>6, ThreadFacts, AppendProperties
<1>17. Len(ts) \in Nat
  BY ThreadFacts
<1>8. PICK m \in Nat : m = Len(ts)
  BY <1>17
<1>9. /\ Len(t) = m + 1 /\ t[m + 1] = r /\ \A k \in 1..m : t[k] = ts[k]
      /\ DOMAIN t = 1..(m + 1) /\ DOMAIN ts = 1..m
  BY <1>6, <1>7, <1>8, ThreadFacts, AppendProperties
<1>10. ts' = t
  BY <1>1, <1>7 DEF r, ThreadServer!AcceptReturns
<1>11. \A k \in DOMAIN t : (k \in DOMAIN ts /\ t[k] = ts[k]) \/ (k = m + 1 /\ t[k] = r)
  BY <1>9
<1>12. ThreadServer!TypeOK'
  BY <1>2, <1>3, <1>10, ThreadTypes
<1>13. ThreadServer!EndsForAReason'
  <2>1. server' = "dead" => Len(t) > TsSize
    BY <1>2, <1>8, <1>9, ServersAssumption
  <2>. QED
    BY <2>1, <1>10 DEF ThreadServer!EndsForAReason
<1>14. ThreadPending'
  <2>1. \A k \in DOMAIN ts : ts[k].at # "ended" => ts[k].connfd # fd
    BY <1>1 DEF ThreadInv, ThreadPending
  <2>2. \A j, k \in DOMAIN t :
          t[j].at # "ended" /\ t[k].at # "ended" /\ t[j].connfd = t[k].connfd => j = k
    BY <1>6, <1>11, <2>1 DEF ThreadInv, ThreadPending
  <2>3. \A k \in DOMAIN t : t[k].at # "ended" => t[k].connfd \in OpenFds'
    BY <1>3, <1>6, <1>11 DEF ThreadInv, ThreadPending
  <2>4. \A g \in OpenFds' : \E k \in DOMAIN t : t[k].at # "ended" /\ t[k].connfd = g
    <3>. SUFFICES ASSUME NEW g \in OpenFds'
                  PROVE  \E k \in DOMAIN t : t[k].at # "ended" /\ t[k].connfd = g
      OBVIOUS
    <3>1. CASE g = fd
      <4>1. m + 1 \in DOMAIN t
        BY <1>9
      <4>. QED BY <3>1, <4>1, <1>6, <1>9
    <3>2. CASE g # fd
      <4>1. PICK k \in DOMAIN ts : ts[k].at # "ended" /\ ts[k].connfd = g
        BY <3>2, <1>3 DEF ThreadInv, ThreadPending
      <4>2. k \in DOMAIN t /\ t[k] = ts[k]
        BY <1>9
      <4>. QED BY <4>1, <4>2
    <3>. QED BY <3>1, <3>2
  <2>5. \A k \in DOMAIN t : t[k].at = "read" => t[k].n = 0
    BY <1>6, <1>11 DEF ThreadInv, ThreadPending
  <2>6. connfd' \notin OpenFds'
    BY <1>1, <1>2, <1>3, ThreadFacts
  <2>. QED
    BY <1>2, <1>10, <2>2, <2>3, <2>4, <2>5, <2>6 DEF ThreadPending
<1>15. ThreadOwes'
  <2>1. \A k \in DOMAIN t, g \in Fds, x \in 0..MaxSegments :
          t[k].at # "ended" /\ t[k].connfd = g /\ t[k].n = x => Owes(g, x)'
    <3>. SUFFICES ASSUME NEW k \in DOMAIN t, NEW g \in Fds, NEW x \in 0..MaxSegments,
                         t[k].at # "ended", t[k].connfd = g, t[k].n = x
                  PROVE  Owes(g, x)'
      OBVIOUS
    <3>1. CASE k = m + 1 /\ t[k] = r
      BY <3>1, <1>4, <1>6
    <3>2. CASE k \in DOMAIN ts /\ t[k] = ts[k]
      BY <3>2, <1>5 DEF ThreadInv, ThreadPending, ThreadOwes
    <3>. QED BY <3>1, <3>2, <1>11
  <2>. QED
    BY <2>1, <1>10 DEF ThreadOwes, Fds
<1>16. NothingCut
  BY <1>3 DEF NothingCut, Same
<1>. QED
  BY <1>3, <1>12, <1>13, <1>14, <1>15, <1>16 DEF ThreadInv

\* The thread of entry k, whose connection is fd, goes on as r
LEMMA ThreadServes ==
  ASSUME NetInv, ThreadInv, NetInv', UNCHANGED <<program, server, connfd>>, server # "dead",
         NEW k \in DOMAIN ts, NEW fd \in OpenFds, ts[k].at # "ended", ts[k].connfd = fd,
         NEW r \in Entries, r.connfd = fd, r.at = "read" => r.n = 0,
         ts' = [ts EXCEPT ![k] = r],
         r.at = "ended" => OpenFds' = OpenFds \ {fd},
         r.at # "ended" => OpenFds' = OpenFds,
         \A g \in OpenFds \ {fd} : sock'[g] = sock[g] /\ Same(sock[g]),
         NEW y \in 0..MaxSegments, r.n = y, r.at # "ended" => Owes(fd, y)'
  PROVE  ThreadInv'
<1>1. \A g \in OpenFds \ {fd} : \A x : Owes(g, x) => Owes(g, x)'
  BY OthersKeep
<1>12. Len(ts) \in Nat
  BY ThreadFacts
<1>2. PICK m \in Nat : m = Len(ts)
  BY <1>12
<1>3. ts \in [1..m -> Entries] /\ DOMAIN ts = 1..m
  BY <1>2, ThreadFacts
<1>4. PICK t \in [1..m -> Entries] : t = [ts EXCEPT ![k] = r]
  BY <1>3
<1>5. t[k] = r /\ (\A j \in DOMAIN ts : j # k => t[j] = ts[j]) /\ DOMAIN t = DOMAIN ts
  BY <1>3, <1>4
<1>13. ts' = t
  BY <1>4
<1>14. t \in Seq(Entries)
  <2>1. ts \in Seq(Entries) /\ k \in 1..Len(ts)
    BY ThreadFacts
  <2>. QED
    BY <2>1, <1>4, ExceptSeq
<1>6. ts' = t /\ t \in Seq(Entries)
  BY <1>13, <1>14
<1>7. \A j \in DOMAIN ts : j # k /\ ts[j].at # "ended" => ts[j].connfd \in OpenFds \ {fd}
  BY DEF ThreadInv, ThreadPending
<1>8. ThreadServer!TypeOK'
  <2>1. server' \in {"call", "accept", "dead"} /\ connfd' \in Fds \cup {lfd}
    BY ThreadFacts
  <2>. QED
    BY <1>6, <2>1, ThreadTypes
<1>9. ThreadServer!EndsForAReason'
  BY DEF ThreadServer!EndsForAReason
<1>10. ThreadPending'
  <2>1. \A i1, j \in DOMAIN t :
          t[i1].at # "ended" /\ t[j].at # "ended" /\ t[i1].connfd = t[j].connfd => i1 = j
    BY <1>5, <1>7 DEF ThreadInv, ThreadPending
  <2>2. \A j \in DOMAIN t : t[j].at # "ended" => t[j].connfd \in OpenFds'
    BY <1>5, <1>7
  <2>3. \A g \in OpenFds' : \E j \in DOMAIN t : t[j].at # "ended" /\ t[j].connfd = g
    <3>. SUFFICES ASSUME NEW g \in OpenFds'
                  PROVE  \E j \in DOMAIN t : t[j].at # "ended" /\ t[j].connfd = g
      OBVIOUS
    <3>1. CASE g = fd
      BY <3>1, <1>5
    <3>2. CASE g # fd
      BY <3>2, <1>5 DEF ThreadInv, ThreadPending
    <3>. QED BY <3>1, <3>2
  <2>4. \A j \in DOMAIN t : t[j].at = "read" => t[j].n = 0
    BY <1>5 DEF ThreadInv, ThreadPending
  <2>5. connfd' \notin OpenFds' /\ (server' = "accept" => connfd' \in Fds)
    BY DEF ThreadInv, ThreadPending
  <2>. QED
    BY <1>6, <2>1, <2>2, <2>3, <2>4, <2>5 DEF ThreadPending, Fds
<1>11. ThreadOwes'
  <2>1. \A j \in DOMAIN t, g \in Fds, x \in 0..MaxSegments :
          t[j].at # "ended" /\ t[j].connfd = g /\ t[j].n = x => Owes(g, x)'
    <3>. SUFFICES ASSUME NEW j \in DOMAIN t, NEW g \in Fds, NEW x \in 0..MaxSegments,
                         t[j].at # "ended", t[j].connfd = g, t[j].n = x
                  PROVE  Owes(g, x)'
      OBVIOUS
    <3>1. CASE j = k
      BY <3>1, <1>5
    <3>2. CASE j # k
      BY <3>2, <1>1, <1>5, <1>7 DEF ThreadInv, ThreadOwes
    <3>. QED BY <3>1, <3>2
  <2>. QED
    BY <2>1, <1>6 DEF ThreadOwes, Fds
<1>. QED
  BY <1>8, <1>9, <1>10, <1>11 DEF ThreadInv

\* The thread of entry k of t goes on at a with y segments, or is done
Moved(t, k, a, y) == [t EXCEPT ![k].at = a, ![k].n = y]
Ended(t, k) == [t EXCEPT ![k].at = "ended"]

\* What these make of the entry
LEMMA EntryMoves ==
  ASSUME NEW m \in Nat, NEW t \in [1..m -> Entries], NEW k \in 1..m,
         NEW a \in {"read", "write"}, NEW y \in 0..MaxSegments
  PROVE  \E r \in Entries : /\ r.connfd = t[k].connfd /\ r.at = a /\ r.n = y
                            /\ Moved(t, k, a, y) = [t EXCEPT ![k] = r]
<1>1. PICK e \in Entries : e = t[k]
  OBVIOUS
<1>2. /\ [e EXCEPT !.at = a, !.n = y] \in Entries
      /\ [e EXCEPT !.at = a, !.n = y].connfd = e.connfd
      /\ [e EXCEPT !.at = a, !.n = y].at = a
      /\ [e EXCEPT !.at = a, !.n = y].n = y
  BY DEF Entries
<1>3. Moved(t, k, a, y) = [t EXCEPT ![k] = [e EXCEPT !.at = a, !.n = y]]
  BY <1>1 DEF Moved
<1>. QED
  BY <1>1, <1>2, <1>3

LEMMA EntryEnds ==
  ASSUME NEW m \in Nat, NEW t \in [1..m -> Entries], NEW k \in 1..m
  PROVE  \E r \in Entries : /\ r.connfd = t[k].connfd /\ r.at = "ended" /\ r.n = t[k].n
                            /\ Ended(t, k) = [t EXCEPT ![k] = r]
<1>1. PICK e \in Entries : e = t[k]
  OBVIOUS
<1>2. /\ [e EXCEPT !.at = "ended"] \in Entries
      /\ [e EXCEPT !.at = "ended"].connfd = e.connfd
      /\ [e EXCEPT !.at = "ended"].at = "ended"
      /\ [e EXCEPT !.at = "ended"].n = e.n
  BY DEF Entries
<1>3. Ended(t, k) = [t EXCEPT ![k] = [e EXCEPT !.at = "ended"]]
  BY <1>1 DEF Ended
<1>. QED
  BY <1>1, <1>2, <1>3

LEMMA ThreadStep ==
  ASSUME NetInv, ThreadInv, ThreadServer!Server, UNCHANGED program
  PROVE  NetInv' /\ ThreadInv' /\ NothingCut
<1>1. CASE ThreadServer!AcceptCall
  <2>. USE <1>1 DEF ThreadServer!AcceptCall
  <2>1. CASE NoFdLeft
    <3>1. server' = "dead" /\ UNCHANGED net /\ UNCHANGED <<connfd, ts>>
      BY <2>1, ThreadNet DEF ThreadServer!Die, ThreadServer!net, net
    <3>2. connfd \notin OpenFds /\ connfd \in Fds \cup {lfd}
      BY ThreadFacts DEF ThreadInv, ThreadPending
    <3>. QED
      BY <2>1, <3>1, <3>2, ThreadMainMoves
  <2>2. CASE ~NoFdLeft
    <3>1. server' = "accept" /\ connfd' = LowestFd /\ UNCHANGED net /\ UNCHANGED ts
      BY <2>2, ThreadNet DEF ThreadServer!net, net
    <3>2. LowestFd \in Fds /\ LowestFd \notin OpenFds
      BY <2>2, LowestIsFree
    <3>. QED
      BY <3>1, <3>2, ThreadMainMoves
  <2>. QED BY <2>1, <2>2
<1>2. CASE ThreadServer!AcceptReturns
  BY <1>2, ThreadAccepts
<1>3. ASSUME NEW k \in DOMAIN ts, ThreadServer!Thread(k)
      PROVE  NetInv' /\ ThreadInv' /\ NothingCut
  <2>0. /\ server # "dead" /\ ts[k] \in Entries /\ ts[k].at # "ended"
        /\ ts \in [1..Len(ts) -> Entries] /\ k \in 1..Len(ts) /\ Len(ts) \in Nat
        /\ 0 \in 0..MaxSegments
    BY <1>3, ThreadFacts
    DEF ThreadServer!Thread, ThreadServer!ReadEnd, ThreadServer!ReadError,
        ThreadServer!ReadData, ThreadServer!WriteBack
  <2>1. PICK fd \in OpenFds : fd = ts[k].connfd
    BY <2>0 DEF ThreadInv, ThreadPending
  <2>2. PICK x \in 0..MaxSegments : x = ts[k].n
    BY <2>0 DEF Entries
  <2>3. Owes(fd, x) /\ x \in Nat /\ fd \in Fds
    BY <2>0, <2>1, <2>2, OpenFacts, EchoAssumption DEF ThreadInv, ThreadOwes
  <2>4. ts[k].at = "read" => x = 0
    BY <2>2 DEF ThreadInv, ThreadPending
  <2>5. CASE ThreadServer!ReadEnd(k)
    <3>1. /\ Readable(fd) /\ ReadResult(fd) = 0 /\ Close(fd) /\ UNCHANGED <<server, connfd>>
          /\ ts' = Ended(ts, k) /\ ts[k].at = "read"
      BY <2>1, <2>5, ThreadNet DEF ThreadServer!ReadEnd, Ended
    <3>2. PICK r \in Entries : /\ r.connfd = ts[k].connfd /\ r.at = "ended" /\ r.n = ts[k].n
                               /\ Ended(ts, k) = [ts EXCEPT ![k] = r]
      BY <2>0, EntryEnds
    <3>3. ts' = [ts EXCEPT ![k] = r] /\ r.connfd = fd /\ r.n = x
      BY <2>1, <2>2, <3>1, <3>2
    <3>4. /\ NetInv' /\ OpenFds' = OpenFds \ {fd}
          /\ \A g \in OpenFds \ {fd} : sock'[g] = sock[g] /\ Same(sock[g])
      BY <3>1, CloseKeeps
    <3>5. NothingCut
      BY <2>3, <2>4, <3>1, CloseCutsNothing
    <3>7. /\ r.at = "read" => r.n = 0
          /\ r.at = "ended" => OpenFds' = OpenFds \ {fd}
          /\ r.at # "ended" => OpenFds' = OpenFds
          /\ r.at # "ended" => Owes(fd, x)'
      BY <3>2, <3>4
    <3>8. /\ UNCHANGED <<program, server, connfd>>
          /\ server # "dead" /\ ts[k].at # "ended" /\ ts[k].connfd = fd
      BY <2>0, <2>1, <3>1
    <3>6. ThreadInv'
      BY <3>3, <3>4, <3>7, <3>8, ThreadServes
    <3>. QED
      BY <3>4, <3>5, <3>6
  <2>6. CASE ThreadServer!ReadError(k)
    <3>1. /\ ReadResult(fd) = -1 /\ Read(fd) /\ UNCHANGED <<server, connfd, ts>>
          /\ ts[k].at = "read"
      BY <2>1, <2>6, ThreadNet DEF ThreadServer!ReadError, ThreadServer!main
    <3>2. unread[sock[fd]] = 0
      BY <3>1, ReadMeans DEF Read
    <3>7. x <= x /\ x <= x + unread[sock[fd]] /\ x = x + unread[sock[fd]]
      BY <2>3, <3>2
    <3>3. /\ NetInv' /\ OpenFds' = OpenFds /\ Owes(fd, x)'
          /\ \A g \in OpenFds \ {fd} : sock'[g] = sock[g] /\ Same(sock[g])
      BY <2>3, <3>1, <3>7, ReadKeeps
    <3>4. PICK r \in Entries : r = ts[k]
      BY <2>0
    <3>5. ts' = [ts EXCEPT ![k] = r] /\ r.connfd = fd /\ r.n = x /\ r.at = "read"
      BY <2>0, <2>1, <2>2, <3>1, <3>4
    <3>8. r.at = "read" => r.n = 0
      BY <2>4, <3>1, <3>5
    <3>6. NothingCut
      BY <3>1, ReadDropsNobody DEF NobodyDropped, NothingCut
    <3>9. ThreadInv'
      BY <2>0, <2>1, <3>1, <3>3, <3>5, <3>8, ThreadServes
    <3>. QED
      BY <3>3, <3>6, <3>9
  <2>7. CASE ThreadServer!ReadData(k)
    <3>1. /\ ReadResult(fd) > 0 /\ Read(fd) /\ UNCHANGED <<server, connfd>>
          /\ ts' = Moved(ts, k, "write", ReadResult(fd))
          /\ ts[k].at = "read"
      BY <2>1, <2>7, ThreadNet DEF ThreadServer!ReadData, Moved
    <3>2. PICK y \in 0..MaxSegments : y = unread[sock[fd]] /\ y = ReadResult(fd)
      BY <3>1, ReadMeans, OpenFacts DEF Read
    <3>3. PICK r \in Entries :
             /\ r.connfd = ts[k].connfd /\ r.at = "write" /\ r.n = y
             /\ Moved(ts, k, "write", y) = [ts EXCEPT ![k] = r]
      BY <2>0, EntryMoves
    <3>4. ts' = [ts EXCEPT ![k] = r] /\ r.connfd = fd
      BY <2>1, <3>1, <3>2, <3>3
    <3>5. y \in Nat /\ x <= y /\ y <= x + y /\ y = x + y
      BY <2>3, <2>4, <3>1, EchoAssumption
    <3>6. /\ NetInv' /\ OpenFds' = OpenFds /\ Owes(fd, y)'
          /\ \A g \in OpenFds \ {fd} : sock'[g] = sock[g] /\ Same(sock[g])
      BY <2>3, <2>4, <3>1, <3>2, <3>5, ReadKeeps
    <3>7. NothingCut
      BY <3>1, ReadDropsNobody DEF NobodyDropped, NothingCut
    <3>8. ThreadInv'
      BY <2>0, <2>1, <3>1, <3>3, <3>4, <3>6, ThreadServes
    <3>. QED
      BY <3>6, <3>7, <3>8
  <2>8. CASE ThreadServer!WriteBack(k) /\ WriteKills(fd)
    <3>1. server' = "dead" /\ UNCHANGED net /\ UNCHANGED <<connfd, ts>>
      BY <2>1, <2>8, ThreadNet
        DEF ThreadServer!WriteBack, ThreadServer!Die, ThreadServer!net, net
    <3>2. sock[fd] \in Clients /\ peer[sock[fd]] \in {"reset", "broken"}
      BY <2>8, OpenFacts DEF WriteKills
    <3>3. connfd \notin OpenFds /\ connfd \in Fds \cup {lfd}
      BY ThreadFacts DEF ThreadInv, ThreadPending
    <3>. QED
      BY <3>1, <3>2, <3>3, ThreadMainMoves
  <2>9. CASE ThreadServer!WriteBack(k) /\ ~WriteKills(fd)
    <3>1. /\ Write(fd, x) /\ UNCHANGED <<server, connfd>>
          /\ ts' = Moved(ts, k, "read", 0)
      BY <2>1, <2>2, <2>9, ThreadNet DEF ThreadServer!WriteBack, Moved
    <3>2. PICK r \in Entries :
             /\ r.connfd = ts[k].connfd /\ r.at = "read" /\ r.n = 0
             /\ Moved(ts, k, "read", 0) = [ts EXCEPT ![k] = r]
      BY <2>0, EntryMoves
    <3>3. ts' = [ts EXCEPT ![k] = r] /\ r.connfd = fd
      BY <2>1, <3>1, <3>2
    <3>4. /\ NetInv' /\ OpenFds' = OpenFds /\ Owes(fd, 0)'
          /\ \A g \in OpenFds \ {fd} : sock'[g] = sock[g] /\ Same(sock[g])
      BY <2>3, <3>1, WriteKeeps
    <3>5. NothingCut
      BY <3>1, WriteDropsNobody DEF NobodyDropped, NothingCut
    <3>6. ThreadInv'
      BY <2>0, <2>1, <3>1, <3>2, <3>3, <3>4, ThreadServes
    <3>. QED
      BY <3>4, <3>5, <3>6
  <2>. QED
    BY <1>3, <2>5, <2>6, <2>7, <2>8, <2>9 DEF ThreadServer!Thread
<1>. QED
  BY <1>1, <1>2, <1>3 DEF ThreadServer!Server, ThreadServer!Main

-----------------------------------------------------------------------------
(* select_sever.c and select_effective.c *)

\* The tables
SelectTables ==
  /\ maxfd \in Fds \cup {lfd}
  /\ client \in [SelectServer!Slots -> Fds \cup {-1}] /\ maxi \in -1..(FD_SETSIZE - 1)
  /\ SelectServer!WatchesAll

LEMMA SelectFacts ==
  ASSUME NetInv, SelectInv
  PROVE  /\ server \in {"select", "accept", "scan", "read", "write", "dead"}
         /\ allset = OpenFds \cup {lfd} /\ rset \subseteq Fds \cup {lfd}
         /\ nready \in 0..(MaxFds + 1)
         /\ i \in 0..(MaxFds + FD_SETSIZE + 1) /\ i \in Nat
         /\ n \in 0..MaxSegments /\ n \in Nat /\ 0 \in 0..MaxSegments
         /\ SelectTables
  BY SelectNet, EchoAssumption, ServersAssumption
  DEF SelectInv, SelectServer!TypeOK, SelectServer!WatchesAll, SelectTables

LEMMA SelectTypes ==
  ASSUME NetInv', SelectTables',
         server' \in {"select", "accept", "scan", "read", "write", "dead"},
         rset' \subseteq Fds \cup {lfd}, nready' \in 0..(MaxFds + 1),
         i' \in 0..(MaxFds + FD_SETSIZE + 1), n' \in 0..MaxSegments
  PROVE  SelectServer!TypeOK' /\ SelectServer!WatchesAll'
<1>1. SelectServer!WatchesAll'
  BY DEF SelectTables
<1>2. allset' \subseteq Fds \cup {lfd}
  BY <1>1, SelectNet DEF SelectServer!WatchesAll, OpenFds, lfd
<1>. QED
  BY <1>1, <1>2, SelectNet
    DEF SelectServer!TypeOK, NetInv, SelectTables, Fds, lfd, SelectServer!Slots

\* Where the scan finds which descriptor
LEMMA SelectPlaces ==
  ASSUME NetInv, SelectInv
  PROVE  /\ SelectServer!FirstIndex \in Nat /\ SelectServer!LastIndex \in Int
         /\ \A s \in SelectServer!FirstIndex..SelectServer!LastIndex :
              s \in 0..(MaxFds + FD_SETSIZE) /\ s \in Nat /\ SelectServer!FdAt(s) # lfd
         /\ \A s, t \in SelectServer!FirstIndex..SelectServer!LastIndex :
              SelectServer!FdAt(s) = SelectServer!FdAt(t) /\ SelectServer!FdAt(s) \in OpenFds
                => s = t
<1>1. /\ maxfd \in Fds \cup {lfd} /\ maxi \in -1..(FD_SETSIZE - 1)
      /\ client \in [SelectServer!Slots -> Fds \cup {-1}] /\ SelectServer!WatchesAll
  BY SelectFacts DEF SelectTables
<1>2. MaxFds \in Nat /\ FD_SETSIZE \in Nat /\ FD_SETSIZE >= 1
  BY EchoAssumption, ServersAssumption
<1>3. CASE SelectServer!Effective
  <2>1. /\ SelectServer!FirstIndex = 0 /\ SelectServer!LastIndex = maxi
        /\ \A s : SelectServer!FdAt(s) = client[s]
    BY <1>3 DEF SelectServer!FirstIndex, SelectServer!LastIndex, SelectServer!FdAt
  <2>2. \A s \in 0..maxi : s \in SelectServer!Slots /\ s \in 0..(MaxFds + FD_SETSIZE) /\ s \in Nat
    BY <1>1, <1>2 DEF SelectServer!Slots
  <2>3. \A s \in SelectServer!Slots : client[s] # lfd
    BY <1>1, <1>2 DEF Fds, lfd
  <2>4. \A s, t \in SelectServer!Slots : client[s] = client[t] /\ client[s] \in OpenFds => s = t
    BY <1>1, <1>2, <1>3 DEF SelectServer!WatchesAll, OpenFds, Fds
  <2>. QED
    BY <1>1, <2>1, <2>2, <2>3, <2>4
<1>4. CASE ~SelectServer!Effective
  <2>1. /\ SelectServer!FirstIndex = 1 /\ SelectServer!LastIndex = maxfd
        /\ \A s : SelectServer!FdAt(s) = s
    BY <1>4, SelectNet
      DEF SelectServer!FirstIndex, SelectServer!LastIndex, SelectServer!FdAt, lfd
  <2>2. maxfd \in 0..MaxFds
    BY <1>1, <1>2 DEF Fds, lfd
  <2>3. \A s \in 1..maxfd : s \in 0..(MaxFds + FD_SETSIZE) /\ s \in Nat /\ s # lfd
    BY <1>2, <2>2 DEF lfd
  <2>. QED
    BY <2>1, <2>2, <2>3
<1>. QED BY <1>3, <1>4

LEMMA SelectNextTurn ==
  ASSUME NetInv', SelectTables', SelectServer!NextTurn,
         \A fd \in OpenFds' : Owes(fd, 0)'
  PROVE  SelectInv'
<1>1. server' = "select" /\ rset' = {} /\ nready' = 0 /\ i' = 0 /\ n' = 0
  BY DEF SelectServer!NextTurn
<1>2. 0 \in 0..(MaxFds + 1) /\ 0 \in 0..(MaxFds + FD_SETSIZE + 1) /\ 0 \in 0..MaxSegments
  BY EchoAssumption, ServersAssumption
<1>3. SelectServer!TypeOK' /\ SelectServer!WatchesAll'
  BY <1>1, <1>2, SelectTypes
<1>4. SelectServer!EndsForAReason' /\ SelectPending' /\ SelectOwes'
  BY <1>1 DEF SelectServer!EndsForAReason, SelectPending, SelectOwes
<1>. QED
  BY <1>3, <1>4 DEF SelectInv

\* The scan goes on from k
LEMMA SelectScans ==
  ASSUME NetInv, SelectInv, NetInv', SelectTables', UNCHANGED program,
         \A fd \in OpenFds' : Owes(fd, 0)',
         NEW k \in Nat, k >= SelectServer!FirstIndex, NEW left \in 1..(MaxFds + 1),
         SelectServer!ScanFrom(k, left),
         SelectServer!LastIndex' = SelectServer!LastIndex,
         \A s \in k..SelectServer!LastIndex : SelectServer!FdAt(s)' = SelectServer!FdAt(s),
         \A fd \in rset : (\E s \in k..SelectServer!LastIndex : SelectServer!FdAt(s) = fd)
            => CanRead(fd)'
  PROVE  SelectInv'
<1>1. PICK R : R = {s \in k..SelectServer!LastIndex : SelectServer!FdAt(s) \in rset}
  OBVIOUS
<1>2. /\ R = {} => SelectServer!NextTurn
      /\ R # {} => /\ server' = "read" /\ i' = SelectServer!Min(R) /\ n' = 0
                   /\ nready' = left /\ rset' = rset
  BY <1>1 DEF SelectServer!ScanFrom
<1>3. CASE R = {}
  BY <1>2, <1>3, SelectNextTurn
<1>4. CASE R # {}
  <2>1. SelectServer!FirstIndex \in Nat /\ SelectServer!LastIndex \in Int
    BY SelectPlaces
  <2>2. R \subseteq Nat
    BY <1>1, <2>1
  <2>3. SelectServer!Min(R) = Min(R)
    BY DEF SelectServer!Min, Min
  <2>4. PICK j \in R : j = SelectServer!Min(R)
    BY <1>4, <2>2, <2>3, MinIs
  <2>5. /\ j \in k..SelectServer!LastIndex /\ SelectServer!FdAt(j) \in rset
        /\ j \in SelectServer!FirstIndex..SelectServer!LastIndex
    BY <1>1, <2>1
  <2>6. PICK g : g = SelectServer!FdAt(j)
    OBVIOUS
  <2>7. CanRead(g)' /\ SelectServer!FdAt(j)' = g
    BY <2>5, <2>6
  <2>8. /\ server' = "read" /\ i' = j /\ n' = 0 /\ nready' = left /\ rset' = rset
    BY <1>2, <1>4, <2>4
  <2>9. SelectServer!FdAt(i)' = g
    BY <2>7, <2>8 DEF SelectServer!FdAt
  <2>10. g \in OpenFds' /\ Readable(g)'
    BY <2>7 DEF CanRead
  <2>11. SelectServer!FirstIndex' = SelectServer!FirstIndex
    BY SelectNet DEF SelectServer!FirstIndex, SelectServer!Effective, SelectServer!lfd, lfd
  <2>12. \A s \in (j + 1)..SelectServer!LastIndex :
           SelectServer!FdAt(s)' \in rset => CanRead(SelectServer!FdAt(s))'
    <3>. SUFFICES ASSUME NEW s \in (j + 1)..SelectServer!LastIndex,
                         SelectServer!FdAt(s)' \in rset
                  PROVE  CanRead(SelectServer!FdAt(s))'
      OBVIOUS
    <3>1. s \in k..SelectServer!LastIndex
      BY <2>1, <2>5
    <3>2. PICK h : h = SelectServer!FdAt(s)
      OBVIOUS
    <3>3. CanRead(h)' /\ SelectServer!FdAt(s)' = h
      BY <3>1, <3>2
    <3>. QED
      BY <3>3 DEF CanRead, Readable
  <2>13. SelectPending'
    BY <2>5, <2>8, <2>9, <2>10, <2>11, <2>12 DEF SelectPending, Readable
  <2>14. SelectOwes' /\ SelectServer!EndsForAReason'
    BY <2>8 DEF SelectOwes, SelectServer!EndsForAReason
  <2>15. SelectServer!TypeOK' /\ SelectServer!WatchesAll'
    <3>1. j \in 0..(MaxFds + FD_SETSIZE + 1)
      BY <2>5, SelectPlaces, EchoAssumption, ServersAssumption
    <3>2. left \in 0..(MaxFds + 1) /\ 0 \in 0..MaxSegments
      BY EchoAssumption
    <3>3. rset \subseteq Fds \cup {lfd}
      BY SelectFacts
    <3>. QED
      BY <2>8, <3>1, <3>2, <3>3, SelectTypes
  <2>. QED
    BY <2>13, <2>14, <2>15 DEF SelectInv
<1>. QED BY <1>3, <1>4

\* What is ready at i has been handled
LEMMA SelectHandles ==
  ASSUME NetInv, SelectInv, server \in {"read", "write"}, UNCHANGED program,
         NetInv', SelectTables', UNCHANGED <<maxfd, maxi>>, SelectServer!Handled,
         NEW fd \in OpenFds, fd = SelectServer!FdAt(i),
         \A s : s # i => client'[s] = client[s],
         \A g \in OpenFds \ {fd} : sock'[g] = sock[g] /\ Same(sock[g]),
         \A g \in OpenFds' : Owes(g, 0)'
  PROVE  SelectInv'
<1>1. CASE SelectServer!Effective /\ nready = 1
  BY <1>1, SelectNextTurn DEF SelectServer!Handled
<1>2. CASE ~(SelectServer!Effective /\ nready = 1)
  <2>1. nready >= 1 /\ nready \in 0..(MaxFds + 1) /\ i \in Nat
    BY SelectFacts DEF SelectInv, SelectPending
  <2>2. PICK left \in 1..(MaxFds + 1) :
           left = IF SelectServer!Effective THEN nready - 1 ELSE nready
    <3>1. nready - 1 \in 1..(MaxFds + 1) \/ nready = 1
      BY <2>1, EchoAssumption
    <3>2. nready \in 1..(MaxFds + 1)
      BY <2>1
    <3>. QED BY <1>2, <3>1, <3>2
  <2>3. PICK k \in Nat : k = i + 1
    BY <2>1
  <2>4. SelectServer!ScanFrom(k, left)
    BY <1>2, <2>2, <2>3 DEF SelectServer!Handled
  <2>5. /\ i \in SelectServer!FirstIndex..SelectServer!LastIndex
        /\ \A s \in k..SelectServer!LastIndex :
             SelectServer!FdAt(s) \in rset => CanRead(SelectServer!FdAt(s))
    BY <2>3 DEF SelectInv, SelectPending
  <2>6. SelectServer!FirstIndex \in Nat /\ SelectServer!LastIndex \in Int
    BY SelectPlaces
  <2>7. k >= SelectServer!FirstIndex
    BY <2>1, <2>3, <2>5, <2>6
  <2>8. SelectServer!LastIndex' = SelectServer!LastIndex
    BY DEF SelectServer!LastIndex, SelectServer!Effective
  <2>9. \A s \in k..SelectServer!LastIndex :
          s # i /\ s \in SelectServer!FirstIndex..SelectServer!LastIndex
    BY <2>1, <2>3, <2>5, <2>6
  <2>10. \A s \in k..SelectServer!LastIndex : SelectServer!FdAt(s)' = SelectServer!FdAt(s)
    BY <2>9 DEF SelectServer!FdAt, SelectServer!Effective
  <2>11. ASSUME NEW g \in rset, NEW s \in k..SelectServer!LastIndex, SelectServer!FdAt(s) = g
         PROVE  CanRead(g)'
    <3>1. CanRead(g)
      BY <2>5, <2>11
    <3>2. g # fd
      BY <2>5, <2>9, <2>11, SelectPlaces
    <3>. QED
      BY <3>1, <3>2, OthersKeep DEF CanRead
  <2>. QED
    BY <2>4, <2>7, <2>8, <2>10, <2>11, SelectScans
<1>. QED BY <1>1, <1>2

\* Accept and the end of a connection write the tables
LEMMA SelectSameTables ==
  ASSUME SelectTables, UNCHANGED <<program, allset, maxfd, client, maxi>>, OpenFds' = OpenFds
  PROVE  SelectTables'
  BY SelectNet
    DEF SelectTables, SelectServer!WatchesAll, SelectServer!Effective, SelectServer!Slots,
     Fds, lfd

LEMMA SelectAddsPlain ==
  ASSUME NetInv, SelectTables, ~SelectServer!Effective, NEW fd \in Fds,
         UNCHANGED <<program, client, maxi>>, allset' = allset \cup {fd},
         maxfd' = SelectServer!MaxOf(maxfd, fd), OpenFds' = OpenFds \cup {fd}
  PROVE  SelectTables'
<1>1. PICK m \in Fds \cup {lfd} : m = maxfd
  BY DEF SelectTables
<1>2. PICK m1 \in Fds \cup {lfd} : m1 = SelectServer!MaxOf(m, fd) /\ m <= m1 /\ fd <= m1
  BY EchoAssumption DEF SelectServer!MaxOf, Fds, lfd
<1>3. maxfd' = m1
  BY <1>1, <1>2
<1>4. \A g \in OpenFds \cup {fd} : g <= m1
  <2>1. \A g \in OpenFds : g <= m /\ g \in Nat
    BY <1>1, SelectNet, EchoAssumption DEF SelectTables, SelectServer!WatchesAll, OpenFds, Fds
  <2>2. m \in Nat /\ m1 \in Nat
    BY EchoAssumption DEF Fds, lfd
  <2>. QED BY <1>2, <2>1, <2>2
<1>. QED
  BY <1>3, <1>4, SelectNet
  DEF SelectTables, SelectServer!WatchesAll, SelectServer!Effective, SelectServer!Slots, Fds,
      lfd

LEMMA SelectWrites ==
  ASSUME UNCHANGED program, SelectServer!Effective,
         NEW f \in [SelectServer!Slots -> Fds \cup {-1}], client' = f,
         NEW m \in Fds \cup {lfd}, maxfd' = m,
         NEW x \in -1..(FD_SETSIZE - 1), maxi' = x,
         allset' = OpenFds' \cup {lfd},
         \A g \in OpenFds' : g <= m,
         \A g \in OpenFds' : \E t \in 0..x : f[t] = g,
         \A t, u \in SelectServer!Slots : f[t] = f[u] /\ f[t] >= 0 => t = u /\ f[t] \in OpenFds'
  PROVE  SelectTables'
<1>1. /\ maxfd' \in Fds \cup {lfd} /\ maxi' \in -1..(FD_SETSIZE - 1)
      /\ client' \in [SelectServer!Slots -> Fds \cup {-1}]
  OBVIOUS
<1>2. /\ \A g \in OpenFds' : g <= maxfd'
      /\ \A g \in OpenFds' : \E t \in 0..maxi' : client'[t] = g
      /\ \A t, u \in SelectServer!Slots :
           client'[t] = client'[u] /\ client'[t] >= 0 => t = u /\ client'[t] \in OpenFds'
  OBVIOUS
<1>3. SelectServer!WatchesAll'
  BY <1>2, SelectNet
  DEF SelectServer!WatchesAll, SelectServer!Effective, SelectServer!Slots, lfd, SelectServer!lfd
<1>. QED
  BY <1>1, <1>3 DEF SelectTables, SelectServer!Slots, Fds, lfd

LEMMA SelectAddsSlot ==
  ASSUME NetInv, SelectTables, SelectServer!Effective, NEW fd \in Fds, fd \notin OpenFds,
         NEW s \in SelectServer!Slots, client[s] < 0,
         UNCHANGED program, client' = [client EXCEPT ![s] = fd], allset' = allset \cup {fd},
         maxfd' = SelectServer!MaxOf(maxfd, fd), maxi' = SelectServer!MaxOf(maxi, s),
         OpenFds' = OpenFds \cup {fd}
  PROVE  SelectTables'
<1>1. PICK m \in Fds \cup {lfd} : m = maxfd
  BY DEF SelectTables
<1>2. PICK m1 \in Fds \cup {lfd} : m1 = SelectServer!MaxOf(m, fd) /\ m <= m1 /\ fd <= m1
  BY EchoAssumption DEF SelectServer!MaxOf, Fds, lfd
<1>3. maxfd' = m1
  BY <1>1, <1>2
<1>4. \A g \in OpenFds \cup {fd} : g <= m1
  <2>1. \A g \in OpenFds : g <= m /\ g \in Nat
    BY <1>1, SelectNet, EchoAssumption DEF SelectTables, SelectServer!WatchesAll, OpenFds, Fds
  <2>2. m \in Nat /\ m1 \in Nat
    BY EchoAssumption DEF Fds, lfd
  <2>. QED BY <1>2, <2>1, <2>2
<1>5. PICK x \in -1..(FD_SETSIZE - 1) : x = maxi
  BY DEF SelectTables
<1>6. PICK x1 \in -1..(FD_SETSIZE - 1) :
         x1 = SelectServer!MaxOf(x, s) /\ x <= x1 /\ s <= x1
  BY ServersAssumption DEF SelectServer!MaxOf, SelectServer!Slots
<1>7. maxi' = x1
  BY <1>5, <1>6
<1>8. PICK f \in [SelectServer!Slots -> Fds \cup {-1}] : f = [client EXCEPT ![s] = fd]
  BY DEF SelectTables
<1>9. client' = f /\ f[s] = fd /\ \A t \in SelectServer!Slots : t # s => f[t] = client[t]
  BY <1>8 DEF SelectTables
<1>10. \A g \in OpenFds \cup {fd} : \E t \in 0..x1 : f[t] = g
  <2>. SUFFICES ASSUME NEW g \in OpenFds \cup {fd} PROVE \E t \in 0..x1 : f[t] = g
    OBVIOUS
  <2>1. CASE g = fd
    BY <2>1, <1>6, <1>9 DEF SelectServer!Slots
  <2>2. CASE g # fd
    <3>1. PICK t \in 0..x : client[t] = g
      BY <2>2, <1>5, SelectNet DEF SelectTables, SelectServer!WatchesAll
    <3>2. g \in Nat
      BY EchoAssumption DEF OpenFds, Fds
    <3>3. t # s /\ t \in SelectServer!Slots /\ t \in 0..x1
      BY <3>1, <3>2, <1>6, ServersAssumption DEF SelectServer!Slots
    <3>. QED BY <3>1, <3>3, <1>9
  <2>. QED BY <2>1, <2>2
<1>11. \A t, u \in SelectServer!Slots : f[t] = f[u] /\ f[t] >= 0 => t = u /\ f[t] \in OpenFds \cup {fd}
  <2>1. \A t, u \in SelectServer!Slots :
          client[t] = client[u] /\ client[t] >= 0 => t = u /\ client[t] \in OpenFds
    BY SelectNet DEF SelectTables, SelectServer!WatchesAll
  <2>2. \A t \in SelectServer!Slots : client[t] = fd => FALSE
    BY <2>1, EchoAssumption DEF Fds
  <2>. QED
    BY <1>9, <2>1, <2>2
<1>12. allset' = OpenFds' \cup {lfd}
  BY SelectNet DEF SelectTables, SelectServer!WatchesAll
<1>. QED
  BY <1>3, <1>4, <1>7, <1>9, <1>10, <1>11, <1>12, SelectWrites

LEMMA SelectForgets ==
  ASSUME NetInv, SelectInv, UNCHANGED program, NEW fd \in OpenFds, fd = SelectServer!FdAt(i),
         i \in SelectServer!FirstIndex..SelectServer!LastIndex,
         OpenFds' = OpenFds \ {fd}, SelectServer!Forget(fd)
  PROVE  SelectTables' /\ UNCHANGED <<maxfd, maxi>> /\ \A s : s # i => client'[s] = client[s]
<1>1. SelectTables /\ fd \in Fds /\ fd # lfd /\ fd >= 0
  BY SelectFacts, OpenFacts
<1>2. /\ allset' = allset \ {fd} /\ UNCHANGED <<maxfd, maxi>>
      /\ client' = IF SelectServer!Effective THEN [client EXCEPT ![i] = -1] ELSE client
  BY DEF SelectServer!Forget
<1>3. allset' = OpenFds' \cup {lfd} /\ \A g \in OpenFds' : g <= maxfd
  BY <1>1, <1>2, SelectNet DEF SelectTables, SelectServer!WatchesAll
<1>4. CASE ~SelectServer!Effective
  BY <1>1, <1>2, <1>3, <1>4, SelectNet
  DEF SelectTables, SelectServer!WatchesAll, SelectServer!Effective, SelectServer!Slots, Fds,
      lfd
<1>5. CASE SelectServer!Effective
  <2>1. PICK x : x = i
    OBVIOUS
  <2>2. client[x] = fd /\ x \in SelectServer!Slots
    <3>1. x \in 0..maxi /\ maxi \in -1..(FD_SETSIZE - 1)
      BY <1>1, <1>5, <2>1 DEF SelectServer!FirstIndex, SelectServer!LastIndex, SelectTables
    <3>2. x \in SelectServer!Slots
      BY <3>1, ServersAssumption DEF SelectServer!Slots
    <3>. QED BY <1>5, <2>1, <3>2 DEF SelectServer!FdAt
  <2>3. PICK f \in [SelectServer!Slots -> Fds \cup {-1}] : f = [client EXCEPT ![x] = -1]
    BY <1>1 DEF SelectTables
  <2>4. client' = f /\ f[x] = -1 /\ \A t : t # x => f[t] = client[t]
    BY <1>1, <1>2, <1>5, <2>1, <2>2, <2>3 DEF SelectTables
  <2>5. \A g \in OpenFds' : \E t \in 0..maxi : f[t] = g
    BY <1>1, <1>5, <2>2, <2>4, SelectNet DEF SelectTables, SelectServer!WatchesAll
  <2>6. \A t, u \in SelectServer!Slots : f[t] = f[u] /\ f[t] >= 0 => t = u /\ f[t] \in OpenFds'
    <3>1. \A t, u \in SelectServer!Slots :
            client[t] = client[u] /\ client[t] >= 0 => t = u /\ client[t] \in OpenFds
      BY <1>1, <1>5, SelectNet DEF SelectTables, SelectServer!WatchesAll
    <3>. QED
      BY <1>1, <2>2, <2>4, <3>1
  <2>7. PICK m \in Fds \cup {lfd} : m = maxfd
    BY <1>1 DEF SelectTables
  <2>8. PICK y \in -1..(FD_SETSIZE - 1) : y = maxi
    BY <1>1 DEF SelectTables
  <2>9. SelectTables'
    BY <1>2, <1>3, <1>5, <2>4, <2>5, <2>6, <2>7, <2>8, SelectWrites
  <2>. QED
    BY <1>2, <2>1, <2>4, <2>9
<1>. QED BY <1>4, <1>5

LEMMA SelectInit ==
  ASSUME SelectServer!Init
  PROVE  NetInv /\ SelectInv
<1>. USE DEF SelectServer!Init
<1>1. NetInv /\ OpenFds = {}
  BY InitNetInv, SelectNet
<1>2. 0 \in 0..(MaxFds + 1) /\ 0 \in 0..(MaxFds + FD_SETSIZE + 1) /\ 0 \in 0..MaxSegments
      /\ -1 \in -1..(FD_SETSIZE - 1)
  BY EchoAssumption, ServersAssumption
<1>3. SelectServer!TypeOK
  BY <1>1, <1>2, SelectNet DEF SelectServer!TypeOK, NetInv
<1>4. SelectServer!WatchesAll
  <2>1. \A s \in SelectServer!Slots : client[s] = -1 /\ ~(client[s] >= 0)
    OBVIOUS
  <2>. QED
    BY <1>1, <2>1, SelectNet DEF SelectServer!WatchesAll
<1>5. SelectServer!EndsForAReason /\ SelectPending /\ SelectOwes
  BY <1>1 DEF SelectServer!EndsForAReason, SelectPending, SelectOwes
<1>. QED
  BY <1>1, <1>3, <1>4, <1>5 DEF SelectInv

LEMMA SelectOthers ==
  ASSUME NetInv, SelectInv, NetKeeps, UNCHANGED <<program, main>>
  PROVE  SelectInv'
<1>. UNCHANGED <<program, server, n, client, maxi, nready, i, allset, rset, maxfd>>
  BY DEF main, selectVars, table
<1>1. NetInv' /\ OpenFds' = OpenFds
  BY DEF NetKeeps
<1>2. SelectTables'
  BY <1>1, SelectFacts, SelectSameTables
<1>3. SelectServer!TypeOK' /\ SelectServer!WatchesAll'
  <2>1. /\ server' \in {"select", "accept", "scan", "read", "write", "dead"}
        /\ rset' \subseteq Fds \cup {lfd} /\ nready' \in 0..(MaxFds + 1)
        /\ i' \in 0..(MaxFds + FD_SETSIZE + 1) /\ n' \in 0..MaxSegments
    BY SelectFacts
  <2>. QED
    BY <1>1, <1>2, <2>1, SelectTypes
<1>4. SelectServer!EndsForAReason'
  <2>1. NoFdLeft' = NoFdLeft
    BY <1>1 DEF NoFdLeft, Fds
  <2>2. SelectServer!FreeSlots' = SelectServer!FreeSlots
    BY DEF SelectServer!FreeSlots, SelectServer!Slots
  <2>. QED
    BY <2>1, <2>2, SelectNet
    DEF SelectInv, SelectServer!EndsForAReason, SelectServer!Effective, NetKeeps
<1>5. SelectPending'
  <2>1. \A fd : CanRead(fd) => CanRead(fd)'
    BY <1>1 DEF NetKeeps, CanRead
  <2>2. \A s : SelectServer!FdAt(s)' = SelectServer!FdAt(s)
    BY DEF SelectServer!FdAt, SelectServer!Effective
  <2>3. /\ SelectServer!FirstIndex' = SelectServer!FirstIndex
        /\ SelectServer!LastIndex' = SelectServer!LastIndex
    BY SelectNet
    DEF SelectServer!FirstIndex, SelectServer!LastIndex, SelectServer!Effective,
        SelectServer!lfd, lfd
  <2>4. server = "accept" => queue' # <<>>
    BY DEF SelectInv, SelectPending, NetKeeps
  <2>5. server \in {"accept", "scan"} => \A fd \in rset \ {lfd} : CanRead(fd)'
    BY <2>1 DEF SelectInv, SelectPending
  <2>6. ASSUME server \in {"read", "write"}
        PROVE  /\ i \in SelectServer!FirstIndex..SelectServer!LastIndex
               /\ SelectServer!FdAt(i)' \in OpenFds'
               /\ server = "read" => Readable(SelectServer!FdAt(i))'
               /\ \A s \in (i + 1)..SelectServer!LastIndex :
                    SelectServer!FdAt(s)' \in rset => CanRead(SelectServer!FdAt(s))'
    <3>1. PICK g \in OpenFds : g = SelectServer!FdAt(i)
      BY <2>6 DEF SelectInv, SelectPending
    <3>2. SelectServer!FdAt(i)' = g
      BY <3>1 DEF SelectServer!FdAt, SelectServer!Effective
    <3>3. server = "read" => Readable(g)'
      BY <3>1 DEF SelectInv, SelectPending, NetKeeps
    <3>4. server = "read" => Readable(SelectServer!FdAt(i))'
      BY <3>2, <3>3 DEF Readable
    <3>5. ASSUME NEW s \in (i + 1)..SelectServer!LastIndex, SelectServer!FdAt(s)' \in rset
          PROVE  CanRead(SelectServer!FdAt(s))'
      <4>1. PICK h : h = SelectServer!FdAt(s)
        OBVIOUS
      <4>2. CanRead(h)
        BY <2>2, <2>6, <3>5, <4>1 DEF SelectInv, SelectPending
      <4>3. CanRead(h)' /\ SelectServer!FdAt(s)' = h
        BY <2>1, <2>2, <4>1, <4>2
      <4>. QED
        BY <4>3 DEF CanRead, Readable
    <3>. QED
      BY <1>1, <2>6, <3>2, <3>4, <3>5 DEF SelectInv, SelectPending
  <2>7. server \in {"accept", "scan", "read", "write"} => nready >= 1
    BY DEF SelectInv, SelectPending
  <2>8. \A fd \in rset \ {lfd} : server \in {"accept", "scan"} => fd \in OpenFds' /\ Readable(fd)'
    BY <2>5 DEF CanRead
  <2>. QED
    BY <2>3, <2>4, <2>6, <2>7, <2>8 DEF SelectPending, CanRead, Readable, lfd
<1>6. SelectOwes'
  <2>1. PICK x \in Nat : x = n
    BY SelectFacts
  <2>2. PICK g : g = SelectServer!FdAt(i) /\ g = SelectServer!FdAt(i)'
    BY DEF SelectServer!FdAt, SelectServer!Effective
  <2>3. \A fd \in OpenFds, y \in Nat : Owes(fd, y) => Owes(fd, y)'
    BY DEF NetKeeps
  <2>4. \A fd \in OpenFds : Owes(fd, IF server = "write" /\ fd = g THEN x ELSE 0)
    BY <2>1, <2>2 DEF SelectInv, SelectOwes
  <2>5. \A fd \in OpenFds : Owes(fd, IF server = "write" /\ fd = g THEN x ELSE 0)'
    BY <2>3, <2>4
  <2>. QED
    BY <1>1, <2>1, <2>2, <2>5 DEF SelectOwes, Owes, Fits, RunsEvents
<1>. QED
  BY <1>3, <1>4, <1>5, <1>6 DEF SelectInv

LEMMA SelectDies ==
  ASSUME NetInv, SelectInv, SelectServer!Die, UNCHANGED program,
         \A fd \in OpenFds : Owes(fd, 0),
         \/ queue # <<>> /\ (NoFdLeft \/ (SelectServer!Effective /\ SelectServer!FreeSlots = {}))
         \/ \E c \in Clients : \/ peer[c] \in {"reset", "broken"}
                               \/ peer[c] = "aborted" /\ ~SelectServer!Effective
  PROVE  NetInv' /\ SelectInv' /\ NothingCut
<1>1. /\ server' = "dead" /\ UNCHANGED net
      /\ UNCHANGED <<client, maxi, nready, i, allset, rset, maxfd, n>>
  BY DEF SelectServer!Die, SelectServer!net, net, SelectServer!tables, SelectServer!scan
<1>2. NetKeeps
  BY <1>1, StutterKeeps
<1>3. NetInv' /\ OpenFds' = OpenFds /\ UNCHANGED <<peer, queue, sock>>
  BY <1>1, <1>2 DEF NetKeeps, net
<1>4. SelectTables'
  BY <1>1, <1>3, SelectFacts, SelectSameTables
<1>5. SelectServer!TypeOK' /\ SelectServer!WatchesAll'
  <2>1. /\ server' \in {"select", "accept", "scan", "read", "write", "dead"}
        /\ rset' \subseteq Fds \cup {lfd} /\ nready' \in 0..(MaxFds + 1)
        /\ i' \in 0..(MaxFds + FD_SETSIZE + 1) /\ n' \in 0..MaxSegments
    BY <1>1, SelectFacts
  <2>. QED
    BY <1>3, <1>4, <2>1, SelectTypes
<1>6. SelectServer!EndsForAReason'
  <2>1. NoFdLeft' = NoFdLeft
    BY <1>3 DEF NoFdLeft, Fds
  <2>2. SelectServer!FreeSlots' = SelectServer!FreeSlots
    BY <1>1 DEF SelectServer!FreeSlots, SelectServer!Slots
  <2>. QED
    BY <1>3, <2>1, <2>2, SelectNet DEF SelectServer!EndsForAReason, SelectServer!Effective
<1>7. SelectPending'
  BY <1>1 DEF SelectPending
<1>8. SelectOwes'
  BY <1>1, <1>2, <1>3 DEF SelectOwes, NetKeeps
<1>9. NothingCut
  BY <1>3 DEF NothingCut
<1>. QED
  BY <1>3, <1>5, <1>6, <1>7, <1>8, <1>9 DEF SelectInv

LEMMA SelectSelects ==
  ASSUME NetInv, SelectInv, SelectServer!Select, UNCHANGED program
  PROVE  NetInv' /\ SelectInv' /\ NothingCut
<1>. DEFINE R == SelectServer!Ready
<1>1. \A fd \in allset \ {lfd} : sock[fd] # None
  BY SelectFacts DEF OpenFds
<1>2. /\ server = "select" /\ R # {} /\ rset' = R /\ nready' = Cardinality(R)
      /\ server' = IF lfd \in R THEN "accept" ELSE "scan"
      /\ UNCHANGED <<allset, maxfd, client, maxi, i, n>> /\ UNCHANGED net
  BY <1>1, SelectNet, SelectCounts
    DEF SelectServer!Select, SelectServer!net, net, SelectServer!tables
<1>3. R \subseteq Fds \cup {lfd} /\ \A fd \in R : IF fd = lfd THEN queue # <<>> ELSE CanRead(fd)
  BY SelectFacts, SelectNet DEF SelectServer!Ready, CanRead, OpenFds
<1>4. nready' \in 0..(MaxFds + 1) /\ nready' >= 1
  <2>. HIDE DEF R
  <2>1. R \subseteq 0..MaxFds
    BY <1>3, EchoAssumption DEF Fds, lfd
  <2>2. IsFiniteSet(0..MaxFds) /\ Cardinality(0..MaxFds) = MaxFds + 1
    BY FS_Interval, EchoAssumption
  <2>3. IsFiniteSet(R) /\ Cardinality(R) <= MaxFds + 1
    BY <2>1, <2>2, FS_Subset
  <2>4. Cardinality(R) \in Nat
    BY <2>3, FS_CardinalityType
  <2>5. Cardinality(R) # 0
    BY <1>2, <2>3, FS_EmptySet
  <2>. QED BY <1>2, <2>3, <2>4, <2>5, EchoAssumption
<1>5. NetKeeps
  BY <1>2, StutterKeeps
<1>6. NetInv' /\ OpenFds' = OpenFds /\ UNCHANGED <<peer, queue, sock>>
  BY <1>2, <1>5 DEF NetKeeps, net
<1>7. SelectTables'
  BY <1>2, <1>6, SelectFacts, SelectSameTables
<1>8. SelectServer!TypeOK' /\ SelectServer!WatchesAll'
  <2>1. /\ server' \in {"select", "accept", "scan", "read", "write", "dead"}
        /\ rset' \subseteq Fds \cup {lfd}
        /\ i' \in 0..(MaxFds + FD_SETSIZE + 1) /\ n' \in 0..MaxSegments
    BY <1>2, <1>3, SelectFacts
  <2>. QED
    BY <1>4, <1>6, <1>7, <2>1, SelectTypes
<1>9. SelectServer!EndsForAReason'
  BY <1>2 DEF SelectServer!EndsForAReason
<1>10. SelectPending'
  <2>1. PICK Q : Q = R
    OBVIOUS
  <2>2. \A fd \in Q \ {lfd} : CanRead(fd)'
    BY <1>3, <1>5, <1>6, <2>1 DEF NetKeeps, CanRead
  <2>3. \A fd \in Q \ {lfd} : fd \in OpenFds' /\ Readable(fd)'
    BY <2>2 DEF CanRead
  <2>4. rset' = Q /\ (server' = "accept" => lfd \in Q) /\ server' \in {"accept", "scan"}
    BY <1>2, <2>1
  <2>5. server' = "accept" => queue' # <<>>
    BY <1>3, <1>6, <2>1, <2>4
  <2>. HIDE DEF R
  <2>. QED
    BY <1>4, <2>3, <2>4, <2>5 DEF SelectPending, CanRead, Readable, lfd
<1>11. SelectOwes'
  BY <1>2, <1>5, <1>6 DEF SelectInv, SelectOwes, NetKeeps
<1>12. NothingCut
  BY <1>6 DEF NothingCut
<1>. QED
  BY <1>6, <1>8, <1>9, <1>10, <1>11, <1>12 DEF SelectInv

\* After an accept, of fd
LEMMA SelectGoesOn ==
  ASSUME NetInv, SelectInv, server = "accept", UNCHANGED program,
         NetInv', SelectTables', NEW left \in 1..(MaxFds + 1),
         \/ SelectServer!NextTurn
         \/ SelectServer!GoScan /\ nready' = left,
         OpenFds \subseteq OpenFds', \A g \in OpenFds : CanRead(g) => CanRead(g)',
         \A g \in OpenFds' : Owes(g, 0)'
  PROVE  SelectInv'
<1>1. CASE SelectServer!NextTurn
  BY <1>1, SelectNextTurn
<1>2. CASE SelectServer!GoScan /\ nready' = left
  <2>1. server' = "scan" /\ UNCHANGED <<rset, i, n>> /\ nready' = left
    BY <1>2 DEF SelectServer!GoScan
  <2>2. /\ rset \subseteq Fds \cup {lfd} /\ i \in 0..(MaxFds + FD_SETSIZE + 1)
        /\ n \in 0..MaxSegments
    BY SelectFacts
  <2>3. nready' \in 0..(MaxFds + 1) /\ nready' >= 1
    BY <2>1
  <2>4. SelectServer!TypeOK' /\ SelectServer!WatchesAll'
    BY <2>1, <2>2, <2>3, SelectTypes
  <2>5. SelectPending'
    <3>1. PICK Q : Q = rset
      OBVIOUS
    <3>2. \A g \in Q \ {lfd} : CanRead(g)'
      BY <3>1 DEF SelectInv, SelectPending, CanRead
    <3>3. \A g \in Q \ {lfd} : g \in OpenFds' /\ Readable(g)'
      BY <3>2 DEF CanRead
    <3>. QED
      BY <2>1, <2>3, <3>1, <3>3 DEF SelectPending, CanRead, Readable, lfd
  <2>6. SelectOwes' /\ SelectServer!EndsForAReason'
    BY <2>1 DEF SelectOwes, SelectServer!EndsForAReason
  <2>. QED
    BY <2>4, <2>5, <2>6 DEF SelectInv
<1>. QED BY <1>1, <1>2

LEMMA SelectAccepts ==
  ASSUME NetInv, SelectInv, SelectServer!AcceptPlain \/ SelectServer!AcceptSlot,
         UNCHANGED program
  PROVE  NetInv' /\ SelectInv' /\ NothingCut
<1>1. /\ server = "accept" /\ ~NoFdLeft
  BY SelectNet DEF SelectServer!AcceptPlain, SelectServer!AcceptSlot
<1>2. PICK fd \in Fds : fd = LowestFd /\ fd \notin OpenFds
  BY <1>1, LowestIsFree
<1>3. Accept(fd)
  BY <1>2, SelectNet DEF SelectServer!AcceptPlain, SelectServer!AcceptSlot
<1>4. /\ NetInv' /\ OpenFds' = OpenFds \cup {fd} /\ \A c : Same(c)
      /\ \A g \in OpenFds : sock'[g] = sock[g]
  BY <1>2, <1>3, AcceptKeeps
<1>5. Owes(fd, 0)'
  BY <1>2, <1>3, AcceptKeeps
<1>6. \A g \in OpenFds : Owes(g, 0)
  BY <1>1 DEF SelectInv, SelectOwes
<1>7. \A g \in OpenFds : (CanRead(g) => CanRead(g)') /\ Owes(g, 0)'
  BY <1>4, <1>6, OthersKeep
<1>8. \A g \in OpenFds' : Owes(g, 0)'
  BY <1>4, <1>5, <1>7
<1>9. SelectTables'
  <2>1. CASE SelectServer!AcceptPlain
    <3>1. /\ ~SelectServer!Effective /\ UNCHANGED <<client, maxi>>
          /\ allset' = allset \cup {fd} /\ maxfd' = SelectServer!MaxOf(maxfd, fd)
      BY <1>2, <2>1, SelectNet DEF SelectServer!AcceptPlain
    <3>. QED
      BY <1>4, <3>1, SelectFacts, SelectAddsPlain
  <2>2. CASE SelectServer!AcceptSlot
    <3>1. SelectServer!FreeSlots # {} /\ SelectServer!FreeSlots \subseteq Nat
      BY <2>2, ServersAssumption
      DEF SelectServer!AcceptSlot, SelectServer!FreeSlots, SelectServer!Slots
    <3>2. SelectServer!Min(SelectServer!FreeSlots) = Min(SelectServer!FreeSlots)
      BY DEF SelectServer!Min, Min
    <3>3. PICK s \in SelectServer!FreeSlots : s = SelectServer!Min(SelectServer!FreeSlots)
      BY <3>1, <3>2, MinIs
    <3>4. s \in SelectServer!Slots /\ client[s] < 0
      BY <3>3 DEF SelectServer!FreeSlots
    <3>5. /\ SelectServer!Effective /\ client' = [client EXCEPT ![s] = fd]
          /\ maxi' = SelectServer!MaxOf(maxi, s)
          /\ allset' = allset \cup {fd} /\ maxfd' = SelectServer!MaxOf(maxfd, fd)
      BY <1>2, <2>2, <3>3, SelectNet DEF SelectServer!AcceptSlot
    <3>. QED
      BY <1>2, <1>4, <3>4, <3>5, SelectFacts, SelectAddsSlot
  <2>. QED BY <2>1, <2>2
<1>10. nready >= 1 /\ nready \in 0..(MaxFds + 1)
  BY <1>1, SelectFacts DEF SelectInv, SelectPending
<1>11. \E left \in 1..(MaxFds + 1) :
          \/ SelectServer!NextTurn
          \/ SelectServer!GoScan /\ nready' = left
  <2>1. CASE SelectServer!AcceptPlain
    <3>1. nready \in 1..(MaxFds + 1)
      BY <1>10
    <3>. QED
      BY <2>1, <3>1 DEF SelectServer!AcceptPlain
  <2>2. CASE SelectServer!AcceptSlot
    <3>1. nready = 1 \/ nready - 1 \in 1..(MaxFds + 1)
      BY <1>10, EchoAssumption
    <3>2. 1 \in 1..(MaxFds + 1)
      BY EchoAssumption
    <3>. QED
      BY <2>2, <3>1, <3>2 DEF SelectServer!AcceptSlot
  <2>. QED BY <2>1, <2>2
<1>12. SelectInv'
  BY <1>1, <1>4, <1>7, <1>8, <1>9, <1>11, SelectGoesOn
<1>13. NothingCut
  BY <1>4 DEF NothingCut, Same
<1>. QED
  BY <1>4, <1>12, <1>13

LEMMA SelectStep ==
  ASSUME NetInv, SelectInv, SelectServer!Server, UNCHANGED program
  PROVE  NetInv' /\ SelectInv' /\ NothingCut
<1>1. CASE SelectServer!Select
  BY <1>1, SelectSelects
<1>2. CASE SelectServer!AcceptPlain \/ SelectServer!AcceptSlot
  BY <1>2, SelectAccepts
<1>3. CASE SelectServer!AcceptFails
  <2>1. /\ server = "accept" /\ SelectServer!Die
        /\ NoFdLeft \/ (SelectServer!Effective /\ SelectServer!FreeSlots = {})
    BY <1>3, SelectNet DEF SelectServer!AcceptFails
  <2>2. queue # <<>> /\ \A g \in OpenFds : Owes(g, 0)
    BY <2>1 DEF SelectInv, SelectPending, SelectOwes
  <2>. QED BY <2>1, <2>2, SelectDies
<1>4. CASE SelectServer!Scan
  <2>1. /\ server = "scan" /\ SelectServer!ScanFrom(SelectServer!FirstIndex, nready)
        /\ UNCHANGED net /\ UNCHANGED <<client, maxi, allset, maxfd>>
    BY <1>4 DEF SelectServer!Scan, SelectServer!net, net, SelectServer!tables
  <2>2. NetKeeps
    BY <2>1, StutterKeeps
  <2>3. NetInv' /\ OpenFds' = OpenFds /\ UNCHANGED peer
    BY <2>1, <2>2 DEF NetKeeps, net
  <2>4. SelectTables'
    BY <2>1, <2>3, SelectFacts, SelectSameTables
  <2>5. \A g \in OpenFds' : Owes(g, 0)'
    BY <2>1, <2>2, <2>3 DEF SelectInv, SelectOwes, NetKeeps
  <2>6. PICK k \in Nat : k = SelectServer!FirstIndex
    BY SelectPlaces
  <2>7. PICK left \in 1..(MaxFds + 1) : left = nready
    <3>1. nready \in 1..(MaxFds + 1)
      BY <2>1, SelectFacts DEF SelectInv, SelectPending
    <3>. QED BY <3>1
  <2>8. SelectServer!LastIndex' = SelectServer!LastIndex
    BY <2>1 DEF SelectServer!LastIndex, SelectServer!Effective
  <2>9. \A s : SelectServer!FdAt(s)' = SelectServer!FdAt(s)
    BY <2>1 DEF SelectServer!FdAt, SelectServer!Effective
  <2>10. ASSUME NEW fd \in rset,
                NEW s \in k..SelectServer!LastIndex, SelectServer!FdAt(s) = fd
         PROVE  CanRead(fd)'
    <3>1. fd # lfd
      BY <2>6, <2>10, SelectPlaces
    <3>2. CanRead(fd)
      BY <2>1, <3>1 DEF SelectInv, SelectPending
    <3>. QED BY <2>2, <2>3, <3>2 DEF NetKeeps, CanRead
  <2>11. SelectServer!ScanFrom(k, left) /\ k >= SelectServer!FirstIndex
    BY <2>1, <2>6, <2>7
  <2>12. SelectInv'
    BY <2>3, <2>4, <2>5, <2>8, <2>9, <2>10, <2>11, SelectScans
  <2>. QED
    BY <2>3, <2>12 DEF NothingCut
<1>5. CASE SelectServer!ReadEnd
  <2>1. /\ server = "read" /\ i \in SelectServer!FirstIndex..SelectServer!LastIndex
    BY <1>5 DEF SelectServer!ReadEnd, SelectInv, SelectPending
  <2>2. PICK fd \in OpenFds : fd = SelectServer!FdAt(i)
    BY <2>1 DEF SelectInv, SelectPending
  <2>3. /\ Readable(fd) /\ ReadResult(fd) = 0 /\ Close(fd) /\ SelectServer!Forget(fd)
        /\ SelectServer!Handled
    BY <1>5, <2>2, SelectNet DEF SelectServer!ReadEnd
  <2>4. \A g \in OpenFds : Owes(g, 0)
    BY <2>1 DEF SelectInv, SelectOwes
  <2>5. /\ NetInv' /\ OpenFds' = OpenFds \ {fd}
        /\ \A g \in OpenFds \ {fd} : sock'[g] = sock[g] /\ Same(sock[g])
    BY <2>3, CloseKeeps
  <2>6. \A g \in OpenFds' : Owes(g, 0)'
    BY <2>4, <2>5, OthersKeep
  <2>7. NothingCut
    BY <2>3, <2>4, CloseCutsNothing
  <2>8. SelectTables' /\ UNCHANGED <<maxfd, maxi>> /\ \A s : s # i => client'[s] = client[s]
    BY <2>1, <2>2, <2>3, <2>5, SelectForgets
  <2>9. SelectInv'
    BY <2>1, <2>2, <2>3, <2>5, <2>6, <2>8, SelectHandles
  <2>. QED BY <2>5, <2>7, <2>9
<1>6. CASE SelectServer!ReadError
  <2>1. server = "read"
    BY <1>6 DEF SelectServer!ReadError
  <2>2. PICK fd \in OpenFds : fd = SelectServer!FdAt(i)
    BY <2>1 DEF SelectInv, SelectPending
  <2>3. Readable(fd) /\ ReadResult(fd) = -1
    BY <1>6, <2>2, SelectNet DEF SelectServer!ReadError
  <2>4. /\ peer[sock[fd]] \in {"reset", "aborted"} /\ unread[sock[fd]] = 0
        /\ sock[fd] \in Clients
    BY <2>3, ReadMeans, OpenFacts
  <2>5. \A g \in OpenFds : Owes(g, 0)
    BY <2>1 DEF SelectInv, SelectOwes
  <2>6. CASE ~SelectServer!Effective
    <3>1. SelectServer!Die
      BY <1>6, <2>6 DEF SelectServer!ReadError
    <3>. QED BY <2>4, <2>5, <2>6, <3>1, SelectDies
  <2>7. CASE SelectServer!Effective
    <3>1. Read(fd) /\ SelectServer!Handled /\ UNCHANGED <<allset, maxfd, client, maxi>>
      BY <1>6, <2>2, <2>7, SelectNet DEF SelectServer!ReadError, SelectServer!tables
    <3>2. PICK x \in Nat : x = 0 /\ x <= x /\ x <= x + unread[sock[fd]] /\ x = x + unread[sock[fd]]
      BY <2>4
    <3>3. Owes(fd, x)
      BY <2>5, <3>2
    <3>4. /\ NetInv' /\ OpenFds' = OpenFds /\ Owes(fd, x)'
          /\ \A g \in OpenFds \ {fd} : sock'[g] = sock[g] /\ Same(sock[g])
      BY <3>1, <3>2, <3>3, ReadKeeps
    <3>5. \A g \in OpenFds \ {fd} : Owes(g, 0)'
      BY <2>5, <3>4, OthersKeep
    <3>6. \A g \in OpenFds' : Owes(g, 0)'
      BY <3>2, <3>4, <3>5
    <3>7. SelectTables'
      BY <3>1, <3>4, SelectFacts, SelectSameTables
    <3>8. SelectInv'
      BY <2>1, <2>2, <3>1, <3>4, <3>6, <3>7, SelectHandles
    <3>. QED
      BY <3>1, <3>4, <3>8, ReadDropsNobody DEF NobodyDropped, NothingCut
  <2>. QED BY <2>6, <2>7
<1>7. CASE SelectServer!ReadData
  <2>1. /\ server = "read" /\ server' = "write"
        /\ UNCHANGED <<allset, maxfd, client, maxi, rset, nready, i>>
    BY <1>7 DEF SelectServer!ReadData, SelectServer!tables
  <2>2. PICK fd \in OpenFds : fd = SelectServer!FdAt(i)
    BY <2>1 DEF SelectInv, SelectPending
  <2>3. Readable(fd) /\ ReadResult(fd) > 0 /\ Read(fd) /\ n' = ReadResult(fd)
    BY <1>7, <2>2, SelectNet DEF SelectServer!ReadData
  <2>4. \A g \in OpenFds : Owes(g, 0)
    BY <2>1 DEF SelectInv, SelectOwes
  <2>5. PICK x \in Nat : x = unread[sock[fd]] /\ x \in 0..MaxSegments /\ x = ReadResult(fd)
    BY <2>3, ReadMeans, OpenFacts, EchoAssumption
  <2>6. /\ NetInv' /\ OpenFds' = OpenFds /\ Owes(fd, x)'
        /\ \A g \in OpenFds \ {fd} : sock'[g] = sock[g] /\ Same(sock[g])
    <3>1. 0 \in Nat /\ 0 <= x /\ x <= 0 + x /\ x = 0 + x
      OBVIOUS
    <3>. QED BY <2>3, <2>4, <2>5, <3>1, ReadKeeps
  <2>7. \A g \in OpenFds \ {fd} : (CanRead(g) => CanRead(g)') /\ Owes(g, 0)'
    BY <2>4, <2>6, OthersKeep
  <2>8. SelectTables'
    BY <2>1, <2>6, SelectFacts, SelectSameTables
  <2>9. SelectServer!TypeOK' /\ SelectServer!WatchesAll'
    <3>1. /\ rset \subseteq Fds \cup {lfd} /\ nready \in 0..(MaxFds + 1)
          /\ i \in 0..(MaxFds + FD_SETSIZE + 1)
      BY SelectFacts
    <3>. QED
      BY <2>1, <2>3, <2>5, <2>6, <2>8, <3>1, SelectTypes
  <2>10. SelectServer!EndsForAReason'
    BY <2>1 DEF SelectServer!EndsForAReason
  <2>11. /\ SelectServer!FirstIndex' = SelectServer!FirstIndex
         /\ SelectServer!LastIndex' = SelectServer!LastIndex
         /\ \A s : SelectServer!FdAt(s)' = SelectServer!FdAt(s)
         /\ SelectServer!FdAt(i)' = fd
    BY <2>1, <2>2, SelectNet
    DEF SelectServer!FirstIndex, SelectServer!LastIndex, SelectServer!Effective,
        SelectServer!lfd, lfd,
        SelectServer!FdAt
  <2>12. SelectPending'
    <3>1. /\ i \in SelectServer!FirstIndex..SelectServer!LastIndex /\ nready >= 1
          /\ \A s \in (i + 1)..SelectServer!LastIndex :
               SelectServer!FdAt(s) \in rset => CanRead(SelectServer!FdAt(s))
      BY <2>1 DEF SelectInv, SelectPending
    <3>2. ASSUME NEW s \in (i + 1)..SelectServer!LastIndex, SelectServer!FdAt(s)' \in rset
          PROVE  CanRead(SelectServer!FdAt(s))'
      <4>1. PICK h : h = SelectServer!FdAt(s)
        OBVIOUS
      <4>2. CanRead(h)
        BY <2>11, <3>1, <3>2, <4>1
      <4>3. s # i /\ s \in SelectServer!FirstIndex..SelectServer!LastIndex
        BY <3>1, SelectFacts, SelectPlaces
      <4>4. h # fd
        BY <2>2, <3>1, <4>1, <4>3, SelectPlaces
      <4>5. CanRead(h)' /\ SelectServer!FdAt(s)' = h
        BY <2>7, <2>11, <4>1, <4>2, <4>4 DEF CanRead
      <4>. QED
        BY <4>5 DEF CanRead, Readable
    <3>. QED
      BY <2>1, <2>6, <2>11, <3>1, <3>2 DEF SelectPending
  <2>13. SelectOwes'
    BY <2>1, <2>3, <2>5, <2>6, <2>7, <2>11 DEF SelectOwes, Owes, Fits, RunsEvents
  <2>14. NothingCut
    BY <2>3, ReadDropsNobody DEF NobodyDropped, NothingCut
  <2>. QED
    BY <2>6, <2>9, <2>10, <2>12, <2>13, <2>14 DEF SelectInv
<1>8. CASE SelectServer!WriteBack
  <2>1. server = "write"
    BY <1>8 DEF SelectServer!WriteBack
  <2>2. PICK fd \in OpenFds : fd = SelectServer!FdAt(i)
    BY <2>1 DEF SelectInv, SelectPending
  <2>3. PICK x \in Nat : x = n
    BY SelectFacts
  <2>4. Owes(fd, x) /\ \A g \in OpenFds \ {fd} : Owes(g, 0)
    BY <2>1, <2>2, <2>3 DEF SelectInv, SelectOwes
  <2>5. CASE WriteKills(fd)
    <3>1. SelectServer!Die
      BY <1>8, <2>2, <2>5, SelectNet DEF SelectServer!WriteBack
    <3>2. Owes(fd, 0) /\ sock[fd] \in Clients /\ peer[sock[fd]] \in {"reset", "broken"}
      BY <2>4, <2>5, BrokenOwes
    <3>3. \A g \in OpenFds : Owes(g, 0)
      BY <2>4, <3>2
    <3>. QED BY <3>1, <3>2, <3>3, SelectDies
  <2>6. CASE ~WriteKills(fd)
    <3>1. Write(fd, x) /\ SelectServer!Handled /\ UNCHANGED <<allset, maxfd, client, maxi>>
      BY <1>8, <2>2, <2>3, <2>6, SelectNet DEF SelectServer!WriteBack, SelectServer!tables
    <3>2. /\ NetInv' /\ OpenFds' = OpenFds /\ Owes(fd, 0)'
          /\ \A g \in OpenFds : sock'[g] = sock[g]
          /\ \A g \in OpenFds \ {fd} : Same(sock[g])
      BY <2>4, <3>1, WriteKeeps
    <3>3. \A g \in OpenFds \ {fd} : Owes(g, 0)'
      BY <2>4, <3>2, OthersKeep
    <3>4. \A g \in OpenFds' : Owes(g, 0)'
      BY <3>2, <3>3
    <3>5. SelectTables'
      BY <3>1, <3>2, SelectFacts, SelectSameTables
    <3>6. SelectInv'
      BY <2>1, <2>2, <3>1, <3>2, <3>4, <3>5, SelectHandles
    <3>. QED
      BY <3>1, <3>2, <3>6, WriteDropsNobody DEF NobodyDropped, NothingCut
  <2>. QED BY <2>5, <2>6
<1>. QED
  BY <1>1, <1>2, <1>3, <1>4, <1>5, <1>6, <1>7, <1>8 DEF SelectServer!Server

-----------------------------------------------------------------------------
(* server_poll.c *)

LEMMA PollCounts == \A S : PollServer!Cardinality(S) = Cardinality(S)
  BY DEF PollServer!Cardinality, Cardinality

LEMMA PollFacts ==
  ASSUME NetInv, PollInv
  PROVE  /\ server \in {"poll", "accept", "scan", "read", "write", "dead"}
         /\ client \in [PollServer!Slots -> Fds \cup {-1}]
         /\ revents \in [PollServer!Slots -> BOOLEAN]
         /\ nready \in 0..(MaxFds + 1) /\ maxi \in PollServer!Slots \cup {0}
         /\ i \in 1..OPEN_MAX /\ i \in Nat
         /\ n \in 0..MaxSegments /\ n \in Nat /\ 0 \in 0..MaxSegments
         /\ maxi \in Nat /\ 1..maxi \subseteq PollServer!Slots
         /\ \A s \in PollServer!Slots : s \in Nat /\ s >= 1 /\ s < OPEN_MAX
         /\ \A fd \in OpenFds : \E s \in 1..maxi : client[s] = fd
         /\ \A s, t \in PollServer!Slots :
              client[s] = client[t] /\ client[s] >= 0 => s = t /\ client[s] \in OpenFds
<1>1. PollServer!TypeOK /\ PollServer!WatchesAll /\ OPEN_MAX \in Nat /\ OPEN_MAX >= 1
  BY ServersAssumption DEF PollInv
<1>2. /\ server \in {"poll", "accept", "scan", "read", "write", "dead"}
      /\ client \in [PollServer!Slots -> Fds \cup {-1}]
      /\ revents \in [PollServer!Slots -> BOOLEAN]
      /\ nready \in 0..(MaxFds + 1) /\ maxi \in PollServer!Slots \cup {0}
      /\ i \in 1..OPEN_MAX /\ n \in 0..MaxSegments
  BY <1>1, PollNet DEF PollServer!TypeOK
<1>3. /\ \A s \in PollServer!Slots : s \in Nat /\ s >= 1 /\ s < OPEN_MAX
      /\ maxi \in Nat /\ 1..maxi \subseteq PollServer!Slots
      /\ i \in Nat /\ n \in Nat /\ 0 \in 0..MaxSegments
  BY <1>1, <1>2, EchoAssumption DEF PollServer!Slots
<1>. QED
  BY <1>1, <1>2, <1>3, PollNet DEF PollServer!WatchesAll

\* What is asked of the table
PollTable(f, m, open) ==
  /\ f \in [PollServer!Slots -> Fds \cup {-1}] /\ m \in PollServer!Slots \cup {0}
  /\ \A fd \in open : \E s \in 1..m : f[s] = fd
  /\ \A s, t \in PollServer!Slots : f[s] = f[t] /\ f[s] >= 0 => s = t /\ f[s] \in open

LEMMA PollTypes ==
  ASSUME NetInv', NEW f, client' = f, NEW m, maxi' = m, NEW o, OpenFds' = o, PollTable(f, m, o),
         server' \in {"poll", "accept", "scan", "read", "write", "dead"},
         revents' \in [PollServer!Slots -> BOOLEAN], nready' \in 0..(MaxFds + 1),
         i' \in 1..OPEN_MAX, n' \in 0..MaxSegments
  PROVE  PollServer!TypeOK' /\ PollServer!WatchesAll'
<1>1. /\ client' \in [PollServer!Slots -> Fds \cup {-1}] /\ maxi' \in PollServer!Slots \cup {0}
  BY DEF PollTable
<1>2. PollServer!TypeOK'
  BY <1>1, PollNet DEF PollServer!TypeOK, NetInv, Fds, lfd, PollServer!Slots
<1>3. PollServer!WatchesAll'
  BY PollNet DEF PollServer!WatchesAll, PollTable, PollServer!Slots
<1>. QED BY <1>2, <1>3

LEMMA PollNow ==
  ASSUME NetInv, PollInv
  PROVE  PollTable(client, maxi, OpenFds)
  BY PollFacts DEF PollTable

LEMMA PollNextTurn ==
  ASSUME NetInv', NEW f, client' = f, NEW m, maxi' = m, NEW o, OpenFds' = o, PollTable(f, m, o),
         revents' \in [PollServer!Slots -> BOOLEAN], PollServer!NextTurn,
         \A fd \in OpenFds' : Owes(fd, 0)'
  PROVE  PollInv'
<1>1. server' = "poll" /\ nready' = 0 /\ i' = 1 /\ n' = 0
  BY DEF PollServer!NextTurn
<1>2. 0 \in 0..(MaxFds + 1) /\ 1 \in 1..OPEN_MAX /\ 0 \in 0..MaxSegments
  BY EchoAssumption, ServersAssumption
<1>3. PollServer!TypeOK' /\ PollServer!WatchesAll'
  BY <1>1, <1>2, PollTypes
<1>4. PollServer!EndsForAReason' /\ PollPending' /\ PollOwes'
  BY <1>1 DEF PollServer!EndsForAReason, PollPending, PollOwes
<1>. QED
  BY <1>3, <1>4 DEF PollInv

\* The scan goes on from k, with the entries of todo left
LEMMA PollScans ==
  ASSUME NetInv, PollInv, NetInv', UNCHANGED <<program, revents, maxi>>,
         NEW f, client' = f, NEW o, OpenFds' = o, PollTable(f, maxi, o),
         \A fd \in OpenFds' : Owes(fd, 0)',
         NEW k \in Nat, k >= 1, NEW left \in Nat, PollServer!ScanFrom(k, left),
         NEW todo \in SUBSET (k..maxi), left = Cardinality(todo), left \in 0..(MaxFds + 1),
         todo # {},
         \A s \in todo : revents[s] /\ client[s] >= 0,
         \A s \in k..maxi : f[s] = client[s],
         \A fd \in Fds : (\E s \in todo : client[s] = fd) => CanRead(fd)',
         \A s \in k..maxi : revents[s] /\ client[s] >= 0 /\ s \notin todo
           => \A g \in todo : g < s
  PROVE  PollInv'
<1>1. PICK R : R = {s \in k..maxi : client[s] >= 0 /\ revents[s]}
  OBVIOUS
<1>2. todo \subseteq R /\ R # {} /\ R \subseteq Nat
  <2>1. maxi \in Nat
    BY PollFacts
  <2>2. R \subseteq Nat
    BY <1>1, <2>1
  <2>3. todo \subseteq R
    BY <1>1
  <2>. QED BY <2>2, <2>3
<1>3. /\ server' = "read" /\ i' = PollServer!Min(R) /\ n' = 0 /\ nready' = left
  BY <1>1, <1>2 DEF PollServer!ScanFrom
<1>4. PollServer!Min(R) = Min(R)
  BY DEF PollServer!Min, Min
<1>5. PICK j \in R : j = PollServer!Min(R) /\ \A y \in R : j <= y
  BY <1>2, <1>4, MinIs
<1>6. PICK m \in Nat : m = maxi
  BY PollFacts
<1>7. j \in k..m /\ j \in 1..m /\ i' = j
  BY <1>1, <1>3, <1>5, <1>6
<1>8. j \in todo
  <2>. SUFFICES ASSUME j \notin todo PROVE FALSE
    OBVIOUS
  <2>1. PICK g \in todo : TRUE
    OBVIOUS
  <2>2. g < j
    BY <1>1, <1>5, <2>1
  <2>3. j <= g /\ g \in Nat /\ j \in Nat
    BY <1>2, <1>5
  <2>. QED BY <2>2, <2>3
<1>9. PICK r : r = revents
  OBVIOUS
<1>10. \A s \in todo : r[s] /\ f[s] \in OpenFds' /\ Readable(f[s])'
  <2>. SUFFICES ASSUME NEW s \in todo PROVE r[s] /\ f[s] \in OpenFds' /\ Readable(f[s])'
    OBVIOUS
  <2>1. s \in k..maxi /\ s \in 1..maxi /\ s \in PollServer!Slots
    BY PollFacts
  <2>2. PICK g \in Fds : g = client[s] /\ g = f[s]
    BY <2>1, PollFacts
  <2>3. CanRead(g)'
    BY <2>2
  <2>. QED
    BY <1>9, <2>2, <2>3 DEF CanRead
<1>11. \A s \in 1..m : r[s] /\ f[s] >= 0 /\ s \notin todo
         => \/ \A g \in todo : g < s
            \/ s < j
  <2>. SUFFICES ASSUME NEW s \in 1..m, r[s], f[s] >= 0, s \notin todo, ~(s < j)
                PROVE  \A g \in todo : g < s
    OBVIOUS
  <2>1. s \in k..maxi
    BY <1>6, <1>7
  <2>. QED BY <1>9, <2>1
<1>12. todo \subseteq 1..m
  BY <1>6
<1>13. \A s \in todo : j <= s
  BY <1>2, <1>5
<1>14. left = Cardinality(todo) + 0
  OBVIOUS
<1>15. PollLeft(todo)'
  <2>1. maxi' = m /\ client' = f /\ revents' = r /\ nready' = left /\ server' = "read" /\ i' = j
    BY <1>3, <1>6, <1>7, <1>9
  <2>. QED
    BY <1>8, <1>10, <1>11, <1>12, <1>13, <1>14, <2>1 DEF PollLeft, Readable
<1>16. PollPending'
  <2>1. todo \in SUBSET (1..maxi')
    BY <1>6, <1>12
  <2>. QED
    BY <1>3, <1>15, <2>1 DEF PollPending
<1>17. PollOwes' /\ PollServer!EndsForAReason'
  BY <1>3 DEF PollOwes, PollServer!EndsForAReason
<1>18. PollServer!TypeOK' /\ PollServer!WatchesAll'
  <2>1. j \in 1..OPEN_MAX
    BY <1>6, <1>7, PollFacts, ServersAssumption
  <2>2. revents' \in [PollServer!Slots -> BOOLEAN]
    BY PollFacts
  <2>3. 0 \in 0..MaxSegments
    BY EchoAssumption
  <2>. QED
    BY <1>3, <1>6, <1>7, <2>1, <2>2, <2>3, PollTypes
<1>. QED
  BY <1>16, <1>17, <1>18 DEF PollInv

\* What is ready at i has been handled
LEMMA PollHandles ==
  ASSUME NetInv, PollInv, server \in {"read", "write"}, UNCHANGED <<program, revents, maxi>>,
         NetInv', NEW f, client' = f, NEW o, OpenFds' = o, PollTable(f, maxi, o),
         PollServer!Handled,
         NEW fd \in OpenFds, fd = client[i],
         \A s : s # i => f[s] = client[s],
         \A g \in OpenFds \ {fd} : sock'[g] = sock[g] /\ Same(sock[g]),
         \A g \in OpenFds' : Owes(g, 0)'
  PROVE  PollInv'
<1>1. PICK todo \in SUBSET (1..maxi) : PollLeft(todo)
  BY DEF PollInv, PollPending
<1>2. /\ nready = Cardinality(todo) /\ i \in todo /\ \A s \in todo : i <= s
      /\ \A s \in todo : revents[s] /\ client[s] \in OpenFds
      /\ \A s \in todo : s # i => Readable(client[s])
      /\ \A s \in 1..maxi : revents[s] /\ client[s] >= 0 /\ s \notin todo
           => (\A g \in todo : g < s) \/ s < i
  <2>1. Cardinality(todo) + 0 = nready
    BY <1>1 DEF PollLeft
  <2>2. nready \in Nat /\ IsFiniteSet(todo) /\ Cardinality(todo) \in Nat
    <3>1. nready \in Nat /\ IsFiniteSet(1..maxi)
      BY PollFacts, FS_Interval, EchoAssumption
    <3>2. IsFiniteSet(todo)
      BY <3>1, FS_Subset
    <3>. QED BY <3>1, <3>2, FS_CardinalityType
  <2>3. nready = Cardinality(todo)
    BY <2>1, <2>2
  <2>. QED BY <1>1, <2>3 DEF PollLeft
<1>3. CASE nready <= 1
  <2>1. PICK m : m = maxi
    OBVIOUS
  <2>2. revents' \in [PollServer!Slots -> BOOLEAN]
    BY PollFacts
  <2>. QED
    BY <1>3, <2>1, <2>2, PollNextTurn DEF PollServer!Handled
<1>4. CASE ~(nready <= 1)
  <2>. DEFINE T == todo \ {i}
  <2>1. nready \in 0..(MaxFds + 1) /\ nready \in Nat /\ i \in Nat /\ maxi \in Nat
    BY PollFacts, EchoAssumption
  <2>2. PICK left \in 0..(MaxFds + 1) : left = nready - 1 /\ left \in Nat /\ left >= 1
    BY <1>4, <2>1, EchoAssumption
  <2>3. PICK k \in Nat : k = i + 1
    BY <2>1
  <2>4. PollServer!ScanFrom(k, left)
    BY <1>4, <2>2, <2>3 DEF PollServer!Handled
  <2>5. IsFiniteSet(todo)
    <3>1. IsFiniteSet(1..maxi)
      BY <2>1, FS_Interval
    <3>. QED BY <3>1, FS_Subset
  <2>6. left = Cardinality(T)
    BY <1>2, <2>2, <2>5, FS_RemoveElement
  <2>7. T # {}
    BY <2>2, <2>6, FS_EmptySet
  <2>8. \A s \in todo : s \in Nat /\ s >= 1 /\ s <= maxi
    BY <2>1
  <2>9. k >= 1
    BY <2>1, <2>3
  <2>10. \A s \in T : s \in k..maxi
    BY <1>2, <2>1, <2>3, <2>8
  <2>11. \A s \in T : revents[s] /\ client[s] >= 0
    BY <1>2, EchoAssumption DEF OpenFds, Fds
  <2>12. \A s \in k..maxi : s # i /\ s \in 1..maxi /\ ~(s < i)
    BY <2>1, <2>3
  <2>13. \A s \in k..maxi : f[s] = client[s]
    BY <2>12
  <2>14. ASSUME NEW g \in Fds, NEW s \in T, client[s] = g
         PROVE  CanRead(g)'
    <3>1. CanRead(g)
      BY <1>2, <2>14 DEF CanRead
    <3>2. g # fd
      <4>1. s \in PollServer!Slots /\ i \in PollServer!Slots /\ s # i
        BY <1>2, PollFacts
      <4>2. g >= 0
        BY EchoAssumption DEF Fds
      <4>. QED BY <2>14, <4>1, <4>2, PollFacts
    <3>. QED BY <3>1, <3>2, OthersKeep DEF CanRead
  <2>15. \A s \in k..maxi : revents[s] /\ client[s] >= 0 /\ s \notin T => \A g \in T : g < s
    BY <1>2, <2>12
  <2>. HIDE DEF T
  <2>. QED
    BY <2>2, <2>4, <2>6, <2>7, <2>9, <2>10, <2>11, <2>13, <2>14, <2>15, PollScans
<1>. QED BY <1>3, <1>4

\* Accept and the end of a connection write the table
LEMMA PollAdds ==
  ASSUME NetInv, PollInv, NEW fd \in Fds, fd \notin OpenFds,
         NEW m \in PollServer!FreeSlots, \A s \in PollServer!FreeSlots : m <= s,
         NEW f, f = [client EXCEPT ![m] = fd],
         NEW x, x = (IF m > maxi THEN m ELSE maxi)
  PROVE  /\ PollTable(f, x, OpenFds \cup {fd}) /\ x \in Nat /\ m \in 1..x
         /\ \A s \in 1..x : s # m => s \in 1..maxi
<1>1. /\ m \in PollServer!Slots /\ client[m] < 0 /\ m \in Nat /\ m >= 1 /\ maxi \in Nat
      /\ \A s \in PollServer!Slots : s \in Nat /\ s >= 1 /\ s < OPEN_MAX
  BY PollFacts DEF PollServer!FreeSlots
<1>2. /\ f \in [PollServer!Slots -> Fds \cup {-1}] /\ f[m] = fd
      /\ \A s : s # m => f[s] = client[s]
  BY <1>1, PollFacts
<1>3. x \in Nat /\ m \in 1..x /\ (x = m \/ x = maxi) /\ x \in PollServer!Slots \cup {0}
      /\ 1..maxi \subseteq 1..x
  BY <1>1, PollFacts
<1>4. \A g \in OpenFds \cup {fd} : \E s \in 1..x : f[s] = g
  <2>. SUFFICES ASSUME NEW g \in OpenFds \cup {fd} PROVE \E s \in 1..x : f[s] = g
    OBVIOUS
  <2>1. CASE g = fd
    BY <2>1, <1>2, <1>3
  <2>2. CASE g # fd
    <3>1. PICK s \in 1..maxi : client[s] = g
      BY <2>2, PollFacts
    <3>2. g >= 0 /\ g \in Nat
      BY EchoAssumption DEF OpenFds, Fds
    <3>3. s # m
      BY <1>1, <3>1, <3>2
    <3>. QED BY <1>2, <1>3, <3>1, <3>3
  <2>. QED BY <2>1, <2>2
<1>5. \A s, t \in PollServer!Slots : f[s] = f[t] /\ f[s] >= 0 => s = t /\ f[s] \in OpenFds \cup {fd}
  <2>1. \A s, t \in PollServer!Slots :
          client[s] = client[t] /\ client[s] >= 0 => s = t /\ client[s] \in OpenFds
    BY PollFacts
  <2>2. \A s \in PollServer!Slots : client[s] # fd
    BY <2>1, EchoAssumption DEF Fds
  <2>. QED BY <1>2, <2>1, <2>2
<1>6. \A s \in 1..x : s # m => s \in 1..maxi
  <2>. SUFFICES ASSUME NEW s \in 1..x, s # m, ~(s <= maxi) PROVE FALSE
    BY <1>1
  <2>1. x = m /\ s < m /\ s \in PollServer!Slots
    BY <1>1, <1>3, ServersAssumption DEF PollServer!Slots
  <2>2. ~(client[s] < 0)
    BY <1>1, <2>1 DEF PollServer!FreeSlots
  <2>3. client[s] >= 0
    <3>1. client[s] \in Int
      BY <2>1, PollFacts, EchoAssumption DEF Fds
    <3>. QED BY <2>2, <3>1
  <2>4. client[s] \in OpenFds
    BY <2>1, <2>3, PollFacts
  <2>5. PICK t \in 1..maxi : client[t] = client[s]
    BY <2>4, PollFacts
  <2>6. t \in PollServer!Slots /\ t # s
    BY <1>1, PollFacts
  <2>. QED BY <2>1, <2>3, <2>5, <2>6, PollFacts
<1>. QED
  BY <1>2, <1>3, <1>4, <1>5, <1>6 DEF PollTable

\* The table once entry x has been taken from it
Without(x) == [client EXCEPT ![x] = -1]

LEMMA PollForgets ==
  ASSUME NetInv, PollInv, NEW x \in 1..maxi, client[x] \in OpenFds
  PROVE  /\ PollTable(Without(x), maxi, OpenFds \ {client[x]})
         /\ \A s : s # x => Without(x)[s] = client[s]
<1>. DEFINE f == Without(x)
            fd == client[x]
<1>1. x \in PollServer!Slots /\ fd \in Nat
  BY PollFacts, OpenFacts
<1>2. /\ f \in [PollServer!Slots -> Fds \cup {-1}] /\ f[x] = -1
      /\ \A s : s # x => f[s] = client[s]
  BY <1>1, PollFacts DEF Without
<1>. HIDE DEF f
<1>3. \A g \in OpenFds \ {fd} : \E s \in 1..maxi : f[s] = g
  BY <1>2, PollFacts
<1>4. \A s, t \in PollServer!Slots : f[s] = f[t] /\ f[s] >= 0 => s = t /\ f[s] \in OpenFds \ {fd}
  BY <1>1, <1>2, PollFacts
<1>5. PollTable(f, maxi, OpenFds \ {fd})
  BY <1>2, <1>3, <1>4, PollFacts DEF PollTable
<1>. QED
  BY <1>2, <1>5 DEF f

LEMMA PollInit ==
  ASSUME PollServer!Init
  PROVE  NetInv /\ PollInv
<1>. USE DEF PollServer!Init
<1>1. NetInv /\ OpenFds = {}
  BY InitNetInv, PollNet
<1>2. 0 \in 0..(MaxFds + 1) /\ 1 \in 1..OPEN_MAX /\ 0 \in 0..MaxSegments
  BY EchoAssumption, ServersAssumption
<1>3. PollServer!TypeOK
  BY <1>1, <1>2, PollNet DEF PollServer!TypeOK, NetInv
<1>4. PollServer!WatchesAll
  <2>1. \A s \in PollServer!Slots : client[s] = -1 /\ ~(client[s] >= 0)
    OBVIOUS
  <2>. QED
    BY <1>1, <2>1, PollNet DEF PollServer!WatchesAll
<1>5. PollServer!EndsForAReason /\ PollPending /\ PollOwes
  BY <1>1 DEF PollServer!EndsForAReason, PollPending, PollOwes
<1>. QED
  BY <1>1, <1>3, <1>4, <1>5 DEF PollInv

LEMMA PollOthers ==
  ASSUME NetInv, PollInv, NetKeeps, UNCHANGED <<program, main>>
  PROVE  PollInv'
<1>. UNCHANGED <<program, server, n, client, maxi, nready, i, revents>>
  BY DEF main, table
<1>1. NetInv' /\ OpenFds' = OpenFds
  BY DEF NetKeeps
<1>2. PICK f : f = client
  OBVIOUS
<1>3. PICK m : m = maxi
  OBVIOUS
<1>4. PICK o : o = OpenFds
  OBVIOUS
<1>5. PollServer!TypeOK' /\ PollServer!WatchesAll'
  <2>1. PollTable(f, m, o)
    BY <1>2, <1>3, <1>4, PollNow
  <2>2. /\ server' \in {"poll", "accept", "scan", "read", "write", "dead"}
        /\ revents' \in [PollServer!Slots -> BOOLEAN] /\ nready' \in 0..(MaxFds + 1)
        /\ i' \in 1..OPEN_MAX /\ n' \in 0..MaxSegments
    BY PollFacts
  <2>3. client' = f /\ maxi' = m /\ OpenFds' = o
    BY <1>1, <1>2, <1>3, <1>4
  <2>. QED
    BY <1>1, <2>1, <2>2, <2>3, PollTypes
<1>6. PollServer!EndsForAReason'
  <2>1. NoFdLeft' = NoFdLeft
    BY <1>1 DEF NoFdLeft, Fds
  <2>2. PollServer!FreeSlots' = PollServer!FreeSlots
    BY DEF PollServer!FreeSlots, PollServer!Slots
  <2>. QED
    BY <2>1, <2>2, PollNet DEF PollInv, PollServer!EndsForAReason, NetKeeps
<1>7. PollPending'
  <2>1. server = "accept" => queue' # <<>>
    BY DEF PollInv, PollPending, NetKeeps
  <2>2. ASSUME server \in {"accept", "scan", "read", "write"}
        PROVE  \E todo \in SUBSET (1..maxi) : PollLeft(todo)'
    <3>1. PICK todo \in SUBSET (1..maxi) : PollLeft(todo)
      BY <2>2 DEF PollInv, PollPending
    <3>2. ASSUME NEW s \in todo
          PROVE  /\ f[s] \in OpenFds'
                 /\ Readable(f[s])' \/ (server = "write" /\ s = i)
      <4>1. f[s] \in OpenFds /\ (Readable(f[s]) \/ (server = "write" /\ s = i))
        BY <1>2, <3>1 DEF PollLeft
      <4>. QED BY <1>1, <4>1 DEF NetKeeps
    <3>3. PollLeft(todo)'
      BY <1>2, <3>1, <3>2 DEF PollLeft, Readable
    <3>. QED BY <3>3
  <2>. QED
    BY <2>1, <2>2 DEF PollPending
<1>8. PollOwes'
  <2>1. PICK x \in Nat : x = n
    BY PollFacts
  <2>2. PICK g : g = f[i]
    OBVIOUS
  <2>3. \A fd \in OpenFds, y \in Nat : Owes(fd, y) => Owes(fd, y)'
    BY DEF NetKeeps
  <2>4. \A fd \in OpenFds : Owes(fd, IF server = "write" /\ fd = g THEN x ELSE 0)
    BY <1>2, <2>1, <2>2 DEF PollInv, PollOwes
  <2>5. \A fd \in OpenFds : Owes(fd, IF server = "write" /\ fd = g THEN x ELSE 0)'
    BY <2>3, <2>4
  <2>. QED
    BY <1>1, <1>2, <2>1, <2>2, <2>5 DEF PollOwes, Owes, Fits, RunsEvents
<1>. QED
  BY <1>5, <1>6, <1>7, <1>8 DEF PollInv

LEMMA PollDies ==
  ASSUME NetInv, PollInv, PollServer!Die, UNCHANGED program,
         \A fd \in OpenFds : Owes(fd, 0),
         \/ queue # <<>> /\ (NoFdLeft \/ PollServer!FreeSlots = {})
         \/ \E c \in Clients : peer[c] \in {"reset", "broken"}
  PROVE  NetInv' /\ PollInv' /\ NothingCut
<1>1. /\ server' = "dead" /\ UNCHANGED net /\ UNCHANGED <<client, maxi, nready, i, revents, n>>
  BY DEF PollServer!Die, PollServer!net, net, PollServer!tables, PollServer!scan
<1>2. NetKeeps
  BY <1>1, StutterKeeps
<1>3. NetInv' /\ OpenFds' = OpenFds /\ UNCHANGED <<peer, queue, sock>>
  BY <1>1, <1>2 DEF NetKeeps, net
<1>4. PollServer!TypeOK' /\ PollServer!WatchesAll'
  <2>1. PICK f : f = client
    OBVIOUS
  <2>2. PICK m : m = maxi
    OBVIOUS
  <2>3. PICK o : o = OpenFds
    OBVIOUS
  <2>4. PollTable(f, m, o) /\ client' = f /\ maxi' = m /\ OpenFds' = o
    BY <1>1, <1>3, <2>1, <2>2, <2>3, PollNow
  <2>5. /\ server' \in {"poll", "accept", "scan", "read", "write", "dead"}
        /\ revents' \in [PollServer!Slots -> BOOLEAN] /\ nready' \in 0..(MaxFds + 1)
        /\ i' \in 1..OPEN_MAX /\ n' \in 0..MaxSegments
    BY <1>1, PollFacts
  <2>. QED
    BY <1>3, <2>4, <2>5, PollTypes
<1>5. PollServer!EndsForAReason'
  <2>1. NoFdLeft' = NoFdLeft
    BY <1>3 DEF NoFdLeft, Fds
  <2>2. PollServer!FreeSlots' = PollServer!FreeSlots
    BY <1>1 DEF PollServer!FreeSlots, PollServer!Slots
  <2>. QED
    BY <1>3, <2>1, <2>2, PollNet DEF PollServer!EndsForAReason
<1>6. PollPending'
  BY <1>1 DEF PollPending
<1>7. PollOwes'
  BY <1>1, <1>2, <1>3 DEF PollOwes, NetKeeps
<1>8. NothingCut
  BY <1>3 DEF NothingCut
<1>. QED
  BY <1>3, <1>4, <1>5, <1>6, <1>7, <1>8 DEF PollInv

LEMMA PollPolls ==
  ASSUME NetInv, PollInv, PollServer!Poll, UNCHANGED program
  PROVE  NetInv' /\ PollInv' /\ NothingCut
<1>1. PICK T : T = PollServer!ReadySlots
  OBVIOUS
<1>2. PICK f \in [PollServer!Slots -> Fds \cup {-1}] : f = client
  BY PollFacts
<1>3. PICK m \in Nat : m = maxi
  BY PollFacts
<1>4. PICK o : o = OpenFds
  OBVIOUS
<1>5. T = {s \in 1..m : f[s] >= 0 /\ Readable(f[s])}
  BY <1>1, <1>2, <1>3, PollNet DEF PollServer!ReadySlots
<1>6. PICK r : r = [s \in PollServer!Slots |-> IF s <= m THEN s \in T ELSE revents[s]]
  OBVIOUS
<1>7. /\ server = "poll" /\ PollServer!LfdReady + Cardinality(T) > 0
      /\ nready' = PollServer!LfdReady + Cardinality(T)
      /\ revents' = r
      /\ server' = IF queue # <<>> THEN "accept" ELSE "scan"
      /\ UNCHANGED net /\ UNCHANGED <<client, maxi, i, n>>
  BY <1>1, <1>3, <1>6, PollCounts DEF PollServer!Poll, PollServer!net, net
<1>8. NetKeeps
  BY <1>7, StutterKeeps
<1>9. NetInv' /\ OpenFds' = OpenFds /\ UNCHANGED <<peer, queue, sock>>
  BY <1>7, <1>8 DEF NetKeeps, net
<1>10. 1..m \subseteq PollServer!Slots /\ \A s \in PollServer!Slots : f[s] >= 0 => f[s] \in OpenFds
  BY <1>2, <1>3, PollFacts
<1>11. IsFiniteSet(T) /\ Cardinality(T) \in Nat /\ Cardinality(T) <= MaxFds
  <2>. DEFINE g == [s \in T |-> f[s]]
  <2>1. \A s \in T : s \in PollServer!Slots /\ f[s] >= 0 /\ f[s] \in Fds
    BY <1>5, <1>10 DEF OpenFds
  <2>2. g \in Injection(T, Fds)
    <3>1. \A s, t \in T : f[s] = f[t] => s = t
      BY <1>2, <2>1, PollFacts
    <3>. QED
      BY <2>1, <3>1 DEF Injection, IsInjective
  <2>3. IsFiniteSet(Fds) /\ Cardinality(Fds) = MaxFds
    BY FS_Interval, EchoAssumption DEF Fds
  <2>. HIDE DEF g
  <2>4. IsFiniteSet(T) /\ Cardinality(T) <= MaxFds
    BY <2>2, <2>3, FS_Injection
  <2>. QED
    BY <2>4, FS_CardinalityType
<1>12. r \in [PollServer!Slots -> BOOLEAN] /\ \A s \in 1..m : r[s] <=> s \in T
  <2>1. revents \in [PollServer!Slots -> BOOLEAN]
    BY PollFacts
  <2>2. \A s \in PollServer!Slots : revents[s] \in BOOLEAN
    BY <2>1
  <2>3. \A s \in PollServer!Slots : (IF s <= m THEN s \in T ELSE revents[s]) \in BOOLEAN
    <3>. SUFFICES ASSUME NEW s \in PollServer!Slots
                  PROVE  (IF s <= m THEN s \in T ELSE revents[s]) \in BOOLEAN
      OBVIOUS
    <3>1. (s \in T) \in BOOLEAN
      OBVIOUS
    <3>2. CASE s <= m
      BY <3>1, <3>2, Zenon
    <3>3. CASE ~(s <= m)
      BY <2>2, <3>3, Zenon
    <3>. QED BY <3>2, <3>3
  <2>4. r \in [PollServer!Slots -> BOOLEAN]
    BY <1>6, <2>3
  <2>5. \A s \in 1..m : s \in PollServer!Slots /\ s <= m
    BY <1>10
  <2>6. \A s \in 1..m : r[s] <=> s \in T
    BY <1>6, <2>5
  <2>. QED BY <2>4, <2>6
<1>13. /\ queue # <<>> => PollServer!LfdReady = 1
       /\ queue = <<>> => PollServer!LfdReady = 0
  BY DEF PollServer!LfdReady
<1>14. PollServer!TypeOK' /\ PollServer!WatchesAll'
  <2>1. nready' \in 0..(MaxFds + 1)
    BY <1>7, <1>11, <1>13, EchoAssumption
  <2>2. PollTable(f, m, o) /\ client' = f /\ maxi' = m /\ OpenFds' = o
    BY <1>2, <1>3, <1>4, <1>7, <1>9, PollNow
  <2>3. /\ server' \in {"poll", "accept", "scan", "read", "write", "dead"}
        /\ revents' \in [PollServer!Slots -> BOOLEAN]
        /\ i' \in 1..OPEN_MAX /\ n' \in 0..MaxSegments
    BY <1>7, <1>12, PollFacts
  <2>. QED
    BY <1>9, <2>1, <2>2, <2>3, PollTypes
<1>15. PollServer!EndsForAReason'
  BY <1>7 DEF PollServer!EndsForAReason
<1>16. PollPending'
  <2>1. \A s \in T : /\ s \in 1..m /\ r[s] /\ f[s] \in OpenFds' /\ Readable(f[s])'
    <3>1. \A s \in T : s \in 1..m /\ r[s] /\ f[s] \in OpenFds /\ Readable(f[s])
      BY <1>5, <1>10, <1>12
    <3>. QED BY <1>8, <1>9, <3>1 DEF NetKeeps
  <2>2. CASE queue # <<>>
    <3>1. server' = "accept" /\ queue' # <<>> /\ nready' = Cardinality(T) + 1
      BY <1>7, <1>9, <1>11, <1>13, <2>2
    <3>2. PollLeft(T)'
      BY <1>2, <1>3, <1>7, <1>12, <2>1, <3>1 DEF PollLeft, Readable
    <3>3. T \in SUBSET (1..maxi')
      BY <1>3, <1>7, <2>1
    <3>. QED BY <3>1, <3>2, <3>3 DEF PollPending
  <2>3. CASE queue = <<>>
    <3>1. server' = "scan" /\ nready' = Cardinality(T) + 0 /\ Cardinality(T) # 0
      BY <1>7, <1>11, <1>13, <2>3
    <3>2. T # {}
      BY <3>1, FS_EmptySet
    <3>3. PollLeft(T)'
      BY <1>2, <1>3, <1>7, <1>12, <2>1, <3>1, <3>2 DEF PollLeft, Readable
    <3>4. T \in SUBSET (1..maxi')
      BY <1>3, <1>7, <2>1
    <3>. QED BY <3>1, <3>3, <3>4 DEF PollPending
  <2>. QED BY <2>2, <2>3
<1>17. PollOwes'
  BY <1>7, <1>8, <1>9 DEF PollInv, PollOwes, NetKeeps
<1>18. NothingCut
  BY <1>9 DEF NothingCut
<1>. QED
  BY <1>9, <1>14, <1>15, <1>16, <1>17, <1>18 DEF PollInv

LEMMA PollAccepts ==
  ASSUME NetInv, PollInv, PollServer!AcceptSlot, UNCHANGED program
  PROVE  NetInv' /\ PollInv' /\ NothingCut
<1>1. server = "accept" /\ ~NoFdLeft /\ PollServer!FreeSlots # {}
  BY PollNet DEF PollServer!AcceptSlot
<1>2. PICK fd \in Fds : fd = LowestFd /\ fd \notin OpenFds
  BY <1>1, LowestIsFree
<1>3. PICK m \in PollServer!FreeSlots :
         m = PollServer!Min(PollServer!FreeSlots) /\ \A s \in PollServer!FreeSlots : m <= s
  <2>1. PollServer!FreeSlots \subseteq Nat
    BY PollFacts DEF PollServer!FreeSlots
  <2>2. PollServer!Min(PollServer!FreeSlots) = Min(PollServer!FreeSlots)
    BY DEF PollServer!Min, Min
  <2>. QED BY <1>1, <2>1, <2>2, MinIs
<1>4. PICK f : f = [client EXCEPT ![m] = fd]
  OBVIOUS
<1>5. PICK x : x = IF m > maxi THEN m ELSE maxi
  OBVIOUS
<1>6. PICK o : o = OpenFds \cup {fd}
  OBVIOUS
<1>7. /\ PollTable(f, x, o) /\ x \in Nat /\ m \in 1..x /\ \A s \in 1..x : s # m => s \in 1..maxi
  BY <1>2, <1>3, <1>4, <1>5, <1>6, PollAdds
<1>8. /\ Accept(fd) /\ client' = f /\ maxi' = x
      /\ m <= maxi => UNCHANGED revents
      /\ \/ UNCHANGED revents
         \/ \E set \in BOOLEAN : revents' = [revents EXCEPT ![m] = set]
  <2>1. m \in Nat /\ maxi \in Nat
    BY PollFacts DEF PollServer!FreeSlots
  <2>. QED
    BY <1>2, <1>3, <1>4, <1>5, <2>1, PollNet DEF PollServer!AcceptSlot
<1>9. /\ NetInv' /\ OpenFds' = o /\ \A c : Same(c)
      /\ \A g \in OpenFds : sock'[g] = sock[g]
  BY <1>2, <1>6, <1>8, AcceptKeeps
<1>10. Owes(fd, 0)'
  BY <1>2, <1>8, AcceptKeeps
<1>11. \A g \in OpenFds : Owes(g, 0)
  BY <1>1 DEF PollInv, PollOwes
<1>12. \A g \in OpenFds : (CanRead(g) => CanRead(g)') /\ Owes(g, 0)'
  BY <1>9, <1>11, OthersKeep
<1>13. \A g \in OpenFds' : Owes(g, 0)'
  BY <1>6, <1>9, <1>10, <1>12
<1>14. PICK r : r = revents'
  OBVIOUS
<1>15. /\ r \in [PollServer!Slots -> BOOLEAN]
       /\ \A s : s # m => r[s] = revents[s]
       /\ m <= maxi => r = revents
  <2>1. revents \in [PollServer!Slots -> BOOLEAN] /\ m \in PollServer!Slots
    BY PollFacts DEF PollServer!FreeSlots
  <2>2. CASE UNCHANGED revents
    BY <1>14, <2>1, <2>2
  <2>3. CASE \E set \in BOOLEAN : revents' = [revents EXCEPT ![m] = set]
    <3>1. PICK set \in BOOLEAN : r = [revents EXCEPT ![m] = set]
      BY <1>14, <2>3
    <3>2. [revents EXCEPT ![m] = set] \in [PollServer!Slots -> BOOLEAN]
      BY <2>1
    <3>3. \A s : s # m => [revents EXCEPT ![m] = set][s] = revents[s]
      BY <2>1
    <3>. QED BY <1>8, <1>14, <3>1, <3>2, <3>3
  <2>. QED BY <1>8, <2>2, <2>3
<1>16. NothingCut
  BY <1>9 DEF NothingCut, Same
<1>17. CASE nready <= 1
  <2>1. PollServer!NextTurn
    BY <1>17 DEF PollServer!AcceptSlot
  <2>2. PollInv'
    BY <1>7, <1>8, <1>9, <1>13, <1>14, <1>15, <2>1, PollNextTurn
  <2>. QED BY <1>9, <1>16, <2>2
<1>18. CASE ~(nready <= 1)
  <2>1. server' = "scan" /\ nready' = nready - 1 /\ UNCHANGED <<i, n>>
    BY <1>18 DEF PollServer!AcceptSlot
  <2>2. PICK T \in SUBSET (1..maxi) : PollLeft(T)
    BY <1>1 DEF PollInv, PollPending
  <2>3. IsFiniteSet(T) /\ Cardinality(T) \in Nat
    <3>1. IsFiniteSet(1..maxi)
      BY PollFacts, FS_Interval
    <3>. QED BY <3>1, FS_Subset, FS_CardinalityType
  <2>4. nready = Cardinality(T) + 1 /\ nready \in 0..(MaxFds + 1) /\ nready \in Nat
    BY <1>1, <2>2, PollFacts, EchoAssumption DEF PollLeft
  <2>5. PICK y \in 0..(MaxFds + 1) : y = nready - 1 /\ y = Cardinality(T) + 0 /\ y >= 1
    BY <1>18, <2>3, <2>4, EchoAssumption
  <2>6. T # {}
    BY <2>3, <2>5, FS_EmptySet
  <2>7. m \notin T /\ m \in PollServer!Slots /\ client[m] < 0
    <3>1. client[m] < 0
      BY DEF PollServer!FreeSlots
    <3>2. \A s \in T : client[s] \in OpenFds
      BY <2>2 DEF PollLeft
    <3>3. \A g \in OpenFds : ~(g < 0)
      BY EchoAssumption DEF OpenFds, Fds
    <3>4. m \in PollServer!Slots
      BY DEF PollServer!FreeSlots
    <3>. QED
      BY <3>1, <3>2, <3>3, <3>4
  <2>8. f \in [PollServer!Slots -> Fds \cup {-1}] /\ \A s : s # m => f[s] = client[s]
    BY <1>4, <1>7, <2>7, PollFacts DEF PollTable
  <2>9. \A s \in T : r[s] /\ f[s] \in OpenFds' /\ Readable(f[s])'
    <3>. SUFFICES ASSUME NEW s \in T PROVE r[s] /\ f[s] \in OpenFds' /\ Readable(f[s])'
      OBVIOUS
    <3>1. s # m /\ f[s] = client[s] /\ r[s]
      BY <1>15, <2>2, <2>7, <2>8 DEF PollLeft
    <3>2. CanRead(f[s])
      BY <1>1, <2>2, <3>1 DEF PollLeft, CanRead
    <3>3. CanRead(f[s])'
      <4>1. PICK g : g = f[s]
        OBVIOUS
      <4>2. CanRead(g)'
        BY <1>12, <3>2, <4>1 DEF CanRead
      <4>. QED BY <4>1, <4>2
    <3>. QED BY <3>1, <3>3 DEF CanRead
  <2>10. \A s \in 1..x : r[s] /\ f[s] >= 0 /\ s \notin T => \A g \in T : g < s
    <3>. SUFFICES ASSUME NEW s \in 1..x, r[s], s \notin T PROVE \A g \in T : g < s
      OBVIOUS
    <3>1. CASE s # m
      BY <1>1, <1>7, <1>15, <2>2, <3>1 DEF PollLeft
    <3>2. CASE s = m
      <4>1. maxi \in Nat /\ m \in Nat
        BY PollFacts, <2>7
      <4>2. CASE m <= maxi
        <5>1. m \in 1..maxi /\ revents[m]
          BY <1>7, <1>15, <3>2, <4>1, <4>2
        <5>. QED BY <1>1, <2>2, <2>7, <5>1 DEF PollLeft
      <4>3. CASE ~(m <= maxi)
        BY <3>2, <4>1, <4>3
      <4>. QED BY <4>2, <4>3
    <3>. QED BY <3>1, <3>2
  <2>11. T \in SUBSET (1..x)
    <3>1. maxi \in Nat /\ (x = m \/ x = maxi) /\ m \in Nat /\ maxi <= x
      BY <1>5, <2>7, PollFacts
    <3>. QED BY <1>7, <3>1
  <2>12. PollLeft(T)'
    <3>1. server' = "scan" /\ maxi' = x /\ client' = f /\ revents' = r /\ nready' = y
      BY <1>8, <1>14, <2>1, <2>5
    <3>. QED
      BY <2>5, <2>6, <2>9, <2>10, <2>11, <3>1 DEF PollLeft, Readable
  <2>13. PollPending'
    <3>1. T \in SUBSET (1..maxi')
      BY <1>8, <2>11
    <3>. QED BY <2>1, <2>12, <3>1 DEF PollPending
  <2>14. PollServer!TypeOK' /\ PollServer!WatchesAll'
    <3>1. /\ server' \in {"poll", "accept", "scan", "read", "write", "dead"}
          /\ revents' \in [PollServer!Slots -> BOOLEAN] /\ nready' \in 0..(MaxFds + 1)
          /\ i' \in 1..OPEN_MAX /\ n' \in 0..MaxSegments
      BY <1>14, <1>15, <2>1, <2>5, PollFacts
    <3>. QED
      BY <1>7, <1>8, <1>9, <3>1, PollTypes
  <2>15. PollServer!EndsForAReason' /\ PollOwes'
    BY <1>13, <2>1 DEF PollServer!EndsForAReason, PollOwes
  <2>. QED
    BY <1>9, <1>16, <2>13, <2>14, <2>15 DEF PollInv
<1>. QED BY <1>17, <1>18

LEMMA PollStep ==
  ASSUME NetInv, PollInv, PollServer!Server, UNCHANGED program
  PROVE  NetInv' /\ PollInv' /\ NothingCut
<1>1. CASE PollServer!Poll
  BY <1>1, PollPolls
<1>2. CASE PollServer!AcceptSlot
  BY <1>2, PollAccepts
<1>3. CASE PollServer!AcceptFails
  <2>1. queue # <<>> /\ \A g \in OpenFds : Owes(g, 0)
    BY <1>3 DEF PollInv, PollPending, PollOwes, PollServer!AcceptFails
  <2>2. PollServer!Die /\ (NoFdLeft \/ PollServer!FreeSlots = {})
    BY <1>3, PollNet DEF PollServer!AcceptFails
  <2>. QED BY <2>1, <2>2, PollDies
<1>4. CASE PollServer!Scan
  <2>1. /\ server = "scan" /\ PollServer!ScanFrom(1, nready) /\ UNCHANGED net
        /\ UNCHANGED <<client, revents, maxi>>
    BY <1>4 DEF PollServer!Scan, PollServer!net, net, PollServer!tables
  <2>2. NetKeeps
    BY <2>1, StutterKeeps
  <2>3. NetInv' /\ OpenFds' = OpenFds /\ UNCHANGED peer
    BY <2>1, <2>2 DEF NetKeeps, net
  <2>4. PICK f : f = client
    OBVIOUS
  <2>5. PICK o : o = OpenFds
    OBVIOUS
  <2>6. client' = f /\ OpenFds' = o /\ PollTable(f, maxi, o)
    BY <2>1, <2>3, <2>4, <2>5, PollNow
  <2>7. \A g \in OpenFds' : Owes(g, 0)'
    BY <2>1, <2>2, <2>3 DEF PollInv, PollOwes, NetKeeps
  <2>8. PICK left \in 0..(MaxFds + 1) : left = nready /\ left \in Nat
    BY PollFacts, EchoAssumption
  <2>9. PICK T \in SUBSET (1..maxi) : PollLeft(T)
    BY <2>1 DEF PollInv, PollPending
  <2>10. left = Cardinality(T) /\ T # {}
    <3>1. IsFiniteSet(1..maxi)
      BY PollFacts, FS_Interval
    <3>2. IsFiniteSet(T)
      BY <3>1, FS_Subset
    <3>3. Cardinality(T) \in Nat
      BY <3>2, FS_CardinalityType
    <3>4. nready = Cardinality(T) + 0 /\ T # {}
      BY <2>1, <2>9 DEF PollLeft
    <3>. QED BY <2>8, <3>3, <3>4
  <2>11. \A s \in T : revents[s] /\ client[s] >= 0 /\ CanRead(client[s])
    BY <2>1, <2>9, EchoAssumption DEF PollLeft, CanRead, OpenFds, Fds
  <2>12. ASSUME NEW fd \in Fds, NEW s \in T, client[s] = fd
         PROVE  CanRead(fd)'
    <3>1. CanRead(fd)
      BY <2>11, <2>12
    <3>. QED BY <2>2, <2>3, <3>1 DEF NetKeeps, CanRead
  <2>13. \A s \in 1..maxi : revents[s] /\ client[s] >= 0 /\ s \notin T => \A g \in T : g < s
    BY <2>1, <2>9 DEF PollLeft
  <2>14. PICK k \in Nat : k = 1 /\ k >= 1
    OBVIOUS
  <2>15. PollServer!ScanFrom(k, left)
    BY <2>1, <2>8, <2>14
  <2>16. PollInv'
    BY <2>1, <2>3, <2>4, <2>6, <2>7, <2>8, <2>10, <2>11, <2>12, <2>13, <2>14, <2>15, PollScans
  <2>. QED
    BY <2>3, <2>16 DEF NothingCut
<1>5. CASE PollServer!ReadEnd
  <2>1. server = "read"
    BY <1>5 DEF PollServer!ReadEnd
  <2>2. PICK T \in SUBSET (1..maxi) : PollLeft(T)
    BY <2>1 DEF PollInv, PollPending
  <2>3. PICK x \in 1..maxi : x = i
    BY <2>1, <2>2 DEF PollLeft
  <2>4. PICK fd \in OpenFds : fd = client[i] /\ fd = client[x]
    BY <2>1, <2>2, <2>3 DEF PollLeft
  <2>5. Readable(fd) /\ ReadResult(fd) <= 0
    BY <1>5, <2>4, PollNet DEF PollServer!ReadEnd
  <2>6. \A g \in OpenFds : Owes(g, 0)
    BY <2>1 DEF PollInv, PollOwes
  <2>7. CASE ReadResult(fd) = -1 /\ PollServer!ExitsOnError
    <3>1. PollServer!Die /\ peer[sock[fd]] = "reset" /\ sock[fd] \in Clients
      BY <1>5, <2>4, <2>7, PollNet, OpenFacts DEF PollServer!ReadEnd, PollServer!ExitsOnError
    <3>. QED BY <2>6, <3>1, PollDies
  <2>8. CASE ~(ReadResult(fd) = -1 /\ PollServer!ExitsOnError)
    <3>1. Close(fd) /\ PollServer!ClearEntry /\ PollServer!Handled
      BY <1>5, <2>4, <2>8, PollNet DEF PollServer!ReadEnd
    <3>2. /\ NetInv' /\ OpenFds' = OpenFds \ {fd}
          /\ \A g \in OpenFds \ {fd} : sock'[g] = sock[g] /\ Same(sock[g])
      BY <3>1, CloseKeeps
    <3>3. \A g \in OpenFds' : Owes(g, 0)'
      BY <2>6, <3>2, OthersKeep
    <3>4. NothingCut
      BY <2>5, <2>6, <3>1, CloseCutsNothing
    <3>5. PICK f : f = [client EXCEPT ![x] = -1]
      OBVIOUS
    <3>6. PICK o : o = OpenFds \ {fd}
      OBVIOUS
    <3>7. PollTable(f, maxi, o) /\ \A s : s # i => f[s] = client[s]
      <4>1. client[x] = fd /\ client[x] \in OpenFds /\ f = Without(x)
        BY <2>4, <3>5 DEF Without
      <4>2. x = i
        BY <2>3
      <4>3. /\ PollTable(f, maxi, OpenFds \ {fd})
            /\ \A s : s # x => f[s] = client[s]
        BY <4>1, PollForgets
      <4>. QED BY <3>6, <4>2, <4>3
    <3>8. client' = f /\ OpenFds' = o /\ UNCHANGED <<revents, maxi>>
      BY <2>3, <3>1, <3>2, <3>5, <3>6 DEF PollServer!ClearEntry
    <3>9. PollInv'
      BY <2>1, <2>4, <3>1, <3>2, <3>3, <3>7, <3>8, PollHandles
    <3>. QED BY <3>2, <3>4, <3>9
  <2>. QED BY <2>7, <2>8
<1>6. CASE PollServer!ReadData
  <2>1. /\ server = "read" /\ server' = "write"
        /\ UNCHANGED <<client, revents, maxi, nready, i>>
    BY <1>6 DEF PollServer!ReadData, PollServer!tables
  <2>2. PICK T \in SUBSET (1..maxi) : PollLeft(T)
    BY <2>1 DEF PollInv, PollPending
  <2>3. PICK fd \in OpenFds : fd = client[i]
    BY <2>1, <2>2 DEF PollLeft
  <2>4. Readable(fd) /\ ReadResult(fd) > 0 /\ Read(fd) /\ n' = ReadResult(fd)
    BY <1>6, <2>3, PollNet DEF PollServer!ReadData
  <2>5. \A g \in OpenFds : Owes(g, 0)
    BY <2>1 DEF PollInv, PollOwes
  <2>6. PICK x \in Nat : x = unread[sock[fd]] /\ x \in 0..MaxSegments /\ x = ReadResult(fd)
    BY <2>4, ReadMeans, OpenFacts, EchoAssumption
  <2>7. /\ NetInv' /\ OpenFds' = OpenFds /\ Owes(fd, x)'
        /\ \A g \in OpenFds \ {fd} : sock'[g] = sock[g] /\ Same(sock[g])
    <3>1. 0 \in Nat /\ 0 <= x /\ x <= 0 + x /\ x = 0 + x
      OBVIOUS
    <3>. QED BY <2>4, <2>5, <2>6, <3>1, ReadKeeps
  <2>8. \A g \in OpenFds \ {fd} : (CanRead(g) => CanRead(g)') /\ Owes(g, 0)'
    BY <2>5, <2>7, OthersKeep
  <2>9. PICK f : f = client
    OBVIOUS
  <2>10. PICK m : m = maxi
    OBVIOUS
  <2>11. PICK o : o = OpenFds
    OBVIOUS
  <2>12. PollServer!TypeOK' /\ PollServer!WatchesAll'
    <3>1. PollTable(f, m, o) /\ client' = f /\ maxi' = m /\ OpenFds' = o
      BY <2>1, <2>7, <2>9, <2>10, <2>11, PollNow
    <3>2. /\ server' \in {"poll", "accept", "scan", "read", "write", "dead"}
          /\ revents' \in [PollServer!Slots -> BOOLEAN] /\ nready' \in 0..(MaxFds + 1)
          /\ i' \in 1..OPEN_MAX /\ n' \in 0..MaxSegments
      BY <2>1, <2>4, <2>6, PollFacts
    <3>. QED
      BY <2>7, <3>1, <3>2, PollTypes
  <2>13. PollServer!EndsForAReason'
    BY <2>1 DEF PollServer!EndsForAReason
  <2>14. PollPending'
    <3>1. ASSUME NEW s \in T
          PROVE  f[s] \in OpenFds' /\ (Readable(f[s])' \/ s = i)
      <4>1. f[s] \in OpenFds /\ Readable(f[s])
        BY <2>1, <2>2, <2>9 DEF PollLeft
      <4>2. s # i => f[s] # fd
        <5>1. s \in PollServer!Slots /\ i \in PollServer!Slots /\ fd >= 0
          BY <2>1, <2>2, PollFacts, OpenFacts, EchoAssumption DEF PollLeft
        <5>. QED BY <2>3, <2>9, <5>1, PollFacts
      <4>3. PICK g : g = f[s]
        OBVIOUS
      <4>4. s # i => CanRead(g)'
        BY <2>8, <4>1, <4>2, <4>3 DEF CanRead
      <4>. QED BY <2>7, <4>1, <4>3, <4>4 DEF CanRead
    <3>2. PollLeft(T)'
      BY <2>1, <2>2, <2>9, <3>1 DEF PollLeft, Readable
    <3>. QED
      BY <2>1, <3>2 DEF PollPending
  <2>15. PollOwes'
    BY <2>1, <2>3, <2>4, <2>6, <2>7, <2>8 DEF PollOwes, Owes, Fits, RunsEvents
  <2>16. NothingCut
    BY <2>4, ReadDropsNobody DEF NobodyDropped, NothingCut
  <2>. QED
    BY <2>7, <2>12, <2>13, <2>14, <2>15, <2>16 DEF PollInv
<1>7. CASE PollServer!WriteBack
  <2>1. server = "write"
    BY <1>7 DEF PollServer!WriteBack
  <2>2. PICK T \in SUBSET (1..maxi) : PollLeft(T)
    BY <2>1 DEF PollInv, PollPending
  <2>3. PICK fd \in OpenFds : fd = client[i]
    BY <2>1, <2>2 DEF PollLeft
  <2>4. PICK x \in Nat : x = n
    BY PollFacts
  <2>5. Owes(fd, x) /\ \A g \in OpenFds \ {fd} : Owes(g, 0)
    BY <2>1, <2>3, <2>4 DEF PollInv, PollOwes
  <2>6. CASE WriteKills(fd)
    <3>1. PollServer!Die
      BY <1>7, <2>3, <2>6, PollNet DEF PollServer!WriteBack
    <3>2. Owes(fd, 0) /\ sock[fd] \in Clients /\ peer[sock[fd]] \in {"reset", "broken"}
      BY <2>5, <2>6, BrokenOwes
    <3>3. \A g \in OpenFds : Owes(g, 0)
      BY <2>5, <3>2
    <3>. QED BY <3>1, <3>2, <3>3, PollDies
  <2>7. CASE ~WriteKills(fd)
    <3>1. Write(fd, x) /\ PollServer!Handled /\ UNCHANGED <<client, revents, maxi>>
      BY <1>7, <2>3, <2>4, <2>7, PollNet DEF PollServer!WriteBack, PollServer!tables
    <3>2. /\ NetInv' /\ OpenFds' = OpenFds /\ Owes(fd, 0)'
          /\ \A g \in OpenFds : sock'[g] = sock[g]
          /\ \A g \in OpenFds \ {fd} : Same(sock[g])
      BY <2>5, <3>1, WriteKeeps
    <3>3. \A g \in OpenFds \ {fd} : Owes(g, 0)'
      BY <2>5, <3>2, OthersKeep
    <3>4. \A g \in OpenFds' : Owes(g, 0)'
      BY <3>2, <3>3
    <3>5. PICK f : f = client
      OBVIOUS
    <3>6. PICK o : o = OpenFds
      OBVIOUS
    <3>7. /\ PollTable(f, maxi, o) /\ client' = f /\ OpenFds' = o
          /\ \A s : s # i => f[s] = client[s]
      BY <3>1, <3>2, <3>5, <3>6, PollNow
    <3>8. PollInv'
      BY <2>1, <2>3, <3>1, <3>2, <3>4, <3>7, PollHandles
    <3>. QED
      BY <3>1, <3>2, <3>8, WriteDropsNobody DEF NobodyDropped, NothingCut
  <2>. QED BY <2>6, <2>7
<1>. QED
  BY <1>1, <1>2, <1>3, <1>4, <1>5, <1>6, <1>7 DEF PollServer!Server

-----------------------------------------------------------------------------
(* Whichever server runs *)

LEMMA ProgramsDiffer ==
  /\ RunsSelect => ~RunsPoll /\ ~RunsEpoll /\ ~RunsThreads /\ ~RunsEvents /\ ~RunsOne
  /\ RunsPoll => ~RunsEpoll /\ ~RunsThreads /\ ~RunsEvents /\ ~RunsOne
  /\ RunsEpoll => ~RunsThreads /\ ~RunsEvents /\ ~RunsOne
  /\ RunsThreads => ~RunsEvents /\ ~RunsOne
  /\ RunsEvents => ~RunsOne
  /\ program \in Programs <=>
       \/ RunsSelect \/ RunsPoll \/ RunsEpoll \/ RunsThreads \/ RunsEvents \/ RunsOne
BY DEF RunsSelect, RunsPoll, RunsEpoll, RunsThreads, RunsEvents, RunsOne, Programs

LEMMA SameProgram ==
  ASSUME UNCHANGED program
  PROVE  /\ RunsSelect' = RunsSelect /\ RunsPoll' = RunsPoll /\ RunsEpoll' = RunsEpoll
         /\ RunsThreads' = RunsThreads /\ RunsEvents' = RunsEvents /\ RunsOne' = RunsOne
         /\ (program \in Programs)' = (program \in Programs)
BY DEF RunsSelect, RunsPoll, RunsEpoll, RunsThreads, RunsEvents, RunsOne, Programs

LEMMA InitInv ==
  ASSUME Init
  PROVE  Inv
<1>1. CASE SelectServer!Init
  <2>1. RunsSelect
    BY <1>1 DEF SelectServer!Init, RunsSelect
  <2>2. NetInv /\ SelectInv
    BY <1>1, SelectInit
  <2>. QED
    BY <2>1, <2>2, ProgramsDiffer DEF Inv
<1>2. CASE RunsPoll /\ PollServer!Init
  <2>1. NetInv /\ PollInv
    BY <1>2, PollInit
  <2>. QED
    BY <1>2, <2>1, ProgramsDiffer DEF Inv
<1>3. CASE RunsEpoll /\ EpollServer!Init
  <2>1. NetInv /\ EpollInv
    BY <1>3, EpollInit
  <2>. QED
    BY <1>3, <2>1, ProgramsDiffer DEF Inv
<1>4. CASE RunsThreads /\ ThreadServer!Init
  <2>1. NetInv /\ ThreadInv
    BY <1>4, ThreadInit
  <2>. QED
    BY <1>4, <2>1, ProgramsDiffer DEF Inv
<1>5. CASE RunsEvents /\ EventServer!Init
  <2>1. NetInv /\ EventInv
    BY <1>5, EventInit
  <2>. QED
    BY <1>5, <2>1, ProgramsDiffer DEF Inv
<1>6. CASE RunsOne /\ OneServer!Init
  <2>1. NetInv /\ OneInv
    BY <1>6, OneInit
  <2>. QED
    BY <1>6, <2>1, ProgramsDiffer DEF Inv
<1>. QED
  BY <1>1, <1>2, <1>3, <1>4, <1>5, <1>6 DEF Init

\* The clients move, or nobody does
LEMMA OthersKeepInv ==
  ASSUME Inv, NetKeeps, UNCHANGED <<program, main>>
  PROVE  Inv' /\ NothingCut
<1>1. NetInv /\ NetInv' /\ UNCHANGED program
  BY DEF Inv, NetKeeps
<1>2. (RunsSelect => SelectInv') /\ (RunsPoll => PollInv')
  BY <1>1, SelectOthers, PollOthers DEF Inv
<1>3. (RunsEpoll => EpollInv') /\ (RunsThreads => ThreadInv')
  BY <1>1, EpollOthers, ThreadOthers DEF Inv
<1>4. (RunsEvents => EventInv') /\ (RunsOne => OneInv')
  BY <1>1, EventOthers, OneOthers DEF Inv
<1>5. NothingCut
  BY DEF NetKeeps, NothingCut
<1>. QED
  BY <1>1, <1>2, <1>3, <1>4, <1>5, SameProgram DEF Inv

LEMMA ServerKeepsInv ==
  ASSUME Inv, Server
  PROVE  Inv' /\ NothingCut
<1>1. NetInv /\ UNCHANGED program
  BY DEF Inv, Server
<1>2. CASE RunsSelect /\ SelectServer!Server
  <2>1. NetInv' /\ SelectInv' /\ NothingCut
    BY <1>1, <1>2, SelectStep DEF Inv
  <2>. QED
    BY <1>1, <1>2, <2>1, ProgramsDiffer, SameProgram DEF Inv
<1>3. CASE RunsPoll /\ PollServer!Server
  <2>1. NetInv' /\ PollInv' /\ NothingCut
    BY <1>1, <1>3, PollStep DEF Inv
  <2>. QED
    BY <1>1, <1>3, <2>1, ProgramsDiffer, SameProgram DEF Inv
<1>4. CASE RunsEpoll /\ EpollServer!Server
  <2>1. NetInv' /\ EpollInv' /\ NothingCut
    BY <1>1, <1>4, EpollStep DEF Inv
  <2>. QED
    BY <1>1, <1>4, <2>1, ProgramsDiffer, SameProgram DEF Inv
<1>5. CASE RunsThreads /\ ThreadServer!Server
  <2>1. NetInv' /\ ThreadInv' /\ NothingCut
    BY <1>1, <1>5, ThreadStep DEF Inv
  <2>. QED
    BY <1>1, <1>5, <2>1, ProgramsDiffer, SameProgram DEF Inv
<1>6. CASE RunsEvents /\ EventServer!Server
  <2>1. NetInv' /\ EventInv'
    BY <1>1, <1>6, EventStep DEF Inv
  <2>2. NothingCut
    BY <1>6 DEF NothingCut
  <2>. QED
    BY <1>1, <1>6, <2>1, <2>2, ProgramsDiffer, SameProgram DEF Inv
<1>7. CASE RunsOne /\ OneServer!Server
  <2>1. NetInv' /\ OneInv' /\ \A c \in Clients : peer'[c] = "none" => peer[c] = "none"
    BY <1>1, <1>7, OneStep DEF Inv
  <2>2. NothingCut
    BY <2>1 DEF NothingCut
  <2>. QED
    BY <1>1, <1>7, <2>1, <2>2, ProgramsDiffer, SameProgram DEF Inv
<1>. QED
  BY <1>2, <1>3, <1>4, <1>5, <1>6, <1>7 DEF Server

LEMMA StepInv ==
  ASSUME Inv, [Next]_vars
  PROVE  Inv' /\ NothingCut
<1>1. CASE Server
  BY <1>1, ServerKeepsInv
<1>2. CASE NetStep /\ UNCHANGED <<program, main>>
  <2>1. NetKeeps
    BY <1>2, NetStepKeeps DEF Inv
  <2>. QED
    BY <1>2, <2>1, OthersKeepInv
<1>3. CASE UNCHANGED vars
  <2>1. UNCHANGED net /\ UNCHANGED program /\ UNCHANGED <<program, main>>
    BY <1>3 DEF vars
  <2>2. NetKeeps
    BY <2>1, StutterKeeps DEF Inv
  <2>. QED
    BY <2>1, <2>2, OthersKeepInv
<1>. QED
  BY <1>1, <1>2, <1>3 DEF Next

LEMMA Invariance == Spec => []Inv
<1>1. Init => Inv
  BY InitInv
<1>2. Inv /\ [Next]_vars => Inv'
  BY StepInv
<1>. QED
  BY <1>1, <1>2, PTL DEF Spec

-----------------------------------------------------------------------------
(* What the invariant says *)

LEMMA ThreadWatches ==
  ASSUME NetInv, ThreadInv
  PROVE  ThreadServer!WatchesAll
<1>. SUFFICES ASSUME NEW fd \in OpenFds
              PROVE  ThreadServer!Cardinality(
                       {k \in DOMAIN ts : ts[k].connfd = fd /\ ts[k].at # "ended"}) = 1
  BY ThreadNet DEF ThreadServer!WatchesAll, ThreadInv, ThreadPending
<1>1. PICK k \in DOMAIN ts : ts[k].at # "ended" /\ ts[k].connfd = fd
  BY DEF ThreadInv, ThreadPending
<1>2. {j \in DOMAIN ts : ts[j].connfd = fd /\ ts[j].at # "ended"} = {k}
  BY <1>1 DEF ThreadInv, ThreadPending
<1>3. Cardinality({k}) = 1
  BY FS_Singleton
<1>4. ThreadServer!Cardinality({k}) = Cardinality({k})
  BY DEF ThreadServer!Cardinality, Cardinality
<1>. QED
  BY <1>2, <1>3, <1>4

\* Every variable of the program that runs keeps its type, whichever server it is: the
\* tables of main in select_sever.c, select_effective.c, server_poll.c, epoll_server.c,
\* mul_pthread_sever.c, ev_server.c and server.c.
THEOREM TypeCorrect == Spec => []TypeOK
<1>1. Inv => TypeOK
  BY DEF Inv, TypeOK, SelectInv, PollInv, EpollInv, ThreadInv, EventInv, OneInv
<1>. QED
  BY <1>1, Invariance, PTL

\* No read of a connection blocks the process that serves them all: what select, poll,
\* epoll_wait or libevent reported is still so when the program comes to it, although it
\* has accepted and closed connections, and descriptors were given out again, since.
THEOREM ReadsNeverBlock == Spec => []NeverBlocks
<1>1. RunsSelect /\ Inv => SelectServer!NeverBlocks
  BY SelectNet DEF Inv, SelectInv, SelectPending, SelectServer!NeverBlocks
<1>2. RunsPoll /\ Inv => PollServer!NeverBlocks
  BY PollNet DEF Inv, PollInv, PollPending, PollLeft, PollServer!NeverBlocks
<1>3. RunsEpoll /\ Inv => EpollServer!NeverBlocks
  BY EpollNet DEF Inv, EpollInv, EpollPending, CanRead, EpollServer!NeverBlocks
<1>4. RunsEvents /\ Inv => EventServer!NeverBlocks
  <2>. SUFFICES ASSUME RunsEvents, Inv PROVE EventServer!NeverBlocks
    OBVIOUS
  <2>1. EventInv /\ bev = OpenFds
    BY EventNet DEF Inv, EventInv, EventServer!WatchesAll
  <2>2. ASSUME NEW fd \in Fds, <<fd, "read">> \in active
        PROVE  fd \in bev /\ EventServer!Readable(fd)
    BY <2>1, <2>2, EventNet DEF EventInv, EventPending, CanRead
  <2>3. ASSUME NEW fd \in Fds, <<fd, "write">> \in active
        PROVE  fd \in bev /\ output[fd] > 0
    BY <2>1, <2>3 DEF EventInv, EventPending
  <2>4. EventServer!Fds = Fds
    BY EventNet
  <2>. QED
    BY <2>2, <2>3, <2>4, Zenon DEF EventServer!NeverBlocks
<1>5. Inv => NeverBlocks
  BY <1>1, <1>2, <1>3, <1>4 DEF NeverBlocks
<1>. QED
  BY <1>5, Invariance, PTL

\* The connections that a server watches, those in its table and those open are the same:
\* none is forgotten and left open, and none is watched that was closed.
THEOREM WatchedIsOpen == Spec => []WatchesAll
<1>1. Inv /\ RunsThreads => ThreadServer!WatchesAll
  BY ThreadWatches DEF Inv
<1>2. Inv => WatchesAll
  BY <1>1 DEF Inv, WatchesAll, SelectInv, PollInv, EpollInv, EventInv, OneInv
<1>. QED
  BY <1>2, Invariance, PTL

\* No client ends a server, unless by a reset or for want of room: the perr_exit of the
\* accept, read and write wrappers, a full table, and SIGPIPE.
THEOREM EndsOnlyForAReason == Spec => []EndsForAReason
<1>1. Inv => EndsForAReason
  BY DEF Inv, EndsForAReason, SelectInv, PollInv, EpollInv, ThreadInv, EventInv, OneInv
<1>. QED
  BY <1>1, Invariance, PTL

\* A connection that its client has half closed is ended only when all that the client
\* sent has been echoed; not so with ev_server.c, which frees the answers it still has.
THEOREM NothingIsCutShort == Spec => NothingCutShort
<1>1. Inv /\ [Next]_vars =>
        [\A c \in Clients : peer[c] = "half" /\ peer'[c] = "none"
           => RunsEvents \/ echoed[c] = sent[c]]_vars
  BY StepInv DEF NothingCut
<1>. QED
  BY <1>1, Invariance, PTL DEF Spec, NothingCutShort

=============================================================================
