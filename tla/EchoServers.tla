----------------------------- MODULE EchoServers -----------------------------
(***************************************************************************)
(* The servers of socket_test that serve many clients - select_sever.c,    *)
(* select_effective.c, server_poll.c, epoll_server.c and                   *)
(* mul_pthread_sever.c - and libevent_test/ev_server.c, and with them      *)
(* server.c, which serves one.  One of them is started; what is asked of   *)
(* them is the same.  The variables are the locals of its main and of its  *)
(* threads or callbacks, those that only another program has stay as they  *)
(* are.                                                                    *)
(***************************************************************************)
EXTENDS EchoNet

CONSTANTS
  FD_SETSIZE,  \* entries of client[] in select_effective.c
  OPEN_MAX,    \* entries of client[] in server_poll.c, with that of lfd
  TsSize       \* entries of ts[] in mul_pthread_sever.c

ASSUME ServersAssumption ==
  FD_SETSIZE \in Nat \ {0} /\ OPEN_MAX \in Nat \ {0} /\ TsSize \in Nat \ {0}

VARIABLES
  program,                \* which server runs
  server, n,              \* where it is; what its last Read returned
  client, maxi, nready,   \* the table of select_effective.c and server_poll.c
  i,
  allset, rset, maxfd,    \* select
  revents,                \* poll
  tree, ep,               \* epoll
  connfd, ts,             \* mul_pthread_sever.c
  bev, output, active     \* libevent

SelectServer == INSTANCE SelectEcho
PollServer == INSTANCE PollEcho
EpollServer == INSTANCE EpollEcho
ThreadServer == INSTANCE ThreadEcho
EventServer == INSTANCE EventEcho
OneServer == INSTANCE OneEcho

selectVars == <<allset, rset, maxfd>>
epollVars == <<tree, ep>>
threadVars == <<connfd, ts>>
eventVars == <<bev, output, active>>
table == <<client, maxi, nready, i>>
main == <<server, n, table, selectVars, revents, epollVars, threadVars, eventVars>>
vars == <<net, program, main>>

RunsSelect == program \in {"select_sever", "select_effective"}
RunsPoll == program = "server_poll"
RunsEpoll == program = "epoll_server"
RunsThreads == program = "mul_pthread_sever"
RunsEvents == program = "ev_server"
RunsOne == program = "server"

NoSelect == allset = {} /\ rset = {} /\ maxfd = lfd
NoPoll == revents = <<>>
NoEpoll == tree = {} /\ ep = <<>>
NoThreads == connfd = lfd /\ ts = <<>>
NoEvents == bev = {} /\ output = <<>> /\ active = {}
NoTable == client = <<>> /\ maxi = 0 /\ nready = 0 /\ i = 0

Init ==
  \/ SelectServer!Init /\ NoPoll /\ NoEpoll /\ NoThreads /\ NoEvents
  \/ RunsPoll /\ PollServer!Init /\ NoSelect /\ NoEpoll /\ NoThreads /\ NoEvents
  \/ RunsEpoll /\ EpollServer!Init /\ NoSelect /\ NoPoll /\ NoThreads /\ NoEvents /\ NoTable
  \/ /\ RunsThreads /\ ThreadServer!Init
     /\ NoSelect /\ NoPoll /\ NoEpoll /\ NoEvents /\ NoTable /\ n = 0
  \/ /\ RunsEvents /\ EventServer!Init
     /\ NoSelect /\ NoPoll /\ NoEpoll /\ NoThreads /\ NoTable /\ n = 0
  \/ /\ RunsOne /\ OneServer!Init
     /\ NoSelect /\ NoPoll /\ NoEpoll /\ NoEvents /\ NoTable /\ ts = <<>>

Server ==
  /\ \/ /\ RunsSelect /\ SelectServer!Server
        /\ UNCHANGED <<revents, epollVars, threadVars, eventVars>>
     \/ /\ RunsPoll /\ PollServer!Server
        /\ UNCHANGED <<selectVars, epollVars, threadVars, eventVars>>
     \/ /\ RunsEpoll /\ EpollServer!Server
        /\ UNCHANGED <<selectVars, revents, table, threadVars, eventVars>>
     \/ /\ RunsThreads /\ ThreadServer!Server
        /\ UNCHANGED <<selectVars, revents, table, n, epollVars, eventVars>>
     \/ /\ RunsEvents /\ EventServer!Server
        /\ UNCHANGED <<selectVars, revents, table, n, epollVars, threadVars>>
     \/ /\ RunsOne /\ OneServer!Server
        /\ UNCHANGED <<selectVars, revents, table, epollVars, ts, eventVars>>
  /\ UNCHANGED program

Next == Server \/ (NetStep /\ UNCHANGED <<program, main>>)

Spec == Init /\ [][Next]_vars

\* The process is scheduled.  Nothing is assumed of the clients.
FairSpec == Spec /\ WF_vars(Server)

-----------------------------------------------------------------------------

\* Every variable of the program that runs keeps its type.
TypeOK ==
  /\ RunsSelect => SelectServer!TypeOK
  /\ RunsPoll => PollServer!TypeOK
  /\ RunsEpoll => EpollServer!TypeOK
  /\ RunsThreads => ThreadServer!TypeOK
  /\ RunsEvents => EventServer!TypeOK
  /\ RunsOne => OneServer!TypeOK

\* No read blocks the one process that serves everybody: what was reported ready is
\* acted upon after an accept, and after descriptors were closed and given out again.
NeverBlocks ==
  /\ RunsSelect => SelectServer!NeverBlocks
  /\ RunsPoll => PollServer!NeverBlocks
  /\ RunsEpoll => EpollServer!NeverBlocks
  /\ RunsEvents => EventServer!NeverBlocks

\* The connections that are watched, those in the table and those open are the same.
WatchesAll ==
  /\ RunsSelect => SelectServer!WatchesAll
  /\ RunsPoll => PollServer!WatchesAll
  /\ RunsEpoll => EpollServer!WatchesAll
  /\ RunsThreads => ThreadServer!WatchesAll
  /\ RunsEvents => EventServer!WatchesAll
  /\ RunsOne => OneServer!WatchesAll

\* No client ends the process, unless by a reset or for want of room; the programs differ
\* in which.
EndsForAReason ==
  /\ RunsSelect => SelectServer!EndsForAReason
  /\ RunsPoll => PollServer!EndsForAReason
  /\ RunsEpoll => EpollServer!EndsForAReason
  /\ RunsThreads => ThreadServer!EndsForAReason
  /\ RunsEvents => EventServer!EndsForAReason
  /\ RunsOne => OneServer!EndsForAReason

\* A client that is half closed has its connection ended only when all it sent has been
\* echoed.  ev_server.c frees the answers with the connection.
NothingCutShort ==
  [][\A c \in Clients : peer[c] = "half" /\ peer'[c] = "none"
        => RunsEvents \/ echoed[c] = sent[c]]_vars

\* ev_server.c gives one answer for all that it reads at once
Owed(c) == IF RunsEvents THEN Min({1, sent[c]}) ELSE sent[c]

\* ev_server.c keeps a client waiting while there is no descriptor for it, server.c all
\* clients but the first
KeptWaiting(c) ==
  /\ \A fd \in Fds : sock[fd] # c
  /\ (RunsEvents /\ NoFdLeft) \/ (RunsOne /\ server # "accept")

\* Nobody is forgotten: what a client sends is echoed, unless it ends its connection or
\* the process has ended.
Echoed ==
  \A c \in Clients :
     (peer[c] = "open" /\ sent[c] > 0)
        ~> (echoed[c] >= Owed(c) \/ peer[c] # "open" \/ server = "dead" \/ KeptWaiting(c))

=============================================================================
