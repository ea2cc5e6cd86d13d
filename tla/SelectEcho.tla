----------------------------- MODULE SelectEcho -----------------------------
(***************************************************************************)
(* socket_test/select_sever.c and select_effective.c: echo servers around  *)
(* select.  The first looks at every descriptor up to maxfd, the second    *)
(* keeps a table client[] of the connections; they also differ in when     *)
(* they stop looking, and in what they do when a read fails.               *)
(*                                                                         *)
(* A turn of the loop is select, perhaps accept, then a scan of what       *)
(* select reported before the accept and the reads of this turn.           *)
(***************************************************************************)
EXTENDS EchoNet

CONSTANT FD_SETSIZE    \* entries of client[]

VARIABLES
  program,  \* which of the two runs
  server,   \* "select", "accept", "scan", "read", "write", "dead"
  allset,   \* the descriptors select watches
  rset,     \* the descriptors select reported
  nready,   \* how many, counted down by select_effective.c (ret in select_sever.c)
  maxfd,
  client,   \* slot -> descriptor or -1
  maxi,
  i,        \* the scan: a descriptor in select_sever.c, a slot in select_effective.c
  n         \* what the last Read returned

scan == <<rset, nready, i, n>>
tables == <<allset, maxfd, client, maxi>>
main == <<server, tables, scan>>
vars == <<net, program, main>>

Effective == program = "select_effective"

Slots == 0..(FD_SETSIZE - 1)

Init ==
  /\ InitNet
  /\ program \in {"select_sever", "select_effective"}
  /\ server = "select"
  /\ allset = {lfd} /\ rset = {} /\ nready = 0
  /\ maxfd = lfd
  /\ client = [s \in Slots |-> -1] /\ maxi = -1
  /\ i = 0 /\ n = 0

FirstIndex == IF Effective THEN 0 ELSE lfd + 1
LastIndex == IF Effective THEN maxi ELSE maxfd
FdAt(k) == IF Effective THEN client[k] ELSE k

\* The next turn of the loop; what select reported is not looked at again
NextTurn ==
  /\ server' = "select"
  /\ rset' = {} /\ nready' = 0 /\ i' = 0 /\ n' = 0

\* Reads from the next descriptor, or slot, from k on that select reported, with left
\* still to be handled; without one, the next turn.  Passing over the others touches
\* nothing but i and belongs to the step before.
ScanFrom(k, left) ==
  LET reported == {s \in k..LastIndex : FdAt(s) \in rset}
  IN  IF reported = {}
        THEN NextTurn
        ELSE /\ server' = "read"
             /\ i' = Min(reported) /\ n' = 0
             /\ nready' = left
             /\ UNCHANGED rset

GoScan ==
  /\ server' = "scan"
  /\ UNCHANGED <<rset, i, n>>

Die == server' = "dead" /\ UNCHANGED <<net, tables, scan>>

Ready == {fd \in allset : fd <= maxfd /\ IF fd = lfd THEN queue # <<>> ELSE Readable(fd)}

\* select fails if it is given a descriptor that is closed
Select ==
  /\ server = "select"
  /\ IF \E fd \in allset \ {lfd} : sock[fd] = None
       THEN Die
       ELSE /\ Ready # {}
            /\ rset' = Ready
            /\ nready' = Cardinality(Ready)
            /\ server' = IF lfd \in Ready THEN "accept" ELSE "scan"
            /\ UNCHANGED <<net, tables, i, n>>

\* Mutant: the maximum is not raised
FirstOf(a, b) == a

MaxOf(a, b) == IF a > b THEN a ELSE b

\* select_sever.c: goes back to select if only lfd was ready.  Descriptors are small enough for
\* the bit of FD_SET to be in the set, as they are below the usual limit of 1024.
AcceptPlain ==
  /\ server = "accept" /\ ~Effective /\ ~NoFdLeft
  /\ Accept(LowestFd)
  /\ allset' = allset \cup {LowestFd}
  /\ maxfd' = MaxOf(maxfd, LowestFd)
  /\ IF nready = 1 THEN NextTurn ELSE GoScan /\ UNCHANGED nready
  /\ UNCHANGED <<client, maxi>>

FreeSlots == {s \in Slots : client[s] < 0}

\* select_effective.c: the first free entry of client[]
AcceptSlot ==
  /\ server = "accept" /\ Effective /\ ~NoFdLeft /\ FreeSlots # {}
  /\ Accept(LowestFd)
  /\ client' = [client EXCEPT ![Min(FreeSlots)] = LowestFd]
  /\ allset' = allset \cup {LowestFd}
  /\ maxfd' = MaxOf(maxfd, LowestFd)
  /\ maxi' = MaxOf(maxi, Min(FreeSlots))
  /\ IF nready = 1 THEN NextTurn ELSE GoScan /\ nready' = nready - 1

\* No descriptor, or no entry of client[], is left: the process exits
AcceptFails ==
  /\ server = "accept"
  /\ NoFdLeft \/ (Effective /\ FreeSlots = {})
  /\ Die

Scan ==
  /\ server = "scan"
  /\ ScanFrom(FirstIndex, nready)
  /\ UNCHANGED <<net, tables>>

\* What is ready at i has been handled; select_effective.c stops after the last
Handled ==
  IF Effective /\ nready = 1
    THEN NextTurn
    ELSE ScanFrom(i + 1, IF Effective THEN nready - 1 ELSE nready)

\* Mutant: the descriptor stays in allset
ForgetsLittle(fd) ==
  /\ client' = IF Effective THEN [client EXCEPT ![i] = -1] ELSE client
  /\ UNCHANGED <<allset, maxfd, maxi>>

\* FD_CLR, and the entry of client[]
Forget(fd) ==
  /\ allset' = allset \ {fd}
  /\ client' = IF Effective THEN [client EXCEPT ![i] = -1] ELSE client
  /\ UNCHANGED <<maxfd, maxi>>

ReadEnd ==
  /\ server = "read" /\ Readable(FdAt(i)) /\ ReadResult(FdAt(i)) = 0
  /\ Close(FdAt(i))
  /\ Forget(FdAt(i))
  /\ Handled

\* select_sever.c exits; select_effective.c leaves the socket to the next turn
ReadError ==
  /\ server = "read" /\ Readable(FdAt(i)) /\ ReadResult(FdAt(i)) = -1
  /\ IF Effective
       THEN Read(FdAt(i)) /\ Handled /\ UNCHANGED tables
       ELSE Die

ReadData ==
  /\ server = "read" /\ Readable(FdAt(i)) /\ ReadResult(FdAt(i)) > 0
  /\ Read(FdAt(i))
  /\ n' = ReadResult(FdAt(i))
  /\ server' = "write"
  /\ UNCHANGED <<tables, rset, nready, i>>

WriteBack ==
  /\ server = "write"
  /\ IF WriteKills(FdAt(i))
       THEN Die
       ELSE Write(FdAt(i), n) /\ Handled /\ UNCHANGED tables

Server ==
  \/ Select \/ AcceptPlain \/ AcceptSlot \/ AcceptFails \/ Scan
  \/ ReadEnd \/ ReadError \/ ReadData \/ WriteBack

-----------------------------------------------------------------------------

Next ==
  /\ UNCHANGED program
  /\ Server \/ (NetStep /\ UNCHANGED main)

Spec == Init /\ [][Next]_vars

-----------------------------------------------------------------------------

\* Every variable keeps its type.
TypeOK ==
  /\ NetTypeOK
  /\ server \in {"select", "accept", "scan", "read", "write", "dead"}
  /\ allset \subseteq Fds \cup {lfd} /\ rset \subseteq Fds \cup {lfd}
  /\ nready \in 0..(MaxFds + 1)
  /\ maxfd \in Fds \cup {lfd}
  /\ client \in [Slots -> Fds \cup {-1}] /\ maxi \in -1..(FD_SETSIZE - 1)
  /\ i \in 0..(MaxFds + FD_SETSIZE + 1) /\ n \in 0..MaxSegments

\* What select reported is acted upon after an accept and after other connections were
\* closed and their descriptors, perhaps, given to new ones; still a socket is only read
\* when a read of it does not block.
NeverBlocks == server = "read" => FdAt(i) \in OpenFds /\ Readable(FdAt(i))

\* select watches the open connections and no others; none is beyond maxfd, and
\* select_effective.c has each of them in one entry of client[], none beyond maxi.
WatchesAll ==
  /\ allset = OpenFds \cup {lfd}
  /\ \A fd \in OpenFds : fd <= maxfd
  /\ Effective =>
       /\ \A fd \in OpenFds : \E s \in 0..maxi : client[s] = fd
       /\ \A s, t \in Slots : client[s] = client[t] /\ client[s] >= 0 => s = t /\ client[s] \in OpenFds

\* The process ends only when there is no room for another connection, or by writing to
\* a connection that is broken; select_sever.c also by reading from one.
EndsForAReason ==
  server = "dead" =>
     \/ queue # <<>> /\ (NoFdLeft \/ (Effective /\ FreeSlots = {}))
     \/ \E c \in Clients : peer[c] \in {"reset", "broken"} \/ (peer[c] = "aborted" /\ ~Effective)

=============================================================================
