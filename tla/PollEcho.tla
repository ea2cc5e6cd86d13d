------------------------------ MODULE PollEcho ------------------------------
(***************************************************************************)
(* socket_test/server_poll.c: the echo server around poll.  The array      *)
(* client[] holds a descriptor and what poll reported of it, revents, in   *)
(* one entry.  An accept fills an entry in the middle of a turn, and the   *)
(* scan that follows looks at its revents: poll has not written it if the  *)
(* entry lies behind maxi, and nobody else has.                            *)
(***************************************************************************)
EXTENDS EchoNet

CONSTANT OPEN_MAX   \* entries of client[], with that of lfd

Slots == 1..(OPEN_MAX - 1)

VARIABLES
  server,    \* "poll", "accept", "scan", "read", "write", "dead"
  client,    \* slot -> descriptor or -1; slot 0, that of lfd, is left out
  revents,   \* slot -> POLLIN is set; FALSE in the entries not used so far
  nready,
  maxi,
  i,         \* the slot looked at
  n          \* what the last Read returned

scan == <<nready, i, n>>
tables == <<client, revents, maxi>>
main == <<server, tables, scan>>
vars == <<net, main>>

Init ==
  /\ InitNet
  /\ server = "poll"
  /\ client = [s \in Slots |-> -1]
  /\ revents = [s \in Slots |-> FALSE]
  /\ maxi = 0
  /\ nready = 0 /\ i = 1 /\ n = 0

NextTurn == server' = "poll" /\ nready' = 0 /\ i' = 1 /\ n' = 0
Die == server' = "dead" /\ UNCHANGED <<net, tables, scan>>

ReadySlots == {s \in 1..maxi : client[s] >= 0 /\ Readable(client[s])}
LfdReady == IF queue # <<>> THEN 1 ELSE 0

\* poll writes the revents of the entries it is given, 0 where the descriptor is negative
Poll ==
  /\ server = "poll"
  /\ LfdReady + Cardinality(ReadySlots) > 0
  /\ nready' = LfdReady + Cardinality(ReadySlots)
  /\ revents' = [s \in Slots |-> IF s <= maxi THEN s \in ReadySlots ELSE revents[s]]
  /\ server' = IF queue # <<>> THEN "accept" ELSE "scan"
  /\ UNCHANGED <<net, client, maxi, i, n>>

FreeSlots == {s \in Slots : client[s] < 0}

\* The revents of an entry behind maxi has never been written: it may be anything
AcceptSlot ==
  /\ server = "accept" /\ ~NoFdLeft /\ FreeSlots # {}
  /\ Accept(LowestFd) /\ client' = [client EXCEPT ![Min(FreeSlots)] = LowestFd]
  /\ IF Min(FreeSlots) > maxi
       THEN \E set \in BOOLEAN : revents' = [revents EXCEPT ![Min(FreeSlots)] = set]
       ELSE UNCHANGED revents
  /\ maxi' = IF Min(FreeSlots) > maxi THEN Min(FreeSlots) ELSE maxi
  /\ IF nready <= 1
       THEN NextTurn
       ELSE server' = "scan" /\ nready' = nready - 1 /\ UNCHANGED <<i, n>>

\* No descriptor, or no entry, is left: the process exits
AcceptFails ==
  /\ server = "accept"
  /\ NoFdLeft \/ FreeSlots = {}
  /\ Die

\* Reads from the next entry from k on whose revents is set, with left still to be
\* handled; without one, the next turn.
ScanFrom(k, left) ==
  LET reported == {s \in k..maxi : client[s] >= 0 /\ revents[s]}
  IN  IF reported = {}
        THEN NextTurn
        ELSE /\ server' = "read"
             /\ i' = Min(reported) /\ n' = 0
             /\ nready' = left

Scan ==
  /\ server = "scan"
  /\ ScanFrom(1, nready)
  /\ UNCHANGED <<net, tables>>

\* Mutant: the scan goes on to the last entry
HandledOne == ScanFrom(i + 1, IF nready > 0 THEN nready - 1 ELSE 0)

\* --nready <= 0 ends the scan
Handled == IF nready <= 1 THEN NextTurn ELSE ScanFrom(i + 1, nready - 1)

ClearEntry ==
  /\ client' = [client EXCEPT ![i] = -1]
  /\ UNCHANGED <<revents, maxi>>

\* Mutant: every error is taken for another than ECONNRESET
ExitsOnAnyError == TRUE

\* errno is not ECONNRESET: a client that had closed before it reset
ExitsOnError == peer[sock[client[i]]] = "reset"

\* The end of the stream, and ECONNRESET, close the connection; other errors the process
ReadEnd ==
  /\ server = "read" /\ Readable(client[i]) /\ ReadResult(client[i]) <= 0
  /\ IF ReadResult(client[i]) = -1 /\ ExitsOnError
       THEN Die
       ELSE Close(client[i]) /\ ClearEntry /\ Handled

ReadData ==
  /\ server = "read" /\ Readable(client[i]) /\ ReadResult(client[i]) > 0
  /\ Read(client[i])
  /\ n' = ReadResult(client[i])
  /\ server' = "write"
  /\ UNCHANGED <<tables, nready, i>>

\* Mutant: writes the whole buffer and not what was read
WriteBuffer ==
  /\ server = "write"
  /\ IF WriteKills(client[i])
       THEN Die
       ELSE Write(client[i], MaxSegments + 1) /\ Handled /\ UNCHANGED tables

WriteBack ==
  /\ server = "write"
  /\ IF WriteKills(client[i])
       THEN Die
       ELSE Write(client[i], n) /\ Handled /\ UNCHANGED tables

Server == Poll \/ AcceptSlot \/ AcceptFails \/ Scan \/ ReadEnd \/ ReadData \/ WriteBack

-----------------------------------------------------------------------------

Next == Server \/ (NetStep /\ UNCHANGED main)

Spec == Init /\ [][Next]_vars

-----------------------------------------------------------------------------

\* Every variable keeps its type.
TypeOK ==
  /\ NetTypeOK
  /\ server \in {"poll", "accept", "scan", "read", "write", "dead"}
  /\ client \in [Slots -> Fds \cup {-1}] /\ revents \in [Slots -> BOOLEAN]
  /\ nready \in 0..(MaxFds + 1) /\ maxi \in Slots \cup {0}
  /\ i \in 1..OPEN_MAX /\ n \in 0..MaxSegments

\* No read blocks the one process that serves everybody, although the scan meets an
\* entry whose revents nobody has written: the entries that are ready lie before it, and
\* the countdown of nready ends the scan at the last of them.
NeverBlocks == server = "read" => client[i] \in OpenFds /\ Readable(client[i])

\* Each open connection is in one entry, none behind maxi, and no entry names a closed one.
WatchesAll ==
  /\ \A fd \in OpenFds : \E s \in 1..maxi : client[s] = fd
  /\ \A s, t \in Slots : client[s] = client[t] /\ client[s] >= 0 => s = t /\ client[s] \in OpenFds

\* The process ends only when there is no room for another connection, or by a write to
\* or a read from a client that had closed when it was written to, or a write to one
\* whose error was reported.
EndsForAReason ==
  server = "dead" =>
     \/ queue # <<>> /\ (NoFdLeft \/ FreeSlots = {})
     \/ \E c \in Clients : peer[c] \in {"reset", "broken"}

=============================================================================
