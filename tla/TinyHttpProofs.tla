--------------------------- MODULE TinyHttpProofs ---------------------------
(***************************************************************************)
(* Proofs about TinyHttp, for every set of clients, every stream of        *)
(* requests, every way to cut it, and every value of the bounds.           *)
(*                                                                         *)
(* Four invariants carry the rest: TypeInv; EpInv and StartInv, about the  *)
(* events epoll_wait returned and what they promise do_read; HeedInv, that *)
(* what is unread is not forgotten; LinesInv, by which what a client has   *)
(* sent and the server has not read is a piece of the stream, so that a    *)
(* place in the parse is a place in the stream.  Only the last two         *)
(* theorems have a hypothesis: the clients send well-formed requests.      *)
(***************************************************************************)
EXTENDS TinyHttp, FiniteSetTheorems, SequenceTheorems, TLAPS

-----------------------------------------------------------------------------
(* Types *)

Tokens == {"GET", "path", "hdr", "CR", "LF"}
Lines == [first : {"none", "GET", "path", "hdr", "LF"}, path : BOOLEAN]
Answers == [status : {"none", "200", "404"}, of : {"none", "asked", "other"},
            len : -1..MaxSize, got : 0..MaxSize, lost : 0..MaxSize, whole : BOOLEAN]

\* Sequencing a finite set: every element once, and nothing else.
LEMMA SetToSeqsIs ==
  ASSUME NEW S, IsFiniteSet(S), NEW f \in SetToSeqs(S)
  PROVE  /\ f \in Seq(S) /\ Len(f) = Cardinality(S) /\ Cardinality(S) \in Nat
         /\ \A i, j \in 1..Len(f) : f[i] = f[j] => i = j
         /\ \A x \in S : \E i \in 1..Len(f) : f[i] = x
<1>1. Cardinality(S) \in Nat
  BY FS_CardinalityType
<1>2. f \in [1..Cardinality(S) -> S] /\ \A i, j \in 1..Cardinality(S) : i # j => f[i] # f[j]
  BY DEF SetToSeqs
<1>3. f \in Seq(S) /\ Len(f) = Cardinality(S)
  BY <1>1, <1>2
<1>4. ASSUME NEW x \in S, \A i \in 1..Cardinality(S) : f[i] # x PROVE FALSE
  <2>1. IsFiniteSet(S \ {x}) /\ Cardinality(S \ {x}) = Cardinality(S) - 1
    BY FS_RemoveElement
  <2>2. f \in [1..Cardinality(S) -> S \ {x}]
    BY <1>2, <1>4
  <2>3. IsFiniteSet(1..Cardinality(S)) /\ Cardinality(1..Cardinality(S)) = Cardinality(S)
    BY <1>1, FS_Interval
  <2>4. Cardinality(S \ {x}) < Cardinality(1..Cardinality(S))
    BY <1>1, <2>1, <2>3
  <2>. DEFINE D == 1..Cardinality(S)
              T == S \ {x}
  <2>. HIDE DEF D, T
  <2>5. \E i, j \in D : i # j /\ f[i] = f[j]
    <3>1. IsFiniteSet(D) /\ IsFiniteSet(T) /\ Cardinality(T) < Cardinality(D) /\ f \in [D -> T]
      BY <2>1, <2>2, <2>3, <2>4 DEF D, T
    <3>. QED
      BY <3>1, FS_PigeonHole
  <2>. QED
    BY <1>2, <2>5 DEF D
<1>. QED
  BY <1>1, <1>2, <1>3, <1>4

\* What is known of what the clients send and of where it may be cut.
LEMMA StreamIs ==
  /\ Stream \in Seq(Tokens) /\ Len(Stream) \in Nat
  /\ \A i \in 1..Len(Stream) : Stream[i] \in Tokens
  /\ \A c \in Clients : \A e \in Cuts[c] : e \in 1..Len(Stream)
<1>1. Stream \in Seq(Tokens) /\ Cuts \in [Clients -> SUBSET (1..Len(Stream))]
  BY HttpAssumption DEF Tokens
<1>2. Len(Stream) \in Nat
  BY <1>1
<1>. QED
  BY <1>1, <1>2, ElementOfSeq

\* A sequence, behind which the elements of r from k + 1 to e are put.
LEMMA WithMore ==
  ASSUME NEW S, NEW s \in Seq(S), NEW r \in Seq(S),
         NEW k \in Nat, NEW e \in 1..Len(r), k < e
  PROVE  /\ s \o SubSeq(r, k + 1, e) \in Seq(S)
         /\ Len(s \o SubSeq(r, k + 1, e)) = Len(s) + (e - k)
         /\ \A i \in 1..(Len(s) + (e - k)) :
              (s \o SubSeq(r, k + 1, e))[i] = IF i <= Len(s) THEN s[i] ELSE r[k + (i - Len(s))]
<1>. DEFINE m == k + 1
            q == SubSeq(r, m, e)
<1>1. Len(r) \in Nat /\ e \in Int /\ m \in Int /\ m <= e /\ Len(s) \in Nat
  OBVIOUS
<1>2. \A i \in m..e : r[i] \in S
  BY <1>1
<1>. HIDE DEF m
<1>3. /\ q \in Seq(S) /\ Len(q) = e - m + 1
      /\ \A i \in 1..(e - m + 1) : q[i] = r[m + i - 1]
  <2>1. /\ q \in Seq(S) /\ Len(q) = IF m <= e THEN e - m + 1 ELSE 0
        /\ \A i \in 1..(e - m + 1) : q[i] = r[m + i - 1]
    BY <1>1, <1>2, SubSeqProperties
  <2>. QED
    BY <1>1, <2>1
<1>. HIDE DEF q
<1>4. Len(q) = e - k /\ \A i \in 1..(e - k) : q[i] = r[k + i]
  <2>1. e - m + 1 = e - k /\ \A i \in 1..(e - k) : m + i - 1 = k + i
    BY <1>1 DEF m
  <2>. QED
    BY <1>3, <2>1
<1>5. /\ s \o q \in Seq(S) /\ Len(s \o q) = Len(s) + Len(q)
      /\ \A i \in 1..(Len(s) + Len(q)) : (s \o q)[i] = IF i <= Len(s) THEN s[i] ELSE q[i - Len(s)]
  BY <1>3, ConcatProperties
<1>6. ASSUME NEW i \in 1..(Len(s) + (e - k)), ~(i <= Len(s)) PROVE q[i - Len(s)] = r[k + (i - Len(s))]
  <2>1. i - Len(s) \in 1..(e - k)
    BY <1>1, <1>6
  <2>. QED
    BY <1>4, <2>1
<1>7. /\ s \o q \in Seq(S) /\ Len(s \o q) = Len(s) + (e - k)
      /\ \A i \in 1..(Len(s) + (e - k)) :
           (s \o q)[i] = IF i <= Len(s) THEN s[i] ELSE r[k + (i - Len(s))]
  BY <1>4, <1>5, <1>6
<1>. QED
  BY <1>7 DEF q, m

\* What one more piece of the stream does to a client's inbox.
Piece(c, e) == inbox[c] \o SubSeq(Stream, sent[c] + 1, e)

LEMMA PieceIs ==
  ASSUME NEW c \in Clients, inbox[c] \in Seq(Tokens), sent[c] \in 0..Len(Stream),
         NEW e \in Cuts[c], e > sent[c]
  PROVE  /\ Piece(c, e) \in Seq(Tokens) /\ Piece(c, e) # <<>>
         /\ Len(Piece(c, e)) = Len(inbox[c]) + (e - sent[c])
         /\ \A i \in 1..Len(Piece(c, e)) :
              Piece(c, e)[i] = IF i <= Len(inbox[c]) THEN inbox[c][i]
                               ELSE Stream[sent[c] + (i - Len(inbox[c]))]
<1>1. /\ e \in 1..Len(Stream) /\ e \in Nat /\ Stream \in Seq(Tokens)
      /\ sent[c] \in Nat /\ sent[c] < e /\ Len(inbox[c]) \in Nat
  BY StreamIs
<1>2. /\ Piece(c, e) \in Seq(Tokens) /\ Len(Piece(c, e)) = Len(inbox[c]) + (e - sent[c])
      /\ \A i \in 1..(Len(inbox[c]) + (e - sent[c])) :
           Piece(c, e)[i] = IF i <= Len(inbox[c]) THEN inbox[c][i]
                            ELSE Stream[sent[c] + (i - Len(inbox[c]))]
  <2>. DEFINE s == inbox[c]
              k == sent[c]
  <2>1. s \in Seq(Tokens) /\ k \in Nat /\ k < e
    BY <1>1
  <2>2. Piece(c, e) = s \o SubSeq(Stream, k + 1, e)
    BY DEF Piece
  <2>. HIDE DEF s, k
  <2>3. /\ s \o SubSeq(Stream, k + 1, e) \in Seq(Tokens)
        /\ Len(s \o SubSeq(Stream, k + 1, e)) = Len(s) + (e - k)
        /\ \A i \in 1..(Len(s) + (e - k)) :
             (s \o SubSeq(Stream, k + 1, e))[i] = IF i <= Len(s) THEN s[i] ELSE Stream[k + (i - Len(s))]
    BY <1>1, <2>1, WithMore
  <2>. QED
    BY <2>2, <2>3 DEF s, k
<1>3. Len(Piece(c, e)) > 0
  <2>1. \A n, k \in Nat : k < e => n + (e - k) > 0
    BY <1>1
  <2>. QED
    BY <1>1, <1>2, <2>1
<1>. QED
  BY <1>2, <1>3

\* Of the answer under way no more blocks are sent, or lost, than were read of the file.
Within ==
  /\ server = "open" => answer[cfd].got = 0 /\ answer[cfd].lost = 0
  /\ server = "send" => answer[cfd].got <= pos /\ answer[cfd].lost <= pos

TypeInv == TypeOK /\ Within

\* TypeOK in three parts.
ServerTypes ==
  /\ server \in ServerStates /\ ep \in Seq(Clients \cup {Listener}) /\ cfd \in Clients
  /\ header \in BOOLEAN /\ line \in Lines
  /\ method \in {"none", "GET", "path", "hdr", "LF"} /\ want \in {"asked", "other"}
  /\ pos \in 0..MaxSize

ClientTypes ==
  /\ conn \in [Clients -> {"none", "queued", "open", "unwatched", "closed"}]
  /\ edge \in [Clients -> BOOLEAN]
  /\ inbox \in [Clients -> Seq(Tokens)]
  /\ peer \in [Clients -> {"open", "half", "gone", "reset"}]
  /\ sent \in [Clients -> 0..Len(Stream)]

AnswerTypes ==
  /\ answer \in [Clients -> Answers]
  /\ kind \in [Files -> Kinds] /\ size \in [Files -> 0..MaxSize]
  /\ torn \subseteq Clients /\ left \subseteq Clients /\ answered \in [Clients -> Nat]

LEMMA TypeParts == TypeOK <=> ServerTypes /\ ClientTypes /\ AnswerTypes
  BY DEF TypeOK, ServerTypes, ClientTypes, AnswerTypes, Lines, Answers, Tokens

LEMMA LinesAre ==
  /\ NoLine \in Lines /\ NoLine.first = "none"
  /\ \A l \in Lines, t \in {"GET", "path", "hdr", "LF"} :
        WithToken(l, t) \in Lines /\ WithToken(l, t).first # "none"
  BY DEF Lines, NoLine, WithToken

LEMMA AnswersAre ==
  /\ NoAnswer \in Answers
  /\ \A a \in Answers, n \in 0..MaxSize :
        /\ [a EXCEPT !.got = n] \in Answers /\ [a EXCEPT !.lost = n] \in Answers
        /\ [a EXCEPT !.got = n].got = n /\ [a EXCEPT !.got = n].lost = a.lost
        /\ [a EXCEPT !.lost = n].lost = n /\ [a EXCEPT !.lost = n].got = a.got
  /\ \A a \in Answers : [a EXCEPT !.whole = TRUE] \in Answers
<1>. USE HttpAssumption
<1>1. NoAnswer \in Answers
  BY DEF NoAnswer, Answers
<1>. QED
  BY <1>1 DEF Answers

\* What do_read does with a line keeps the types, and sends nothing.
LEMMA LineEndsTyped ==
  ASSUME TypeOK, NEW l \in Lines, LineEnds(l)
  PROVE  /\ server' \in {"recv", "stat", "events"} /\ left' \subseteq Clients
         /\ header' \in BOOLEAN /\ line' \in Lines
         /\ method' \in {"none", "GET", "path", "hdr", "LF"} /\ want' \in {"asked", "other"}
         /\ conn' \in [Clients -> {"none", "queued", "open", "unwatched", "closed"}]
         /\ edge' \in [Clients -> BOOLEAN]
<1>0. /\ header \in BOOLEAN /\ line \in Lines /\ NoLine \in Lines
      /\ method \in {"none", "GET", "path", "hdr", "LF"} /\ want \in {"asked", "other"}
      /\ conn \in [Clients -> {"none", "queued", "open", "unwatched", "closed"}]
      /\ edge \in [Clients -> BOOLEAN] /\ cfd \in Clients /\ left \subseteq Clients
  BY LinesAre DEF TypeOK, Lines
<1>1. CASE header
  BY <1>0, <1>1 DEF LineEnds, HeaderLine, NextAfterHeaders
<1>2. CASE ~header /\ NothingRead(l)
  BY <1>0, <1>2 DEF LineEnds, Disconnect, reading
<1>3. CASE ~header /\ ~NothingRead(l)
  <2>1. l.first \in {"none", "GET", "path", "hdr", "LF"}
    BY DEF Lines
  <2>. QED
    BY <1>0, <1>3, <2>1 DEF LineEnds, RequestLine
<1>. QED
  BY <1>1, <1>2, <1>3

LEMMA InitTypes == Init => TypeInv
<1>. SUFFICES ASSUME Init PROVE TypeInv
  OBVIOUS
<1>. USE HttpAssumption
<1>1. /\ server \in ServerStates /\ cfd \in Clients /\ header \in BOOLEAN
      /\ method \in {"none", "GET", "path", "hdr", "LF"} /\ want \in {"asked", "other"}
      /\ pos \in 0..MaxSize
  <2>1. 0 \in 0..MaxSize
    OBVIOUS
  <2>. QED
    BY <2>1 DEF Init, ServerStates
<1>2. line \in Lines /\ ep \in Seq(Clients \cup {Listener})
  BY LinesAre DEF Init
<1>3. /\ conn \in [Clients -> {"none", "queued", "open", "unwatched", "closed"}]
      /\ edge \in [Clients -> BOOLEAN]
      /\ inbox \in [Clients -> Seq(Tokens)]
      /\ peer \in [Clients -> {"open", "half", "gone", "reset"}]
  BY DEF Init
<1>4. sent \in [Clients -> 0..Len(Stream)]
  <2>1. 0 \in 0..Len(Stream)
    BY StreamIs
  <2>. QED
    BY <2>1 DEF Init
<1>5. answer \in [Clients -> Answers]
  BY AnswersAre DEF Init
<1>6. kind \in [Files -> Kinds] /\ size \in [Files -> 0..MaxSize]
  BY DEF Init, FileStates
<1>7. Within
  BY DEF Init, Within
<1>8. torn \subseteq Clients /\ left \subseteq Clients /\ answered \in [Clients -> Nat]
  BY DEF Init
<1>. QED
  BY <1>1, <1>2, <1>3, <1>4, <1>5, <1>6, <1>7, <1>8 DEF TypeInv, TypeOK, Lines, Answers, Tokens

\* Taking the first token from the inbox of the connection being handled.
LEMMA ConsumeIs ==
  ASSUME TypeOK, inbox[cfd] # <<>>, Consume
  PROVE  /\ inbox' \in [Clients -> Seq(Tokens)]
         /\ inbox' = [inbox EXCEPT ![cfd] = Tail(inbox[cfd])]
         /\ Head(inbox[cfd]) \in Tokens
<1>1. inbox \in [Clients -> Seq(Tokens)] /\ cfd \in Clients
  BY DEF TypeOK, Tokens
<1>2. Tail(inbox[cfd]) \in Seq(Tokens) /\ Head(inbox[cfd]) \in Tokens
  BY <1>1, HeadTailProperties
<1>. QED
  BY <1>1, <1>2 DEF Consume

\* An answer is given.
LEMMA AnswerGivenTyped == TypeOK /\ AnswerGiven => answered' \in [Clients -> Nat]
<1>. SUFFICES ASSUME TypeOK, AnswerGiven PROVE answered' \in [Clients -> Nat]
  OBVIOUS
<1>1. answered \in [Clients -> Nat] /\ cfd \in Clients
  BY DEF TypeOK
<1>2. answered[cfd] + 1 \in Nat
  BY <1>1
<1>. QED
  BY <1>1, <1>2 DEF AnswerGiven

\* Where a send leaves the process.
LEMMA AfterSendIs == \A next : AfterSend(next) \subseteq {next, "dead"}
  BY DEF AfterSend

\* The answer that send_respond begins.
Begun == [status |-> "200", of |-> want, len |-> size[want], got |-> 0, lost |-> 0, whole |-> FALSE]

LEMMA SendErrorTyped ==
  ASSUME TypeOK, NEW next, SendError(next)
  PROVE  /\ answer' \in [Clients -> Answers] /\ server' \in {next, "dead"}
         /\ answered' \in [Clients -> Nat]
<1>1. [status |-> "404", of |-> want, len |-> -1, got |-> 0, lost |-> 0, whole |-> TRUE] \in Answers
  BY HttpAssumption DEF TypeOK, Answers
<1>2. answer \in [Clients -> Answers]
  BY DEF TypeOK, Answers
<1>. QED
  BY <1>1, <1>2, AfterSendIs, AnswerGivenTyped DEF SendError

LEMMA NextKeepsTypes == TypeInv /\ [Next]_vars => TypeInv'
<1>. SUFFICES ASSUME TypeInv, [Next]_vars PROVE TypeInv'
  OBVIOUS
<1>. USE HttpAssumption
<1>. SUFFICES ServerTypes' /\ ClientTypes' /\ AnswerTypes' /\ Within'
  BY DEF TypeInv, TypeOK, ServerTypes, ClientTypes, AnswerTypes, Lines, Answers, Tokens
<1>0. TypeOK /\ Within /\ ServerTypes /\ ClientTypes /\ AnswerTypes
  BY TypeParts DEF TypeInv
<1>10. /\ answer \in [Clients -> Answers] /\ line \in Lines
       /\ inbox \in [Clients -> Seq(Tokens)] /\ sent \in [Clients -> 0..Len(Stream)]
       /\ ep \in Seq(Clients \cup {Listener})
       /\ cfd \in Clients
  BY <1>0 DEF TypeOK, Answers, Lines, Tokens
<1>1. CASE UNCHANGED vars
  <2>1. ServerTypes'
    BY <1>0, <1>1 DEF vars, reading, clients, file, past, ServerTypes
  <2>2. ClientTypes'
    BY <1>0, <1>1 DEF vars, reading, clients, file, past, ClientTypes
  <2>3. AnswerTypes'
    BY <1>0, <1>1 DEF vars, reading, clients, file, past, AnswerTypes
  <2>4. Within'
    BY <1>0, <1>1 DEF vars, reading, clients, file, past, Within
  <2>. QED
    BY <2>1, <2>2, <2>3, <2>4
<1>2. CASE EpollWait
  <2>1. PICK ready : /\ ready = {c \in Open : edge[c] /\ Readable(c)}
                                  \cup (IF Queued # {} THEN {Listener} ELSE {})
                     /\ ep' \in SetToSeqs(ready)
    BY <1>2 DEF EpollWait
  <2>2. ready \subseteq Clients \cup {Listener} /\ IsFiniteSet(Clients \cup {Listener})
    BY <2>1, ClientsAssumption, FS_AddElement DEF Open
  <2>3. ep' \in Seq(ready)
    BY <2>1, <2>2, FS_Subset, SetToSeqsIs
  <2>4. ep' \in Seq(Clients \cup {Listener})
    BY <2>2, <2>3, SeqMonotonic
  <2>. QED
    <3>1. ServerTypes'
      BY <1>0, <1>2, <2>4
      DEF EpollWait, ServerStates, reading, clients, file, past, ServerTypes
    <3>2. ClientTypes'
      BY <1>0, <1>2, <2>4 DEF EpollWait, reading, clients, file, past, ClientTypes
    <3>3. AnswerTypes'
      BY <1>0, <1>2, <2>4 DEF EpollWait, reading, clients, file, past, AnswerTypes
    <3>4. Within'
      BY <1>0, <1>2, <2>4 DEF EpollWait, reading, clients, file, past, Within
    <3>. QED
      BY <3>1, <3>2, <3>3, <3>4
<1>3. CASE EventsDone
  <2>1. ServerTypes'
    BY <1>0, <1>3 DEF EventsDone, ServerStates, reading, clients, file, past, ServerTypes
  <2>2. ClientTypes'
    BY <1>0, <1>3 DEF EventsDone, reading, clients, file, past, ClientTypes
  <2>3. AnswerTypes'
    BY <1>0, <1>3 DEF EventsDone, reading, clients, file, past, AnswerTypes
  <2>4. Within'
    BY <1>0, <1>3 DEF EventsDone, reading, clients, file, past, Within
  <2>. QED
    BY <2>1, <2>2, <2>3, <2>4
<1>4. CASE Accept
  <2>1. ep' \in Seq(Clients \cup {Listener})
    BY <1>4, <1>10, HeadTailProperties DEF Accept
  <2>2. /\ server' \in ServerStates /\ server' \notin {"open", "send"}
        /\ conn' \in [Clients -> {"none", "queued", "open", "unwatched", "closed"}]
        /\ edge' \in [Clients -> BOOLEAN]
    <3>1. CASE Cardinality(Open) < MaxFds
      <4>1. PICK c \in Queued :
              \/ /\ conn' = [conn EXCEPT ![c] = "open"]
                 /\ edge' = [edge EXCEPT ![c] = Readable(c)]
                 /\ UNCHANGED server
              \/ conn' = [conn EXCEPT ![c] = "unwatched"] /\ server' = "dead" /\ UNCHANGED edge
        BY <1>4, <3>1 DEF Accept
      <4>2. Readable(c) \in BOOLEAN
        BY DEF Readable
      <4>3. CASE server' = "dead"
        BY <1>0, <4>1, <4>2, <4>3 DEF ClientTypes, ServerStates
      <4>4. CASE UNCHANGED server /\ conn' = [conn EXCEPT ![c] = "open"]
        BY <1>0, <1>4, <4>1, <4>2, <4>4 DEF Accept, ClientTypes, ServerStates
      <4>. QED
        BY <4>1, <4>3, <4>4
    <3>2. CASE ~(Cardinality(Open) < MaxFds)
      BY <1>0, <1>4, <3>2 DEF Accept, TypeOK, ServerStates
    <3>. QED
      BY <3>1, <3>2
  <2>. QED
    <3>1. ServerTypes'
      BY <1>0, <1>4, <2>1, <2>2 DEF Accept, reading, clients, file, past, ServerTypes
    <3>2. ClientTypes'
      BY <1>0, <1>4, <2>1, <2>2 DEF Accept, reading, clients, file, past, ClientTypes
    <3>3. AnswerTypes'
      BY <1>0, <1>4, <2>1, <2>2 DEF Accept, reading, clients, file, past, AnswerTypes
    <3>4. Within'
      BY <1>0, <1>4, <2>1, <2>2 DEF Accept, reading, clients, file, past, Within
    <3>. QED
      BY <3>1, <3>2, <3>3, <3>4
<1>5. CASE DoRead
  <2>1. ep' \in Seq(Clients \cup {Listener}) /\ cfd' \in Clients
    BY <1>5, <1>10, HeadTailProperties DEF DoRead
  <2>2. line' \in Lines
    BY <1>5, LinesAre DEF DoRead
  <2>. QED
    <3>1. ServerTypes'
      BY <1>0, <1>5, <2>1, <2>2 DEF DoRead, ServerStates, clients, file, past, ServerTypes
    <3>2. ClientTypes'
      BY <1>0, <1>5, <2>1, <2>2 DEF DoRead, clients, file, past, ClientTypes
    <3>3. AnswerTypes'
      BY <1>0, <1>5, <2>1, <2>2 DEF DoRead, clients, file, past, AnswerTypes
    <3>4. Within'
      BY <1>0, <1>5, <2>1, <2>2 DEF DoRead, clients, file, past, Within
    <3>. QED
      BY <3>1, <3>2, <3>3, <3>4
<1>6. CASE RecvToken
  <2>1. inbox' \in [Clients -> Seq(Tokens)] /\ Head(inbox[cfd]) \in Tokens
    BY <1>0, <1>6, ConsumeIs DEF RecvToken
  <2>2. /\ server' \in {"recv", "peek", "stat", "events"}
        /\ header' \in BOOLEAN /\ line' \in Lines
        /\ method' \in {"none", "GET", "path", "hdr", "LF"} /\ want' \in {"asked", "other"}
        /\ conn' \in [Clients -> {"none", "queued", "open", "unwatched", "closed"}]
        /\ edge' \in [Clients -> BOOLEAN] /\ left' \subseteq Clients
    <3>1. CASE LineEnds(WithNewline(line))
      BY <1>0, <1>10, <3>1, LineEndsTyped, LinesAre DEF WithNewline
    <3>2. CASE server' = "peek" /\ UNCHANGED <<reading, conn, edge, left>>
      BY <1>0, <1>10, <3>2 DEF reading, TypeOK
    <3>3. CASE /\ Head(inbox[cfd]) \notin {"CR", "LF"}
               /\ line' = WithToken(line, Head(inbox[cfd]))
               /\ UNCHANGED <<server, header, method, want, conn, edge, left>>
      <4>1. Head(inbox[cfd]) \in {"GET", "path", "hdr", "LF"}
        BY <2>1, <3>3 DEF Tokens
      <4>. QED
        BY <1>0, <1>6, <1>10, <3>3, <4>1, LinesAre DEF RecvToken, TypeOK
    <3>. QED
      BY <1>6, <3>1, <3>2, <3>3 DEF RecvToken
  <2>. QED
    <3>1. ServerTypes'
      BY <1>0, <1>6, <2>1, <2>2 DEF RecvToken, ServerStates, file, ServerTypes
    <3>2. ClientTypes'
      BY <1>0, <1>6, <2>1, <2>2 DEF RecvToken, file, ClientTypes
    <3>3. AnswerTypes'
      BY <1>0, <1>6, <2>1, <2>2 DEF RecvToken, file, AnswerTypes
    <3>4. Within'
      BY <1>0, <1>6, <2>1, <2>2 DEF RecvToken, file, Within
    <3>. QED
      BY <3>1, <3>2, <3>3, <3>4
<1>7. CASE Peek
  <2>1. inbox' \in [Clients -> Seq(Tokens)]
    BY <1>0, <1>7, <1>10, ConsumeIs DEF Peek
  <2>2. WithNewline(line) \in Lines
    BY <1>10, LinesAre DEF WithNewline
  <2>3. LineEnds(WithNewline(line))
    BY <1>7 DEF Peek
  <2>4. torn' \subseteq Clients /\ left' \subseteq Clients
    <3>1. left' \subseteq Clients
      BY <1>0, <2>2, <2>3, LineEndsTyped
    <3>. QED
      BY <1>0, <1>7, <3>1 DEF Peek, AnswerTypes, ServerTypes
  <2>. QED
    <3>1. ServerTypes'
      BY <1>0, <1>7, <2>1, <2>2, <2>3, LineEndsTyped DEF Peek, ServerStates, file, ServerTypes
    <3>2. ClientTypes'
      BY <1>0, <1>7, <2>1, <2>2, <2>3, LineEndsTyped DEF Peek, file, ClientTypes
    <3>3. AnswerTypes'
      BY <1>0, <1>7, <2>4 DEF Peek, file, AnswerTypes
    <3>4. Within'
      BY <1>0, <1>7, <2>1, <2>2, <2>3, LineEndsTyped DEF Peek, file, Within
    <3>. QED
      BY <3>1, <3>2, <3>3, <3>4
<1>8. CASE RecvNothing
  <2>1. LineEnds(line)
    BY <1>8 DEF RecvNothing
  <2>2. torn' \subseteq Clients /\ left' \subseteq Clients
    <3>1. left' \subseteq Clients
      BY <1>0, <1>10, <2>1, LineEndsTyped
    <3>. QED
      BY <1>0, <1>8, <3>1 DEF RecvNothing, AnswerTypes, ServerTypes
  <2>. QED
    <3>1. ServerTypes'
      BY <1>0, <1>8, <1>10, <2>1, LineEndsTyped
      DEF RecvNothing, ServerStates, clients, file, past, ServerTypes
    <3>2. ClientTypes'
      BY <1>0, <1>8, <1>10, <2>1, LineEndsTyped
      DEF RecvNothing, clients, file, past, ClientTypes
    <3>3. AnswerTypes'
      BY <1>0, <1>8, <2>2 DEF RecvNothing, file, AnswerTypes
    <3>4. Within'
      BY <1>0, <1>8, <1>10, <2>1, LineEndsTyped DEF RecvNothing, clients, file, past, Within
    <3>. QED
      BY <3>1, <3>2, <3>3, <3>4
<1>9. CASE Stat
  <2>1. /\ answer' \in [Clients -> Answers] /\ server' \in {"events", "dead", "request"}
        /\ answered' \in [Clients -> Nat]
    <3>1. answered \in [Clients -> Nat]
      BY <1>0 DEF TypeOK
    <3>. QED
      BY <3>1, <1>0, <1>9, <1>10, SendErrorTyped DEF Stat
  <2>. QED
    <3>1. ServerTypes'
      BY <1>0, <1>9, <2>1 DEF Stat, ServerStates, reading, clients, file, past, ServerTypes
    <3>2. ClientTypes'
      BY <1>0, <1>9, <2>1 DEF Stat, reading, clients, file, past, ClientTypes
    <3>3. AnswerTypes'
      BY <1>0, <1>9, <2>1 DEF Stat, reading, clients, file, past, AnswerTypes
    <3>4. Within'
      BY <1>0, <1>9, <2>1 DEF Stat, reading, clients, file, past, Within
    <3>. QED
      BY <3>1, <3>2, <3>3, <3>4
<1>11. CASE HttpRequest
  <2>0. answered \in [Clients -> Nat]
    BY <1>0 DEF TypeOK
  <2>1. /\ answer' \in [Clients -> Answers] /\ server' \in {"events", "dead", "open"}
        /\ answered' \in [Clients -> Nat]
        /\ server' = "open" => answer'[cfd].got = 0 /\ answer'[cfd].lost = 0
    <3>1. CASE kind[want] = "missing" /\ SendError("dead")
      BY <1>0, <3>1, SendErrorTyped
    <3>2. CASE kind[want] = "dir" /\ server' = "events" /\ UNCHANGED <<answer, answered>>
      BY <1>10, <2>0, <3>2
    <3>3. CASE /\ answer' = [answer EXCEPT ![cfd] = Begun]
               /\ server' \in AfterSend("open") /\ UNCHANGED answered
      <4>1. Begun \in Answers
        BY <1>0 DEF TypeOK, Answers, Files, Begun
      <4>. QED
        BY <1>10, <2>0, <3>3, <4>1, AfterSendIs DEF Begun
    <3>. QED
      BY <1>11, <3>1, <3>2, <3>3 DEF HttpRequest, Begun
  <2>. QED
    <3>1. ServerTypes'
      BY <1>0, <1>11, <2>1
      DEF HttpRequest, ServerStates, reading, clients, file, past, ServerTypes
    <3>2. ClientTypes'
      BY <1>0, <1>11, <2>1 DEF HttpRequest, reading, clients, file, past, ClientTypes
    <3>3. AnswerTypes'
      BY <1>0, <1>11, <2>1 DEF HttpRequest, reading, clients, file, past, AnswerTypes
    <3>4. Within'
      BY <1>0, <1>11, <2>1 DEF HttpRequest, reading, clients, file, past, Within
    <3>. QED
      BY <3>1, <3>2, <3>3, <3>4
<1>12. CASE OpenFile
  <2>0. answered \in [Clients -> Nat]
    BY <1>0 DEF TypeOK
  <2>1. /\ answer' \in [Clients -> Answers] /\ server' \in {"dead", "send"}
        /\ answered' \in [Clients -> Nat]
    BY <1>0, <1>10, <1>12, <2>0, SendErrorTyped DEF OpenFile
  <2>2. pos' = 0 /\ (server' = "send" => answer'[cfd].got = 0 /\ answer'[cfd].lost = 0)
    <3>1. CASE SendError("dead")
      BY <1>0, <1>12, <3>1, SendErrorTyped DEF OpenFile
    <3>2. CASE UNCHANGED answer
      BY <1>0, <1>12, <3>2 DEF OpenFile, Within
    <3>. QED
      BY <1>12, <3>1, <3>2 DEF OpenFile
  <2>3. 0 \in 0..MaxSize /\ 0 <= 0
    OBVIOUS
  <2>. QED
    <3>1. ServerTypes'
      BY <1>0, <1>12, <2>1, <2>2, <2>3
      DEF OpenFile, ServerStates, reading, clients, file, ServerTypes
    <3>2. ClientTypes'
      BY <1>0, <1>12, <2>1, <2>2, <2>3 DEF OpenFile, reading, clients, file, ClientTypes
    <3>3. AnswerTypes'
      BY <1>0, <1>12, <2>1, <2>2, <2>3 DEF OpenFile, reading, clients, file, AnswerTypes
    <3>4. Within'
      BY <1>0, <1>12, <2>1, <2>2, <2>3 DEF OpenFile, reading, clients, file, Within
    <3>. QED
      BY <3>1, <3>2, <3>3, <3>4
<1>13. CASE SendBlock
  <2>1. pos + 1 \in 0..MaxSize
    BY <1>0, <1>13 DEF SendBlock, TypeOK, Files
  <2>2. /\ answer[cfd].got \in 0..MaxSize /\ answer[cfd].got <= pos /\ pos \in Nat
        /\ answer[cfd].lost \in 0..MaxSize /\ answer[cfd].lost <= pos
    BY <1>0, <1>10, <1>13 DEF SendBlock, Within, Answers, TypeOK
  <2>3. /\ answer[cfd].got + 1 \in 0..MaxSize /\ answer[cfd].got + 1 <= pos + 1
        /\ answer[cfd].lost + 1 \in 0..MaxSize /\ answer[cfd].lost + 1 <= pos + 1
        /\ answer[cfd].got <= pos + 1 /\ answer[cfd].lost <= pos + 1
    <3>1. \A n \in 0..MaxSize, p \in Nat : p + 1 \in 0..MaxSize /\ n <= p =>
             n + 1 \in 0..MaxSize /\ n + 1 <= p + 1 /\ n <= p + 1
      OBVIOUS
    <3>. QED
      BY <2>1, <2>2, <3>1
  <2>4. /\ answer' \in [Clients -> Answers]
        /\ answer'[cfd].got <= pos + 1 /\ answer'[cfd].lost <= pos + 1
    <3>1. CASE answer' = [answer EXCEPT ![cfd].got = @ + 1]
      BY <1>10, <2>3, <3>1, AnswersAre
    <3>2. CASE answer' = [answer EXCEPT ![cfd].lost = @ + 1]
      BY <1>10, <2>3, <3>2, AnswersAre
    <3>. QED
      BY <1>13, <3>1, <3>2 DEF SendBlock
  <2>5. server' \in {"send", "dead"} /\ pos' = pos + 1
    BY <1>13, AfterSendIs DEF SendBlock
  <2>. QED
    <3>1. ServerTypes'
      BY <1>0, <1>13, <2>1, <2>4, <2>5
      DEF SendBlock, ServerStates, reading, clients, file, past, ServerTypes
    <3>2. ClientTypes'
      BY <1>0, <1>13, <2>1, <2>4, <2>5
      DEF SendBlock, reading, clients, file, past, ClientTypes
    <3>3. AnswerTypes'
      BY <1>0, <1>13, <2>1, <2>4, <2>5
      DEF SendBlock, reading, clients, file, past, AnswerTypes
    <3>4. Within'
      BY <1>0, <1>13, <2>1, <2>4, <2>5 DEF SendBlock, reading, clients, file, past, Within
    <3>. QED
      BY <3>1, <3>2, <3>3, <3>4
<1>14. CASE FileSent
  <2>1. answer' \in [Clients -> Answers] /\ answered' \in [Clients -> Nat]
    BY <1>0, <1>10, <1>14, AnswersAre, AnswerGivenTyped DEF FileSent
  <2>2. 0 \in 0..MaxSize
    OBVIOUS
  <2>. QED
    <3>1. ServerTypes'
      BY <1>0, <1>14, <2>1, <2>2
      DEF FileSent, ServerStates, reading, clients, file, ServerTypes
    <3>2. ClientTypes'
      BY <1>0, <1>14, <2>1, <2>2 DEF FileSent, reading, clients, file, ClientTypes
    <3>3. AnswerTypes'
      BY <1>0, <1>14, <2>1, <2>2 DEF FileSent, reading, clients, file, AnswerTypes
    <3>4. Within'
      BY <1>0, <1>14, <2>1, <2>2 DEF FileSent, reading, clients, file, Within
    <3>. QED
      BY <3>1, <3>2, <3>3, <3>4
<1>15. ASSUME NEW c \in Clients, Connect(c)
      PROVE  ServerTypes' /\ ClientTypes' /\ AnswerTypes' /\ Within'
  <2>1. ServerTypes'
    BY <1>0, <1>15 DEF Connect, reading, clients, file, past, ServerTypes
  <2>2. ClientTypes'
    BY <1>0, <1>15 DEF Connect, reading, clients, file, past, ClientTypes
  <2>3. AnswerTypes'
    BY <1>0, <1>15 DEF Connect, reading, clients, file, past, AnswerTypes
  <2>4. Within'
    BY <1>0, <1>15 DEF Connect, reading, clients, file, past, Within
  <2>. QED
    BY <2>1, <2>2, <2>3, <2>4
<1>16. ASSUME NEW c \in Clients, Send(c)
      PROVE  ServerTypes' /\ ClientTypes' /\ AnswerTypes' /\ Within'
  <2>1. PICK e \in Cuts[c] : /\ e > sent[c]
                             /\ inbox' = [inbox EXCEPT ![c] = Piece(c, e)]
                             /\ sent' = [sent EXCEPT ![c] = e]
    BY <1>16 DEF Send, Piece
  <2>2. Piece(c, e) \in Seq(Tokens) /\ e \in 0..Len(Stream)
    BY <1>10, <2>1, PieceIs, StreamIs
  <2>3. inbox' \in [Clients -> Seq(Tokens)] /\ sent' \in [Clients -> 0..Len(Stream)]
    BY <1>10, <2>1, <2>2
  <2>4. edge' \in [Clients -> BOOLEAN]
    BY <1>0, <1>16 DEF Send, RaiseEdge, TypeOK
  <2>. QED
    <3>1. ServerTypes'
      BY <1>0, <1>16, <2>3, <2>4 DEF Send, reading, file, past, ServerTypes
    <3>2. ClientTypes'
      BY <1>0, <1>16, <2>3, <2>4 DEF Send, reading, file, past, ClientTypes
    <3>3. AnswerTypes'
      BY <1>0, <1>16, <2>3, <2>4 DEF Send, reading, file, past, AnswerTypes
    <3>4. Within'
      BY <1>0, <1>16, <2>3, <2>4 DEF Send, reading, file, past, Within
    <3>. QED
      BY <3>1, <3>2, <3>3, <3>4
<1>18. ASSUME NEW c \in Clients, Close(c) \/ ResetArrives(c)
      PROVE  ServerTypes' /\ ClientTypes' /\ AnswerTypes' /\ Within'
  <2>1. edge' \in [Clients -> BOOLEAN] /\ peer' \in [Clients -> {"open", "half", "gone", "reset"}]
    BY <1>0, <1>18 DEF Close, ResetArrives, RaiseEdge, TypeOK
  <2>. QED
    <3>1. ServerTypes'
      BY <1>0, <1>18, <2>1 DEF Close, ResetArrives, reading, file, past, ServerTypes
    <3>2. ClientTypes'
      BY <1>0, <1>18, <2>1 DEF Close, ResetArrives, reading, file, past, ClientTypes
    <3>3. AnswerTypes'
      BY <1>0, <1>18, <2>1 DEF Close, ResetArrives, reading, file, past, AnswerTypes
    <3>4. Within'
      BY <1>0, <1>18, <2>1 DEF Close, ResetArrives, reading, file, past, Within
    <3>. QED
      BY <3>1, <3>2, <3>3, <3>4
<1>19. ASSUME NEW n \in Files, FileVanishes(n)
      PROVE  ServerTypes' /\ ClientTypes' /\ AnswerTypes' /\ Within'
  <2>1. 0 \in 0..MaxSize
    OBVIOUS
  <2>. QED
    <3>1. ServerTypes'
      BY <1>0, <1>19, <2>1 DEF FileVanishes, reading, clients, past, ServerTypes
    <3>2. ClientTypes'
      BY <1>0, <1>19, <2>1 DEF FileVanishes, reading, clients, past, ClientTypes
    <3>3. AnswerTypes'
      BY <1>0, <1>19, <2>1 DEF FileVanishes, Kinds, reading, clients, past, AnswerTypes
    <3>4. Within'
      BY <1>0, <1>19, <2>1 DEF FileVanishes, reading, clients, past, Within
    <3>. QED
      BY <3>1, <3>2, <3>3, <3>4
<1>. QED
  BY <1>1, <1>2, <1>3, <1>4, <1>5, <1>6, <1>7, <1>8, <1>9, <1>11, <1>12, <1>13, <1>14, <1>15,
     <1>16, <1>18, <1>19 DEF Next, Server

LEMMA TypeInvariant == Spec => []TypeInv
  BY InitTypes, NextKeepsTypes, PTL DEF Spec

\* Every variable keeps its type; in particular no answer gets more blocks than a file has.
THEOREM TypeCorrect == Spec => []TypeOK
<1>1. TypeInv => TypeOK
  BY DEF TypeInv
<1>. QED
  BY TypeInvariant, <1>1, PTL

-----------------------------------------------------------------------------
(* Content-Length *)

\* The answer under way: its header says the size of the file, which send_file then reads
\* from the start; a file that has gone is noticed by open.
UnderWay ==
  /\ server \in {"open", "send"} => ~answer[cfd].whole
  /\ server = "open" =>
        /\ kind[want] # "missing" => answer[cfd].len = size[want]
        /\ answer[cfd].got = 0 /\ answer[cfd].lost = 0
  /\ server = "send" =>
        /\ answer[cfd].len = size[want]
        /\ answer[cfd].got + answer[cfd].lost = pos
        /\ pos <= size[want]

LengthInv == LengthAccounted /\ UnderWay

LEMMA OneMore == \A a, b \in Nat : (a + 1) + b = (a + b) + 1 /\ a + (b + 1) = (a + b) + 1
  OBVIOUS

LEMMA NextKeepsLength == TypeOK /\ LengthInv /\ [Next]_vars => LengthInv'
<1>. SUFFICES ASSUME TypeOK, LengthInv, [Next]_vars PROVE LengthInv'
  OBVIOUS
<1>. USE HttpAssumption
<1>0. /\ answer \in [Clients -> Answers] /\ cfd \in Clients /\ want \in Files
      /\ size \in [Files -> 0..MaxSize] /\ kind \in [Files -> Kinds]
  BY DEF TypeOK, Answers, Files
\* Steps by which nothing is sent.
<1>1. ASSUME UNCHANGED answer, server' \notin {"open", "send"} PROVE LengthInv'
  BY <1>1 DEF LengthInv, LengthAccounted, Complete, UnderWay
<1>2. ASSUME UNCHANGED <<server, answer, cfd, want, pos, file>> PROVE LengthInv'
  BY <1>2 DEF LengthInv, LengthAccounted, Complete, UnderWay, file
\* The error page.
<1>3. ASSUME NEW next \in {"events", "dead"}, SendError(next) PROVE LengthInv'
  <2>1. server' \in {"events", "dead"}
    BY <1>3, AfterSendIs DEF SendError
  <2>. QED
    BY <1>0, <1>3, <2>1 DEF SendError, LengthInv, LengthAccounted, Complete, UnderWay
<1>4. CASE UNCHANGED vars
  BY <1>2, <1>4 DEF vars, reading
<1>5. CASE EpollWait \/ EventsDone \/ DoRead
  BY <1>1, <1>5 DEF EpollWait, EventsDone, DoRead
<1>6. CASE Accept
  <2>1. UNCHANGED answer /\ server' \in {"events", "dead"}
    BY <1>6 DEF Accept
  <2>. QED
    BY <1>1, <2>1
<1>7. CASE RecvToken \/ Peek \/ RecvNothing
  <2>1. line \in Lines /\ WithNewline(line) \in Lines
    BY LinesAre DEF TypeOK, Lines, WithNewline
  <2>2. server' \in {"recv", "peek", "stat", "events"} /\ UNCHANGED answer
    BY <1>7, <2>1, LineEndsTyped DEF RecvToken, Peek, RecvNothing
  <2>. QED
    BY <1>1, <2>2
<1>8. CASE Stat
  BY <1>1, <1>3, <1>8 DEF Stat
<1>9. CASE HttpRequest
  <2>1. CASE answer' = [answer EXCEPT ![cfd] = Begun] /\ server' \in AfterSend("open")
    <3>1. server' \in {"open", "dead"} /\ UNCHANGED <<cfd, want, kind, size>>
      BY <1>9, <2>1, AfterSendIs DEF HttpRequest, reading, file
    <3>. QED
      BY <1>0, <2>1, <3>1 DEF Begun, LengthInv, LengthAccounted, Complete, UnderWay
  <2>. QED
    BY <1>1, <1>3, <1>9, <2>1 DEF HttpRequest, Begun
<1>10. CASE OpenFile
  <2>1. CASE kind[want] # "missing" /\ server' = "send" /\ UNCHANGED answer
    <3>1. pos' = 0 /\ server = "open" /\ UNCHANGED <<cfd, want, kind, size>>
      BY <1>10 DEF OpenFile, reading, file
    <3>2. 0 <= size[want] /\ 0 + 0 = 0
      BY <1>0
    <3>. QED
      BY <2>1, <3>1, <3>2 DEF LengthInv, LengthAccounted, Complete, UnderWay
  <2>. QED
    BY <1>3, <1>10, <2>1 DEF OpenFile
<1>11. CASE SendBlock
  <2>1. /\ pos' = pos + 1 /\ server' \in {"send", "dead"} /\ pos < size[want] /\ server = "send"
        /\ UNCHANGED <<cfd, want, kind, size>>
    BY <1>11, AfterSendIs DEF SendBlock, reading, file
  <2>2. pos + 1 <= size[want] /\ pos \in Nat
    BY <1>0, <2>1 DEF TypeOK
  <2>3. /\ answer'[cfd].got + answer'[cfd].lost = pos + 1
        /\ answer'[cfd].len = answer[cfd].len /\ answer'[cfd].whole = answer[cfd].whole
        /\ \A c \in Clients : c # cfd => answer'[c] = answer[c]
    <3>1. PICK g \in Nat, l \in Nat : g = answer[cfd].got /\ l = answer[cfd].lost
      BY <1>0 DEF Answers
    <3>2. g + l = pos
      BY <2>1, <3>1 DEF LengthInv, UnderWay
    <3>3. (g + 1) + l = pos + 1 /\ g + (l + 1) = pos + 1
      BY <3>2, OneMore
    <3>4. CASE answer' = [answer EXCEPT ![cfd].got = @ + 1]
      <4>1. /\ answer'[cfd].got = g + 1 /\ answer'[cfd].lost = l
            /\ answer'[cfd].len = answer[cfd].len /\ answer'[cfd].whole = answer[cfd].whole
            /\ \A c \in Clients : c # cfd => answer'[c] = answer[c]
        BY <1>0, <3>1, <3>4 DEF Answers
      <4>. QED
        BY <3>3, <4>1
    <3>5. CASE answer' = [answer EXCEPT ![cfd].lost = @ + 1]
      <4>1. /\ answer'[cfd].got = g /\ answer'[cfd].lost = l + 1
            /\ answer'[cfd].len = answer[cfd].len /\ answer'[cfd].whole = answer[cfd].whole
            /\ \A c \in Clients : c # cfd => answer'[c] = answer[c]
        BY <1>0, <3>1, <3>5 DEF Answers
      <4>. QED
        BY <3>3, <4>1
    <3>. QED
      BY <1>11, <3>4, <3>5 DEF SendBlock
  <2>. QED
    BY <1>0, <2>1, <2>2, <2>3 DEF LengthInv, LengthAccounted, Complete, UnderWay
<1>12. CASE FileSent
  <2>1. /\ answer' = [answer EXCEPT ![cfd].whole = TRUE]
        /\ server' = "events" /\ pos >= size[want] /\ server = "send"
    BY <1>12 DEF FileSent
  <2>2. answer[cfd].got + answer[cfd].lost = answer[cfd].len
    <3>1. pos = size[want]
      BY <1>0, <2>1 DEF LengthInv, UnderWay, TypeOK
    <3>. QED
      BY <2>1, <3>1 DEF LengthInv, UnderWay
  <2>3. /\ answer'[cfd].got = answer[cfd].got /\ answer'[cfd].len = answer[cfd].len
        /\ answer'[cfd].lost = answer[cfd].lost
        /\ \A c \in Clients : c # cfd => answer'[c] = answer[c]
    BY <1>0, <2>1 DEF Answers
  <2>. QED
    BY <1>0, <2>1, <2>2, <2>3 DEF LengthInv, LengthAccounted, Complete, UnderWay
<1>13. ASSUME NEW c \in Clients, Connect(c) \/ Send(c) \/ Close(c) \/ ResetArrives(c) PROVE LengthInv'
  BY <1>2, <1>13 DEF Connect, Send, Close, ResetArrives, reading
<1>15. ASSUME NEW n \in Files, FileVanishes(n) PROVE LengthInv'
  BY <1>0, <1>15 DEF FileVanishes, reading, LengthInv, LengthAccounted, Complete, UnderWay
<1>. QED
  BY <1>4, <1>5, <1>6, <1>7, <1>8, <1>9, <1>10, <1>11, <1>12, <1>13, <1>15 DEF Next, Server

\* Whatever of an answer that is complete a send has not taken is all that it has less than
\* its Content-Length says, also when files vanish between two system calls.
THEOREM LengthIsAccounted == Spec => []LengthAccounted
<1>1. Init => LengthInv
  BY DEF Init, NoAnswer, LengthInv, LengthAccounted, Complete, UnderWay
<1>2. LengthInv => LengthAccounted
  BY DEF LengthInv
<1>. QED
  BY <1>1, <1>2, NextKeepsLength, TypeCorrect, PTL DEF Spec

-----------------------------------------------------------------------------
(* The events still to be handled *)

Handling == {"recv", "peek", "stat", "request", "open", "send"}

InEp(x) == \E i \in 1..Len(ep) : ep[i] = x

\* Every socket is in all_events at most once, and not while it is being handled; each has
\* something to be read, or to be accepted, and keeps it until its turn comes.
EpInv ==
  /\ \A i, j \in 1..Len(ep) : ep[i] = ep[j] => i = j
  /\ server \in Handling => ~InEp(cfd) /\ conn[cfd] = "open"
  /\ \A c \in Clients : InEp(c) => Readable(c) /\ conn[c] = "open"
  /\ InEp(Listener) => Queued # {}

\* While nothing of the request line is read, there is something to read or the client has
\* closed; a client is disconnected only then.  (The newline of a line is never kept.)
StartInv ==
  /\ server = "recv" /\ ~header /\ line.first = "none" => Readable(cfd)
  /\ line.first # "LF"
  /\ DisconnectsOnlyClosed

\* Going on to the next event.
LEMMA EventTaken ==
  ASSUME TypeOK, EpInv, ep # <<>>, ep' = Tail(ep)
  PROVE  /\ InEp(Head(ep)) /\ Head(ep) \in Clients \cup {Listener}
         /\ \A i, j \in 1..Len(ep') : ep'[i] = ep'[j] => i = j
         /\ \A x : InEp(x)' <=> InEp(x) /\ x # Head(ep)
<1>1. ep \in Seq(Clients \cup {Listener})
  BY DEF TypeOK
<1>2. /\ Head(ep) = ep[1] /\ Len(ep) \in Nat \ {0} /\ Len(ep') = Len(ep) - 1
      /\ \A i \in 1..Len(ep') : ep'[i] = ep[i + 1]
      /\ Head(ep) \in Clients \cup {Listener}
  BY <1>1, HeadTailProperties, EmptySeq
<1>3. \A i \in 1..Len(ep') : i + 1 \in 1..Len(ep) /\ i + 1 # 1
  BY <1>2
<1>4. 1 \in 1..Len(ep)
  BY <1>2
<1>5. \A i, j \in 1..Len(ep') : ep'[i] = ep'[j] => i = j
  <2>1. \A i, j \in 1..Len(ep') : ep'[i] = ep'[j] => i + 1 = j + 1
    BY <1>2, <1>3 DEF EpInv
  <2>2. \A i, j \in 1..Len(ep') : i + 1 = j + 1 => i = j
    BY <1>2
  <2>. QED
    BY <2>1, <2>2
<1>6. ASSUME NEW x, InEp(x)' PROVE InEp(x) /\ x # Head(ep)
  <2>1. PICK i \in 1..Len(ep') : ep'[i] = x
    BY <1>6 DEF InEp
  <2>. QED
    BY <1>2, <1>3, <1>4, <2>1 DEF InEp, EpInv
<1>7. ASSUME NEW x, InEp(x), x # Head(ep) PROVE InEp(x)'
  <2>1. PICK i \in 1..Len(ep) : ep[i] = x
    BY <1>7 DEF InEp
  <2>2. i - 1 \in 1..Len(ep') /\ (i - 1) + 1 = i
    BY <1>2, <1>7, <2>1
  <2>3. ep'[i - 1] = x
    BY <1>2, <2>1, <2>2
  <2>. QED
    BY <2>2, <2>3 DEF InEp
<1>. QED
  BY <1>2, <1>4, <1>5, <1>6, <1>7 DEF InEp

\* The two ways in which do_read can end or go on.
LEMMA LineEndsCases ==
  ASSUME TypeOK, NEW l \in Lines, LineEnds(l)
  PROVE  \/ /\ ~header /\ l.first = "none" /\ server' = "events"
            /\ conn' = [conn EXCEPT ![cfd] = "closed"]
            /\ edge' = [edge EXCEPT ![cfd] = FALSE]
            /\ UNCHANGED <<reading, left>>
         \/ /\ header' /\ line' = NoLine /\ UNCHANGED <<conn, edge>>
            /\ server' \in {"recv", "stat", "events"}
            /\ server' = "recv" \/ (header /\ l.first = "LF")
            /\ ~header => l.first # "none"
            /\ \/ UNCHANGED left /\ (server' = "recv" \/ ~(inbox'[cfd] # <<>> \/ peer[cfd] # "open"))
               \/ left' = left \cup {cfd}
<1>1. CASE header
  BY <1>1 DEF LineEnds, HeaderLine, HeadersOver, NextAfterHeaders
<1>2. CASE ~header /\ NothingRead(l)
  BY <1>2 DEF LineEnds, Disconnect, NothingRead
<1>3. CASE ~header /\ ~NothingRead(l)
  BY <1>3 DEF LineEnds, RequestLine, NothingRead
<1>. QED
  BY <1>1, <1>2, <1>3 DEF TypeOK

\* What one recv of the server does: take a token or see that there is none.
LEMMA ReadStep ==
  ASSUME TypeOK, RecvToken \/ Peek \/ RecvNothing
  PROVE  /\ torn \subseteq torn' /\ left \subseteq left'
         /\ server \in {"recv", "peek"} /\ server' \in {"recv", "peek", "stat", "events"}
         /\ UNCHANGED <<ep, cfd, peer, sent, answer, file>>
         /\ \A c \in Clients : c # cfd => inbox'[c] = inbox[c]
         /\ line.first # "LF" => line'.first # "LF"
         /\ \/ /\ UNCHANGED <<conn, edge>>
               /\ server' = "recv" => header' \/ line'.first # "none"
               /\ server' \in {"recv", "peek"} \/ cfd \in left' \/ ~Readable(cfd)'
            \/ /\ server = "recv" /\ ~header /\ line.first = "none" /\ inbox[cfd] = <<>>
               /\ server' = "events" /\ UNCHANGED <<inbox, reading>>
               /\ conn' = [conn EXCEPT ![cfd] = "closed"]
               /\ edge' = [edge EXCEPT ![cfd] = FALSE]
<1>0. /\ line \in Lines /\ WithNewline(line) \in Lines /\ WithNewline(line).first # "none"
      /\ NoLine.first # "LF"
  BY LinesAre DEF TypeOK, Lines, WithNewline
<1>1. CASE RecvToken
  <2>1. CASE LineEnds(WithNewline(line))
    BY <1>0, <1>1, <2>1, LineEndsCases DEF RecvToken, Consume, TypeOK, reading, Readable
  <2>2. CASE server' = "peek" /\ UNCHANGED <<reading, conn, edge, left>>
    BY <1>1, <2>2 DEF RecvToken, Consume, TypeOK, reading
  <2>3. CASE /\ Head(inbox[cfd]) \notin {"CR", "LF"}
             /\ line' = WithToken(line, Head(inbox[cfd]))
             /\ UNCHANGED <<server, header, method, want, conn, edge, left>>
    <3>1. Head(inbox[cfd]) \in {"GET", "path", "hdr", "LF"}
      BY <1>1, <2>3, ConsumeIs DEF RecvToken, Tokens
    <3>2. line'.first # "none"
      BY <1>0, <2>3, <3>1, LinesAre
    <3>3. line.first # "LF" => line'.first # "LF"
      BY <1>0, <2>3 DEF WithToken, Lines
    <3>. QED
      BY <1>1, <2>3, <3>2, <3>3 DEF RecvToken, Consume, TypeOK
  <2>. QED
    BY <1>1, <2>1, <2>2, <2>3 DEF RecvToken
<1>2. CASE Peek
  <2>1. LineEnds(WithNewline(line))
    BY <1>2 DEF Peek
  <2>. QED
    BY <1>0, <1>2, <2>1, LineEndsCases DEF Peek, Consume, TypeOK, reading, Readable
<1>3. CASE RecvNothing
  <2>1. LineEnds(line)
    BY <1>3 DEF RecvNothing
  <2>. QED
    BY <1>0, <1>3, <2>1, LineEndsCases DEF RecvNothing, clients, reading, Readable
<1>. QED
  BY <1>1, <1>2, <1>3

LEMMA NextKeepsEp == TypeOK /\ EpInv /\ StartInv /\ [Next]_vars => EpInv' /\ StartInv'
<1>. SUFFICES ASSUME TypeOK, EpInv, StartInv, [Next]_vars PROVE EpInv' /\ StartInv'
  OBVIOUS
<1>0. /\ cfd \in Clients /\ Listener \notin Clients
      /\ conn \in [Clients -> {"none", "queued", "open", "unwatched", "closed"}]
      /\ inbox \in [Clients -> Seq(Tokens)]
      /\ peer \in [Clients -> {"open", "half", "gone", "reset"}]
  BY ClientsAssumption DEF TypeOK, Tokens
\* A step between the events, or of a client: what can be read stays so.
<1>1. ASSUME UNCHANGED <<ep, cfd>>,
             server' \in Handling => server \in Handling,
             server' = "recv" => UNCHANGED <<server, header>>,
             UNCHANGED line,
             \A c \in Clients : Readable(c) => Readable(c)',
             \A c \in Clients : conn[c] = "open" => conn'[c] = "open",
             \A c \in Clients : conn'[c] = "closed" => conn[c] = "closed",
             \A c \in Clients : peer[c] # "open" => peer'[c] # "open",
             Queued # {} => Queued' # {}
      PROVE  EpInv' /\ StartInv'
  <2>1. \A x : InEp(x)' <=> InEp(x)
    BY <1>1 DEF InEp
  <2>2. EpInv'
    BY <1>0, <1>1, <2>1 DEF EpInv
  <2>3. StartInv'
    BY <1>0, <1>1 DEF StartInv, DisconnectsOnlyClosed
  <2>. QED
    BY <2>2, <2>3
\* The same, when neither the clients nor their connections are touched.
<1>2. ASSUME UNCHANGED <<ep, cfd, conn, inbox, peer>>,
             server' \in Handling => server \in Handling,
             server' = "recv" => UNCHANGED <<server, header>>,
             UNCHANGED line
      PROVE  EpInv' /\ StartInv'
  <2>1. \A c \in Clients : Readable(c)' = Readable(c)
    BY <1>2 DEF Readable
  <2>2. Queued' = Queued
    BY <1>2 DEF Queued
  <2>. QED
    BY <1>1, <1>2, <2>1, <2>2
<1>3. CASE UNCHANGED vars
  BY <1>2, <1>3 DEF vars, clients, reading
<1>4. CASE EpollWait
  <2>1. PICK ready : /\ ready = {c \in Open : edge[c] /\ Readable(c)}
                                  \cup (IF Queued # {} THEN {Listener} ELSE {})
                     /\ ep' \in SetToSeqs(ready)
    BY <1>4 DEF EpollWait
  <2>2. ready \subseteq Clients \cup {Listener} /\ IsFiniteSet(Clients \cup {Listener})
    BY <2>1, ClientsAssumption, FS_AddElement DEF Open
  <2>3. IsFiniteSet(ready)
    BY <2>2, FS_Subset
  <2>4. ep' \in Seq(ready) /\ \A i, j \in 1..Len(ep') : ep'[i] = ep'[j] => i = j
    BY <2>1, <2>3, SetToSeqsIs
  <2>5. \A x : InEp(x)' => x \in ready
    BY <2>4, ElementOfSeq DEF InEp
  <2>6. /\ server' = "events" /\ UNCHANGED <<conn, inbox, peer>>
    BY <1>4 DEF EpollWait, clients
  <2>7. \A c \in Clients : Readable(c)' = Readable(c)
    BY <2>6 DEF Readable
  <2>8. Queued' = Queued
    BY <2>6 DEF Queued
  <2>9. EpInv'
    BY <1>0, <2>1, <2>4, <2>5, <2>6, <2>7, <2>8 DEF EpInv, Open, Handling
  <2>10. StartInv'
    BY <1>4, <2>6 DEF EpollWait, reading, StartInv, DisconnectsOnlyClosed
  <2>. QED
    BY <2>9, <2>10
<1>5. CASE EventsDone
  BY <1>2, <1>5 DEF EventsDone, reading, clients, Handling
<1>6. CASE Accept
  <2>1. /\ \A i, j \in 1..Len(ep') : ep'[i] = ep'[j] => i = j
        /\ \A x : InEp(x)' => InEp(x) /\ x # Listener
    BY <1>6, EventTaken DEF Accept
  <2>2. /\ server' \in {"events", "dead"} /\ UNCHANGED <<inbox, peer>>
        /\ \A c \in Clients : conn'[c] = conn[c] \/ (conn'[c] = "open" /\ conn[c] = "queued")
                              \/ (conn'[c] = "unwatched" /\ conn[c] = "queued")
    BY <1>0, <1>6 DEF Accept, clients, Queued
  <2>3. \A c \in Clients : Readable(c)' = Readable(c)
    BY <2>2 DEF Readable
  <2>4. EpInv'
    BY <1>0, <2>1, <2>2, <2>3 DEF EpInv, Handling
  <2>5. StartInv'
    BY <1>0, <1>6, <2>2 DEF Accept, reading, StartInv, DisconnectsOnlyClosed
  <2>. QED
    BY <2>4, <2>5
<1>7. CASE DoRead
  <2>1. /\ \A i, j \in 1..Len(ep') : ep'[i] = ep'[j] => i = j
        /\ \A x : InEp(x)' => InEp(x) /\ x # cfd'
        /\ InEp(cfd') /\ cfd' \in Clients
    BY <1>7, EventTaken DEF DoRead
  <2>2. UNCHANGED <<conn, inbox, peer>> /\ server' = "recv"
    BY <1>7 DEF DoRead, clients
  <2>3. \A c \in Clients : Readable(c)' <=> Readable(c)
    BY <2>2 DEF Readable
  <2>4. Queued' = Queued
    BY <2>2 DEF Queued
  <2>5. EpInv'
    BY <2>1, <2>2, <2>3, <2>4 DEF EpInv
  <2>6. StartInv'
    <3>1. Readable(cfd')
      BY <2>1 DEF EpInv
    <3>2. inbox'[cfd'] # <<>> \/ peer'[cfd'] # "open"
      BY <2>2, <3>1 DEF Readable
    <3>3. Readable(cfd)'
      BY <3>2 DEF Readable
    <3>4. line'.first # "LF"
      BY <1>7, LinesAre DEF DoRead
    <3>. QED
      BY <2>2, <3>3, <3>4 DEF StartInv, DisconnectsOnlyClosed
  <2>. QED
    BY <2>5, <2>6
<1>8. CASE RecvToken \/ Peek \/ RecvNothing
  <2>1. /\ server \in {"recv", "peek"} /\ server' \in {"recv", "peek", "stat", "events"}
        /\ UNCHANGED <<ep, cfd, peer>>
        /\ \A c \in Clients : c # cfd => inbox'[c] = inbox[c]
        /\ line'.first # "LF"
    BY <1>8, ReadStep DEF StartInv
  <2>2. /\ \A x : InEp(x)' <=> InEp(x)
        /\ ~InEp(cfd) /\ conn[cfd] = "open"
    BY <2>1 DEF InEp, EpInv, Handling
  <2>3. \A c \in Clients : c # cfd => Readable(c)' = Readable(c)
    BY <2>1 DEF Readable
  <2>4. CASE UNCHANGED conn /\ (server' = "recv" => header' \/ line'.first # "none")
    <3>1. Queued' = Queued
      BY <2>4 DEF Queued
    <3>2. EpInv'
      BY <1>0, <2>1, <2>2, <2>3, <2>4, <3>1 DEF EpInv
    <3>3. StartInv'
      BY <2>1, <2>4 DEF StartInv, DisconnectsOnlyClosed
    <3>. QED
      BY <3>2, <3>3
  <2>5. CASE /\ server = "recv" /\ ~header /\ line.first = "none" /\ inbox[cfd] = <<>>
             /\ server' = "events"
             /\ conn' = [conn EXCEPT ![cfd] = "closed"]
    <3>1. Queued' = Queued
      BY <1>0, <2>2, <2>5 DEF Queued
    <3>2. EpInv'
      BY <1>0, <2>1, <2>2, <2>3, <2>5, <3>1 DEF EpInv, Handling
    <3>3. peer[cfd] # "open"
      BY <2>5 DEF StartInv, Readable
    <3>4. StartInv'
      BY <1>0, <2>1, <2>5, <3>3 DEF StartInv, DisconnectsOnlyClosed
    <3>. QED
      BY <3>2, <3>4
  <2>. QED
    BY <1>8, <2>4, <2>5, ReadStep
<1>9. CASE Stat \/ HttpRequest \/ OpenFile \/ SendBlock \/ FileSent
  <2>1. /\ server \in Handling /\ server' # "recv"
        /\ UNCHANGED <<ep, cfd, line, conn, inbox, peer>>
    BY <1>9, AfterSendIs
    DEF Stat, HttpRequest, OpenFile, SendBlock, FileSent, SendError, clients, reading, Handling
  <2>. QED
    BY <1>2, <2>1
<1>10. ASSUME NEW c \in Clients, Connect(c) PROVE EpInv' /\ StartInv'
  <2>1. /\ UNCHANGED <<server, ep, cfd, header, line, inbox, peer>>
        /\ conn[c] = "none" /\ conn' = [conn EXCEPT ![c] = "queued"]
    BY <1>10 DEF Connect, reading, clients
  <2>2. \A x \in Clients : Readable(x)' = Readable(x)
    BY <2>1 DEF Readable
  <2>3. Queued' = Queued \cup {c}
    BY <1>0, <2>1 DEF Queued
  <2>. QED
    BY <1>0, <1>1, <2>1, <2>2, <2>3
<1>11. ASSUME NEW c \in Clients, Send(c) PROVE EpInv' /\ StartInv'
  <2>1. PICK e \in Cuts[c] : e > sent[c] /\ inbox' = [inbox EXCEPT ![c] = Piece(c, e)]
    BY <1>11 DEF Send, Piece
  <2>2. Piece(c, e) # <<>>
    BY <1>0, <2>1, PieceIs DEF TypeOK
  <2>3. UNCHANGED <<server, ep, cfd, header, line, conn, peer>>
    BY <1>11 DEF Send, reading
  <2>4. \A x \in Clients : Readable(x) => Readable(x)'
    BY <1>0, <2>1, <2>2, <2>3 DEF Readable
  <2>5. Queued' = Queued
    BY <2>3 DEF Queued
  <2>. QED
    BY <1>1, <2>3, <2>4, <2>5
<1>12. ASSUME NEW c \in Clients, Close(c) \/ ResetArrives(c) PROVE EpInv' /\ StartInv'
  <2>1. /\ UNCHANGED <<server, ep, cfd, header, line, conn, inbox>>
        /\ \A x \in Clients : peer[x] # "open" => peer'[x] # "open"
    BY <1>0, <1>12 DEF Close, ResetArrives, reading
  <2>2. \A x \in Clients : Readable(x) => Readable(x)'
    BY <2>1 DEF Readable
  <2>3. Queued' = Queued
    BY <2>1 DEF Queued
  <2>. QED
    BY <1>1, <2>1, <2>2, <2>3
<1>14. ASSUME NEW n \in Files, FileVanishes(n) PROVE EpInv' /\ StartInv'
  BY <1>2, <1>14 DEF FileVanishes, reading, clients
<1>. QED
  BY <1>3, <1>4, <1>5, <1>6, <1>7, <1>8, <1>9, <1>10, <1>11, <1>12, <1>14 DEF Next, Server

LEMMA EpInvariant == Spec => [](EpInv /\ StartInv)
<1>1. Init => EpInv /\ StartInv
  BY LinesAre DEF Init, InEp, EpInv, StartInv, DisconnectsOnlyClosed, Handling
<1>. QED
  BY <1>1, NextKeepsEp, TypeCorrect, PTL DEF Spec

\* The server closes no connection whose client has not begun to close it, however the
\* requests are cut up and whatever the other clients do.
THEOREM NoHastyDisconnect == Spec => []DisconnectsOnlyClosed
<1>1. StartInv => DisconnectsOnlyClosed
  BY DEF StartInv
<1>. QED
  BY EpInvariant, <1>1, PTL

-----------------------------------------------------------------------------
(* The end of the process *)

DeathInv == Cardinality(Open) <= MaxFds /\ DiesForAReason

\* Only a client that has gone makes a send end the process.
LEMMA SendKills ==
  ASSUME TypeOK, NEW next, server' \in AfterSend(next), server' = "dead", next # "dead"
  PROVE  peer[cfd] \in {"gone", "reset"}
  BY DEF AfterSend, TypeOK

LEMMA OpenFinite ==
  /\ IsFiniteSet(Open) /\ Cardinality(Open) \in Nat
  /\ \A c \in Open : Cardinality(Open \ {c}) = Cardinality(Open) - 1
  /\ \A c : c \notin Open => Cardinality(Open \cup {c}) = Cardinality(Open) + 1
<1>1. IsFiniteSet(Open)
  BY ClientsAssumption, FS_Subset DEF Open
<1>2. Cardinality(Open) \in Nat
  BY <1>1, FS_CardinalityType
<1>3. ASSUME NEW c \in Open PROVE Cardinality(Open \ {c}) = Cardinality(Open) - 1
  BY <1>1, FS_RemoveElement
<1>4. ASSUME NEW c, c \notin Open PROVE Cardinality(Open \cup {c}) = Cardinality(Open) + 1
  BY <1>1, <1>4, FS_AddElement
<1>. QED
  BY <1>1, <1>2, <1>3, <1>4

LEMMA NextKeepsDeath == TypeOK /\ EpInv /\ DeathInv /\ [Next]_vars => DeathInv'
<1>. SUFFICES ASSUME TypeOK, EpInv, DeathInv, [Next]_vars PROVE DeathInv'
  OBVIOUS
<1>. USE HttpAssumption
<1>0. /\ cfd \in Clients /\ answer \in [Clients -> Answers]
      /\ conn \in [Clients -> {"none", "queued", "open", "unwatched", "closed"}]
      /\ peer \in [Clients -> {"open", "half", "gone", "reset"}]
  BY DEF TypeOK, Answers
\* A step that does not end the process, nor opens a connection.
<1>1. ASSUME Open' = Open, server' # "dead" PROVE DeathInv'
  BY <1>1 DEF DeathInv, DiesForAReason
\* A send.
<1>2. ASSUME NEW next, next # "dead", server' \in AfterSend(next), UNCHANGED <<cfd, conn, peer>>
      PROVE  DeathInv'
  <2>1. Open' = Open
    BY <1>2 DEF Open
  <2>2. server' = "dead" => peer'[cfd'] \in {"gone", "reset"}
    BY <1>2, SendKills
  <2>. QED
    BY <2>1, <2>2 DEF DeathInv, DiesForAReason
\* The error page that is followed by exit.
<1>3. ASSUME SendError("dead"), UNCHANGED <<cfd, conn>> PROVE DeathInv'
  <2>1. Open' = Open
    BY <1>3 DEF Open
  <2>2. server' = "dead" /\ answer'[cfd'].status = "404"
    BY <1>0, <1>3, AfterSendIs DEF SendError
  <2>. QED
    BY <2>1, <2>2 DEF DeathInv, DiesForAReason
<1>4. CASE UNCHANGED vars
  BY <1>4 DEF vars, reading, clients, Open, Queued, DeathInv, DiesForAReason
<1>5. CASE EpollWait \/ EventsDone \/ DoRead
  BY <1>1, <1>5 DEF EpollWait, EventsDone, DoRead, Open
<1>6. CASE Accept
  <2>1. Queued # {}
    BY <1>6, EventTaken DEF Accept, EpInv
  <2>2. CASE Cardinality(Open) < MaxFds
    <3>1. PICK c \in Queued : \/ conn' = [conn EXCEPT ![c] = "open"] /\ server' = "events"
                              \/ conn' = [conn EXCEPT ![c] = "unwatched"] /\ server' = "dead"
      BY <1>6, <2>2 DEF Accept
    <3>2. c \in Clients /\ c \notin Open
      BY <3>1 DEF Open, Queued
    <3>3. CASE conn' = [conn EXCEPT ![c] = "open"] /\ server' = "events"
      <4>1. Open' = Open \cup {c}
        BY <1>0, <3>2, <3>3 DEF Open
      <4>2. Cardinality(Open \cup {c}) = Cardinality(Open) + 1 /\ Cardinality(Open) \in Nat
        BY <3>2, OpenFinite
      <4>3. Cardinality(Open \cup {c}) <= MaxFds
        BY <2>2, <4>2
      <4>. QED
        BY <3>3, <4>1, <4>3 DEF DeathInv, DiesForAReason
    <3>4. CASE conn' = [conn EXCEPT ![c] = "unwatched"] /\ server' = "dead"
      <4>1. Open' = Open /\ conn'[c] = "unwatched"
        BY <1>0, <3>2, <3>4 DEF Open
      <4>. QED
        BY <3>2, <4>1 DEF DeathInv, DiesForAReason
    <3>. QED
      BY <3>1, <3>3, <3>4
  <2>3. CASE ~(Cardinality(Open) < MaxFds)
    <3>1. Open' = Open /\ Queued' = Queued /\ server' = "dead"
      BY <1>6, <2>3 DEF Accept, Open, Queued
    <3>2. Cardinality(Open) = MaxFds
      BY <2>3, OpenFinite DEF DeathInv
    <3>. QED
      BY <2>1, <3>1, <3>2 DEF DeathInv, DiesForAReason
  <2>. QED
    BY <2>2, <2>3
<1>7. CASE RecvToken \/ Peek \/ RecvNothing
  <2>1. server \in {"recv", "peek"} /\ server' # "dead"
    BY <1>7, ReadStep
  <2>2. CASE UNCHANGED conn
    BY <1>1, <2>1, <2>2 DEF Open
  <2>3. CASE conn' = [conn EXCEPT ![cfd] = "closed"]
    <3>1. Open' = Open \ {cfd} /\ cfd \in Open
      BY <1>0, <2>1, <2>3 DEF Open, EpInv, Handling
    <3>2. Cardinality(Open \ {cfd}) = Cardinality(Open) - 1 /\ Cardinality(Open) \in Nat
      BY <3>1, OpenFinite
    <3>3. Cardinality(Open \ {cfd}) <= MaxFds
      BY <3>2 DEF DeathInv
    <3>. QED
      BY <2>1, <3>1, <3>3 DEF DeathInv, DiesForAReason
  <2>. QED
    BY <1>7, <2>2, <2>3, ReadStep
<1>8. CASE Stat
  <2>1. CASE SendError("events")
    BY <1>2, <1>8, <2>1 DEF Stat, SendError, clients
  <2>2. CASE server' = "request"
    BY <1>1, <1>8, <2>2 DEF Stat, Open
  <2>. QED
    BY <1>8, <2>1, <2>2 DEF Stat
<1>9. CASE HttpRequest
  <2>1. UNCHANGED <<cfd, conn, peer>>
    BY <1>9 DEF HttpRequest, clients
  <2>2. CASE SendError("dead")
    BY <1>3, <2>1, <2>2
  <2>3. CASE server' = "events"
    BY <1>1, <2>1, <2>3 DEF Open
  <2>4. CASE server' \in AfterSend("open")
    BY <1>2, <2>1, <2>4
  <2>. QED
    BY <1>9, <2>2, <2>3, <2>4 DEF HttpRequest
<1>10. CASE OpenFile
  <2>1. CASE SendError("dead")
    BY <1>3, <1>10, <2>1 DEF OpenFile
  <2>2. CASE server' = "send"
    BY <1>1, <1>10, <2>2 DEF OpenFile, Open
  <2>. QED
    BY <1>10, <2>1, <2>2 DEF OpenFile
<1>11. CASE SendBlock
  BY <1>2, <1>11 DEF SendBlock, clients
<1>12. CASE FileSent
  BY <1>1, <1>12 DEF FileSent, Open
\* The clients and the files change while the process runs only.
<1>13. ASSUME NEW c \in Clients, Connect(c) PROVE DeathInv'
  <2>1. server' # "dead" /\ conn[c] = "none" /\ conn' = [conn EXCEPT ![c] = "queued"]
    BY <1>13 DEF Connect
  <2>2. Open' = Open
    BY <1>0, <2>1 DEF Open
  <2>. QED
    BY <1>1, <2>1, <2>2
<1>14. ASSUME NEW c \in Clients, Send(c) \/ Close(c) \/ ResetArrives(c) PROVE DeathInv'
  BY <1>1, <1>14 DEF Send, Close, ResetArrives, Open
<1>15. ASSUME NEW n \in Files, FileVanishes(n) PROVE DeathInv'
  BY <1>1, <1>15 DEF FileVanishes, Open
<1>. QED
  BY <1>4, <1>5, <1>6, <1>7, <1>8, <1>9, <1>10, <1>11, <1>12, <1>13, <1>14, <1>15 DEF Next, Server

\* No request ends the process: the going of the client that is being answered does, or a
\* file that could not be opened behind a stat that found it, or the lack of a descriptor or
\* of room in the epoll set for a new connection.
THEOREM DiesForAReasonOnly == Spec => []DiesForAReason
<1>1. Init => DeathInv
  <2>. SUFFICES ASSUME Init PROVE DeathInv
    OBVIOUS
  <2>1. Open = {} /\ server = "wait"
    BY DEF Init, Open
  <2>2. Cardinality(Open) <= MaxFds
    BY <2>1, FS_EmptySet, HttpAssumption
  <2>. QED
    BY <2>1, <2>2 DEF DeathInv, DiesForAReason
<1>2. DeathInv => DiesForAReason
  BY DEF DeathInv
<1>. QED
  BY <1>1, <1>2, NextKeepsDeath, TypeCorrect, EpInvariant, PTL DEF Spec

-----------------------------------------------------------------------------
(* Nothing unread is forgotten *)

\* What is unread of a client has raised an edge, or its event is still to be handled, or it
\* is being read, or lies behind a blank line.  While the server waits there is no event left.
HeedInv ==
  /\ server = "wait" => ep = <<>>
  /\ \A c \in Open : Readable(c) =>
        edge[c] \/ c \in left \/ InEp(c) \/ (cfd = c /\ server \in {"recv", "peek"})

LEMMA NextKeepsHeed == TypeOK /\ EpInv /\ HeedInv /\ [Next]_vars => HeedInv'
<1>. SUFFICES ASSUME TypeOK, EpInv, HeedInv, [Next]_vars PROVE HeedInv'
  OBVIOUS
<1>0. /\ cfd \in Clients /\ Listener \notin Clients /\ Open \subseteq Clients
      /\ conn \in [Clients -> {"none", "queued", "open", "unwatched", "closed"}]
      /\ edge \in [Clients -> BOOLEAN]
      /\ inbox \in [Clients -> Seq(Tokens)]
      /\ peer \in [Clients -> {"open", "half", "gone", "reset"}]
  BY ClientsAssumption DEF TypeOK, Tokens, Open
\* A step that takes nothing from epoll_wait and reads nothing: what it makes readable has
\* an edge.
<1>1. ASSUME UNCHANGED <<ep, cfd, left>>,
             server \in {"recv", "peek"} => server' \in {"recv", "peek"},
             server' = "wait" => server = "wait" \/ ep = <<>>,
             Open' = Open,
             \A c \in Open : Readable(c)' => Readable(c) \/ edge'[c],
             \A c \in Open : edge[c] => edge'[c]
      PROVE  HeedInv'
  <2>1. \A x : InEp(x)' <=> InEp(x)
    BY <1>1 DEF InEp
  <2>2. server' = "wait" => ep' = <<>>
    BY <1>1 DEF HeedInv
  <2>3. ASSUME NEW c \in Open', Readable(c)'
        PROVE  edge'[c] \/ c \in left' \/ InEp(c)' \/ (cfd' = c /\ server' \in {"recv", "peek"})
    BY <1>1, <2>1, <2>3 DEF HeedInv
  <2>. QED
    BY <2>2, <2>3 DEF HeedInv
\* The same, when neither the clients nor their connections are touched.
<1>2. ASSUME UNCHANGED <<ep, cfd, left, conn, edge, inbox, peer>>,
             server \in {"recv", "peek"} => server' \in {"recv", "peek"},
             server' = "wait" => server = "wait" \/ ep = <<>>
      PROVE  HeedInv'
  <2>1. Open' = Open /\ \A c \in Clients : Readable(c)' = Readable(c)
    BY <1>2 DEF Open, Readable
  <2>. QED
    BY <1>0, <1>1, <1>2, <2>1
<1>3. CASE UNCHANGED vars
  BY <1>2, <1>3 DEF vars, clients, past
<1>4. CASE EpollWait
  <2>1. PICK ready : /\ ready = {c \in Open : edge[c] /\ Readable(c)}
                                  \cup (IF Queued # {} THEN {Listener} ELSE {})
                     /\ ep' \in SetToSeqs(ready)
    BY <1>4 DEF EpollWait
  <2>2. ready \subseteq Clients \cup {Listener} /\ IsFiniteSet(Clients \cup {Listener})
    BY <1>0, <2>1, ClientsAssumption, FS_AddElement
  <2>3. IsFiniteSet(ready)
    BY <2>2, FS_Subset
  <2>4. \A x \in ready : InEp(x)'
    <3>1. PICK f \in SetToSeqs(ready) : f = ep'
      BY <2>1
    <3>2. \A x \in ready : \E i \in 1..Len(f) : f[i] = x
      BY <2>3, SetToSeqsIs
    <3>. QED
      BY <3>1, <3>2 DEF InEp
  <2>5. /\ server = "wait" /\ server' = "events"
        /\ UNCHANGED <<conn, inbox, peer, left>>
    BY <1>4 DEF EpollWait, clients, past
  <2>6. Open' = Open /\ \A c \in Clients : Readable(c)' = Readable(c)
    BY <2>5 DEF Open, Readable
  <2>7. \A x : ~InEp(x)
    BY <2>5 DEF HeedInv, InEp
  <2>8. ASSUME NEW c \in Open, Readable(c) PROVE c \in left \/ InEp(c)'
    BY <2>1, <2>4, <2>5, <2>7, <2>8 DEF HeedInv
  <2>. QED
    BY <1>0, <2>5, <2>6, <2>8 DEF HeedInv
<1>5. CASE EventsDone
  BY <1>2, <1>5 DEF EventsDone, clients, past
<1>6. CASE Accept
  <2>1. \A x : InEp(x)' <=> InEp(x) /\ x # Listener
    BY <1>6, EventTaken DEF Accept
  <2>2. /\ server = "events" /\ server' \in {"events", "dead"} /\ UNCHANGED <<left, inbox, peer>>
    BY <1>6 DEF Accept, clients, past
  <2>3. \A c \in Clients : Readable(c)' = Readable(c)
    BY <2>2 DEF Readable
  <2>4. ASSUME NEW c \in Open', Readable(c)' PROVE edge'[c] \/ c \in left' \/ InEp(c)'
    <3>0. c \in Clients /\ conn'[c] = "open" /\ Readable(c)
      BY <2>3, <2>4 DEF Open
    <3>1. CASE c \in Open /\ edge'[c] = edge[c]
      <4>1. edge[c] \/ c \in left \/ InEp(c)
        BY <2>2, <3>0, <3>1 DEF HeedInv
      <4>. QED
        BY <1>0, <2>1, <2>2, <3>0, <3>1, <4>1
    <3>2. CASE Cardinality(Open) < MaxFds
      <4>1. PICK q \in Queued :
              \/ /\ conn' = [conn EXCEPT ![q] = "open"]
                 /\ edge' = [edge EXCEPT ![q] = Readable(q)]
              \/ conn' = [conn EXCEPT ![q] = "unwatched"] /\ UNCHANGED edge
        BY <1>6, <3>2 DEF Accept
      <4>2. q \in Clients
        BY DEF Queued
      <4>3. CASE c = q
        BY <1>0, <3>0, <4>1, <4>2, <4>3
      <4>4. CASE c # q
        <5>1. conn'[c] = conn[c] /\ edge'[c] = edge[c]
          BY <1>0, <3>0, <4>1, <4>2, <4>4
        <5>. QED
          BY <3>0, <3>1, <5>1 DEF Open
      <4>. QED
        BY <4>3, <4>4
    <3>3. CASE ~(Cardinality(Open) < MaxFds)
      BY <1>6, <3>0, <3>1, <3>3 DEF Accept, Open
    <3>. QED
      BY <3>2, <3>3
  <2>. QED
    BY <2>2, <2>4 DEF HeedInv
<1>7. CASE DoRead
  <2>1. \A x : InEp(x)' <=> InEp(x) /\ x # cfd'
    BY <1>7, EventTaken DEF DoRead
  <2>2. /\ server = "events" /\ server' = "recv" /\ UNCHANGED <<conn, edge, inbox, peer>>
        /\ left' = left \ {cfd'}
    BY <1>7 DEF DoRead, clients
  <2>3. Open' = Open /\ \A c \in Clients : Readable(c)' = Readable(c)
    BY <2>2 DEF Open, Readable
  <2>4. ASSUME NEW c \in Open, Readable(c), c # cfd' PROVE edge'[c] \/ c \in left' \/ InEp(c)'
    BY <2>1, <2>2, <2>4 DEF HeedInv
  <2>. QED
    BY <1>0, <2>2, <2>3, <2>4 DEF HeedInv
<1>8. CASE RecvToken \/ Peek \/ RecvNothing
  <2>1. /\ server \in {"recv", "peek"} /\ server' \in {"recv", "peek", "stat", "events"}
        /\ UNCHANGED <<ep, cfd, peer>> /\ left \subseteq left'
        /\ \A c \in Clients : c # cfd => inbox'[c] = inbox[c]
    BY <1>8, ReadStep
  <2>2. \A x : InEp(x)' <=> InEp(x)
    BY <2>1 DEF InEp
  <2>3. \A c \in Clients : c # cfd => Readable(c)' = Readable(c)
    BY <2>1 DEF Readable
  <2>4. \A c \in Clients : c # cfd => conn'[c] = conn[c] /\ edge'[c] = edge[c]
    BY <1>0, <1>8, ReadStep
  <2>5. ASSUME NEW c \in Open', Readable(c)', c # cfd PROVE edge'[c] \/ c \in left' \/ InEp(c)'
    <3>1. c \in Open /\ Readable(c) /\ edge'[c] = edge[c]
      BY <2>3, <2>4, <2>5 DEF Open
    <3>. QED
      BY <2>1, <2>2, <2>5, <3>1 DEF HeedInv
  <2>6. ASSUME cfd \in Open', Readable(cfd)' PROVE server' \in {"recv", "peek"} \/ cfd \in left'
    <3>1. conn'[cfd] # "closed"
      BY <2>6 DEF Open
    <3>. QED
      BY <1>0, <1>8, <2>6, <3>1, ReadStep
  <2>. QED
    BY <2>1, <2>5, <2>6 DEF HeedInv
<1>9. CASE Stat \/ HttpRequest \/ OpenFile \/ SendBlock \/ FileSent
  <2>1. /\ server \notin {"recv", "peek"} /\ server' # "wait"
        /\ UNCHANGED <<ep, cfd, left, conn, edge, inbox, peer>>
    BY <1>9, AfterSendIs
    DEF Stat, HttpRequest, OpenFile, SendBlock, FileSent, SendError, clients, past
  <2>. QED
    BY <1>2, <2>1
<1>10. ASSUME NEW c \in Clients, Connect(c) PROVE HeedInv'
  <2>1. /\ UNCHANGED <<server, ep, cfd, left, edge, inbox, peer>>
        /\ conn[c] = "none" /\ conn' = [conn EXCEPT ![c] = "queued"]
    BY <1>10 DEF Connect, clients, past
  <2>2. Open' = Open /\ \A x \in Clients : Readable(x)' = Readable(x)
    BY <1>0, <2>1 DEF Open, Readable
  <2>. QED
    BY <1>0, <1>1, <2>1, <2>2
\* What arrives at an open connection raises its edge.
<1>11. ASSUME NEW c \in Clients, Send(c) \/ Close(c) \/ ResetArrives(c) PROVE HeedInv'
  <2>1. /\ UNCHANGED <<server, ep, cfd, left, conn>>
        /\ edge' = [edge EXCEPT ![c] = edge[c] \/ conn[c] = "open"]
        /\ \A x \in Clients : x # c => inbox'[x] = inbox[x] /\ peer'[x] = peer[x]
    BY <1>0, <1>11 DEF Send, Close, ResetArrives, RaiseEdge, past
  <2>2. Open' = Open /\ \A x \in Clients : x # c => Readable(x)' = Readable(x)
    BY <2>1 DEF Open, Readable
  <2>3. \A x \in Open : (x = c => edge'[x]) /\ (edge[x] => edge'[x])
    BY <1>0, <2>1 DEF Open
  <2>. QED
    BY <1>0, <1>1, <2>1, <2>2, <2>3
<1>12. ASSUME NEW n \in Files, FileVanishes(n) PROVE HeedInv'
  BY <1>2, <1>12 DEF FileVanishes, clients, past
<1>. QED
  BY <1>3, <1>4, <1>5, <1>6, <1>7, <1>8, <1>9, <1>10, <1>11, <1>12 DEF Next, Server

\* Whatever the clients send, one request or many, however it is cut up and whenever it
\* arrives, and whenever they close: when the server waits for events, what is unread of a
\* client has an event of its own coming, unless it lies behind a blank line at which do_read
\* stopped.
THEOREM NothingIsForgotten == Spec => []NothingForgotten
<1>1. Init => HeedInv
  BY DEF Init, Open, HeedInv
<1>2. HeedInv => NothingForgotten
  BY DEF HeedInv, NothingForgotten, InEp
<1>. QED
  BY <1>1, <1>2, NextKeepsHeed, TypeCorrect, EpInvariant, PTL DEF Spec

-----------------------------------------------------------------------------
(* The inbox is the part of the stream that has arrived and is not read *)

InboxInv ==
  \A c \in Clients :
     /\ Taken(c) >= 0
     /\ \A i \in 1..Len(inbox[c]) : inbox[c][i] = Stream[Taken(c) + i]

LEMMA TakenIs ==
  ASSUME TypeOK, InboxInv, NEW c \in Clients
  PROVE  /\ Taken(c) \in Nat /\ Len(inbox[c]) \in Nat /\ sent[c] \in 0..Len(Stream)
         /\ Taken(c) + Len(inbox[c]) = sent[c]
         /\ inbox[c] \in Seq(Tokens)
         /\ inbox[c] = <<>> <=> Taken(c) = sent[c]
<1>1. inbox[c] \in Seq(Tokens) /\ sent[c] \in 0..Len(Stream) /\ Len(Stream) \in Nat
  BY StreamIs DEF TypeOK, Tokens
<1>2. Len(inbox[c]) \in Nat /\ (inbox[c] = <<>> <=> Len(inbox[c]) = 0)
  BY <1>1, EmptySeq
<1>. QED
  BY <1>1, <1>2 DEF Taken, InboxInv

\* Taking a token takes the next one of the stream.
LEMMA ConsumeTakes ==
  ASSUME TypeOK, InboxInv, inbox[cfd] # <<>>, Consume, UNCHANGED <<cfd, sent>>
  PROVE  /\ Taken(cfd)' = Taken(cfd) + 1
         /\ Taken(cfd) + 1 \in 1..sent[cfd]
         /\ Head(inbox[cfd]) = Stream[Taken(cfd) + 1]
         /\ InboxInv'
<1>0. inbox \in [Clients -> Seq(Tokens)] /\ cfd \in Clients
  BY DEF TypeOK, Tokens
<1>1. /\ Len(Tail(inbox[cfd])) = Len(inbox[cfd]) - 1
      /\ \A i \in 1..Len(Tail(inbox[cfd])) : Tail(inbox[cfd])[i] = inbox[cfd][i + 1]
      /\ Head(inbox[cfd]) = inbox[cfd][1] /\ Len(inbox[cfd]) \in Nat \ {0}
  BY <1>0, HeadTailProperties, EmptySeq
<1>2. inbox'[cfd] = Tail(inbox[cfd]) /\ \A c \in Clients : c # cfd => inbox'[c] = inbox[c]
  BY <1>0 DEF Consume
<1>3. Taken(cfd)' = sent[cfd] - (Len(inbox[cfd]) - 1)
  BY <1>1, <1>2 DEF Taken
<1>4. Taken(cfd)' = Taken(cfd) + 1 /\ Taken(cfd) + 1 \in 1..sent[cfd] /\ Taken(cfd) \in Nat
  <2>1. sent[cfd] - (Len(inbox[cfd]) - 1) = (sent[cfd] - Len(inbox[cfd])) + 1
    BY <1>0, <1>1, TakenIs
  <2>. QED
    BY <1>0, <1>1, <1>3, <2>1, TakenIs DEF Taken
<1>5. Head(inbox[cfd]) = Stream[Taken(cfd) + 1]
  <2>1. 1 \in 1..Len(inbox[cfd])
    BY <1>1
  <2>. QED
    BY <1>0, <1>1, <2>1 DEF InboxInv
<1>6. InboxInv'
  <2>1. ASSUME NEW c \in Clients, c # cfd
        PROVE  /\ Taken(c)' >= 0
               /\ \A i \in 1..Len(inbox'[c]) : inbox'[c][i] = Stream[Taken(c)' + i]
    <3>1. Taken(c)' = Taken(c) /\ inbox'[c] = inbox[c]
      BY <1>2, <2>1 DEF Taken
    <3>. QED
      BY <3>1 DEF InboxInv
  <2>2. ASSUME NEW i \in 1..(Len(inbox[cfd]) - 1)
        PROVE  inbox'[cfd][i] = Stream[(Taken(cfd) + 1) + i]
    <3>1. i + 1 \in 1..Len(inbox[cfd]) /\ Taken(cfd) + (i + 1) = (Taken(cfd) + 1) + i
      BY <1>1, <1>4
    <3>2. inbox'[cfd][i] = inbox[cfd][i + 1]
      BY <1>1, <1>2
    <3>. QED
      BY <1>0, <3>1, <3>2 DEF InboxInv
  <2>3. /\ Taken(cfd)' >= 0
        /\ \A i \in 1..Len(inbox'[cfd]) : inbox'[cfd][i] = Stream[Taken(cfd)' + i]
    <3>1. Taken(cfd) + 1 >= 0
      BY <1>4
    <3>. QED
      BY <1>1, <1>2, <1>4, <2>2, <3>1
  <2>. QED
    BY <2>1, <2>3 DEF InboxInv
<1>. QED
  BY <1>4, <1>5, <1>6

\* More of the stream arrives: what is taken of it stays the same.
LEMMA SendAdds ==
  ASSUME TypeOK, InboxInv, NEW c \in Clients, Send(c)
  PROVE  /\ InboxInv'
         /\ \A x \in Clients : Taken(x)' = Taken(x)
         /\ inbox'[c] # <<>> /\ sent[c] < sent'[c]
         /\ \A x \in Clients : x # c => sent'[x] = sent[x] /\ inbox'[x] = inbox[x]
<1>0. inbox \in [Clients -> Seq(Tokens)] /\ sent \in [Clients -> 0..Len(Stream)]
  BY DEF TypeOK, Tokens
<1>1. PICK e \in Cuts[c] : /\ e > sent[c]
                           /\ inbox' = [inbox EXCEPT ![c] = Piece(c, e)]
                           /\ sent' = [sent EXCEPT ![c] = e]
  BY DEF Send, Piece
<1>2. /\ Piece(c, e) # <<>>
      /\ Len(Piece(c, e)) = Len(inbox[c]) + (e - sent[c])
      /\ \A i \in 1..Len(Piece(c, e)) :
           Piece(c, e)[i] = IF i <= Len(inbox[c]) THEN inbox[c][i]
                            ELSE Stream[sent[c] + (i - Len(inbox[c]))]
  BY <1>0, <1>1, PieceIs
<1>3. /\ inbox'[c] = Piece(c, e) /\ sent'[c] = e /\ e \in Nat /\ sent[c] < e
      /\ \A x \in Clients : x # c => sent'[x] = sent[x] /\ inbox'[x] = inbox[x]
  BY <1>0, <1>1, StreamIs
<1>4. \A x \in Clients : x # c => Taken(x)' = Taken(x)
  BY <1>3 DEF Taken
<1>5. Taken(c)' = Taken(c)
  <2>1. Taken(c)' = e - (Len(inbox[c]) + (e - sent[c]))
    BY <1>2, <1>3 DEF Taken
  <2>2. e - (Len(inbox[c]) + (e - sent[c])) = sent[c] - Len(inbox[c])
    BY <1>3, TakenIs
  <2>. QED
    BY <2>1, <2>2 DEF Taken
<1>6. ASSUME NEW i \in 1..Len(Piece(c, e)) PROVE Piece(c, e)[i] = Stream[Taken(c) + i]
  <2>1. CASE i <= Len(inbox[c])
    <3>1. i \in 1..Len(inbox[c])
      BY <2>1, TakenIs
    <3>. QED
      BY <1>2, <2>1, <3>1 DEF InboxInv
  <2>2. CASE ~(i <= Len(inbox[c]))
    <3>1. sent[c] + (i - Len(inbox[c])) = Taken(c) + i
      BY TakenIs DEF Taken
    <3>. QED
      BY <1>2, <2>2, <3>1
  <2>. QED
    BY <2>1, <2>2
<1>7. InboxInv'
  <2>1. \A x \in Clients : Taken(x)' >= 0
    BY <1>4, <1>5 DEF InboxInv
  <2>2. \A i \in 1..Len(inbox'[c]) : inbox'[c][i] = Stream[Taken(c)' + i]
    BY <1>3, <1>5, <1>6
  <2>3. \A x \in Clients : x # c => \A i \in 1..Len(inbox'[x]) : inbox'[x][i] = Stream[Taken(x)' + i]
    BY <1>3, <1>4 DEF InboxInv
  <2>. QED
    BY <2>1, <2>2, <2>3 DEF InboxInv
<1>. QED
  BY <1>1, <1>2, <1>3, <1>4, <1>5, <1>7

\* What touches neither.
LEMMA InboxKept ==
  ASSUME InboxInv, UNCHANGED <<inbox, sent>>
  PROVE  InboxInv' /\ \A c \in Clients : Taken(c)' = Taken(c)
<1>1. \A c : Taken(c)' = Taken(c)
  BY DEF Taken
<1>. QED
  BY <1>1 DEF InboxInv

LEMMA InitInbox == Init => InboxInv /\ \A c \in Clients : Taken(c) = 0
<1>. SUFFICES ASSUME Init PROVE InboxInv /\ \A c \in Clients : Taken(c) = 0
  OBVIOUS
<1>1. \A c \in Clients : sent[c] = 0 /\ inbox[c] = <<>> /\ Len(inbox[c]) = 0
  BY DEF Init
<1>2. \A c \in Clients : Taken(c) = 0
  BY <1>1 DEF Taken
<1>. QED
  BY <1>1, <1>2 DEF InboxInv

-----------------------------------------------------------------------------
(* Requests, as long as no line of them is torn *)

\* Where a request begins: at the start, and behind another one
Starts == {0} \cup Ends

\* Requests over HTTP, one behind the other: every line ends in "CR" "LF", and the first of
\* each request names a method and a path.
WellFormed ==
  /\ \A i \in 1..(Len(Stream) - 1) : Stream[i] = "CR" <=> Stream[i + 1] = "LF"
  /\ \A k \in Starts : k < Len(Stream) =>
        Stream[k + 1] = "GET" /\ Stream[k + 2] = "path" /\ Stream[k + 3] = "CR"

LEMMA StartsAre == Starts \subseteq Nat /\ Ends \subseteq Starts /\ Len(Stream) \in Nat
  BY StreamIs DEF Starts, Ends

\* Only behind a "CR" there is a "LF"; a blank line ends a request.
LEMMA WellFormedIs ==
  ASSUME WellFormed, NEW p \in Nat, p >= 2, p + 1 \in 1..Len(Stream)
  PROVE  /\ Stream[p + 1] = "LF" => Stream[p] = "CR"
         /\ Stream[p - 1] = "LF" /\ Stream[p] = "CR" => p + 1 \in Ends
<1>1. p \in 1..(Len(Stream) - 1) /\ Len(Stream) \in Nat
  BY StreamIs
<1>2. Stream[p] = "CR" <=> Stream[p + 1] = "LF"
  BY <1>1 DEF WellFormed
<1>3. p + 1 \in 3..Len(Stream) /\ (p + 1) - 2 = p - 1 /\ (p + 1) - 1 = p
  BY <1>1
<1>. QED
  BY <1>2, <1>3 DEF Ends

GetLine == [first |-> "GET", path |-> FALSE]
GetPathLine == [first |-> "GET", path |-> TRUE]

\* Of a client whose lines were not torn: a request that is not being read has not been begun
\* or is read whole; an answer is under way only for one that is read whole.
StartsInv ==
  \A c \in Clients \ torn : Taken(c) \in Starts \/ (c = cfd /\ server \in {"recv", "peek"})

AnswerInv ==
  server \in {"stat", "request", "open", "send"} /\ cfd \notin torn =>
     Taken(cfd) \in Ends /\ want = "asked"

\* How far the request line, and then the header, is read.
RequestLineInv ==
  cfd \notin torn /\ ~header =>
     /\ server = "recv" =>
          \E k \in Starts : \/ Taken(cfd) = k /\ line = NoLine
                            \/ Taken(cfd) = k + 1 /\ line = GetLine /\ k < Len(Stream)
                            \/ Taken(cfd) = k + 2 /\ line = GetPathLine /\ k < Len(Stream)
     /\ server = "peek" =>
          \E k \in Starts : Taken(cfd) = k + 3 /\ line = GetPathLine

HeaderInv ==
  cfd \notin torn /\ server \in {"recv", "peek"} /\ header =>
     /\ 4 <= Taken(cfd)
     /\ method = "GET" /\ want = "asked"
     /\ server = "recv" => /\ Stream[Taken(cfd)] # "CR"
                           /\ line.first = "none" <=> Stream[Taken(cfd)] = "LF"
     /\ server = "peek" => /\ Stream[Taken(cfd)] = "CR"
                           /\ line.first = "none" <=> Stream[Taken(cfd) - 1] = "LF"

LinesInv ==
  /\ InboxInv /\ StartsInv /\ NameUnlessTorn
  /\ AnswerInv /\ RequestLineInv /\ HeaderInv

\* What do_read does at the end of a line: only a blank one, behind the request line, ends
\* its loop.
LEMMA NewlineEnds ==
  ASSUME TypeOK, line.first # "LF", LineEnds(WithNewline(line))
  PROVE  /\ header' /\ line' = NoLine /\ UNCHANGED <<conn, edge>>
         /\ header /\ line.first = "none" => server' = NextAfterHeaders
         /\ ~header \/ line.first # "none" => server' = "recv"
         /\ header => UNCHANGED <<method, want>>
         /\ ~header /\ line.first # "none" =>
              method' = line.first /\ want' = IF line.path THEN "asked" ELSE "other"
<1>1. /\ line.first = "none" => WithNewline(line).first = "LF"
      /\ line.first # "none" => /\ WithNewline(line).first = line.first
                                /\ WithNewline(line).path = line.path
  BY DEF WithNewline, WithToken, TypeOK
<1>2. header \in BOOLEAN
  BY DEF TypeOK
<1>3. CASE header
  BY <1>1, <1>3 DEF LineEnds, HeaderLine, HeadersOver
<1>4. CASE ~header
  BY <1>1, <1>4 DEF LineEnds, NothingRead, RequestLine
<1>. QED
  BY <1>2, <1>3, <1>4

\* What reading leaves of the invariant for the clients that are not being read, and all that
\* it leaves of it when the line was torn.
LEMMA ReadKeepsOthers ==
  ASSUME TypeOK, LinesInv, RecvToken \/ Peek \/ RecvNothing, InboxInv',
         server' \in {"recv", "peek"} \/ Taken(cfd)' \in Starts \/ cfd \in torn'
  PROVE  /\ StartsInv' /\ NameUnlessTorn'
         /\ cfd \in torn' => LinesInv'
<1>1. /\ UNCHANGED <<cfd, sent, answer>> /\ \A c \in Clients : c # cfd => inbox'[c] = inbox[c]
      /\ server \in {"recv", "peek"} /\ torn \subseteq torn'
  BY ReadStep
<1>2. \A c \in Clients : c # cfd => Taken(c)' = Taken(c)
  BY <1>1 DEF Taken
<1>3. StartsInv'
  <2>1. ASSUME NEW c \in Clients \ torn', c # cfd PROVE Taken(c)' \in Starts
    <3>1. Taken(c) \in Starts
      BY <1>1, <2>1 DEF LinesInv, StartsInv
    <3>. QED
      BY <1>2, <2>1, <3>1
  <2>. QED
    BY <1>1, <2>1 DEF StartsInv, Starts, Ends
<1>4. NameUnlessTorn'
  BY <1>1 DEF LinesInv, NameUnlessTorn
<1>. QED
  BY <1>1, <1>3, <1>4 DEF LinesInv, AnswerInv, RequestLineInv, HeaderInv

LEMMA RecvTokenKeepsLines ==
  ASSUME WellFormed, TypeOK, StartInv, LinesInv, RecvToken
  PROVE  LinesInv'
<1>. DEFINE p == Taken(cfd)
            t == Head(inbox[cfd])
<1>0. /\ cfd \in Clients /\ server = "recv" /\ inbox[cfd] # <<>> /\ line.first # "LF"
      /\ UNCHANGED <<cfd, sent, answer, torn>> /\ header \in BOOLEAN /\ line \in Lines
      /\ Consume /\ InboxInv
  BY DEF RecvToken, TypeOK, StartInv, Lines, LinesInv
<1>1. /\ Taken(cfd)' = p + 1 /\ InboxInv'
      /\ p \in Nat /\ p + 1 \in 1..Len(Stream) /\ t = Stream[p + 1] /\ t \in Tokens
  <2>1. /\ Taken(cfd)' = p + 1 /\ InboxInv' /\ p + 1 \in 1..sent[cfd] /\ t = Stream[p + 1]
        /\ t \in Tokens
    BY <1>0, ConsumeTakes, ConsumeIs
  <2>2. p \in Nat /\ sent[cfd] \in 0..Len(Stream) /\ Len(Stream) \in Nat
    BY <1>0, TakenIs, StreamIs
  <2>. QED
    BY <2>1, <2>2
<1>. HIDE DEF p, t
<1>2. CASE cfd \in torn
  BY <1>0, <1>1, <1>2, ReadKeepsOthers
<1>3. CASE cfd \notin torn /\ ~header
  <2>1. PICK k \in Starts : \/ p = k /\ line = NoLine
                            \/ p = k + 1 /\ line = GetLine /\ k < Len(Stream)
                            \/ p = k + 2 /\ line = GetPathLine /\ k < Len(Stream)
    BY <1>0, <1>3 DEF LinesInv, RequestLineInv, p
  <2>2. k \in Nat /\ Len(Stream) \in Nat
    BY StartsAre
  <2>3. CASE p = k /\ line = NoLine
    <3>1. k < Len(Stream) /\ t = "GET" /\ Taken(cfd)' = k + 1
      BY <1>1, <2>2, <2>3 DEF WellFormed
    <3>2. line' = GetLine /\ UNCHANGED <<server, header>>
      BY <2>3, <3>1 DEF RecvToken, WithToken, NoLine, GetLine, t
    <3>. QED
      BY <1>0, <1>1, <1>3, <3>1, <3>2, ReadKeepsOthers
      DEF LinesInv, AnswerInv, RequestLineInv, HeaderInv, Starts, Ends
  <2>4. CASE p = k + 1 /\ line = GetLine /\ k < Len(Stream)
    <3>0. (k + 1) + 1 = k + 2
      BY <2>2
    <3>1. t = "path" /\ Taken(cfd)' = k + 2
      BY <1>1, <2>4, <3>0 DEF WellFormed
    <3>2. line' = GetPathLine /\ UNCHANGED <<server, header>>
      BY <2>4, <3>1 DEF RecvToken, WithToken, GetLine, GetPathLine, t
    <3>. QED
      BY <1>0, <1>1, <1>3, <2>4, <3>1, <3>2, ReadKeepsOthers
      DEF LinesInv, AnswerInv, RequestLineInv, HeaderInv, Starts, Ends
  <2>5. CASE p = k + 2 /\ line = GetPathLine /\ k < Len(Stream)
    <3>0. (k + 2) + 1 = k + 3
      BY <2>2
    <3>1. t = "CR" /\ Taken(cfd)' = k + 3
      BY <1>1, <2>5, <3>0 DEF WellFormed
    <3>2. server' = "peek" /\ UNCHANGED <<header, line>>
      BY <3>1 DEF RecvToken, reading, t
    <3>. QED
      BY <1>0, <1>1, <1>3, <2>5, <3>1, <3>2, ReadKeepsOthers
      DEF LinesInv, AnswerInv, RequestLineInv, HeaderInv, Starts, Ends
  <2>. QED
    BY <2>1, <2>3, <2>4, <2>5
<1>4. CASE cfd \notin torn /\ header
  <2>1. /\ 4 <= p /\ method = "GET" /\ want = "asked"
        /\ Stream[p] # "CR"
        /\ line.first = "none" <=> Stream[p] = "LF"
    BY <1>0, <1>4 DEF LinesInv, HeaderInv, p
  <2>2. t # "LF"
    <3>1. p >= 2
      BY <1>1, <2>1
    <3>. QED
      BY <1>1, <2>1, <3>1, WellFormedIs
  <2>3. 4 <= p + 1 /\ (p + 1) - 1 = p
    BY <1>1, <2>1
  <2>4. CASE t = "CR"
    <3>1. server' = "peek" /\ UNCHANGED <<header, line, method, want>>
      BY <2>4 DEF RecvToken, reading, t
    <3>2. HeaderInv'
      BY <1>0, <1>1, <2>1, <2>3, <2>4, <3>1 DEF HeaderInv
    <3>. QED
      BY <1>0, <1>1, <1>4, <3>1, <3>2, ReadKeepsOthers
      DEF LinesInv, AnswerInv, RequestLineInv
  <2>5. CASE t \notin {"CR", "LF"}
    <3>1. line' = WithToken(line, t) /\ UNCHANGED <<server, header, method, want>>
      BY <2>5 DEF RecvToken, t
    <3>2. line'.first # "none"
      BY <1>0, <1>1, <2>5, <3>1, LinesAre DEF Tokens
    <3>3. HeaderInv'
      BY <1>0, <1>1, <2>1, <2>3, <2>5, <3>1, <3>2 DEF HeaderInv
    <3>. QED
      BY <1>0, <1>1, <1>4, <3>1, <3>3, ReadKeepsOthers
      DEF LinesInv, AnswerInv, RequestLineInv
  <2>. QED
    BY <2>2, <2>4, <2>5
<1>. QED
  BY <1>0, <1>2, <1>3, <1>4

LEMMA PeekKeepsLines ==
  ASSUME WellFormed, TypeOK, StartInv, LinesInv, Peek
  PROVE  LinesInv'
<1>. DEFINE p == Taken(cfd)
<1>0. /\ cfd \in Clients /\ server = "peek" /\ line.first # "LF"
      /\ UNCHANGED <<cfd, sent, answer>> /\ header \in BOOLEAN /\ torn \subseteq torn'
      /\ LineEnds(WithNewline(line)) /\ InboxInv
  BY DEF Peek, TypeOK, StartInv, LinesInv
\* The newline has not arrived, or is not the next token: the line is torn.
<1>1. CASE ~(inbox[cfd] # <<>> /\ Head(inbox[cfd]) = "LF")
  <2>1. UNCHANGED <<inbox, sent>> /\ cfd \in torn'
    BY <1>0, <1>1 DEF Peek
  <2>2. InboxInv'
    BY <1>0, <2>1, InboxKept
  <2>. QED
    BY <2>1, <2>2, ReadKeepsOthers
<1>2. CASE inbox[cfd] # <<>> /\ Head(inbox[cfd]) = "LF"
  <2>1. Consume /\ UNCHANGED torn
    BY <1>2 DEF Peek
  <2>2. /\ Taken(cfd)' = p + 1 /\ InboxInv' /\ Stream[p + 1] = "LF"
        /\ p \in Nat /\ p + 1 \in 1..Len(Stream)
    <3>1. /\ Taken(cfd)' = p + 1 /\ InboxInv' /\ p + 1 \in 1..sent[cfd]
          /\ Stream[p + 1] = "LF"
      BY <1>0, <1>2, <2>1, ConsumeTakes
    <3>2. p \in Nat /\ sent[cfd] \in 0..Len(Stream) /\ Len(Stream) \in Nat
      BY <1>0, TakenIs, StreamIs
    <3>. QED
      BY <3>1, <3>2
  <2>. HIDE DEF p
  <2>3. CASE cfd \in torn
    BY <1>0, <2>2, <2>3, ReadKeepsOthers
  <2>4. CASE cfd \notin torn /\ header /\ line.first = "none"
    <3>1. /\ Stream[p - 1] = "LF" /\ Stream[p] = "CR" /\ method = "GET" /\ want = "asked"
          /\ 4 <= p
      BY <1>0, <2>4 DEF LinesInv, HeaderInv, p
    <3>2. p + 1 \in Ends
      <4>1. p >= 2
        BY <2>2, <3>1
      <4>. QED
        BY <2>2, <3>1, <4>1, WellFormedIs
    <3>3. server' = "stat" /\ UNCHANGED <<method, want>>
      BY <1>0, <2>4, <3>1, NewlineEnds DEF NextAfterHeaders
    <3>4. AnswerInv' /\ RequestLineInv' /\ HeaderInv'
      BY <1>0, <2>2, <3>1, <3>2, <3>3 DEF AnswerInv, RequestLineInv, HeaderInv, Ends
    <3>. QED
      BY <2>2, <3>2, <3>4, ReadKeepsOthers, StartsAre DEF LinesInv
  <2>5. CASE cfd \notin torn /\ header /\ line.first # "none"
    <3>1. method = "GET" /\ want = "asked" /\ 4 <= p
      BY <1>0, <2>5 DEF LinesInv, HeaderInv, p
    <3>2. 4 <= p + 1
      BY <2>2, <3>1
    <3>3. server' = "recv" /\ line' = NoLine /\ header' /\ UNCHANGED <<method, want>>
      BY <1>0, <2>5, NewlineEnds
    <3>. QED
      BY <1>0, <2>2, <3>1, <3>2, <3>3, ReadKeepsOthers, LinesAre
      DEF LinesInv, AnswerInv, RequestLineInv, HeaderInv
  <2>6. CASE cfd \notin torn /\ ~header
    <3>1. PICK k \in Starts : p = k + 3 /\ line = GetPathLine
      BY <1>0, <2>6 DEF LinesInv, RequestLineInv, p
    <3>2. 4 <= p + 1
      BY <2>2, <3>1, StartsAre
    <3>3. server' = "recv" /\ line' = NoLine /\ header' /\ method' = "GET" /\ want' = "asked"
      BY <1>0, <2>6, <3>1, NewlineEnds DEF GetPathLine
    <3>. QED
      BY <1>0, <2>2, <3>2, <3>3, ReadKeepsOthers, LinesAre
      DEF LinesInv, AnswerInv, RequestLineInv, HeaderInv
  <2>. QED
    BY <1>0, <2>3, <2>4, <2>5, <2>6
<1>. QED
  BY <1>1, <1>2

LEMMA RecvNothingKeepsLines ==
  ASSUME WellFormed, TypeOK, StartInv, LinesInv, RecvNothing
  PROVE  LinesInv'
<1>0. /\ cfd \in Clients /\ server = "recv" /\ inbox[cfd] = <<>> /\ line.first # "LF"
      /\ UNCHANGED <<cfd, inbox, sent, answer>> /\ header \in BOOLEAN /\ line \in Lines
      /\ LineEnds(line) /\ InboxInv /\ torn \subseteq torn'
  BY DEF RecvNothing, TypeOK, StartInv, LinesInv, Lines, clients
<1>1. InboxInv' /\ Taken(cfd)' = Taken(cfd)
  BY <1>0, InboxKept
\* In the middle of a line: it is torn.
<1>2. CASE cfd \in torn \/ line.first # "none"
  <2>1. cfd \in torn'
    BY <1>2 DEF RecvNothing
  <2>. QED
    BY <1>1, <2>1, ReadKeepsOthers
<1>3. CASE cfd \notin torn /\ line.first = "none" /\ header
  <2>1. server' = "recv" /\ line' = NoLine /\ UNCHANGED <<header, method, want, torn>>
    BY <1>0, <1>3 DEF RecvNothing, LineEnds, HeaderLine, HeadersOver
  <2>2. HeaderInv'
    BY <1>0, <1>1, <1>3, <2>1, LinesAre DEF LinesInv, HeaderInv
  <2>. QED
    BY <1>0, <1>1, <1>3, <2>1, <2>2, ReadKeepsOthers
    DEF LinesInv, AnswerInv, RequestLineInv
<1>4. CASE cfd \notin torn /\ line.first = "none" /\ ~header
  <2>1. server' = "events" /\ UNCHANGED torn
    BY <1>0, <1>4 DEF RecvNothing, LineEnds, NothingRead, Disconnect
  <2>2. Taken(cfd) \in Starts
    BY <1>0, <1>4 DEF LinesInv, RequestLineInv, GetLine, GetPathLine
  <2>3. Taken(cfd)' \in Starts
    BY <1>1, <2>2
  <2>. QED
    BY <1>1, <2>1, <2>3, ReadKeepsOthers
    DEF LinesInv, AnswerInv, RequestLineInv, HeaderInv
<1>. QED
  BY <1>0, <1>2, <1>3, <1>4

\* A step that answers: the request is read whole, and the file is the one it names.
LEMMA AnswerKeepsLines ==
  ASSUME TypeOK, LinesInv, Stat \/ HttpRequest \/ OpenFile \/ SendBlock \/ FileSent
  PROVE  LinesInv'
<1>0. /\ cfd \in Clients /\ server \in {"stat", "request", "open", "send"}
      /\ InboxInv /\ answer \in [Clients -> Answers]
      /\ UNCHANGED <<cfd, inbox, sent, want, torn>>
  BY DEF Stat, HttpRequest, OpenFile, SendBlock, FileSent, clients, reading, past, LinesInv,
         TypeOK, Answers
<1>1. InboxInv' /\ \A c \in Clients : Taken(c)' = Taken(c)
  BY <1>0, InboxKept
<1>2. \A next : SendError(next) =>
        /\ answer'[cfd].of = want /\ server' \in {next, "dead"}
        /\ \A c \in Clients : c # cfd => answer'[c] = answer[c]
  BY <1>0, AfterSendIs DEF SendError
<1>3. /\ answer'[cfd].of \in {answer[cfd].of, want}
      /\ \A c \in Clients : c # cfd => answer'[c] = answer[c]
      /\ server' \in {"events", "dead", "request", "open", "send"}
  <2>1. CASE Stat
    BY <1>0, <1>2, <2>1 DEF Stat
  <2>2. CASE HttpRequest
    <3>1. CASE answer' = [answer EXCEPT ![cfd] = Begun] /\ server' \in AfterSend("open")
      BY <1>0, <3>1, AfterSendIs DEF Begun
    <3>. QED
      BY <1>0, <1>2, <2>2, <3>1 DEF HttpRequest, Begun
  <2>3. CASE OpenFile
    BY <1>0, <1>2, <2>3 DEF OpenFile
  <2>4. CASE SendBlock
    <3>1. server' \in {"send", "dead"}
      BY <2>4, AfterSendIs DEF SendBlock
    <3>2. \A n : answer' = [answer EXCEPT ![cfd].got = n] \/ answer' = [answer EXCEPT ![cfd].lost = n] =>
             /\ answer'[cfd].of = answer[cfd].of
             /\ \A c \in Clients : c # cfd => answer'[c] = answer[c]
      BY <1>0 DEF Answers
    <3>. QED
      BY <2>4, <3>1, <3>2 DEF SendBlock
  <2>5. CASE FileSent
    BY <1>0, <2>5 DEF FileSent, Answers
  <2>. QED
    BY <2>1, <2>2, <2>3, <2>4, <2>5
<1>4. cfd \notin torn => Taken(cfd) \in Ends /\ want = "asked" /\ answer[cfd].of # "other"
  BY <1>0 DEF LinesInv, AnswerInv, NameUnlessTorn
<1>5. StartsInv'
  BY <1>0, <1>1 DEF LinesInv, StartsInv, Starts, Ends
<1>6. NameUnlessTorn'
  BY <1>0, <1>3, <1>4 DEF LinesInv, NameUnlessTorn
<1>7. AnswerInv'
  BY <1>0, <1>1, <1>4 DEF AnswerInv, Ends
<1>. QED
  BY <1>1, <1>3, <1>5, <1>6, <1>7 DEF LinesInv, RequestLineInv, HeaderInv

LEMMA NextKeepsLines ==
  WellFormed /\ TypeOK /\ StartInv /\ LinesInv /\ [Next]_vars => LinesInv'
<1>. SUFFICES ASSUME WellFormed, TypeOK, StartInv, LinesInv, [Next]_vars
              PROVE  LinesInv'
  OBVIOUS
<1>0. cfd \in Clients /\ InboxInv
  BY DEF TypeOK, LinesInv
\* A step that touches neither what is read nor what is answered.
<1>1. ASSUME InboxInv', \A c \in Clients : Taken(c)' = Taken(c),
             UNCHANGED <<answer, torn, reading>>,
             \/ UNCHANGED <<server, cfd>>
             \/ server' \in {"wait", "events", "dead"} /\ server \notin {"recv", "peek"}
      PROVE  LinesInv'
  <2>1. StartsInv' /\ NameUnlessTorn'
    BY <1>1 DEF LinesInv, StartsInv, NameUnlessTorn, Starts, Ends
  <2>2. AnswerInv'
    BY <1>0, <1>1 DEF reading, LinesInv, AnswerInv, Ends
  <2>3. RequestLineInv'
    BY <1>0, <1>1 DEF reading, LinesInv, RequestLineInv, Starts, Ends
  <2>4. HeaderInv'
    BY <1>0, <1>1 DEF reading, LinesInv, HeaderInv
  <2>. QED
    BY <1>1, <2>1, <2>2, <2>3, <2>4 DEF LinesInv
<1>2. ASSUME UNCHANGED <<inbox, sent>>
      PROVE  InboxInv' /\ \A c \in Clients : Taken(c)' = Taken(c)
  BY <1>0, <1>2, InboxKept
<1>3. CASE UNCHANGED vars
  BY <1>1, <1>2, <1>3 DEF vars, clients, past
<1>4. CASE EpollWait \/ EventsDone \/ Accept
  <2>1. /\ server' \in {"wait", "events", "dead"} /\ server \notin {"recv", "peek"}
        /\ UNCHANGED <<inbox, sent, answer, torn, reading>>
    BY <1>4 DEF EpollWait, EventsDone, Accept, clients, past
  <2>. QED
    BY <1>1, <1>2, <2>1
<1>5. CASE DoRead
  <2>1. /\ server = "events" /\ server' = "recv" /\ ~header' /\ line' = NoLine
        /\ UNCHANGED <<inbox, sent, answer, torn>> /\ cfd' = Head(ep) /\ ep # <<>>
        /\ Head(ep) # Listener
    BY <1>5 DEF DoRead, clients
  <2>2. cfd' \in Clients
    BY <2>1, HeadTailProperties DEF TypeOK
  <2>3. InboxInv' /\ \A c \in Clients : Taken(c)' = Taken(c)
    BY <1>2, <2>1
  <2>4. StartsInv' /\ NameUnlessTorn'
    BY <2>1, <2>3 DEF LinesInv, StartsInv, NameUnlessTorn, Starts, Ends
  <2>5. RequestLineInv'
    <3>1. PICK c \in Clients : c = cfd'
      BY <2>2
    <3>2. inbox'[c] = inbox[c] /\ sent'[c] = sent[c]
      BY <2>1
    <3>3. cfd' \notin torn' => Taken(c) \in Starts
      BY <2>1, <3>1 DEF LinesInv, StartsInv
    <3>4. Taken(cfd)' = Taken(c)
      BY <3>1, <3>2 DEF Taken
    <3>. QED
      BY <2>1, <3>3, <3>4 DEF RequestLineInv, Starts, Ends
  <2>. QED
    BY <2>1, <2>3, <2>4, <2>5 DEF LinesInv, AnswerInv, HeaderInv
<1>6. CASE RecvToken \/ Peek \/ RecvNothing
  BY <1>6, RecvTokenKeepsLines, PeekKeepsLines, RecvNothingKeepsLines
<1>7. CASE Stat \/ HttpRequest \/ OpenFile \/ SendBlock \/ FileSent
  BY <1>7, AnswerKeepsLines
<1>8. ASSUME NEW c \in Clients, Connect(c) \/ Close(c) \/ ResetArrives(c) PROVE LinesInv'
  <2>1. UNCHANGED <<server, cfd, inbox, sent, answer, torn, reading>>
    BY <1>8 DEF Connect, Close, ResetArrives, clients, past
  <2>. QED
    BY <1>1, <1>2, <2>1
<1>9. ASSUME NEW c \in Clients, Send(c) PROVE LinesInv'
  <2>1. InboxInv' /\ \A x \in Clients : Taken(x)' = Taken(x)
    BY <1>0, <1>9, SendAdds
  <2>2. UNCHANGED <<server, cfd, answer, torn, reading>>
    BY <1>9 DEF Send, past
  <2>. QED
    BY <1>1, <2>1, <2>2
<1>10. ASSUME NEW n \in Files, FileVanishes(n) PROVE LinesInv'
  BY <1>1, <1>2, <1>10 DEF FileVanishes, clients, past
<1>. QED
  BY <1>3, <1>4, <1>5, <1>6, <1>7, <1>8, <1>9, <1>10 DEF Next, Server

LEMMA LinesInvariant == ASSUME WellFormed PROVE Spec => []LinesInv
<1>1. Init => LinesInv
  <2>. SUFFICES ASSUME Init PROVE LinesInv
    OBVIOUS
  <2>1. InboxInv /\ (\A c \in Clients : Taken(c) = 0) /\ server = "wait"
    BY InitInbox DEF Init
  <2>2. NameUnlessTorn
    BY DEF Init, NoAnswer, NameUnlessTorn
  <2>. QED
    BY <2>1, <2>2 DEF LinesInv, StartsInv, AnswerInv, RequestLineInv, HeaderInv, Starts
<1>2. TypeOK /\ StartInv /\ LinesInv /\ [Next]_vars => LinesInv'
  BY NextKeepsLines
<1>. QED
  BY <1>1, <1>2, TypeCorrect, EpInvariant, PTL DEF Spec

\* When a blank line ends the loop over the header, a whole request has been read, and
\* nothing of the next one: for all well-formed requests, however the network cuts them and
\* however many are on their way, of each client none of whose lines was ended by a gap in
\* what had arrived.
THEOREM BlankLineEndsRequests == ASSUME WellFormed PROVE Spec => []BlankLineUnlessTorn
<1>1. LinesInv => BlankLineUnlessTorn
  BY DEF LinesInv, AnswerInv, BlankLineUnlessTorn
<1>. QED
  BY <1>1, LinesInvariant, PTL

\* Every answer to such a client, an error page too, is about the file it asked for.
THEOREM AnswersTheQuestion == ASSUME WellFormed PROVE Spec => []NameUnlessTorn
<1>1. LinesInv => NameUnlessTorn
  BY DEF LinesInv
<1>. QED
  BY <1>1, LinesInvariant, PTL

=============================================================================
