------------------------------ MODULE Datagrams ------------------------------
(***************************************************************************)
(* socket_test/udp_server.c and udp_client.c: a client sends a line and    *)
(* waits for it to come back in capitals; there is no timeout and nothing  *)
(* is sent again.  On the loopback interface, which the client uses,       *)
(* datagrams keep their order; they are lost when the server is not there  *)
(* or has no room for them.                                                *)
(***************************************************************************)
EXTENDS Integers, Sequences

CONSTANTS
  Askers,         \* the clients
  Nobody,         \* no client has this address
  MaxQuestions,   \* bound: lines a client reads from its input
  BufferSize,     \* bound: datagrams that wait for the server
  MaxStarts       \* bound: starts of the server

\* What is assumed of them
DatagramsAssumption ==
  /\ Nobody \notin Askers /\ "server" \notin Askers
  /\ MaxQuestions \in Nat /\ BufferSize \in Nat \ {0} /\ MaxStarts \in Nat

VARIABLES
  at,            \* the server: "off", "recv", "send"; a client: "ask", "wait", "ended"
  arrived,       \* the datagrams that wait for the server
  client_addr,   \* whom the server answers
  shortLength,   \* client_addr_len is the size of a length, not of an address
  buf,           \* the question in the server's buffer
  asked,         \* client -> its lines so far, each a question
  answers,       \* client -> datagrams that wait for it
  answer,        \* client -> the question whose answer it printed last
  unanswerable,  \* clients whose question, or the answer to it, was lost
  starts

server == <<client_addr, shortLength, buf, starts>>
vars == <<at, arrived, server, asked, answers, answer, unanswerable>>

Question == [from : Askers, number : 1..MaxQuestions]
NoQuestion == [from |-> Nobody, number |-> 0]

Init ==
  /\ at = [p \in Askers \cup {"server"} |-> IF p = "server" THEN "off" ELSE "ask"]
  /\ arrived = <<>>
  /\ client_addr = Nobody /\ shortLength = TRUE /\ buf = NoQuestion
  /\ asked = [c \in Askers |-> 0]
  /\ answers = [c \in Askers |-> <<>>]
  /\ answer = [c \in Askers |-> NoQuestion]
  /\ unanswerable = {}
  /\ starts = 0

StartServer ==
  /\ at["server"] = "off" /\ starts < MaxStarts
  /\ at' = [at EXCEPT !["server"] = "recv"]
  /\ client_addr' = Nobody /\ shortLength' = TRUE /\ buf' = NoQuestion
  /\ starts' = starts + 1
  /\ UNCHANGED <<arrived, asked, answers, answer, unanswerable>>

\* What the server has not answered is lost with it
StopServer ==
  /\ at["server"] # "off"
  /\ at' = [at EXCEPT !["server"] = "off"]
  /\ arrived' = <<>>
  /\ unanswerable' = unanswerable \cup {arrived[k].from : k \in DOMAIN arrived}
                       \cup (IF at["server"] = "send" THEN {buf.from} ELSE {})
  /\ UNCHANGED <<server, asked, answers, answer>>

\* Mutant: the address of the first client is kept
KeepAddress(sender) == IF client_addr = Nobody THEN {sender} ELSE {client_addr}

\* The first datagram leaves the host in client_addr unset, which may be anything; its
\* length is right from then on
SenderAddress(sender) == IF shortLength THEN {sender, Nobody} ELSE {sender}

Receive ==
  /\ at["server"] = "recv" /\ arrived # <<>>
  /\ at' = [at EXCEPT !["server"] = "send"]
  /\ buf' = Head(arrived) /\ arrived' = Tail(arrived)
  /\ client_addr' \in SenderAddress(Head(arrived).from)
  /\ shortLength' = FALSE
  /\ UNCHANGED <<asked, answers, answer, unanswerable, starts>>

SendAnswer ==
  /\ at["server"] = "send"
  /\ at' = [at EXCEPT !["server"] = "recv"]
  /\ answers' = [c \in Askers |-> IF c = client_addr /\ at[c] # "ended"
                                  THEN Append(answers[c], buf) ELSE answers[c]]
  /\ unanswerable' = unanswerable \cup ({buf.from} \ {client_addr})
  /\ UNCHANGED <<arrived, server, asked, answer>>

\* fgets and sendto
Ask(c) ==
  /\ at[c] = "ask" /\ asked[c] < MaxQuestions
  /\ at' = [at EXCEPT ![c] = "wait"]
  /\ asked' = [asked EXCEPT ![c] = @ + 1]
  /\ IF at["server"] # "off" /\ Len(arrived) < BufferSize
       THEN /\ arrived' = Append(arrived, [from |-> c, number |-> asked[c] + 1])
            /\ UNCHANGED unanswerable
       ELSE unanswerable' = unanswerable \cup {c} /\ UNCHANGED arrived
  /\ UNCHANGED <<server, answers, answer>>

PrintAnswer(c) ==
  /\ at[c] = "wait" /\ answers[c] # <<>>
  /\ at' = [at EXCEPT ![c] = "ask"]
  /\ answer' = [answer EXCEPT ![c] = Head(answers[c])]
  /\ answers' = [answers EXCEPT ![c] = Tail(@)]
  /\ UNCHANGED <<arrived, server, asked, unanswerable>>

\* The end of the input, or the user ends it
EndClient(c) ==
  /\ at[c] # "ended"
  /\ at' = [at EXCEPT ![c] = "ended"]
  /\ answers' = [answers EXCEPT ![c] = <<>>]
  /\ UNCHANGED <<arrived, server, asked, answer, unanswerable>>

Serve == Receive \/ SendAnswer

Next ==
  \/ StartServer \/ StopServer \/ Serve
  \/ \E c \in Askers : Ask(c) \/ PrintAnswer(c) \/ EndClient(c)

Spec == Init /\ [][Next]_vars

-----------------------------------------------------------------------------

\* Every variable keeps its type.
TypeOK ==
  /\ at \in [Askers \cup {"server"} -> {"off", "recv", "send", "ask", "wait", "ended"}]
  /\ arrived \in Seq(Question) /\ buf \in Question \cup {NoQuestion}
  /\ client_addr \in Askers \cup {Nobody} /\ shortLength \in BOOLEAN
  /\ asked \in [Askers -> 0..MaxQuestions]
  /\ answers \in [Askers -> Seq(Question)]
  /\ answer \in [Askers -> Question \cup {NoQuestion}]
  /\ unanswerable \subseteq Askers
  /\ starts \in 0..MaxStarts

\* A client that goes on has printed the answer to its own and latest question, although
\* answers do not say what they answer.
AnswersMatch ==
  \A c \in Askers :
     at[c] = "ask" /\ asked[c] > 0 => answer[c] = [from |-> c, number |-> asked[c]]

\* The server answers whoever asked.  Of the first datagram this is not so.
SentBack == at["server"] = "send" => client_addr = buf.from

\* A client waits for ever only if a datagram was lost, or it was the first that a
\* server received.
Unanswered(c) == at[c] = "wait" /\ c \notin unanswerable
Answered == \A c \in Askers : Unanswered(c) ~> ~Unanswered(c)

=============================================================================
