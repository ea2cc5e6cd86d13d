----------------------------- MODULE MCTinyHttp -----------------------------
(* Instances of TinyHttp for TLC: what the clients send, and where the     *)
(* network may cut it.                                                     *)
EXTENDS TinyHttp

CONSTANTS c1, c2

TwoRequests == <<"GET", "path", "CR", "LF", "CR", "LF", "GET", "path", "CR", "LF", "CR", "LF">>

\* One client makes both requests; the network may cut between their lines, between a "CR"
\* and its "LF", between the requests, and inside the request line of the second; or they
\* arrive at once.  The other client makes one request, which arrives at once.
MixedCuts == c1 :> {4, 5, 6, 7, 12} @@ c2 :> {6}

OneHeader == <<"GET", "path", "CR", "LF", "hdr", "CR", "LF", "CR", "LF">>

\* Only where a line ends
BetweenLines == [c \in Clients |-> {4, 7, 9}]
\* Inside the request line, inside the header, and between a "CR" and its "LF"
InsideLines == [c \in Clients |-> {1, 3, 5, 8, 9}]
=============================================================================
