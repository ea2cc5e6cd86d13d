---------------------------- MODULE MCEchoServers ----------------------------
(* Instances of EchoServers for TLC. *)
EXTENDS EchoServers
CONSTANTS c1, c2, c3

\* One client may do everything, the others have one way each to end a connection
SomeMayEnd == [c \in Clients |-> CASE c = c1 -> Endings
                                   [] c = c2 -> {"close"}
                                   [] OTHER  -> {"shut"}]

\* It sends twice, as it takes to write to a connection that has been reset
SomeMaySend == [c \in Clients |-> CASE c = c1 -> 2 [] c = c2 -> 1 [] OTHER -> 0]
=============================================================================
