----------------------------- MODULE MCExchanges -----------------------------
(* Instances of Exchanges for TLC. *)
EXTENDS Exchanges
CONSTANTS w1, w2, a1, a2, n1, n2

\* A file to move within a directory, and to another one
SomePaths == {<<0, n1>>, <<0, n2>>, <<1, n1>>}
TwoFiles == [p \in SomePaths |-> CASE p = <<0, n1>> -> 1 [] p = <<0, n2>> -> 0 [] OTHER -> 2]
=============================================================================
