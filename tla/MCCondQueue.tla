---------------------------- MODULE MCCondQueue ----------------------------
(* Instances of CondQueue for TLC. *)
EXTENDS CondQueue
=============================================================================
