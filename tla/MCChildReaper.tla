--------------------------- MODULE MCChildReaper ---------------------------
(* Instances of ChildReaper for TLC: catch_child.c and sig_wait.cpp. *)
EXTENDS ChildReaper
=============================================================================
