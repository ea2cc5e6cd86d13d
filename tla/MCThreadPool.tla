---------------------------- MODULE MCThreadPool ----------------------------
(* Instances of ThreadPool for TLC; the sizes are given in the .cfg files. *)
EXTENDS ThreadPool
=============================================================================
