----------------------------- MODULE MCSemRing -----------------------------
(* Instances of SemRing for TLC. *)
EXTENDS SemRing
=============================================================================
