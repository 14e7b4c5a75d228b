---------------------------- MODULE MCHeadTracker ----------------------------
(* Finite instance of HeadTracker for TLC. *)
EXTENDS HeadTracker
=============================================================================
