-------------------------- MODULE MCBinauralDesign --------------------------
(* Finite instance of BinauralDesign for TLC. *)
EXTENDS BinauralDesign
=============================================================================
