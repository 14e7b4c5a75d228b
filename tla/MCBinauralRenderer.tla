------------------------- MODULE MCBinauralRenderer ------------------------
(* Finite instance of BinauralRenderer for TLC.                            *)
EXTENDS BinauralRenderer
=============================================================================
