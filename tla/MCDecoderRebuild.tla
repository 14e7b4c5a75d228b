-------------------------- MODULE MCDecoderRebuild --------------------------
(* Finite instance of DecoderRebuild, with the application shell and the     *)
(* analysis service around it, for TLC.                                      *)
EXTENDS RvReAnalysis
=============================================================================
