--------------------------- MODULE MCDecoderBlocks ---------------------------
(* Finite instance of DecoderBlocks for TLC. *)
EXTENDS DecoderBlocks
=============================================================================
