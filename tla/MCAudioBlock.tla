---------------------------- MODULE MCAudioBlock ---------------------------
(* Finite instance of AudioBlock for TLC: two inputs of spans 1 and 4 under a *)
(* ceiling that two HOA inputs pass, two speakers.                           *)
EXTENDS AudioBlock
=============================================================================
