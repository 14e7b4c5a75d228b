---------------------------- MODULE MCOscControl ----------------------------
(* A finite instance of OscControl: two of the rotation's three angles and one coordinate. *)
EXTENDS OscControl

MCAxes == <<"yaw", "pitch">>
MCPosition == <<"positionX">>
=============================================================================
