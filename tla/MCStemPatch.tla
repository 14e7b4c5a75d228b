---------------------------- MODULE MCStemPatch ----------------------------
(* Finite instance of StemPatch for TLC: spans 1, 4 and 9 under a ceiling of  *)
(* 10 rows, so that two HOA inputs compete for it.                           *)
EXTENDS StemPatch

\* An earlier session with a patch moved off the identity, and one with a
\* different layout of the same number of rows.
MCProjects ==
  {[formats |-> <<1, 0>>, speakers |-> 2, inRows |-> <<5, 2, 3, 4, 1>>,
    outRows |-> <<3, 0>>, pair |-> 0],
   [formats |-> <<0, 1>>, speakers |-> 1, inRows |-> <<5, 0, 3, 4, 1>>,
    outRows |-> <<2>>, pair |-> 3]}

\* The same without a headphone pair: with PairChoices = {0} no pair is ever
\* chosen, and what is left of the routing are spans and rows.
MCProjectsNoPair == {[p EXCEPT !.pair = NoPair] : p \in MCProjects}
=============================================================================
