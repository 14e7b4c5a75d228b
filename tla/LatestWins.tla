----------------------------- MODULE LatestWins -----------------------------
(***************************************************************************)
(* What a debounced, asynchronous, supersedable recomputation promises:    *)
(* the value shown is always computed from some version of the source that *)
(* existed, it never goes back to an older version, and once the source    *)
(* stops changing it catches up, unless the owner is shut down first.      *)
(***************************************************************************)
EXTENDS Naturals

CONSTANT MaxVersion        \* bound on the number of edits

VARIABLES
  source,                  \* version of the source data
  shown,                   \* version the consumer is shown
  open                     \* FALSE once the owner is shutting down

lwVars == <<source, shown, open>>

LWTypeOK ==
  /\ source \in 0..MaxVersion
  /\ shown \in 0..source
  /\ open \in BOOLEAN

LWInit ==
  /\ source = 0
  /\ shown = 0
  /\ open = TRUE

Change ==
  /\ open
  /\ source < MaxVersion
  /\ source' = source + 1
  /\ UNCHANGED <<shown, open>>

\* Skipping versions is allowed, going back is not.
Show ==
  /\ open
  /\ shown' \in (shown + 1)..source
  /\ UNCHANGED <<source, open>>

Close ==
  /\ open
  /\ open' = FALSE
  /\ UNCHANGED <<source, shown>>

LWNext == Change \/ Show \/ Close

LWSafe == LWInit /\ [][LWNext]_lwVars
LWSpec == LWSafe /\ WF_lwVars(Show)
=============================================================================
