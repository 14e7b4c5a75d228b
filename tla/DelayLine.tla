----------------------------- MODULE DelayLine -----------------------------
(***************************************************************************)
(* What a listener may expect of the headphone monitor as a stream: while  *)
(* it runs, every sample of the field comes out once and in order, late by *)
(* less than the prepared block, and silence is inserted only while a      *)
(* block is being filled; a full block is never made later.  What comes    *)
(* before a stop is never heard after it.  (AmbiBinauralRenderer.h:24-27:  *)
(* "At the steady n == P case the step runs inside the same call and adds  *)
(* NO latency; a short block simply waits until P samples have             *)
(* accumulated".)  Samples are numbered by the device, from 1; 0 is        *)
(* silence.                                                                *)
(***************************************************************************)
EXTENDS Integers

CONSTANT Sizes             \* block sizes the device may be prepared for

VARIABLES
  size,                    \* samples of the prepared block
  clock,                   \* samples the device has passed so far
  delay,                   \* samples taken in and not yet heard
  heard                    \* what the last block put out, Idle if nothing

vars == <<size, clock, delay, heard>>

Silence == 0
Idle == [i \in 1..0 |-> Silence]

Init ==
  /\ size \in Sizes
  /\ clock = 0
  /\ delay = 0
  /\ heard = Idle

\* The device is prepared anew.
Restart ==
  /\ size' \in Sizes
  /\ delay' = 0
  /\ heard' = [i \in DOMAIN heard |-> Silence]
  /\ UNCHANGED clock

\* A block passes without the monitor; what it held is dropped.
Skip(n) ==
  /\ clock' = clock + n
  /\ delay' = 0
  /\ heard' = Idle
  /\ UNCHANGED size

\* A block of no samples.
Pause ==
  /\ heard' = Idle
  /\ UNCHANGED <<size, clock, delay>>

\* A block of n samples, m of them sound.
Stream(n) ==
  /\ clock' = clock + n
  /\ \E m \in 0..n :
       /\ heard' = [i \in 1..n |-> IF i <= m THEN clock - delay + i
                                   ELSE Silence]
       /\ delay' = delay + n - m
       /\ n = size => m = n
  /\ delay' < size
  /\ UNCHANGED size

Next ==
  \/ Restart
  \/ Pause
  \/ \E n \in 1..size : Skip(n) \/ Stream(n)

Spec == Init /\ [][Next]_vars
=============================================================================
