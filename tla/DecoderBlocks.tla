---------------------------- MODULE DecoderBlocks ----------------------------
(***************************************************************************)
(* The decoder double buffer against the audio thread, with a clock.       *)
(*                                                                         *)
(* DecoderMatrixBuilder fills the buffer the snapshot does not point at,   *)
(* flips, and publishes a raw pointer; the audio thread acquires that      *)
(* pointer once per block and reads through it until the block is done.    *)
(* The buffer it reads is rewritten by the second publish after its        *)
(* acquire, so the builder's contract is at most one publish per           *)
(* audio-block interval, and AudioEngine relies on its 150 ms debounce to  *)
(* honour it.  The debounce spaces REQUESTS; what has to be spaced are     *)
(* PUBLISHES, which come up to Latency after their request.                *)
(*                                                                         *)
(* Superseded requests never publish (DecoderRebuild), so only the newest  *)
(* request is kept, as its age.  Time is counted in ticks and every clock  *)
(* is bounded by a constant; nothing bounds the number of edits.           *)
(***************************************************************************)
EXTENDS Naturals

CONSTANTS
  Debounce,                \* kDecoderDebounceMs
  BlockTime,               \* the audio-block interval
  Latency,                 \* request to adoption, at most: the design itself,
                           \* the superseded design it may have to wait for,
                           \* and the message loop
  None                     \* clock not running, nothing held

ASSUME ClockAssumption ==
  /\ Debounce \in Nat \ {0}
  /\ BlockTime \in Nat \ {0}
  /\ Latency \in Nat
  /\ None \notin Nat

VARIABLES
  timer,                   \* ticks until the debounce elapses
  request,                 \* age of the newest request, not yet adopted
  sinceRequest,            \* ticks since the last request, capped at Debounce
  active,                  \* activeIndex: the buffer the snapshot points at
  held,                    \* the buffer the audio thread is reading
  blockAge,                \* ticks since the current block began
  publishes,               \* publishes since the current block began, capped
  flushed                  \* one of them was a synchronous flush

blockVars == <<held, blockAge, publishes, flushed>>
blocksVars == <<timer, request, sinceRequest, active, blockVars>>

BlocksTypeOK ==
  /\ timer \in 0..Debounce \cup {None}
  /\ request \in 0..Latency \cup {None}
  /\ sinceRequest \in 0..Debounce
  /\ active \in 0..1
  /\ held \in {active, 1 - active, None}
  /\ blockAge \in 0..(BlockTime - 1)
  /\ publishes \in 0..2
  /\ flushed \in BOOLEAN

BlocksInit ==
  /\ timer = None
  /\ request = None
  /\ sinceRequest = Debounce
  /\ active = 1
  /\ held = None
  /\ blockAge = 0
  /\ publishes = 0
  /\ flushed = FALSE

-----------------------------------------------------------------------------
(* Message thread. *)

\* No debounce: the timer is due at once.
StartTimerNow == timer' = 0

\* startTimer (kDecoderDebounceMs): (re)start the countdown.
StartTimer == timer' = Debounce

RestartDebounce ==
  /\ StartTimer
  /\ UNCHANGED <<request, sinceRequest, active, blockVars>>

\* A timer is never early; a busy message loop may run it late.
DebounceElapses ==
  /\ timer = 0
  /\ timer' = None
  /\ request' = 0
  /\ sinceRequest' = 0
  /\ UNCHANGED <<active, blockVars>>

\* Filling the buffer in use.
FilledBufferInUse == active

\* adoptResult writes rtBuffers[1 - activeIndex].
FilledBuffer == 1 - active

\* adoptResult + publish: fill, flip, publish the pointer.
AdoptAndPublish ==
  /\ active' = 1 - active
  /\ publishes' = IF publishes < 2 THEN publishes + 1 ELSE 2

\* handleAsyncUpdate with the result of the newest request.
AdoptAsync ==
  /\ request # None
  /\ request' = None
  /\ AdoptAndPublish
  /\ UNCHANGED <<timer, sinceRequest, held, blockAge, flushed>>

\* flushDecoderRebuild: designs and publishes on the spot, cancels the timer
\* and the request.
FlushAndPublish ==
  /\ timer' = None
  /\ request' = None
  /\ AdoptAndPublish
  /\ flushed' = TRUE
  /\ UNCHANGED <<sinceRequest, held, blockAge>>

-----------------------------------------------------------------------------
(* Time, and the audio thread: one block per interval. *)

\* One tick; a request is adopted within Latency.
AdvanceClocks ==
  /\ request # None => request < Latency
  /\ timer' = IF timer = None \/ timer = 0 THEN timer ELSE timer - 1
  /\ request' = IF request = None THEN None ELSE request + 1
  /\ sinceRequest' = IF sinceRequest < Debounce THEN sinceRequest + 1
                                                ELSE sinceRequest
  /\ UNCHANGED active

Tick ==
  /\ blockAge < BlockTime - 1
  /\ AdvanceClocks
  /\ blockAge' = blockAge + 1
  /\ UNCHANGED <<held, publishes, flushed>>

\* The device calls back for the next block: processBlock acquires the handle,
\* once.  The previous block was rendered in time.
NextBlock ==
  /\ blockAge = BlockTime - 1
  /\ held = None
  /\ AdvanceClocks
  /\ blockAge' = 0
  /\ held' = active
  /\ publishes' = 0
  /\ flushed' = FALSE

\* The block is rendered; the pointer is not used again.
EndBlock ==
  /\ held # None
  /\ held' = None
  /\ UNCHANGED <<timer, request, sinceRequest, active, blockAge, publishes,
                 flushed>>

-----------------------------------------------------------------------------
BlocksNext ==
  \/ RestartDebounce
  \/ DebounceElapses
  \/ AdoptAsync
  \/ FlushAndPublish
  \/ Tick
  \/ NextBlock
  \/ EndBlock

BlocksSpec == BlocksInit /\ [][BlocksNext]_blocksVars

-----------------------------------------------------------------------------
(* Properties. *)

\* DecoderMatrixBuilder's contract: at most one publish per audio-block
\* interval.  AudioEngine.cpp says the debounce makes it hold; a synchronous
\* flush does not go through the debounce, so blocks with one are exempt.
OnePublishPerBlock == ~flushed => publishes <= 1

\* What the contract is for: a debounced rebuild never rewrites (or
\* reallocates) a matrix the audio thread is reading.
NoWriteUnderReader ==
  [][AdoptAsync /\ ~flushed => held # FilledBuffer]_blocksVars

\* What the debounce does give: successive requests are at least Debounce
\* apart, however the edits fall.
RequestsSpaced == [][DebounceElapses => sinceRequest = Debounce]_blocksVars
=============================================================================
