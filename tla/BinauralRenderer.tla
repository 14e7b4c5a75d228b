-------------------------- MODULE BinauralRenderer -------------------------
(***************************************************************************)
(* The headphone monitor on the audio thread (AmbiBinauralRenderer.h) and  *)
(* the filter bank it reads (AmbiBinauralFilterBank.h).                    *)
(*                                                                         *)
(* A block of any length up to the prepared size is staged; each full      *)
(* stage is transformed, entered in the frequency-delay line and convolved *)
(* into a ring of two blocks, which the call drains.  Samples are numbered *)
(* by the device from 1 and transform steps by `steps`; 0 is silence in    *)
(* both.  A slot of the delay line is the pair of steps its transform      *)
(* covers, previous and current.  As every call is shorter than what is    *)
(* missing plus one block, its loop runs at most one step.                 *)
(*                                                                         *)
(* params and the bank are acquired whole at the start of a call, so a     *)
(* call is one action.  A bank is the stamp of its cook, its buffer and    *)
(* its geometry.  Epochs are left out: an epoch matters only in that the   *)
(* first bank of a run (activeParts = 0) clears nothing.  Left out too:    *)
(* the spectra themselves, gains and the fade-in.                          *)
(***************************************************************************)
EXTENDS Integers

CONSTANTS
  Sizes,                   \* block sizes the device may be prepared for
  FirLengths,              \* lengths of the filters a design may give
  MaxFir,                  \* kMaxBinauralFirLength
  Attitudes,               \* of a head; Level is the identity
  Level,
  NoPose,                  \* the active source has no valid, finite pose
  NoBank,                  \* the handle publishEmpty() publishes
  NoCook,                  \* nothing cooked that is not published
  BlockLengths,            \* bound: lengths of the blocks the device asks for
  MaxBlocks,               \* bound: blocks
  MaxChanges               \* bound: handlers on the message thread

CeilDiv(a, b) == (a + b - 1) \div b

\* maxPartitions.
MaxParts(p) == CeilDiv(MaxFir, p)

ASSUME RendererAssumption ==
  /\ Sizes \subseteq Nat \ {0}
  /\ MaxFir \in Nat \ {0}
  /\ FirLengths \subseteq Nat \ {0}
  /\ \A p \in Sizes :
       /\ MaxParts(p) \in Nat \ {0}
       /\ \A f \in FirLengths : CeilDiv(f, p) \in Nat
  /\ Level \in Attitudes
  /\ NoPose \notin Attitudes
  /\ BlockLengths \subseteq Nat \ {0}
  /\ MaxChanges \in Nat

VARIABLES
  params,                  \* the published [on, manual]
  buffers,                 \* of the bank: the stamp of what each holds
  activeIndex,
  cooked,                  \* pending
  bank,                    \* the published handle
  size,                    \* blockSize
  clock,                   \* samples passed to the device so far
  stage, inputFill,        \* inputStage
  steps,                   \* transform steps so far
  prevBlock,               \* prevBlocks: the step it was staged for
  fdl, fdlPos,
  activeParts,             \* activePartitions, 0 before the first bank
  ring, outRead, outWrite, outCount,
  wasEnabled,
  hasRotation, lastHead, currentRotation,
  field,                   \* attitude of the last block, and its rotations
  out,                     \* outBlock: what the last call wrote
  active,                  \* activeThisBlock
  runFrom, clearedAt,      \* steps at the last reset, at the last clear of fdl
  blocks, changes          \* bounds

bankVars == <<params, buffers, activeIndex, cooked, bank>>
streamVars == <<stage, inputFill, ring, outRead, outWrite, outCount>>
historyVars == <<steps, prevBlock, fdl, fdlPos, activeParts, runFrom,
                 clearedAt>>
headVars == <<hasRotation, lastHead, currentRotation, field>>
vars == <<bankVars, size, clock, streamVars, historyVars, wasEnabled,
          headVars, out, active, blocks, changes>>

Silence == 0
NoBlock == <<0, 0>>        \* a cleared slot
Idle == [i \in 1..0 |-> Silence]
Parts == MaxParts(size)
MinCookable == 4           \* cook() refuses shorter blocks

Cooks == [stamp : Nat, size : Sizes, parts : Nat]
Banks == [stamp : Nat, index : 0..1, size : Sizes, parts : Nat]

-----------------------------------------------------------------------------
(* The message thread. *)

CountChange ==
  /\ changes < MaxChanges
  /\ changes' = changes + 1

audioVars == <<size, clock, streamVars, historyVars, wasEnabled, headVars,
               out, active, blocks>>

PublishParams(on, manual) ==
  /\ CountChange
  /\ params' = [on |-> on, manual |-> manual]
  /\ UNCHANGED <<buffers, activeIndex, cooked, bank>>
  /\ UNCHANGED audioVars

\* Cooking into the buffer that is published.
CookActive(fir) ==
  /\ CountChange
  /\ cooked = NoCook
  /\ size >= MinCookable
  /\ buffers' = [buffers EXCEPT ![activeIndex] = changes']
  /\ cooked' = [stamp |-> changes', size |-> size, parts |-> CeilDiv(fir, size)]
  /\ UNCHANGED <<params, activeIndex, bank>>
  /\ UNCHANGED audioVars

\* cook(): into the inactive buffer, for the block size of now.
Cook(fir) ==
  /\ CountChange
  /\ cooked = NoCook
  /\ size >= MinCookable
  /\ buffers' = [buffers EXCEPT ![1 - activeIndex] = changes']
  /\ cooked' = [stamp |-> changes', size |-> size, parts |-> CeilDiv(fir, size)]
  /\ UNCHANGED <<params, activeIndex, bank>>
  /\ UNCHANGED audioVars

\* publish(): flip, and hand over the buffer that is now active.
Publish ==
  /\ cooked # NoCook
  /\ activeIndex' = 1 - activeIndex
  /\ bank' = [stamp |-> cooked.stamp, index |-> activeIndex',
              size |-> cooked.size, parts |-> cooked.parts]
  /\ cooked' = NoCook
  /\ UNCHANGED <<params, buffers, changes>>
  /\ UNCHANGED audioVars

PublishEmpty ==
  /\ CountChange
  /\ cooked = NoCook
  /\ bank' = NoBank
  /\ UNCHANGED <<params, buffers, activeIndex, cooked>>
  /\ UNCHANGED audioVars

-----------------------------------------------------------------------------
(* reset() and who calls it. *)

\* Forgetting the attitude but not that there was one.
ResetHeadKeepsRotation ==
  /\ lastHead' = Level
  /\ UNCHANGED hasRotation

ResetHead ==
  /\ lastHead' = Level
  /\ hasRotation' = FALSE

\* Emptying the stage and the ring and keeping the frequency history.
ResetKeepsHistory(p) ==
  /\ stage' = [i \in 0..(p - 1) |-> Silence]
  /\ inputFill' = 0
  /\ ring' = [i \in 0..(2 * p - 1) |-> Silence]
  /\ outRead' = 0
  /\ outWrite' = 0
  /\ outCount' = 0
  /\ activeParts' = 0
  /\ wasEnabled' = FALSE
  /\ ResetHead
  /\ runFrom' = steps
  /\ clearedAt' = steps
  /\ UNCHANGED <<steps, prevBlock, fdl, fdlPos, currentRotation, field>>

\* Drop all history of a renderer of size p.
Reset(p) ==
  /\ stage' = [i \in 0..(p - 1) |-> Silence]
  /\ inputFill' = 0
  /\ ring' = [i \in 0..(2 * p - 1) |-> Silence]
  /\ outRead' = 0
  /\ outWrite' = 0
  /\ outCount' = 0
  /\ prevBlock' = Silence
  /\ fdl' = [k \in 0..(MaxParts(p) - 1) |-> NoBlock]
  /\ fdlPos' = 0
  /\ activeParts' = 0
  /\ wasEnabled' = FALSE
  /\ ResetHead
  /\ runFrom' = steps
  /\ clearedAt' = steps
  /\ UNCHANGED <<steps, currentRotation, field>>

ResetIfEnabled ==
  IF wasEnabled THEN Reset(size)
  ELSE UNCHANGED <<streamVars, historyVars, wasEnabled, headVars>>

\* prepare(): the device restarts, no callback in flight.
Prepare(p) ==
  /\ CountChange
  /\ cooked = NoCook
  /\ size' = p
  /\ Reset(p)
  /\ out' = [i \in DOMAIN out |-> Silence]
  /\ UNCHANGED <<bankVars, clock, active, blocks>>

CountBlock(n) ==
  /\ blocks < MaxBlocks
  /\ blocks' = blocks + 1
  /\ clock' = clock + n
  /\ UNCHANGED <<bankVars, size, changes>>

\* Leaving without a word.
MarkIdleForgotten(n) ==
  /\ CountBlock(n)
  /\ UNCHANGED <<streamVars, historyVars, wasEnabled, headVars, out, active>>

\* markIdle(): the bus has nothing to decode by and returns early.
MarkIdle(n) ==
  /\ n \in 1..size
  /\ CountBlock(n)
  /\ active' = FALSE
  /\ ResetIfEnabled
  /\ out' = IF wasEnabled THEN [i \in DOMAIN out |-> Silence] ELSE out

\* A call for no samples returns at once.
RenderNothing ==
  /\ active' = FALSE
  /\ UNCHANGED <<bankVars, size, clock, streamVars, historyVars, wasEnabled,
                 headVars, out, blocks, changes>>

\* Only a bank cooked for this very renderer is convolved with.
BankUsable ==
  /\ bank # NoBank
  /\ bank.size = size
  /\ bank.parts \in 1..Parts

Running == params.on /\ BankUsable

\* Not running: drop the history so that enabling replays nothing.
RenderIdle(n) ==
  /\ ~Running
  /\ n \in 1..size
  /\ CountBlock(n)
  /\ active' = FALSE
  /\ ResetIfEnabled
  /\ out' = [i \in 1..n |-> Silence]

-----------------------------------------------------------------------------
(* Head compensation: applyHeadRotation. *)

\* The pose of the active source, else the manual attitude.
HeadAttitude(pose) == IF pose = NoPose THEN params.manual ELSE pose

\* A fade runs when there is a rotation to fade from.
Fades(moved) == moved /\ hasRotation

\* Level, and never yet turned: the bus itself.  Otherwise the rotation is
\* rebuilt when the attitude moved, and the block fades from the last one.
Turn(head) ==
  IF head = Level /\ ~hasRotation
  THEN /\ field' = [head |-> head, from |-> Level, to |-> Level]
       /\ UNCHANGED <<hasRotation, lastHead, currentRotation>>
  ELSE LET moved == head # lastHead
       IN  /\ lastHead' = head
           /\ currentRotation' = IF moved THEN head ELSE currentRotation
           /\ hasRotation' = (hasRotation \/ moved)
           /\ field' = [head |-> head,
                        from |-> IF Fades(moved) THEN currentRotation
                                 ELSE currentRotation',
                        to |-> currentRotation']

-----------------------------------------------------------------------------
(* The transform step. *)

\* The step that this call completes, if it does.
Completes(n) == inputFill + n >= size

\* The sample in place i of the stage when it fills.
StagedAt(i) == IF i < inputFill THEN stage[i] ELSE clock + 1 + (i - inputFill)

\* What does not complete the stage stays in it.
StageInput(n) ==
  IF Completes(n)
  THEN /\ inputFill' = inputFill + n - size
       /\ stage' = [i \in 0..(size - 1) |->
                      IF i < inputFill + n - size
                      THEN clock + 1 + (size - inputFill) + i
                      ELSE StagedAt(i)]
  ELSE /\ inputFill' = inputFill + n
       /\ stage' = [i \in 0..(size - 1) |->
                      IF i < inputFill + n THEN StagedAt(i) ELSE stage[i]]

\* A bank of another number of partitions invalidates the delay line.
KeepsHistory == activeParts \in {0, bank.parts}

KeptFdl == IF KeepsHistory THEN fdl ELSE [k \in 0..(Parts - 1) |-> NoBlock]
KeptPos == IF KeepsHistory THEN fdlPos ELSE 0

\* The line takes the transform of [previous | current] and moves on.
EnterHistory(n) ==
  /\ activeParts' = bank.parts
  /\ clearedAt' = IF KeepsHistory THEN clearedAt ELSE steps
  /\ IF Completes(n)
     THEN /\ steps' = steps + 1
          /\ prevBlock' = steps + 1
          /\ fdl' = [KeptFdl EXCEPT ![KeptPos] = <<prevBlock, steps + 1>>]
          /\ fdlPos' = IF KeptPos + 1 < Parts THEN KeptPos + 1 ELSE 0
     ELSE /\ UNCHANGED <<steps, prevBlock>>
          /\ fdl' = KeptFdl
          /\ fdlPos' = KeptPos
  /\ UNCHANGED runFrom

\* p + by in a ring of two blocks, for by <= 2 * size.
Around(p, by) == IF p + by >= 2 * size THEN p + by - 2 * size ELSE p + by

\* How far place p lies ahead of place q in the ring.
Ahead(p, q) == IF p >= q THEN p - q ELSE p - q + 2 * size

\* The valid half of the inverse transform, written behind the write cursor.
FilledRing(n) ==
  IF Completes(n)
  THEN [p \in 0..(2 * size - 1) |->
          IF Ahead(p, outWrite) < size THEN StagedAt(Ahead(p, outWrite))
          ELSE ring[p]]
  ELSE ring

\* Samples in the ring after the step; it has room for two blocks.
Filled(n) ==
  IF ~Completes(n) THEN outCount
  ELSE IF outCount + size <= 2 * size THEN outCount + size ELSE 2 * size

\* Samples the call finds in the ring.
Drains(n) == IF n <= Filled(n) THEN n ELSE Filled(n)

Output(n) ==
  /\ ring' = FilledRing(n)
  /\ outWrite' = IF Completes(n) THEN Around(outWrite, size) ELSE outWrite
  /\ outRead' = Around(outRead, Drains(n))
  /\ outCount' = Filled(n) - Drains(n)
  /\ out' = [i \in 1..n |-> IF i <= Drains(n) THEN ring'[Around(outRead, i - 1)]
                            ELSE Silence]

RenderRunning(n, pose) ==
  /\ Running
  /\ n \in 1..size
  /\ CountBlock(n)
  /\ wasEnabled' = TRUE
  /\ Turn(HeadAttitude(pose))
  /\ StageInput(n)
  /\ EnterHistory(n)
  /\ Output(n)
  /\ active' = TRUE

-----------------------------------------------------------------------------
\* Constructed, prepared for the first time; monitoring is off by default.
Init ==
  /\ params = [on |-> FALSE, manual |-> Level]
  /\ buffers = [i \in 0..1 |-> 0]
  /\ activeIndex = 0
  /\ cooked = NoCook
  /\ bank = NoBank
  /\ size \in Sizes
  /\ clock = 0
  /\ stage = [i \in 0..(size - 1) |-> Silence]
  /\ inputFill = 0
  /\ steps = 0
  /\ prevBlock = Silence
  /\ fdl = [k \in 0..(Parts - 1) |-> NoBlock]
  /\ fdlPos = 0
  /\ activeParts = 0
  /\ ring = [i \in 0..(2 * size - 1) |-> Silence]
  /\ outRead = 0
  /\ outWrite = 0
  /\ outCount = 0
  /\ wasEnabled = FALSE
  /\ hasRotation = FALSE
  /\ lastHead = Level
  /\ currentRotation = Level
  /\ field = [head |-> Level, from |-> Level, to |-> Level]
  /\ out = Idle
  /\ active = FALSE
  /\ runFrom = 0
  /\ clearedAt = 0
  /\ blocks = 0
  /\ changes = 0

MessageThread ==
  \/ \E on \in BOOLEAN, manual \in Attitudes : PublishParams(on, manual)
  \/ \E fir \in FirLengths : Cook(fir)
  \/ Publish
  \/ PublishEmpty
  \/ \E p \in Sizes : Prepare(p)

Block ==
  \/ RenderNothing
  \/ \E n \in BlockLengths :
       \/ MarkIdle(n)
       \/ RenderIdle(n)
       \/ \E pose \in Attitudes \cup {NoPose} : RenderRunning(n, pose)

Next == MessageThread \/ Block

Spec == Init /\ [][Next]_vars

-----------------------------------------------------------------------------
(* Properties. *)

TypeOK ==
  /\ params \in [on : BOOLEAN, manual : Attitudes]
  /\ buffers \in [0..1 -> Nat]
  /\ activeIndex \in 0..1
  /\ cooked \in Cooks \cup {NoCook}
  /\ bank \in Banks \cup {NoBank}
  /\ size \in Sizes
  /\ clock \in Nat
  /\ stage \in [0..(size - 1) -> Nat]
  /\ inputFill \in 0..(size - 1)
  /\ steps \in Nat
  /\ fdl \in [0..(Parts - 1) -> Nat \X Nat]
  /\ fdlPos \in 0..(Parts - 1)
  /\ ring \in [0..(2 * size - 1) -> Nat]
  /\ outRead \in 0..(2 * size - 1) /\ outWrite \in 0..(2 * size - 1)
  /\ outCount \in 0..(2 * size)
  /\ wasEnabled \in BOOLEAN /\ hasRotation \in BOOLEAN /\ active \in BOOLEAN
  /\ lastHead \in Attitudes /\ currentRotation \in Attitudes
  /\ runFrom \in 0..steps /\ clearedAt \in 0..steps
  /\ changes \in 0..MaxChanges

\* The slot written k steps before the last one.
SlotBack(k) == IF fdlPos > k THEN fdlPos - 1 - k ELSE fdlPos - 1 - k + Parts

\* What belongs there: step s after the one before it, unless the line was
\* cleared since, or the run began with s.
BlockOfStep(s) ==
  IF s <= clearedAt THEN NoBlock
  ELSE <<IF s - 1 > runFrom THEN s - 1 ELSE Silence, s>>

\* Partition k of a filter meets the block k steps back, through wraps of the
\* line, re-cooks and stops; what lies before the start of the run, or before
\* a change of geometry, is silence ("re-enabling never replays a stale
\* tail").
HistoryLinesUp ==
  /\ prevBlock = IF steps > runFrom THEN steps ELSE Silence
  /\ \A k \in 0..(Parts - 1) : fdl[SlotBack(k)] = BlockOfStep(steps - k)

\* The field a block leaves in is turned by the attitude read for that block,
\* and the next block of the run takes it up from there: "a head-tracker step
\* between blocks would otherwise click".  ("No fade into the very first
\* one": the first turn of a run is the exception.)
FieldFollowsHead ==
  [][active' /\ blocks' # blocks =>
       /\ field'.to = field'.head
       /\ wasEnabled /\ hasRotation => field'.from = field.to]_vars

\* "The pointer the RT side last acquired stays valid until the next
\* publish": no cook touches the bank that is published.
PublishedBankIntact == bank # NoBank => buffers[bank.index] = bank.stamp

\* The monitor as a delay line; what is not active is not heard.
Monitor ==
  INSTANCE DelayLine WITH delay <- inputFill + outCount,
                          heard <- IF active THEN out ELSE Idle

\* The stream the engine scatters is the field, whole and in order, late by
\* less than a block.
StreamsField == Monitor!Spec
=============================================================================
