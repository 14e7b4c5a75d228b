----------------------------- MODULE AudioBlock ----------------------------
(***************************************************************************)
(* One audio block against the edits of the store it renders               *)
(* (AudioEngine.cpp getNextAudioBlock, AmbiBusAlgorithm.h,                 *)
(* AmbiCalculationEngine.cpp).                                             *)
(*                                                                         *)
(* The message thread runs a handler at a time; between two of its writes  *)
(* the audio thread may run.  A block takes what it renders by from four   *)
(* publishers that follow the store each in its own time: the patch        *)
(* routing (a listener, at once, once per property written), the encoder   *)
(* snapshot and the live rows of the encode matrix (a 50 Hz tick), the bus *)
(* parameters, and the decoder (DecoderRebuild).  The number of speakers   *)
(* it scatters is fixed when the device is prepared.                       *)
(*                                                                         *)
(* A block gathers (patch routing, input source) and then encodes, decodes *)
(* and scatters; the snapshots are acquired whole (RtSnapshot).  What an   *)
(* input adds to the bus is abstracted to the hardware columns it is read  *)
(* from, the order it is read as, and the order its matrix row was         *)
(* composed for; an output to the speaker it carries.  Left out: gains,    *)
(* positions, NFC and rotation, and rows torn while they are rewritten.    *)
(***************************************************************************)
EXTENDS PatchStore

CONSTANTS
  EditColumns,             \* bound: hardware columns patched by hand
  PairChoices,             \* bound: headphone pairs chosen
  MaxEdits                 \* bound: handlers that change something

ASSUME BlockAssumption ==
  /\ EditColumns \subseteq 1..MaxHardware
  /\ PairChoices \subseteq 0..(MaxHardware - 1)
  /\ MaxEdits \in Nat

VARIABLES
  store,
  pending,                 \* routings the running handler has yet to publish
  patch,                   \* patchSnapshot
  gate,                    \* monoInputsEnabled
  dirty,                   \* rowDirty
  live,                    \* liveMatrix: the format each row is composed for
  ticking,                 \* between compose and publish of a tick
  enc,                     \* the encoder snapshot
  source,                  \* inputSource is the test scene
  busScene,                \* ... and the bus parameters say so
  prepared,                \* numSpeakersPrepared
  decoded,                 \* speakers of the published decoder
  gathered,                \* what the running block took, <<>> between blocks
  applied,                 \* appliedCoeff, per input
  lastActive,              \* lastActiveSources, as a set
  sceneHeard,              \* the last block gathered the scene into the bus
  outputs,                 \* what the last block left on the hardware outputs
  edits                    \* bound

storeVars == <<store, pending, patch>>
encoderVars == <<gate, dirty, live, ticking, enc>>
sourceVars == <<source, busScene>>
deviceVars == <<prepared, decoded>>
blockVars == <<gathered, applied, lastActive, sceneHeard, outputs>>
vars == <<storeVars, encoderVars, sourceVars, deviceVars, blockVars, edits>>

Uncomposed == -1
Silent == [columns |-> <<>>, order |-> 0, row |-> Uncomposed]
NoSpeaker == 0             \* silence
Headphones == MaxSpeakers + 1

-----------------------------------------------------------------------------
(* The encoder engine: AmbiCalculationEngine. *)

\* What publishParams composes: the sources (the first numSources inputs, as
\* a set) mind the gate, orders and offsets do not.
EncoderParams(s, enabled) ==
  [sources |-> IF enabled THEN DOMAIN s.formats ELSE {},
   orders  |-> [i \in 1..MaxInputs |->
                  IF i \in DOMAIN s.formats THEN s.formats[i] ELSE 0],
   offsets |-> [i \in 1..MaxInputs |->
                  IF i \in DOMAIN s.formats THEN Rows(Spans(s.formats), i - 1)
                  ELSE 0]]

\* A listener on the structure of the section only.
DirtiedByCountOnly(s, t) ==
  IF DOMAIN s.formats # DOMAIN t.formats THEN 1..MaxInputs ELSE {}

\* valueTreePropertyChanged and structureChanged.
DirtiedBy(s, t) ==
  IF DOMAIN s.formats # DOMAIN t.formats THEN 1..MaxInputs
  ELSE {i \in DOMAIN t.formats : s.formats[i] # t.formats[i]}

-----------------------------------------------------------------------------
(* The message thread. *)

\* A listener on the row count only.
RoutingsOnRowCount(s, t) ==
  LET during(inRows, outRows) ==
        ComposePatchRouting([t EXCEPT !.inRows = inRows, !.outRows = outRows])
  IN  (IF Len(t.inRows) # Len(s.inRows) THEN <<during(s.inRows, s.outRows)>>
       ELSE <<>>)
      \o (IF Len(t.outRows) # Len(s.outRows)
          THEN <<during(t.inRows, s.outRows)>> ELSE <<>>)

\* The routings published while a handler turns store s into t: `rows` and
\* then `patchData` of the input patch, then of the output patch, each if it
\* changes.  Formats and counts are in the store by then.
RoutingsOnTheWay(s, t) ==
  LET during(inRows, outRows) ==
        ComposePatchRouting([t EXCEPT !.inRows = inRows, !.outRows = outRows])
  IN  (IF Len(t.inRows) # Len(s.inRows) THEN <<during(s.inRows, s.outRows)>>
       ELSE <<>>)
      \o (IF t.inRows # s.inRows THEN <<during(t.inRows, s.outRows)>>
          ELSE <<>>)
      \o (IF Len(t.outRows) # Len(s.outRows)
          THEN <<during(t.inRows, s.outRows)>> ELSE <<>>)
      \o (IF t.outRows # s.outRows THEN <<during(t.inRows, t.outRows)>>
          ELSE <<>>)

MessageIdle == pending = <<>> /\ ~ticking /\ busScene = source

CountEdit ==
  /\ MessageIdle
  /\ edits < MaxEdits
  /\ edits' = edits + 1

Edit(t) ==
  /\ CountEdit
  /\ t # store
  /\ store' = t
  /\ pending' = RoutingsOnTheWay(store, t)
  /\ dirty' = dirty \cup DirtiedBy(store, t)
  /\ UNCHANGED <<patch, gate, live, ticking, enc>>
  /\ UNCHANGED <<sourceVars, deviceVars, blockVars>>

PublishPatchRouting ==
  /\ pending # <<>>
  /\ patch' = Head(pending)
  /\ pending' = Tail(pending)
  /\ UNCHANGED <<store, encoderVars, sourceVars, deviceVars, blockVars, edits>>

\* The listener on monoInputsEnabled publishes at once.
SetGate ==
  /\ CountEdit
  /\ gate' = ~gate
  /\ enc' = EncoderParams(store, gate')
  /\ UNCHANGED <<dirty, live, ticking>>
  /\ UNCHANGED <<storeVars, sourceVars, deviceVars, blockVars>>

\* tick(), first half: compose the dirty rows of the inputs there are.  A tick
\* that finds nothing to do is a stutter.
TickCompose ==
  /\ MessageIdle
  /\ \/ dirty \cap DOMAIN store.formats # {}
     \/ enc # EncoderParams(store, gate)
  /\ ticking' = TRUE
  /\ live' = [i \in 1..MaxInputs |->
                IF i \in dirty \cap DOMAIN store.formats THEN store.formats[i]
                ELSE live[i]]
  /\ dirty' = dirty \ DOMAIN store.formats
  /\ UNCHANGED <<gate, enc>>
  /\ UNCHANGED <<storeVars, sourceVars, deviceVars, blockVars, edits>>

\* tick(), second half.
TickPublish ==
  /\ ticking
  /\ ticking' = FALSE
  /\ enc' = EncoderParams(store, gate)
  /\ UNCHANGED <<gate, dirty, live>>
  /\ UNCHANGED <<storeVars, sourceVars, deviceVars, blockVars, edits>>

SetInputSource ==
  /\ CountEdit
  /\ source' = ~source
  /\ UNCHANGED busScene
  /\ UNCHANGED <<storeVars, encoderVars, deviceVars, blockVars>>

PublishBusParams ==
  /\ busScene # source
  /\ busScene' = source
  /\ UNCHANGED source
  /\ UNCHANGED <<storeVars, encoderVars, deviceVars, blockVars, edits>>

\* A rebuild requested by a change of the layout is published.
AdoptDecoder ==
  /\ MessageIdle
  /\ decoded # store.speakers
  /\ decoded' = store.speakers
  /\ UNCHANGED prepared
  /\ UNCHANGED <<storeVars, encoderVars, sourceVars, blockVars, edits>>

\* The device restarts: prepareToPlay, no callback in flight.
PrepareToPlay ==
  /\ CountEdit
  /\ gathered = <<>>
  /\ prepared' = store.speakers
  /\ applied' = [i \in 1..MaxInputs |-> Silent]
  /\ lastActive' = {}
  /\ UNCHANGED <<decoded, gathered, sceneHeard, outputs>>
  /\ UNCHANGED <<storeVars, encoderVars, sourceVars>>

-----------------------------------------------------------------------------
(* The audio thread. *)

BlockGather ==
  /\ gathered = <<>>
  /\ gathered' = <<[routing |-> patch, scene |-> source]>>
  /\ UNCHANGED <<applied, lastActive, sceneHeard, outputs>>
  /\ UNCHANGED <<storeVars, encoderVars, sourceVars, deviceVars, edits>>

\* Believing the bus parameters alone.
GathersAnnounced(rendered) == busScene

\* The gather stage of processBlock: input channels offered by the caller and
\* announced by the bus parameters.
GathersScene(rendered) == rendered /\ busScene

\* An input read from its stem rows; without all of them it is dropped.
EncodedFrom(stem, i) ==
  LET last == enc.offsets[i] + Span(enc.orders[i])
  IN  IF last > Len(stem) THEN Silent
      ELSE [columns |-> SubSeq(stem, enc.offsets[i] + 1, last),
            order |-> enc.orders[i], row |-> live[i]]

\* Going through the sources of this block only.
EncodedActive(stem) ==
  [i \in 1..MaxInputs |->
     IF i \in enc.sources THEN EncodedFrom(stem, i) ELSE applied[i]]

\* applyEncoder: the coefficients left after this block, for its sources and
\* for those of the last one, which ramp to zero.
Encoded(stem) ==
  [i \in 1..MaxInputs |->
     IF i \in enc.sources THEN EncodedFrom(stem, i)
     ELSE IF i \in lastActive THEN Silent ELSE applied[i]]

\* hwForSpeaker: rows the composer has no speaker for stay identity.
HwForSpeaker(routing, s) ==
  IF s \in DOMAIN routing.output THEN routing.output[s] ELSE s

\* Speakers in order, the monitor pair over them, the rest cleared.
Scattered(routing, monitor) ==
  [h \in 1..MaxHardware |->
     LET writers == {s \in 1..prepared : HwForSpeaker(routing, s) = h}
     IN  IF monitor /\ h \in Reserved(routing.pair) THEN Headphones
         ELSE IF writers # {} /\ Max(writers) <= decoded THEN Max(writers)
         ELSE NoSpeaker]

\* processBlock and the scatter; `monitor` is whether the binaural renderer
\* is active.
BlockRender(monitor) ==
  /\ gathered # <<>>
  /\ LET block == gathered[1]
     IN  /\ sceneHeard' = GathersScene(block.scene)
         /\ applied' = Encoded(block.routing.stem)
         /\ outputs' = Scattered(block.routing, monitor)
  /\ lastActive' = enc.sources
  /\ gathered' = <<>>
  /\ UNCHANGED <<storeVars, encoderVars, sourceVars, deviceVars, edits>>

-----------------------------------------------------------------------------
\* The constructors, and a device open on the default layout: the engine's
\* first tick has composed and published.
Init ==
  /\ store = DefaultStore
  /\ pending = <<>>
  /\ patch = DefaultStore.routing
  /\ gate = FALSE
  /\ dirty = 1..MaxInputs \ 1..DefaultInputs
  /\ live = [i \in 1..MaxInputs |-> IF i <= DefaultInputs THEN 0
                                    ELSE Uncomposed]
  /\ ticking = FALSE
  /\ enc = EncoderParams(DefaultStore, FALSE)
  /\ source = FALSE
  /\ busScene = FALSE
  /\ prepared = DefaultSpeakers
  /\ decoded = DefaultSpeakers
  /\ gathered = <<>>
  /\ applied = [i \in 1..MaxInputs |-> Silent]
  /\ lastActive = {}
  /\ sceneHeard = FALSE
  /\ outputs = [h \in 1..MaxHardware |-> NoSpeaker]
  /\ edits = 0

EditStore ==
  \/ \E i \in DOMAIN store.formats, f \in 0..MaxOrder :
       Edit(WithFormat(store, i, f))
  \/ \E n \in 1..MaxInputs : Edit(ApplyInputCount(store, n))
  \/ \E n \in 1..MaxSpeakers : Edit(ApplySpeakerCount(store, n))
  \/ \E r \in DOMAIN store.inRows, c \in EditColumns \cup {Unpatched} :
       MayPatchInput(store, r, c) /\ Edit(WithInputPatch(store, r, c))
  \/ \E r \in DOMAIN store.outRows, c \in EditColumns \cup {Unpatched} :
       MayPatchOutput(store, r, c) /\ Edit(WithOutputPatch(store, r, c))
  \/ \E p \in PairChoices : Edit(WithPair(store, p))

Block == BlockGather \/ \E monitor \in BOOLEAN : BlockRender(monitor)

Tick == TickCompose \/ TickPublish

Next ==
  \/ EditStore
  \/ PublishPatchRouting
  \/ SetGate
  \/ Tick
  \/ SetInputSource
  \/ PublishBusParams
  \/ AdoptDecoder
  \/ PrepareToPlay
  \/ Block

\* A handler that has begun ends, the timers fire, the device keeps calling.
Fairness ==
  /\ WF_vars(PublishPatchRouting)
  /\ WF_vars(PublishBusParams)
  /\ WF_vars(Tick)
  /\ WF_vars(AdoptDecoder)
  /\ WF_vars(Block)

Spec == Init /\ [][Next]_vars /\ Fairness

-----------------------------------------------------------------------------
(* Properties. *)

TypeOK ==
  /\ Len(store.formats) \in 1..MaxInputs
  /\ Len(pending) <= 4
  /\ \A k \in DOMAIN patch.stem : patch.stem[k] \in Columns
  /\ dirty \subseteq 1..MaxInputs
  /\ live \in [1..MaxInputs -> Uncomposed..MaxOrder]
  /\ enc.sources \subseteq 1..MaxInputs
  /\ prepared \in 1..MaxSpeakers
  /\ decoded \in 1..MaxSpeakers
  /\ Len(gathered) <= 1
  /\ lastActive \subseteq 1..MaxInputs
  /\ outputs \in [1..MaxHardware -> NoSpeaker..Headphones]
  /\ edits \in 0..MaxEdits

\* The stem rows of input i as the patch window shows them.
StoredRows(i) ==
  LET spans == Spans(store.formats)
  IN  SubSeq(store.inRows, Rows(spans, i - 1) + 1, Rows(spans, i))

\* Two publishers count the stem rows, each by itself: the encoder engine as
\* offsets into a scratch buffer that the patch routing fills.  Once both
\* have caught up with the store they mean the same rows: each source is read
\* from the channels it is patched to, and all of them exist.
OffsetsMeetRouting ==
  pending = <<>> /\ enc = EncoderParams(store, gate) =>
    \A i \in enc.sources :
      LET last == enc.offsets[i] + Span(enc.orders[i])
      IN  /\ last <= Len(patch.stem)
          /\ SubSeq(patch.stem, enc.offsets[i] + 1, last) = StoredRows(i)

\* "compose BEFORE publish so a count grow never exposes an uncomposed row
\* through numSources": a tick publishes no source, and no order, whose row
\* it has not composed for that order.
TickExposesComposed ==
  [][TickPublish =>
       \A i \in enc'.sources : live'[i] = enc'.orders[i]]_vars

\* Ramp history is left only where the next block will look for it: an input
\* beyond the last block's sources holds no coefficient that would sound, or
\* jump, when an input comes back in its place.
NothingLingers == \A i \in 1..MaxInputs \ lastActive : applied[i] = Silent

\* A block hears the scene only if it rendered it: between the store of the
\* input source and the publication of the bus parameters nothing is read
\* from the scratch of an earlier block.
SceneIsThisBlocks ==
  [][\A m \in BOOLEAN : BlockRender(m) /\ sceneHeard' => gathered[1].scene]_vars

\* Speaker s sounds on the output it is patched to, unless the headphones do.
CarriesPatch(s) ==
  LET h == store.outRows[s]
  IN  h # Unpatched => outputs'[h] \in {s, Headphones}

\* The rendered block was gathered by the store's own output routing.
RenderOfStore ==
  /\ gathered # <<>> /\ gathered' = <<>>
  /\ gathered[1].routing.output = ComposePatchRouting(store).output

\* Every prepared speaker is heard on its patched output: rows are one to one
\* and the scatter lets no other row, of an earlier layout or of the
\* continuation of a grown one, take an output away.
PreparedSpeakersSound ==
  [][RenderOfStore /\ prepared <= store.speakers =>
       \A s \in 1..prepared : s <= decoded => CarriesPatch(s)]_vars

\* "speaker s -> hardware row hwForSpeaker[s]; active hardware outputs no
\* speaker feeds are cleared": also when fewer speakers are left than the
\* device was prepared for, and decoder and routing have followed.
RemainingSpeakersSound ==
  [][RenderOfStore /\ decoded = store.speakers =>
       \A s \in 1..store.speakers : s <= prepared => CarriesPatch(s)]_vars

\* Every edit is heard in the end: each input by its own channels, as its
\* format, through a row composed for it; a removed one, or all of them
\* behind the gate, no longer.
EditsAreHeard ==
  <>[](/\ \A i \in 1..MaxInputs :
            applied[i] = IF gate /\ i \in DOMAIN store.formats
                         THEN [columns |-> StoredRows(i),
                               order |-> store.formats[i],
                               row |-> store.formats[i]]
                         ELSE Silent
       /\ sceneHeard = source)
=============================================================================
