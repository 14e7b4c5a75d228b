# XOA in TLA+

XOA is an ambisonic renderer: it takes audio inputs (mono or higher-order groups), encodes and rotates them on a
121-channel bus, decodes the bus to loudspeakers, and convolves it for headphones. What makes it hard to get right
is not the signal processing but what surrounds it: a message thread that owns all state, background threads that
design matrices and filters, network and camera threads that feed it, and an audio thread that may never wait and
sees everything through published snapshots. These modules model that part.

## The system

| Component | State it keeps | Operations | Talks to |
|---|---|---|---|
| Parameter store (`XoaValueTreeState`) | value tree, four undo domains, span cache | set, count changes, undo, reconcile | listeners, by synchronous callbacks |
| Project files (`XoaFileManager`) | project folder | save, load, load one section or a backup | the store |
| Audio patch (`reconcileAudioPatch`, `PatchRouting.h`, patch window) | input and output rows | reconcile, patch by hand | store, audio thread (snapshot) |
| Decoder rebuild (`AudioEngine`, `DecoderMatrixBuilder`) | debounce timer, generation, in-flight flag, two matrices | edit, timer, adopt, flush, teardown | worker (jobs, async updates), audio thread (snapshot of a pointer) |
| Design workers (`DecoderRebuildWorker`, `BinauralDesignWorker`) | inbox, outbox, busy flag, thread | submit, take, stop, run | their owners |
| Binaural monitoring (`XoaMonitoringEngine`, `AmbiBinauralFilterBank`) | requested key, generation, design, bank, status | select, device change, adopt | worker, audio thread |
| Audio callback and bus (`AudioEngine`, `AmbiBusAlgorithm`, `SpeakerCompProcessor`) | ramps, last epochs, the handles held for one block | one block | reads every snapshot |
| Encoder engine (`AmbiCalculationEngine`) | dirty flags, epoch | 50 Hz tick | store, audio thread |
| Binaural renderer (`AmbiBinauralRenderer`) | delay lines, adopted bank, fades | one block | bank, head tracker |
| Head trackers (`HeadTrackerManager`, `XoaCameraHeadTrackerSource`) | active source, last pose | select, start, stop, pose | camera thread, audio thread |
| OSC (`OSCManager`, `OSCMessageRouter`) | sockets, sender of the current write | datagram, feedback, reconnect | receive thread, store |
| Analysis service and shell (`RvReAnalysisService`, `AppShell`) | inbox, published result; order of members | submit, latest, close | engine (callback), decoder tab |
| GUI (bindings, announcements, tabs) | listeners, rate limiter | | store |
| Design mathematics, conventions | none | pure functions | |

The hard behaviour, by kind; `PROJECT.json` lists each at its line, under `hazards`:

- *newest wins*: requests supersede each other, results arrive late, a synchronous path overtakes an asynchronous one;
- *hand-off*: a lost wake-up between unlock and notify, a busy flag read without the lock;
- *published pointers*: a double buffer is safe only while publishes are spaced wider than blocks;
- *teardown*: a worker that outlives its owner;
- *stale derived data*: a routing composed from several trees and refreshed by a listener on one of them, a span cache
  that an undo or a load leaves behind, a request that is not invalidated;
- *several snapshots, one block*: a block gathers by one published state and encodes by another, each following the
  store in its own time, and scatters as many speakers as the device was prepared for;
- *framing*: host blocks of any length in front of a convolution of fixed length, a history that must line up across
  stops, other filters and other block sizes;
- *handlers of several writes*: a quaternion is three writes, a reconnect four calls, a reconcile up to four
  publications, and other threads run in between;
- *long legal sequences*: format and count changes under a ceiling, undo, saves and loads that fail half-way, through
  which every input should keep its patches.

What each modelled component has to get right:

- *worker*: never sleep on a job, never claim to be idle with work queued, end when told to;
- *decoder rebuild*: never go back to an older layout, reach the newest one, keep the in-flight indicator exact, never
  write a matrix being read;
- *analysis*: the map follows the decoder as the decoder follows the layout, and at rest belongs to both; the application
  always closes;
- *binaural design*: status line, bank and selection agree; every selection is answered;
- *head tracking*: the camera that runs is the stored one, nothing of a stopped camera is heard, a dead one gives way to
  the manual attitude, a zero is not lost, no thread is left in a source that is destroyed;
- *patch*: one row per stem channel and per speaker, a hardware channel used once, inputs keep their channels when rows
  move, projects come back as saved, what is routed is what is shown;
- *audio block*: once the publishers have caught up every input is read from its own rows and every speaker sounds on its
  own output; no ramp, scene or uncomposed row of another time is heard;
- *binaural renderer*: the field comes out whole, in order and less than a block late; no stale tail, no bank rewritten,
  every block ends in the attitude read for it;
- *OSC*: no receiver thread in a queue that is gone, no receiver open that is switched off, the target knows the last
  write reported to it, a pose does not stay half written.

## The modules

| Module | Models | Notes |
|---|---|---|
| `DesignWorker` | the background thread shared by both workers | extended by the two owners' modules |
| `LatestWins` | abstract: a shown version that follows a source version | what a rebuild pipeline promises |
| `DecoderRebuild` | `AudioEngine`'s rebuild path | implements `LatestWins` |
| `RvReAnalysis` | the application shell around `DecoderRebuild`, and the analysis service it feeds | implements `LatestWins` again |
| `DecoderBlocks` | the double buffer, the debounce and audio blocks, with a clock | |
| `BinauralDesign` | `XoaMonitoringEngine`'s design path and the filter bank | |
| `HeadTracker` | the camera tracker's three threads: selection, poses, one read per block | |
| `PatchStore` | formats, spans, patch rows, routing, as functions from store to store | extended by the next two |
| `StemPatch` | sessions: edits, undo, saves and loads | |
| `AudioBlock` | edits, encoder tick, publications and device restarts against the blocks that render | |
| `DelayLine` | abstract: a stream that is delayed, never lost or reordered | what the monitor promises |
| `BinauralRenderer` | the headphone monitor on the audio thread, and its bank | implements `DelayLine` |
| `OscControl` | receivers, ingest queue, message thread, feedback | |
| `..._proofs` | theorems about the module of that name | `Decoder_proofs` is about `DecoderRebuild`, `RvReAnalysis` and `DecoderBlocks` |
| `MC...` | finite instances for TLC | constants in the `.cfg` files |

Definitions whose name begins like that of an operation and ends in a twist (`WorkerFinishForgetsPending`,
`EndTeardownCancelsFirst`, ...) are not used by any specification. They are plausible bugs, kept beside the operation
they would replace: each property fails when the one listed for it under `mutants` is put in.

### DesignWorker, DecoderRebuild, BinauralDesign

The message thread runs one handler at a time, so a handler is one step, with three exceptions where another thread can
see its middle. `submit()` releases its lock before it calls `notify()`, so a request ends at the lock (`mpc =
"submitted"`) and `NotifyWorker` is a step of its own. `adoptCompletedDesign` loops over an outbox that the worker may
refill between two turns, so each turn is a step. And the destructor blocks in the join (`mpc = "joining"`). The
worker's steps are its critical sections and what lies between them: the loop test, the take, parking (finding nothing,
then waiting), the wake-up, the end of the design, the call of `notifyReady`. `juce::Thread`'s event is auto-reset and
keeps a signal that comes before the wait, `wakeEvent` is that event. An `AsyncUpdater` is the flag `updatePending`: it
is raised by the worker, cleared before the handler runs, and raising it twice posts one message.

`DecoderRebuild` reduces the store to a version number, a design to the version it was computed from, and what the audio
thread acquires to the version last published. `BinauralDesign` keeps the selected set, the sample rate and the block
size apart, because the code treats them differently: a key is a set at a rate, a bank is a key cooked for a block size.
Whether a set loads is drawn when its job is submitted. `cook()` also refuses blocks of fewer than 4 samples
(AmbiBinauralFilterBank.h:50-51); its callers would then publish an empty bank and leave the status at "loaded". No device
opens with so few, so `BlockSizes` is assumed `Cookable` and the refusal is not a branch of the model: `StatusMatchesBank`
and `SettledPlaysSelection` hold of devices with blocks of at least 4.

### RvReAnalysis

The composition: its steps are `DecoderRebuild`'s, joined with what the shell does about them, and those of a second
thread. The engine calls back wherever it publishes (`Deliver`, `DrainByHand`, `Flush`); the shell submits the adopted
matrix and the store's layout (`OnDecoderRebuilt`), and `SignalAnalysis` is the signal after the lock. The service has
no outbox to take from: its thread publishes (`AnalysisPublish`) and the decoder tab polls. Before the constructor's own
flush there is no map (`StartShell`; a project on the command line is loaded just before, like an edit and a flush of
the running shell). The destructor drops the callback and runs no more handlers; its members go one after the other, so
the service is joined (`ServiceJoined`) before the engine's teardown begins (`CloseEngine`).

### DecoderBlocks

The same pipeline reduced to time: `RestartDebounce` is an edit, `DebounceElapses` the timer's callback,
`FlushAndPublish` the synchronous flush. `timer`, `request`, `sinceRequest` and `blockAge` are clocks that tick
together. The audio thread acquires the pointer at `NextBlock` and lets go of it at `EndBlock`, at the latest before the
next block. `Latency` bounds the time from a request to its publish. The module answers under which relation of the
three times the builder's contract holds: `Latency + BlockTime <= Debounce`.

### HeadTracker

The message thread follows two stored values, the tracker and the camera index. A change of the index is two calls of
`setActiveSource`, `"manual"` and the tracker again; they wait in `calls`. A call starts or stops the camera, then
stores the active source, and blocks can come between the two. The camera thread handles one pose at a time: it stamps
the time, finds the pose usable or not, takes a pending zero request, publishes. The audio thread loads the source,
copies the orientation, reads the clock and loads the stamp, in this order, as the operands of the subtraction at
XoaCameraHeadTrackerSource.h:89 are written and compilers take them; the language leaves the order open, and in the
other one the difference could not wrap and a block would only find a pose older than it does here. `stop()` waits for a
callback that has begun, so it is enabled only between callbacks, and is one step: its two writes are an invalid
orientation and no stamp, and a reader that copies before it checks finds the same from either. Time is kept as ages
that stop counting when they can only be too old.

### PatchStore, StemPatch

Everything runs on the message thread and is synchronous, so each handler is a function from store to store and handlers
compose as the code calls them. `PatchStore` has the functions: `ReconcileAudioPatch` clamps the formats to the ceiling,
moves the rows by the cached spans, continues new ones by identity, and writes rows and routing; counts, formats, hand
edits and the headphone pair call it or not as the code does. A patch row is the column of its one `1`. The matrix
editor is a component of the shared library; it is modelled by the rules this code configures it with (one column per
row, one row per column, no speaker on the reserved pair). The pair is a parameter like others, whose range ends
at `kMaxHardwareChannels - 2` (XoaParameterDefaults.h:80, 0-based): `PairChoices` and the projects stay within it, and
what the composer does with half a pair (`UsablePair`) never happens.

`StemPatch` is a session on that store. A project is a file per section: `SaveProject` moves each old file to the
backups and writes the sections it can, `LoadProject` loads, in the code's order and each with its reconcile, those it
can read, `LoadSection` one of them, from the project or from its newest backup. Not modelled: the columns displayed and
the hardware counts, which only the editor reads, older backups, and the undo of a speaker count, of a load and of
patches.

### AudioBlock

Where `StemPatch` asks what a handler leaves, `AudioBlock` asks what a block hears meanwhile. An edit changes the store
at once and leaves in `pending` the routings its listeners publish, one per property written (`rows` and `patchData` of
either patch); `PublishPatchRouting` publishes them one by one and blocks run in between. The encoder engine's tick
composes the dirty rows of the live matrix (`TickCompose`) and then publishes sources, orders and offsets
(`TickPublish`). `SetInputSource` stores the source and publishes the bus parameters in a second step. `AdoptDecoder` is
the end of a rebuild (`DecoderRebuild` models how it comes about), `PrepareToPlay` a restart of the device, which alone
sets the number of speakers prepared. The audio thread gathers by the routing it acquired (`BlockGather`), then encodes,
decodes and scatters (`BlockRender`). What an input adds to the bus is the hardware columns it is read from, the order
it is read as, and the order its matrix row was composed for; an output is the speaker it carries.

### BinauralRenderer, DelayLine

A sample of the field is its number, a transform step its number, a slot of the frequency-delay line the two steps its
transform covers. `RenderRunning` is one call of `render`: re-adoption of the bank (`KeepsHistory`), head rotation
(`Turn`), staging (`StageInput`), at most one transform step (`EnterHistory`, `FilledRing`), draining (`Output`). A call
that finds the monitor off, without bank, or with a bank of another block size is `RenderIdle`; early returns of the
caller are `MarkIdle`. The message thread publishes parameters, cooks into the buffer that is not published, publishes
it or publishes the empty bank, and prepares the device, between blocks. `DelayLine` is the promise: while it runs,
every sample comes out once and in order, late by less than a block, and silence is inserted only while a block fills;
after a stop nothing from before is heard. `StreamsField` says that the renderer implements it, with the delay being
what waits in stage and ring.

### OscControl

A handler on the message thread is the list of what it has still to do (`todo`): the writes of a datagram, the four
calls of a reconnect, the three of `stop()`. Between two of them receiver threads and blocks run. A receiver's callback
tests the queue's pointer (`CheckQueue`) and then pushes (`Push`); `disconnect()` waits for it. The queue is the
library's: by the classifier this code gives it, addresses with a channel argument keep the newest datagram, others are
kept in order. Each write sets the parameter, calls the observer (`OnStoreWrite`) and, for an axis of the rotation,
publishes the rotation. `intended` and `owed` are history: what the handler was asked to make the parameters, and which
parameters' last write was reported and not dropped. A datagram is the writes it asks for; get, ping, meters and
malformed messages change no state. The observer and the limiter live as long as the manager: the user may write, and the
limiter flush, before `start()` and after `stop()` too. Then nothing sends (`sendFn` is not yet set, the socket is
closed), and without a send address (`hasTarget`) nothing is sent either: the flushed message is gone (`SendToTarget`).

## What the runs check

| Run | Instance | Result |
|---|---|---|
| `decoder_rebuild` | `DecoderRebuild` inside `RvReAnalysis`; 3 edits, flushes up to generation 3 | `BusyCoversWork`, `InFlightIsExact`, `NoLostWakeup`, `NoCallbackAfterTeardown`; `SettledMapFits`; `ImplementsLatestWins` (decoder) and `MapFollowsLayout` (map), both with liveness; `TeardownEnds` |
| `decoder_blocks_fast` | debounce 6, block 2, latency 4 | `OnePublishPerBlock`, `NoWriteUnderReader` hold |
| `decoder_blocks_slow` | latency 5 | `OnePublishPerBlock` fails |
| `binaural_design` | 3 sets, one missing; 2 rates, 2 block sizes; 3 changes | `StatusMatchesBank`, `SettledPlaysSelection`, `AdoptsOnlyRequested`, `SelectionAnswered` |
| `binaural_missing` | one set, one missing | `SettledReportsMissing` fails |
| `head_tracker` | 2 cameras, poses stale after 2 ticks, 1 tick at most from clock to stamp, 2 zeros | `RunsWhatIsStored`, `NoPoseOutlivesCamera`, `ZeroIsNotLost`, `NobodyInDeadSource`, `OldPoseNeedsRace`, `FallsBackOnlyInRace`, `DeadPluginFallsBack` |
| `stem_patch` | 3 inputs, 2 speakers, orders 0 to 2, ceiling 10 rows, sessions of 4 steps, 1 failing section | `RowsFollowSpans`, `OneToOne`, `RoutingMatchesPatch`, `InputsKeepPatches`, `ProjectRoundTrips` |
| `stem_patch_routing` | same, without headphone pairs | `RoutingIsPublished` fails |
| `audio_block` | 2 inputs of order 0 or 1, ceiling 7 rows, 2 speakers, 4 edits | `OffsetsMeetRouting`, `NothingLingers`, `TickExposesComposed`, `SceneIsThisBlocks`, `PreparedSpeakersSound`, `EditsAreHeard` |
| `audio_block_outputs` | same, 3 edits | `RemainingSpeakersSound` fails |
| `binaural_renderer` | block sizes 4 and 5, filters of 4 and 8, 2 attitudes, calls of 3 and 4 samples, 6 blocks, 3 changes | `HistoryLinesUp`, `PublishedBankIntact`, `FieldFollowsHead`, `StreamsField` (implements `DelayLine`) |
| `osc_control` | 2 angles, 1 coordinate, values 0 and 1 and one out of range, 2 hosts, 3 operations | `NoPushIntoDeadQueue`, `NoSocketWhileOff`, `FeedbackCoversWrites`, `PoseArrivesWhole` |

Type invariants are proved, for every value of the constants; they are not part of the runs.

**Why the bounds are enough.** Three edits let one design be superseded while another runs and a third is edited on top;
generations grow only with timer callbacks and flushes, both bounded. Three changes of selection or device let a set be
selected, left and selected again, and let a device change fall on either side of an adoption. The clocks of
`DecoderBlocks` matter only by their order; 6, 2 and 4 put the sum exactly on the boundary and 5 one past it. In
`HeadTracker` a pose must be able to be fresh, to sit on the limit and to be past it, which two ticks do; one tick
between clock and stamp is enough for a stamp newer than the clock; the second zero is the one that comes while the
first is being answered; cameras, poses and blocks are not bounded. In `StemPatch` the spans are 1, 4 and 9 under a
ceiling of 10, so two group inputs compete for it and a mono input can be squeezed by either; one more hardware column
than rows lets a patch move off the diagonal; four steps are enough for count change, undo, edit and the reconcile that
follows, and for edit, save, edit, load. The initial projects on disk are two that earlier sessions could have saved; a
save or a load with one failing section and a second whole one make every mixture of two sessions. In `AudioBlock` spans
1 and 4 under a ceiling of 7 let two HOA inputs compete, and four edits with any number of ticks, publications and
blocks between them let a count shrink and grow again, with the pair or a row patched before. In `BinauralRenderer`
calls of 3 in blocks of 4 and of 4 in blocks of 5 put the end of a block at every place of a call, and make a call equal
to the block, one short of it and two short; filters of 4 and 8 give one partition and two; six calls wrap the delay
line and the ring, three changes are off, on and another bank, or a re-cook around a device change. `OscControl` needs
an edit or a datagram of two writes, a second one to the same parameter, and a change of settings or a receive between:
three operations; flushes, drains and disconnects are not counted.

**Deadlock** is checked in `DecoderBlocks`, `AudioBlock` and `BinauralRenderer`, where time or edits always pass, and
in `OscControl`, where it says that a handler which has begun, `stop()` included, can go on to its end: only a stopped
manager rests. The other systems may stop: the engine is destroyed, or the session ends at its bound. In `HeadTracker`
time would hide a deadlock, so the check is left out there too; that started calls, callbacks and blocks end is part of
`DeadPluginFallsBack`.

**Fairness.** The worker threads are scheduled; the message loop delivers timer callbacks and posted updates and
finishes what it started. These are weak fairness on those actions. Nothing obliges a user to edit, select, flush or
quit, and nothing obliges `stopThread` to time out. In `HeadTracker` calls, callbacks and blocks that have begun go on,
blocks keep coming and time passes; no pose is obliged to come. In `AudioBlock` the listeners of an edit that was made
run, the 50 Hz timer ticks, a requested decoder arrives (`ImplementsLatestWins`) and the device keeps calling;
`EditsAreHeard` needs no more, since edits are bounded. `LatestWins` needs no more: requests stop being superseded when
edits stop. `StemPatch`, `DecoderBlocks`, `BinauralRenderer` and `OscControl` have safety properties only and assume no
fairness.

**What the failing runs show.** Each checks what a comment says of the program.

- `decoder_blocks_slow`: the comment on `kDecoderDebounceMs` (AudioEngine.cpp:12-13) says that 150 ms is "far longer than
  any audio block so the <=1-publish-per-block contract holds". The debounce spaces requests; publishes come a design
  time later. A slow design followed by a quick one publishes twice in a block.
- `binaural_missing`: `requestDesign` returns from its missing-file path without a new generation, so a design still
  running is adopted afterwards, although "stale generations are discarded" (XoaMonitoringEngine.h:302-303). The other
  half of the behaviour, for sets that exist, is right (`SettledPlaysSelection`).
- `stem_patch_routing`: "the store's reconcile rewrites patchData whenever the spans move, so one listener covers every
  route" (AudioEngine.cpp:99-101). Spans can move without a change of the patch text: in the trace an inputs section is
  loaded, its count pre-pass writes and publishes the rows, and its merge moves the spans under the same text. The routing
  then waits for the next patch write. What it routes is right all the same for every row (`RoutingMatchesPatch`). The
  instance has no headphone pairs, so that this is what TLC finds; with them a shorter trace is one new pair, see below.
- `audio_block_outputs`: "speaker s -> hardware row hwForSpeaker[s]; active hardware outputs no speaker feeds are cleared"
  (AudioEngine.cpp:623). The scatter runs to the number of speakers the device was prepared for, and the routing keeps the
  identity in rows past the count. With two speakers, the first patched by hand to output 2, removing the second leaves
  its silent row written over the first, until the device is prepared again. As long as all prepared speakers exist the
  scatter is right (`PreparedSpeakersSound`).

**Disagreements met on the way, without a run of their own.**

- "one listener covers every route" (AudioEngine.cpp:99-101) once more: the headphone pair is in the Monitoring section, not
  in the patch trees, and a new pair (`WithPair` publishes nothing) waits for the next write of a patch row.
- "excluded from the matrix so nothing else can claim those two outputs" (PatchRouting.h:36-38): the identity continuation
  patches a speaker just added onto the reserved pair when its ordinal output lies there (`FillNewRows`).
- A tracker is to be invalid "when no pose arrived for 300 ms" (XoaCameraHeadTrackerSource.h:29-30). The age is an unsigned
  difference of a clock read first and a stamp loaded second (:89); a pose arriving between makes it wrap, and one block
  takes a live tracker for a dead one. `FallsBackOnlyInRace` and its theorem say that there is no other way.
- A source that is removed is to ramp out (AmbiBusAlgorithm.h:396-397), but by then the gather may have re-spanned: it
  ramps out over what now occupies its rows, or is dropped at once when they no longer exist.
- The gate publishes sources from the store at once (AmbiCalculationEngine.cpp:66-67), so toggled between a count change
  and the next tick it announces an input whose row that tick has yet to compose, against :181-182. `TickExposesComposed`
  therefore speaks of ticks only.
- "a grown speaker keeps sounding on its ordinal output" (XoaValueTreeState.cpp:710-712): it is silent until the device
  is prepared for it.
- "enabling must never pop into headphones" (AmbiBinauralRenderer.h:196): with short host blocks the fade-in ramp runs
  while the stage still fills and puts out silence. The rotation of a run's first block is not faded either (:313, as its
  comment says).
- `getLatencySamples` is documented to include the wait for a full stage and returns the kernel's lead only
  (AmbiBinauralRenderer.h:144-148).
- "When off, no socket is bound and no feedback is sent" (Documentation/XOA-OSC-MAP.md:39-40): `onStoreWrite` and
  `sendToTarget` ask for the feedback setting, never for `oscEnabled`. `NoSocketWhileOff` covers the first half.
- A value waiting in the limiter is sent after a peer's newer write of the same parameter, whose own feedback is
  suppressed; and a peer whose value was clamped is not told. A report flushed while no send address is set is dropped and
  not repeated when one is set. `FeedbackCoversWrites` is about writes that were reported and not dropped.

## What is proved

All theorems hold for every value of the constants and are checked by TLAPS without assumptions beyond the named ones.

`Decoder_proofs`, first part, about `DecoderRebuild`, from `BoundsAssumption` and `NoJobAssumption`. The safety
properties are not inductive: that a result with the current generation is the newest design needs to know that the
generations of the inbox, the job being designed and the outbox are ordered, that versions grow with them, and that no
wanted design is older than what is published. `IInv` is the conjunction of these with the properties themselves;
`Invariant` proves `Safety => []IInv`, one step per action. From it follow `TypeCorrectness`, `InFlightExact`,
`BusyCovers`, `NoWakeupLost`, `TeardownSafe`, `NeverRegresses` and, step by step, `RefinesLatestWins` (`Safety =>
LW!LWSafe`).

Second part, about `RvReAnalysis`, from the same and `NoAnalysisAssumption`. `ShellKeepsEngine` (`ShellSafety => Safety`) carries
all of that into the composition. What is added is one chain: when no edit waits and no design is wanted, what is
published is of the store's version (`EngineSettled`); the pair submitted last is of the published matrix, and of its
layout if that is still the store's (`SubmittedLast`); from the map to the inbox pairs grow (`AnalysesOrdered`). From
`AnalysisInvariant` follow `SettledMap` and `MapNeverGoesBack` (`ShellSafety => LWMap!LWSafe`): two newest-wins stages
in a row are one.

Third part, about `DecoderBlocks`, from `ClockAssumption`. `BlocksTypeCorrectness` and `RequestsAreSpaced` hold for all clocks. Under
`Latency + BlockTime <= Debounce`, `ContractHolds` and `ReaderIsSafe`: the strengthening says that a block which has
seen a debounced publish has no request outstanding and that its last request is at most `Latency` older than the block,
and that a running timer was started after the last request; so the next request comes too late for this block.

`BinauralDesign_proofs`, from `SelectionAssumption` and `NothingAssumption`. What is heard once everything is at rest is
an invariant only together with what is still under way. `BInv` says of a request for a set that exists that it is
answered or that its job is in one of three places, the inbox, the worker's hands or the outbox, which the generations
keep apart; that a job still wanted carries the key requested last, unless a missing set was selected since; and that
this key follows the store and the device. `Invariant` proves `Safety => []BInv`, one step per action. From it follow
`TypeCorrectness`, `StatusAgrees`, `SettledPlays`, `TeardownSafe` and `AdoptsRequested`. The exception for missing sets
is the gap that `binaural_missing` shows; without it the proof does not go through.

`HeadTracker_proofs`, from `TrackerAssumption`. That an old pose needs a race is a matter of two orders at once: what is
published is no older than the stamp unless a pose is being handled (`StampMatchesPose`), and what the block holds is no
older than the stamp it is about to load unless it raced (`CopyIsAsFreshAsStamp`). That the stored camera runs needs to
know which calls are still to be made and that only the last one may start it (`CallsFollowStore`); that nobody is in a
destroyed source, the order of the teardown (`TeardownOrder`). `HInv` is their conjunction with the properties; from it
follow `TypeCorrectness`, `RunsStored`, `NoPoseOutlives`, `ZeroKept`, `TeardownSafe`, `OldNeedsRace` and, for the block
that takes a live tracker for a dead one, `FallsBackInRace`.

`PatchStore_proofs`, from `SizesAssumption`: what the functions of the store compute, for every input. Spans are summed
and row blocks concatenated by recursive functions, so this starts with an induction over the naturals stated for a set
of numbers instead of a predicate (`SetInduction`), from the well-foundedness of the strict subset ordering in
the library. With it, the sum of spans is monotone and `Rows` tells the blocks of the inputs apart; `ClampFits` says
what the step-down leaves (the ceiling, no format raised, the last input first and none lower than needed),
`RemapBlocks` which row a remapped row is, `FillRows` that identity continuation touches new rows only and never takes a
channel in use. `Sound` says of a store that its parts are in range and its rows one to one, `Settled` that rows, span
cache and routing agree with each other, `Reconciled` (of `PatchStore`) that they agree with the formats too.
`ReconcileSound` takes any sound store, whatever its span cache, to all three, and `ReconcileTwice` says that the second
time nothing moves and nothing is published. One lemma per handler follows.

`StemPatch_proofs`, from these, `SessionAssumption` and `ProjectsAssumption`: the files on disk at the start were written
by `saveProject`, so each section fits the limits and its patch is one to one; that sections of different sessions fit
each other is not assumed. What the runs check of reconciled stores is not inductive: after an undone count change the
store is settled but not reconciled, and what a load finds is what a save, possibly half of one, has left. `IInv` has
the store sound and settled, both generations of files as a save leaves them, and the undo step within the limits.
From it follow `StemPatchTypes`, `RowsAlwaysFollowSpans`, `PatchesStayOneToOne`, `RoutingAlwaysMatchesPatch`, and for
steps `InputsAlwaysKeepPatches` and `ProjectsAlwaysRoundTrip`, for sessions of any length.

`AudioBlock_proofs`, from `BlockAssumption` and the same of `PatchStore`. Each follower of the store has its own part of
`IInv`. The routing that is published last, pending or not, is of the rows stored (`RoutingInv`); a ramp or a matrix row
of another time is harmless only while somebody is about to replace it, so `RowsInv` says which rows may be out of date:
a row that is not dirty was composed for the input's present format, and none is dirty between `TickCompose` and
`TickPublish`; and the store is sound, settled and reconciled after every edit. `OffsetsAlwaysMeetRouting` then is a
fact about sums: the offsets of one publisher and the row blocks of the other are cut at the same places.
`PreparedSpeakersAlwaysSound` needs the rows one to one: the only speaker that scatters to a channel is the one patched
to it. `AudioBlockTypes`, `NoLingering`, `TicksExposeComposed` and `ScenesAreFresh` follow too.

`BinauralRenderer_proofs`, from `RendererAssumption`. One bound carries the argument: what waits in stage and ring
together is less than a block (`StreamInv`). So a full block always fits behind the read cursor, nothing unheard is
overwritten, and what leaves is what entered that many samples ago. `HeadInv` relates the attitude held to the one
published, `BankInv` the buffer being read to the one being cooked. From `IInv` follow `HistoryAlwaysLinesUp`,
`BankStaysIntact`, `HeadIsFollowed` and, step by step, `MonitorStreamsField`: the renderer implements `DelayLine`.

`OscControl_proofs`, from `OscAssumption`. The properties speak of handlers at rest or of one moment of them; the
invariant speaks of what a handler has still to do. A receiver open without being allowed has its disconnect ahead
(`ReceiverInv`), the queue is reset only as the last call of `stop()`, after both disconnects (`ListInv`), and a
parameter that is not yet what was asked for has its write ahead (`StoreInv`). From `IInv` follow `QueueOutlivesPushes`,
`SocketsFollowSettings`, `FeedbackCovers` and `PosesArriveWhole`.

**The constants' assumptions** are what the code's limits satisfy: at least one input and one speaker, no more inputs than
stem channels (every input can be mono), no more stem channels or speakers than hardware columns (`kMaxHardwareChannels`
is the largest of them), a debounce and a block that last, device blocks that `cook()` takes, model values that are no data. The one hypothesis beyond them
is `Latency + BlockTime <= Debounce` of `ContractHolds` and `ReaderIsSafe`; the code does not guarantee it, and
`decoder_blocks_slow` shows what happens without.

**Only model-checked:** the liveness properties (`TeardownEnds`, `SelectionAnswered`, `DeadPluginFallsBack`,
`EditsAreHeard`, the liveness half of `ImplementsLatestWins` and `MapFollowsLayout`), because fairness and ENABLED are
out of the prover's reach. Every safety property of a passing run is the statement of a theorem.

## What is not modelled, and the plan

The signal processing itself (decoder design, spherical harmonics, rotation matrices, filters, ramps' arithmetic) is
real arithmetic without state, and so is the compensation and EQ of the speakers, which reads one snapshot per block.
The GUI's drawing, localisation and test signals carry no behaviour of the kind these modules are about. The vendored
libraries, by far most of the lines under `src/`, are modelled only where XOA calls them: threads, timers, asynchronous
updates, sockets, the OSC queue, the matrix editor. What is left of XOA's own behaviour, in the order in which it should
come:

1. `ProjectFiles` beyond the sections of `StemPatch`: foreign ids, schema migration, older backups, undo domains around a
   load.
2. `Announcements`: a help text counts as announced before the limiter has accepted it (TTSManager.h:354-365).
3. `Bindings` of the GUI: a tab that switches channel removes listeners by parameter and channel, which others may share
   (ParamBindings.h:100).
4. Two adoptions of a bank inside one audio block: `BinauralRenderer` takes a block as one step, so it shows that the
   published buffer is intact between blocks and not that a second cook waits for the first one's reader; no code makes
   it wait.

Of theorems, what is left is about invariants that would carry the liveness arguments, such as a bound on the turns of
the workers' loops after the last edit, and about the components above once they are modelled.
