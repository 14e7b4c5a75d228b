----------------------------- MODULE HeadTracker -----------------------------
(***************************************************************************)
(* The head attitude that steers binaural monitoring, across three         *)
(* threads.                                                                *)
(*                                                                         *)
(*   message thread  follows the stored tracker id and camera index,       *)
(*                   starts and stops the camera, sets the active source   *)
(*   camera thread   the plugin's callback: stamps the time, takes a       *)
(*                   pending zero request, publishes an orientation        *)
(*   audio thread    once per block: loads the active source, copies the   *)
(*                   published orientation, checks the time stamp, and     *)
(*                   falls back to the manual attitude                     *)
(*                                                                         *)
(* The stamp and the orientation are two atomics.  The writer stamps       *)
(* first; the reader copies the orientation, reads the clock, and loads    *)
(* the stamp last, in the order in which the difference of the two is      *)
(* written.  The difference is unsigned: a stamp newer than the clock it   *)
(* is taken from gives a huge age.                                         *)
(*                                                                         *)
(* Time is kept as ages that stop counting once they can only be too old,  *)
(* so it is unbounded; that the millisecond counter wraps after 49 days is *)
(* left out.  What an orientation says is left out too: a pose is usable   *)
(* or not, and the camera it came from is remembered.                      *)
(***************************************************************************)
EXTENDS Naturals, Sequences

CONSTANTS
  Cameras,                 \* values of binauralCameraIndex
  Stale,                   \* kStaleMs, in ticks
  MaxLag,                  \* bound: ticks from a block's clock to its stamp
  MaxZeros,                \* bound: setZero requests while one camera runs
  None                     \* no camera, no source, no pose

ASSUME TrackerAssumption ==
  /\ Stale \in Nat
  /\ MaxLag \in Nat
  /\ MaxZeros \in Nat
  /\ Cameras # {}
  /\ None \notin Cameras \cup {"camera"}

VARIABLES
  \* message thread
  applied,                 \* appliedTrackerId, what the store asks for
  camera,                  \* binauralCameraIndex
  calls,                   \* setActiveSource calls still to be made
  mpc,                     \* where the message thread is
  activeSource,            \* the slot the audio thread loads from
  running,                 \* the camera the plugin handle was created for
  \* camera thread
  cpc,                     \* where handlePose is
  dead,                    \* the plugin delivers no more poses
  stampAge,                \* time since lastPoseMs
  published,               \* camera of the published orientation, if valid
  poseAge,                 \* time since the pose it was computed from came
  zeroRequested,
  zerosAsked,              \* setZero calls while this camera runs
  zerosTaken,              \* those that some pose has answered
  \* audio thread
  apc,                     \* where the block is
  heard,                   \* the block's copy of published
  heardAge,                \* time since the pose of the copy came
  clockAge,                \* time since the block read the clock
  raced,                   \* a pose was being handled during the block's read
  attitude                 \* what the last block was rotated by

messageVars == <<applied, camera, calls, mpc, activeSource, running>>
cameraVars == <<cpc, dead, stampAge, published, poseAge, zeroRequested,
                zerosAsked, zerosTaken>>
audioVars == <<apc, heard, heardAge, clockAge, raced, attitude>>
vars == <<messageVars, cameraVars, audioVars>>

\* Manual, the webcam, and a stored id no source has.
Trackers == {"manual", "camera", "unknown"}

\* Too old by any clock still in use, or never.
Never == Stale + MaxLag + 1

TypeOK ==
  /\ applied \in Trackers
  /\ camera \in Cameras
  /\ calls \in {<<>>} \cup {<<t>> : t \in Trackers}
                \cup {<<"manual", t>> : t \in Trackers \ {"manual"}}
  /\ mpc \in {"ready", "storing", "closing", "stopping", "gone"}
  /\ activeSource \in {"camera", None}
  /\ running \in Cameras \cup {None}
  /\ cpc \in {"idle", "unusable", "stamped", "zeroed"}
  /\ cpc # "idle" => running # None
  /\ dead \in BOOLEAN
  /\ stampAge \in 0..Never
  /\ published \in Cameras \cup {None}
  /\ poseAge \in 0..Never
  /\ zeroRequested \in BOOLEAN
  /\ zerosAsked \in 0..MaxZeros
  /\ zerosTaken \in 0..MaxZeros
  /\ apc \in {"idle", "copying", "clocking", "checking"}
  /\ heard \in Cameras \cup {None}
  /\ heardAge \in 0..Never
  /\ clockAge \in 0..MaxLag
  /\ raced \in BOOLEAN
  /\ attitude \in {"manual", "tracked"}

Init ==
  /\ applied = "manual"
  /\ camera \in Cameras
  /\ calls = <<>>
  /\ mpc = "ready"
  /\ activeSource = None
  /\ running = None
  /\ cpc = "idle"
  /\ dead = FALSE
  /\ stampAge = Never
  /\ published = None
  /\ poseAge = Never
  /\ zeroRequested = FALSE
  /\ zerosAsked = 0
  /\ zerosTaken = 0
  /\ apc = "idle"
  /\ heard = None
  /\ heardAge = Never
  /\ clockAge = 0
  /\ raced = FALSE
  /\ attitude = "manual"

-----------------------------------------------------------------------------
(* Message thread: one handler at a time. *)

Idle == mpc = "ready" /\ calls = <<>>

\* applyTrackerSelection, on a change of binauralHeadTracker.
SelectTracker(tracker) ==
  /\ Idle
  /\ tracker # applied
  /\ applied' = tracker
  /\ calls' = <<tracker>>
  /\ UNCHANGED <<camera, mpc, activeSource, running, cameraVars, audioVars>>

\* Restarting without stopping first.
SetCameraIndexRestarts(index) ==
  /\ Idle
  /\ index # camera
  /\ camera' = index
  /\ calls' = IF applied = "manual" THEN <<>> ELSE <<applied>>
  /\ UNCHANGED <<applied, mpc, activeSource, running, cameraVars, audioVars>>

\* reapplyCameraIndex, on a change of binauralCameraIndex.
SetCameraIndex(index) ==
  /\ Idle
  /\ index # camera
  /\ camera' = index
  /\ calls' = IF applied = "manual" THEN <<>> ELSE <<"manual", applied>>
  /\ UNCHANGED <<applied, mpc, activeSource, running, cameraVars, audioVars>>

\* start(): a running camera is left alone.  Otherwise the publish state is
\* reset and the plugin started, which may fail.
StartCamera ==
  /\ mpc = "ready"
  /\ calls # <<>>
  /\ Head(calls) = "camera"
  /\ mpc' = "storing"
  /\ IF running # None
     THEN UNCHANGED <<running, cameraVars>>
     ELSE /\ running' \in {camera, None}
          /\ dead' = FALSE
          /\ stampAge' = Never
          /\ published' = None
          /\ poseAge' = Never
          /\ zeroRequested' = FALSE
          /\ zerosAsked' = 0
          /\ zerosTaken' = 0
          /\ UNCHANGED cpc
  /\ UNCHANGED <<applied, camera, calls, activeSource, audioVars>>

\* The last pose stays published after the camera is gone.
StopKeepsPose ==
  /\ running # None => cpc = "idle"
  /\ running' = None
  /\ UNCHANGED cameraVars

\* stop(): nothing to do unless the camera runs; the plugin joins its worker,
\* so no callback is in flight; then one last invalid orientation and no
\* stamp.  The reader copies before it checks, so it cannot tell these two
\* apart from one.
Stop ==
  /\ running # None => cpc = "idle"
  /\ running' = None
  /\ published' = IF running = None THEN published ELSE None
  /\ poseAge' = IF running = None THEN poseAge ELSE Never
  /\ stampAge' = IF running = None THEN stampAge ELSE Never
  /\ UNCHANGED <<cpc, dead, zeroRequested, zerosAsked, zerosTaken>>

\* setActiveSource of anything but the camera.
StopCamera ==
  /\ mpc = "ready"
  /\ calls # <<>>
  /\ Head(calls) # "camera"
  /\ mpc' = "storing"
  /\ Stop
  /\ UNCHANGED <<applied, camera, calls, activeSource, audioVars>>

\* The store at the end of setActiveSource: a failed start leaves the manual
\* attitude in charge.
StoreActiveSource ==
  /\ mpc = "storing"
  /\ activeSource' = IF Head(calls) = "camera" /\ running # None
                     THEN "camera" ELSE None
  /\ calls' = Tail(calls)
  /\ mpc' = "ready"
  /\ UNCHANGED <<applied, camera, running, cameraVars, audioVars>>

\* setZeroOnActiveSource: the Set Zero button.
SetZero ==
  /\ Idle
  /\ activeSource # None
  /\ zerosAsked < MaxZeros
  /\ zeroRequested' = TRUE
  /\ zerosAsked' = zerosAsked + 1
  /\ UNCHANGED <<messageVars, cpc, dead, stampAge, published, poseAge,
                 zerosTaken, audioVars>>

\* Stopping the trackers before the audio callback.
BeginTeardownWithoutClose ==
  /\ Idle
  /\ mpc' = "stopping"
  /\ UNCHANGED <<applied, camera, calls, activeSource, running, cameraVars,
                 audioVars>>

\* The engine's destructor begins with closeAudioDevice.
BeginTeardown ==
  /\ Idle
  /\ mpc' = "closing"
  /\ UNCHANGED <<applied, camera, calls, activeSource, running, cameraVars,
                 audioVars>>

\* removeAudioCallback blocks until the audio thread has left the callback.
CloseAudioDevice ==
  /\ mpc = "closing"
  /\ apc = "idle"
  /\ mpc' = "stopping"
  /\ UNCHANGED <<applied, camera, calls, activeSource, running, cameraVars,
                 audioVars>>

\* stopMonitoring, after which the sources are destroyed.
StopMonitoring ==
  /\ mpc = "stopping"
  /\ activeSource' = None
  /\ Stop
  /\ mpc' = "gone"
  /\ UNCHANGED <<applied, camera, calls, audioVars>>

-----------------------------------------------------------------------------
(* Camera thread: the plugin delivers one pose at a time, from the time it is *)
(* started to the time it has joined.                                         *)

\* handlePose stamps the time, then looks at what it got.
PoseArrives ==
  /\ running # None
  /\ ~dead
  /\ cpc = "idle"
  /\ stampAge' = 0
  /\ cpc' \in {"stamped", "unusable"}
  /\ raced' = (raced \/ apc \in {"clocking", "checking"})
  /\ UNCHANGED <<messageVars, dead, published, poseAge, zeroRequested,
                 zerosAsked, zerosTaken, apc, heard, heardAge, clockAge,
                 attitude>>

\* No face, not a number, or an older packet: published as nothing tracked.
PublishNothing ==
  /\ cpc = "unusable"
  /\ published' = None
  /\ poseAge' = Never
  /\ cpc' = "idle"
  /\ UNCHANGED <<messageVars, dead, stampAge, zeroRequested, zerosAsked,
                 zerosTaken, audioVars>>

\* Exchange the request for FALSE; this pose becomes the zero.
TakeZero ==
  /\ cpc = "stamped"
  /\ zeroRequested' = FALSE
  /\ zerosTaken' = IF zeroRequested THEN zerosAsked ELSE zerosTaken
  /\ cpc' = "zeroed"
  /\ UNCHANGED <<messageVars, dead, stampAge, published, poseAge, zerosAsked,
                 audioVars>>

\* Clearing the request once the pose is out.
PublishPoseClearsRequest ==
  /\ cpc = "zeroed"
  /\ published' = running
  /\ poseAge' = stampAge
  /\ zeroRequested' = FALSE
  /\ cpc' = "idle"
  /\ UNCHANGED <<messageVars, dead, stampAge, zerosAsked, zerosTaken,
                 audioVars>>

\* Correct, smooth and publish; the stamp is this pose's own.
PublishPose ==
  /\ cpc = "zeroed"
  /\ published' = running
  /\ poseAge' = stampAge
  /\ cpc' = "idle"
  /\ UNCHANGED <<messageVars, dead, stampAge, zeroRequested, zerosAsked,
                 zerosTaken, audioVars>>

\* The camera is unplugged or the plugin fails: no more poses, and nothing
\* that says so.
PluginDies ==
  /\ running # None
  /\ ~dead
  /\ cpc = "idle"
  /\ dead' = TRUE
  /\ UNCHANGED <<messageVars, cpc, stampAge, published, poseAge,
                 zeroRequested, zerosAsked, zerosTaken, audioVars>>

-----------------------------------------------------------------------------
(* Audio thread: applyHeadRotation and the getOrientation it calls. *)

BlockLoadsSource ==
  /\ apc = "idle"
  /\ mpc \notin {"stopping", "gone"}
  /\ IF activeSource = None
     THEN attitude' = "manual" /\ UNCHANGED apc
     ELSE apc' = "copying" /\ UNCHANGED attitude
  /\ UNCHANGED <<messageVars, cameraVars, heard, heardAge, clockAge, raced>>

BlockCopiesPose ==
  /\ apc = "copying"
  /\ heard' = published
  /\ heardAge' = poseAge
  /\ raced' = (cpc # "idle")
  /\ apc' = "clocking"
  /\ UNCHANGED <<messageVars, cameraVars, clockAge, attitude>>

\* getMillisecondCounter().
BlockReadsClock ==
  /\ apc = "clocking"
  /\ clockAge' = 0
  /\ apc' = "checking"
  /\ UNCHANGED <<messageVars, cameraVars, heard, heardAge, raced, attitude>>

\* Expired, too, if the pose came in this very millisecond.
ExpiredAtOnce == stampAge <= clockAge \/ stampAge - clockAge > Stale

\* The clock less the stamp, unsigned, is more than kStaleMs.
Expired == stampAge < clockAge \/ stampAge - clockAge > Stale

\* What the block has read is gone with it.
ReadIsOver ==
  /\ apc' = "idle"
  /\ heard' = None
  /\ heardAge' = Never
  /\ clockAge' = 0
  /\ raced' = FALSE

\* Trusting the orientation's own valid flag.
BlockTrustsPose ==
  /\ apc = "checking"
  /\ attitude' = IF heard # None THEN "tracked" ELSE "manual"
  /\ ReadIsOver
  /\ UNCHANGED <<messageVars, cameraVars>>

\* A pose whose stamp has expired is not valid; manual is the fallback.
BlockChecksStamp ==
  /\ apc = "checking"
  /\ attitude' = IF heard # None /\ ~Expired THEN "tracked" ELSE "manual"
  /\ ReadIsOver
  /\ UNCHANGED <<messageVars, cameraVars>>

-----------------------------------------------------------------------------

Older(age) == IF age = Never THEN Never ELSE age + 1

\* The audio thread is not held up for ever between clock and stamp.
Tick ==
  /\ apc = "checking" => clockAge < MaxLag
  /\ clockAge' = IF apc = "checking" THEN clockAge + 1 ELSE clockAge
  /\ stampAge' = Older(stampAge)
  /\ poseAge' = Older(poseAge)
  /\ heardAge' = Older(heardAge)
  /\ UNCHANGED <<messageVars, cpc, dead, published, zeroRequested, zerosAsked,
                 zerosTaken, apc, heard, raced, attitude>>

MessageContinues ==
  \/ StartCamera
  \/ StopCamera
  \/ StoreActiveSource
  \/ CloseAudioDevice
  \/ StopMonitoring

HandlePoseContinues == PublishNothing \/ TakeZero \/ PublishPose

BlockStep ==
  \/ BlockLoadsSource
  \/ BlockCopiesPose
  \/ BlockReadsClock
  \/ BlockChecksStamp

Next ==
  \/ \E tracker \in Trackers : SelectTracker(tracker)
  \/ \E index \in Cameras : SetCameraIndex(index)
  \/ SetZero
  \/ BeginTeardown
  \/ MessageContinues
  \/ PoseArrives
  \/ HandlePoseContinues
  \/ PluginDies
  \/ BlockStep
  \/ Tick

\* A handler, a callback and a block that have begun are carried on with,
\* blocks keep coming and time passes.  Nobody is obliged to select anything
\* or to move their head.
Spec ==
  /\ Init /\ [][Next]_vars
  /\ WF_vars(MessageContinues)
  /\ WF_vars(HandlePoseContinues)
  /\ WF_vars(BlockStep)
  /\ WF_vars(Tick)

Safety == Init /\ [][Next]_vars

-----------------------------------------------------------------------------
(* What the monitor relies on. *)

\* A block is rotated by an orientation that was older than kStaleMs when it
\* read the clock only if a pose came or was being handled while it read:
\* copying before checking, and stamping before publishing, leave no other way.
OldPoseNeedsRace ==
  [][apc = "checking" /\ apc' = "idle" /\ attitude' = "tracked" =>
       heardAge <= Stale + clockAge \/ raced]_vars

\* A block that holds a valid orientation falls back to manual only if no pose
\* came for kStaleMs, or one came while it read: a stamp newer than the clock
\* makes the unsigned difference wrap, and so a pose that has just arrived is
\* taken for an old one.  There is no other way.
FallsBackOnlyInRace ==
  [][apc = "checking" /\ apc' = "idle" /\ attitude' = "manual" =>
       heard = None \/ stampAge > Stale \/ raced]_vars

\* Between handlers the audio thread is given the camera exactly when it runs,
\* and it runs only if the store asks for it, and then with the stored index.
RunsWhatIsStored ==
  Idle =>
    /\ activeSource = "camera" <=> running # None
    /\ running # None => applied = "camera" /\ running = camera

\* A published orientation comes from the camera that runs: the monitor does
\* not hold the final pose of a camera that was stopped or restarted.
NoPoseOutlivesCamera == published # None => published = running

\* A zero request is pending until a pose has answered it, also when it comes
\* while a pose is being handled.
ZeroIsNotLost == running # None => zeroRequested \/ zerosTaken = zerosAsked

\* Once the sources may be destroyed, neither a block nor a callback is in them.
NobodyInDeadSource == mpc = "gone" => apc = "idle" /\ cpc = "idle"

\* A plugin that died without a word gives way to the manual attitude for as
\* long as blocks are rendered.
DeadPluginFallsBack == <>[]dead => <>[](attitude = "manual" \/ mpc = "gone")

=============================================================================
