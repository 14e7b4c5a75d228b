------------------------- MODULE HeadTracker_proofs -------------------------
(***************************************************************************)
(* Proofs about HeadTracker, for any number of cameras, any staleness      *)
(* limit and any number of zero requests.                                  *)
(*                                                                         *)
(* What a block may be rotated by is about three threads at once.  It      *)
(* follows from two relations between clocks: while no pose is being       *)
(* handled, the published orientation is as old as the stamp; and a copy   *)
(* made then is never older than the stamp, whatever happens until the     *)
(* check, unless a pose arrives in between.                                *)
(***************************************************************************)
EXTENDS HeadTracker, TLAPS

\* Outside handlePose the stamp is the time of the published pose.
StampMatchesPose == published # None /\ cpc = "idle" => poseAge = stampAge

CopyIsAsFreshAsStamp ==
  apc \in {"clocking", "checking"} /\ heard # None /\ ~raced =>
    heardAge <= stampAge

\* Unless a pose came since, the stamp is older than the block's clock.
StampPrecedesClock == apc = "checking" /\ ~raced => clockAge <= stampAge

\* How far the calls that follow the store have got.
CallsFollowStore ==
  /\ mpc \in {"closing", "stopping", "gone"} => calls = <<>>
  /\ mpc = "storing" => calls # <<>>
  /\ calls \in {<<>>, <<applied>>, <<"manual", applied>>}
  /\ calls = <<"camera">> /\ mpc = "ready" => running = None
  /\ calls = <<"camera">> /\ mpc = "storing" => running \in {camera, None}
  /\ calls # <<"camera">> /\ mpc = "storing" => running = None

\* What teardown has shut so far.
TeardownOrder ==
  /\ mpc \in {"stopping", "gone"} => apc = "idle"
  /\ mpc = "gone" => running = None

HInv ==
  /\ TypeOK
  /\ NoPoseOutlivesCamera
  /\ ZeroIsNotLost
  /\ StampMatchesPose
  /\ CopyIsAsFreshAsStamp
  /\ StampPrecedesClock
  /\ CallsFollowStore
  /\ RunsWhatIsStored
  /\ TeardownOrder

-----------------------------------------------------------------------------
\* The invariant holds when the monitoring engine is constructed.
LEMMA InitHInv == Init => HInv
<1> SUFFICES ASSUME Init PROVE HInv
  OBVIOUS
<1> USE TrackerAssumption DEF Init
<1>1. TypeOK
  <2>1. Never \in 0..Never /\ 0 \in 0..MaxZeros /\ 0 \in 0..MaxLag
    BY DEF Never
  <2>2. /\ dead \in BOOLEAN
        /\ zeroRequested \in BOOLEAN
        /\ raced \in BOOLEAN
    BY Zenon
  <2>3. /\ applied \in Trackers
        /\ calls \in {<<>>} \cup {<<t>> : t \in Trackers}
                      \cup {<<"manual", t>> : t \in Trackers \ {"manual"}}
    BY Zenon DEF Trackers
  <2> QED
    BY <2>1, <2>2, <2>3, Zenon DEF TypeOK
<1> QED
  BY <1>1
  DEF HInv, NoPoseOutlivesCamera, ZeroIsNotLost, StampMatchesPose,
      CopyIsAsFreshAsStamp, StampPrecedesClock, CallsFollowStore, RunsWhatIsStored, Idle,
      TeardownOrder

\* The message thread's sequence of calls is one of three.
LEMMA CallShapes ==
  ASSUME NEW t
  PROVE  /\ <<t>> # <<>> /\ <<"manual", t>> # <<>> /\ <<t>> # <<"manual", t>>
         /\ Head(<<t>>) = t /\ Head(<<"manual", t>>) = "manual"
         /\ Tail(<<t>>) = <<>> /\ Tail(<<"manual", t>>) = <<t>>
         /\ <<t>> = <<"camera">> <=> t = "camera"
         /\ <<"manual", t>> # <<"camera">>
  OBVIOUS

\* Ages grow together and saturate together.
LEMMA OlderMonotone ==
  ASSUME NEW a \in 0..Never, NEW b \in 0..Never
  PROVE  /\ Older(a) \in 0..Never
         /\ a <= b => Older(a) <= Older(b)
  BY TrackerAssumption DEF Older, Never

\* Every step of the three threads preserves it.
LEMMA NextHInv == HInv /\ [Next]_vars => HInv'
<1> SUFFICES ASSUME HInv, [Next]_vars PROVE HInv'
  OBVIOUS
<1> USE TrackerAssumption
    DEF HInv, TypeOK, NoPoseOutlivesCamera, ZeroIsNotLost, StampMatchesPose,
        CopyIsAsFreshAsStamp, StampPrecedesClock, CallsFollowStore, RunsWhatIsStored, Idle,
        TeardownOrder, messageVars, cameraVars, audioVars, Trackers, Never
<1>1. ASSUME NEW tracker \in Trackers, SelectTracker(tracker) PROVE HInv'
  BY <1>1, CallShapes DEF SelectTracker
<1>2. ASSUME NEW index \in Cameras, SetCameraIndex(index) PROVE HInv'
  BY <1>2, CallShapes DEF SetCameraIndex
<1>3. CASE SetZero
  BY <1>3 DEF SetZero
<1>4. CASE BeginTeardown
  BY <1>4 DEF BeginTeardown
<1>5. CASE StartCamera
  <2>1. calls = <<"camera">> /\ applied = "camera" /\ running = None
    BY <1>5, CallShapes DEF StartCamera
  <2>2. /\ dead' = FALSE /\ zeroRequested' = FALSE
        /\ UNCHANGED <<raced, applied, camera, calls, activeSource, cpc, apc,
                       heard, heardAge, clockAge, attitude>>
        /\ running' \in {camera, None}
        /\ stampAge' = Never /\ published' = None /\ poseAge' = Never
        /\ zerosAsked' = 0 /\ zerosTaken' = 0
        /\ mpc' = "storing"
    BY <1>5, <2>1 DEF StartCamera
  <2>3. Never \in 0..Never /\ 0 \in 0..MaxZeros
    OBVIOUS
  <2>4. TypeOK'
    <3>1. dead' \in BOOLEAN /\ zeroRequested' \in BOOLEAN /\ raced' \in BOOLEAN
      BY <2>2, Zenon
    <3>2. cpc' # "idle" => running' # None
      BY <2>1, <2>2
    <3> QED
      BY <2>1, <2>2, <2>3, <3>1, <3>2
  <2>5. (CopyIsAsFreshAsStamp /\ StampPrecedesClock /\ CallsFollowStore)'
    BY <2>1, <2>2, <2>3
  <2> QED
    BY <2>1, <2>2, <2>4, <2>5
<1>6. CASE StopCamera
  BY <1>6, CallShapes DEF StopCamera, Stop
<1>7. CASE StoreActiveSource
  <2>1. /\ mpc = "storing" /\ mpc' = "ready" /\ calls' = Tail(calls)
        /\ UNCHANGED <<applied, camera, running, cameraVars, audioVars>>
    BY <1>7 DEF StoreActiveSource
  <2>2. CASE calls = <<"camera">>
    <3>1. /\ activeSource' = IF running # None THEN "camera" ELSE None
          /\ calls' = <<>>
          /\ applied = "camera" /\ running \in {camera, None}
      BY <1>7, <2>1, <2>2, CallShapes DEF StoreActiveSource
    <3> QED
      BY <2>1, <2>2, <3>1
  <2>3. CASE calls = <<applied>> /\ applied # "camera"
    <3>1. calls # <<"camera">> /\ Head(calls) # "camera" /\ calls' = <<>>
      BY <2>1, <2>3, CallShapes
    <3>2. activeSource' = None /\ running = None
      BY <1>7, <2>1, <3>1 DEF StoreActiveSource
    <3> QED
      BY <2>1, <3>1, <3>2
  <2>4. CASE calls = <<"manual", applied>>
    <3>1. /\ calls # <<"camera">> /\ Head(calls) # "camera"
          /\ calls' = <<applied>> /\ calls' # <<>>
      BY <2>1, <2>4, CallShapes
    <3>2. activeSource' = None /\ running = None
      BY <1>7, <2>1, <3>1 DEF StoreActiveSource
    <3> QED
      BY ZenonT(40), <2>1, <3>1, <3>2
  <2> QED
    BY <2>1, <2>2, <2>3, <2>4, CallShapes
<1>8. CASE CloseAudioDevice
  BY <1>8 DEF CloseAudioDevice
<1>9. CASE StopMonitoring
  BY <1>9 DEF StopMonitoring, Stop
<1>10. CASE PoseArrives
  <2>1. /\ raced' \in BOOLEAN
        /\ ~raced' => apc \notin {"clocking", "checking"}
    BY <1>10, Zenon DEF PoseArrives
  <2>2. UNCHANGED <<messageVars, dead, published, poseAge, zeroRequested,
                    zerosAsked, zerosTaken, apc, heard, heardAge, clockAge,
                    attitude>>
    BY <1>10 DEF PoseArrives
  <2>3. /\ running # None /\ cpc' \in {"stamped", "unusable"}
        /\ cpc = "idle" /\ stampAge' = 0
    BY <1>10 DEF PoseArrives
  <2> QED
    BY <2>1, <2>2, <2>3
<1>11. CASE PublishNothing
  BY <1>11 DEF PublishNothing
<1>12. CASE TakeZero
  <2>1. /\ UNCHANGED <<messageVars, dead, stampAge, published, poseAge,
                       zerosAsked, audioVars>>
        /\ cpc = "stamped" /\ cpc' = "zeroed"
        /\ zerosTaken' \in {zerosAsked, zerosTaken}
    BY <1>12 DEF TakeZero
  <2>2. zeroRequested' \in BOOLEAN
    BY <1>12, Zenon DEF TakeZero
  <2>3. ZeroIsNotLost'
    BY <1>12, Zenon DEF TakeZero
  <2> QED
    BY <2>1, <2>2, <2>3
<1>13. CASE PublishPose
  BY <1>13 DEF PublishPose
<1>14. CASE PluginDies
  BY <1>14 DEF PluginDies
<1>15. CASE BlockStep
  <2>1. CASE BlockLoadsSource
    BY <2>1 DEF BlockLoadsSource
  <2>2. CASE BlockCopiesPose
    <3>1. raced' \in BOOLEAN /\ (~raced' => cpc = "idle")
      BY <2>2, Zenon DEF BlockCopiesPose
    <3>2. /\ apc = "copying" /\ apc' = "clocking"
          /\ heard' = published /\ heardAge' = poseAge
          /\ UNCHANGED <<messageVars, cameraVars, clockAge, attitude>>
      BY <2>2 DEF BlockCopiesPose
    <3> QED
      BY <3>1, <3>2
  <2>3. CASE BlockReadsClock
    BY <2>3 DEF BlockReadsClock
  <2>4. CASE BlockChecksStamp
    <3>1. /\ attitude' \in {"manual", "tracked"}
          /\ apc' = "idle" /\ heard' = None
          /\ heardAge' = Never /\ clockAge' = 0
          /\ UNCHANGED <<messageVars, cameraVars>>
      BY <2>4 DEF BlockChecksStamp, ReadIsOver
    <3>2. raced' \in BOOLEAN
      BY <2>4, Zenon DEF BlockChecksStamp, ReadIsOver
    <3> QED
      BY <3>1, <3>2
  <2> QED
    BY <1>15, <2>1, <2>2, <2>3, <2>4 DEF BlockStep
<1>16. CASE Tick
  <2>1. /\ clockAge' = IF apc = "checking" THEN clockAge + 1 ELSE clockAge
        /\ apc = "checking" => clockAge < MaxLag
        /\ stampAge' = Older(stampAge) /\ poseAge' = Older(poseAge)
        /\ heardAge' = Older(heardAge)
        /\ UNCHANGED <<messageVars, cpc, dead, published, zeroRequested,
                       zerosAsked, zerosTaken, apc, heard, raced, attitude>>
    BY <1>16 DEF Tick
  <2>2. StampPrecedesClock'
    BY <2>1 DEF Older
  <2>3. /\ stampAge' \in 0..Never /\ poseAge' \in 0..Never
        /\ heardAge' \in 0..Never /\ clockAge' \in 0..MaxLag
    BY <2>1, OlderMonotone
  <2>4. TypeOK'
    BY <2>1, <2>3
  <2>5. CopyIsAsFreshAsStamp'
    BY <2>1, OlderMonotone
  <2>6. StampMatchesPose'
    BY <2>1
  <2> QED
    BY <2>1, <2>2, <2>4, <2>5, <2>6
<1>17. CASE UNCHANGED vars
  BY <1>17 DEF vars
<1> QED
  BY <1>1, <1>2, <1>3, <1>4, <1>5, <1>6, <1>7, <1>8, <1>9, <1>10, <1>11,
     <1>12, <1>13, <1>14, <1>15, <1>16, <1>17
  DEF Next, MessageContinues, HandlePoseContinues

\* The inductive invariant of the three threads.
THEOREM Invariant == Safety => []HInv
<1> QED
  BY InitHInv, NextHInv, PTL DEF Safety

\* Type correctness, with: a callback runs only while its camera does.
THEOREM TypeCorrectness == Safety => []TypeOK
<1>1. HInv => TypeOK
  BY DEF HInv
<1> QED
  BY <1>1, Invariant, PTL

\* Between handlers the camera runs, with the stored index, exactly when the
\* audio thread is given it.
THEOREM RunsStored == Safety => []RunsWhatIsStored
<1>1. HInv => RunsWhatIsStored
  BY DEF HInv
<1> QED
  BY <1>1, Invariant, PTL

\* No orientation outlives the camera it came from.
THEOREM NoPoseOutlives == Safety => []NoPoseOutlivesCamera
<1>1. HInv => NoPoseOutlivesCamera
  BY DEF HInv
<1> QED
  BY <1>1, Invariant, PTL

\* A zero request is answered or still pending, whenever it was made.
THEOREM ZeroKept == Safety => []ZeroIsNotLost
<1>1. HInv => ZeroIsNotLost
  BY DEF HInv
<1> QED
  BY <1>1, Invariant, PTL

\* After teardown neither a block nor a callback is in a source.
THEOREM TeardownSafe == Safety => []NobodyInDeadSource
<1>1. HInv => NobodyInDeadSource
  BY DEF HInv, TypeOK, TeardownOrder, NobodyInDeadSource
<1> QED
  BY <1>1, Invariant, PTL

\* Only the check of the stamp ends a read.
LEMMA ChecksEndReads ==
  ASSUME Next, apc = "checking", apc' = "idle"
  PROVE  BlockChecksStamp
BY DEF Next, SelectTracker, SetCameraIndex, SetZero, BeginTeardown,
       MessageContinues, StartCamera, StopCamera, StoreActiveSource,
       CloseAudioDevice, StopMonitoring, PoseArrives, HandlePoseContinues,
       PublishNothing, TakeZero, PublishPose, PluginDies, BlockStep,
       BlockLoadsSource, BlockCopiesPose, BlockReadsClock, Tick, audioVars

\* A stale orientation reaches a block only past a pose that came during its
\* read.
THEOREM OldNeedsRace == Safety => OldPoseNeedsRace
<1>1. HInv /\ [Next]_vars =>
        [apc = "checking" /\ apc' = "idle" /\ attitude' = "tracked" =>
           heardAge <= Stale + clockAge \/ raced]_vars
  <2> SUFFICES ASSUME HInv, Next, apc = "checking", apc' = "idle",
                      attitude' = "tracked"
               PROVE  heardAge <= Stale + clockAge \/ raced
    BY DEF vars, audioVars
  <2>1. BlockChecksStamp
    BY ChecksEndReads
  <2>2. heard # None /\ ~(stampAge - clockAge > Stale)
    BY <2>1 DEF BlockChecksStamp, Expired
  <2>3. raced \/ heardAge <= stampAge
    BY <2>2 DEF HInv, CopyIsAsFreshAsStamp
  <2> QED
    BY <2>2, <2>3, TrackerAssumption DEF HInv, TypeOK, Never
<1> QED
  BY <1>1, Invariant, PTL DEF Safety, OldPoseNeedsRace

\* A valid orientation is turned down only for its age, or past a pose that
\* came during the read.
THEOREM FallsBackInRace == Safety => FallsBackOnlyInRace
<1>1. HInv /\ [Next]_vars =>
        [apc = "checking" /\ apc' = "idle" /\ attitude' = "manual" =>
           heard = None \/ stampAge > Stale \/ raced]_vars
  <2> SUFFICES ASSUME HInv, Next, apc = "checking", apc' = "idle",
                      attitude' = "manual", heard # None, ~raced
               PROVE  stampAge > Stale
    BY DEF vars, audioVars
  <2>1. BlockChecksStamp
    BY ChecksEndReads
  <2>2. clockAge <= stampAge
    BY DEF HInv, StampPrecedesClock
  <2>3. stampAge < clockAge \/ stampAge - clockAge > Stale
    BY <2>1 DEF BlockChecksStamp, Expired
  <2> QED
    BY <2>2, <2>3, TrackerAssumption DEF HInv, TypeOK, Never
<1> QED
  BY <1>1, Invariant, PTL DEF Safety, FallsBackOnlyInRace

=============================================================================
