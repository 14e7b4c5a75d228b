--------------------------- MODULE Decoder_proofs ---------------------------
(***************************************************************************)
(* Proofs about the decoder, for every bound and every number of edits:    *)
(*                                                                         *)
(* 1. the rebuild pipeline (DecoderRebuild).  Its properties are not       *)
(*    inductive: that a result with the current generation is at least as  *)
(*    new as the published matrix needs to know that the three places a    *)
(*    job can be in hold strictly increasing generations, so that at most  *)
(*    one of them is still wanted;                                         *)
(*                                                                         *)
(* 2. the rV/rE map of the shell (RvReAnalysis).  The shell's steps are    *)
(*    the engine's, so what is shown of the engine holds under the shell   *)
(*    too and is used there.  What is added: the pair submitted last is of *)
(*    the published decoder, and is the youngest the service holds;        *)
(*                                                                         *)
(* 3. the double buffer against the audio thread (DecoderBlocks): for      *)
(*    every debounce, block length and latency, the one-publish-per-block  *)
(*    contract follows from Latency + BlockTime <= Debounce, and without   *)
(*    any such bound the debounce only spaces the requests.                *)
(***************************************************************************)
EXTENDS RvReAnalysis, DecoderBlocks, TLAPS

-----------------------------------------------------------------------------
(* 1. The rebuild pipeline.                                                *)

\* A job exists exactly in the points where run() holds one, and the thread
\* ends only when told to.
WorkerShape ==
  /\ wpc = "design" <=> job # NoJob
  /\ wpc = "exited" => exitFlag
  /\ exitFlag <=> ~Open

\* Outbox before the design being computed before the inbox.
GenerationsOrdered ==
  /\ completed # NoJob /\ job # NoJob => completed.gen < job.gen
  /\ job # NoJob /\ pending # NoJob => job.gen < pending.gen
  /\ completed # NoJob /\ pending # NoJob => completed.gen < pending.gen

\* A result still wanted is no older than what is published.
WantedIsNewer ==
  \A j \in {pending, job, completed} : Outstanding(j) => published <= j.version

IInv ==
  /\ TypeOK
  /\ WorkerShape
  /\ GenerationsOrdered
  /\ WantedIsNewer
  /\ BusyCoversWork
  /\ InFlightIsExact
  /\ NoLostWakeup
  /\ NoCallbackAfterTeardown

USE DEF Jobs, MessagePoints, WorkerPoints

-----------------------------------------------------------------------------
\* The inductive invariant holds at the end of the constructor.
LEMMA InitIInv == Init => IInv
<1> SUFFICES ASSUME Init PROVE IInv
  OBVIOUS
<1> USE DEF Init, WorkerInit
<1>1. TypeOK
  <2>1. WorkerTypeOK(Jobs)
    BY Zenon DEF WorkerTypeOK
  <2>2. \A j \in {pending, job, completed} :
          j # NoJob => j.gen <= generation /\ j.version <= storeVersion
    BY Zenon
  <2>3. /\ storeVersion \in Nat
        /\ generation \in Nat
        /\ published \in Nat
        /\ published <= storeVersion
    OBVIOUS
  <2>4. /\ timerArmed \in BOOLEAN
        /\ inFlight \in BOOLEAN
        /\ mpc \in MessagePoints
    BY Zenon
  <2> QED
    BY <2>1, <2>2, <2>3, <2>4 DEF TypeOK
<1>2. WorkerShape /\ GenerationsOrdered
  BY Zenon DEF WorkerShape, GenerationsOrdered, Open
<1>3. WantedIsNewer
  BY Zenon DEF WantedIsNewer, Outstanding
<1>4. BusyCoversWork /\ NoLostWakeup /\ NoCallbackAfterTeardown
  BY Zenon DEF BusyCoversWork, NoLostWakeup, NoCallbackAfterTeardown
<1>5. InFlightIsExact
  BY Zenon DEF InFlightIsExact, Outstanding
<1> QED
  BY <1>1, <1>2, <1>3, <1>4, <1>5 DEF IInv

\* Draining the outbox, from either of its two callers: nothing there, a stale
\* result dropped, or the wanted result adopted.
LEMMA DrainIInv ==
  ASSUME IInv, DrainCompleted, mpc = "idle",
         UNCHANGED <<storeVersion, timerArmed, generation, mpc, pending, busy,
                     job, wpc, wakeEvent, exitFlag>>,
         updatePending' \in BOOLEAN
  PROVE  IInv'
<1> USE NoJobAssumption
    DEF IInv, TypeOK, WorkerTypeOK, WorkerShape, GenerationsOrdered,
        WantedIsNewer, BusyCoversWork, InFlightIsExact, NoLostWakeup,
        NoCallbackAfterTeardown, Outstanding, Open, DrainCompleted,
        TakeCompleted, IsStale
<1>1. CASE completed = NoJob
  BY <1>1
<1>2. CASE completed # NoJob /\ completed.gen # generation
  BY <1>2
<1>3. CASE completed # NoJob /\ completed.gen = generation
  <2>1. /\ published' = completed.version
        /\ completed' = NoJob
        /\ ~Outstanding(pending)
        /\ ~Outstanding(job)
        /\ inFlight' = FALSE
    BY <1>3
  <2> QED
    BY <1>3, <2>1
<1> QED
  BY <1>1, <1>2, <1>3

\* Every handler and every step of run() preserves it.
LEMMA NextIInv == IInv /\ [Next]_vars => IInv'
<1> SUFFICES ASSUME IInv, [Next]_vars PROVE IInv'
  OBVIOUS
<1> USE NoJobAssumption
    DEF IInv, TypeOK, WorkerTypeOK, WorkerShape, GenerationsOrdered,
        WantedIsNewer, BusyCoversWork, InFlightIsExact, NoLostWakeup,
        NoCallbackAfterTeardown, Outstanding, Open
<1>1. CASE EditDecoderInput
  BY <1>1 DEF EditDecoderInput, workerVars
<1>2. CASE TimerCallback
  <2> DEFINE new == [gen |-> generation + 1, version |-> storeVersion]
  <2> USE <1>2 DEF TimerCallback, SubmitLocked
  <2>1. /\ new \in Jobs
        /\ new # NoJob
        /\ new.gen = generation + 1
        /\ new.version = storeVersion
    OBVIOUS
  <2>2. pending' = new
    OBVIOUS
  <2> HIDE DEF new
  <2>3. TypeOK'
    <3>1. WorkerTypeOK(Jobs)'
      <4> HIDE DEF Jobs
      <4> QED
        BY <2>1, <2>2, Zenon
    <3>2. /\ storeVersion' \in Nat
          /\ generation' \in Nat
          /\ published' \in Nat
          /\ published' <= storeVersion'
      OBVIOUS
    <3>3. \A j \in {pending', job', completed'} :
            j # NoJob => j.gen <= generation' /\ j.version <= storeVersion'
      BY <2>1, <2>2
    <3>4. /\ timerArmed' \in BOOLEAN
          /\ inFlight' \in BOOLEAN
          /\ mpc' \in MessagePoints
      BY Zenon
    <3> QED
      BY <3>1, <3>2, <3>3, <3>4, Zenon
  <2>4. (WorkerShape /\ GenerationsOrdered)'
    BY <2>1, <2>2
  <2>5. WantedIsNewer'
    BY <2>1, <2>2
  <2>6. (BusyCoversWork /\ NoLostWakeup /\ NoCallbackAfterTeardown)'
    BY <2>1, <2>2
  <2>7. InFlightIsExact'
    BY <2>1, <2>2
  <2> QED
    BY <2>3, <2>4, <2>5, <2>6, <2>7
<1>3. CASE NotifyWorker
  BY <1>3 DEF NotifyWorker, Notify
<1>4. CASE HandleAsyncUpdate
  <2>1. updatePending' \in BOOLEAN
    BY <1>4, Zenon DEF HandleAsyncUpdate
  <2> QED
    BY <1>4, <2>1, DrainIInv, Zenon DEF HandleAsyncUpdate
<1>5. CASE FinishPendingAsyncRebuild
  <2>1. updatePending' \in BOOLEAN
    BY <1>5, Zenon DEF FinishPendingAsyncRebuild
  <2> QED
    BY <1>5, <2>1, DrainIInv, Zenon DEF FinishPendingAsyncRebuild
<1>6. CASE FlushDecoderRebuild
  <2>1. UNCHANGED <<storeVersion, mpc, pending, completed, busy, job, wpc,
                    wakeEvent, exitFlag, updatePending>>
    BY <1>6 DEF FlushDecoderRebuild, workerVars
  <2>2. /\ generation' = generation + 1
        /\ published' = storeVersion
        /\ inFlight' = FALSE
        /\ timerArmed' = FALSE
    BY <1>6 DEF FlushDecoderRebuild
  <2>3. \A j \in {pending', job', completed'} :
          j # NoJob => j.gen < generation' /\ j.version <= storeVersion'
    BY <2>1, <2>2
  <2>4. WorkerTypeOK(Jobs)' /\ timerArmed' \in BOOLEAN /\ inFlight' \in BOOLEAN
    BY <2>1, <2>2, Zenon
  <2>5. TypeOK'
    BY <2>1, <2>2, <2>3, <2>4
  <2>6. (WorkerShape /\ GenerationsOrdered)'
    BY <2>1
  <2>7. (WantedIsNewer /\ InFlightIsExact)'
    BY <2>1, <2>2, <2>3
  <2>8. (BusyCoversWork /\ NoLostWakeup /\ NoCallbackAfterTeardown)'
    BY <2>1
  <2> QED
    BY <2>5, <2>6, <2>7, <2>8
<1>7. CASE BeginTeardown
  BY <1>7 DEF BeginTeardown, SignalExit
<1>8. CASE EndTeardown
  BY <1>8 DEF EndTeardown
<1>9. CASE JoinTimesOut
  BY <1>9 DEF JoinTimesOut, WorkerKilled, engineVars
<1>10. CASE WorkerStep
  <2> USE DEF engineVars
  <2>1. CASE WorkerReturn /\ UNCHANGED engineVars
    BY <2>1 DEF WorkerReturn
  <2>2. CASE WorkerTake /\ UNCHANGED engineVars
    BY <2>2 DEF WorkerTake
  <2>3. CASE WorkerIdle /\ UNCHANGED engineVars
    BY <2>3 DEF WorkerIdle
  <2>4. CASE WorkerPark /\ UNCHANGED engineVars
    BY <2>4 DEF WorkerPark
  <2>5. CASE WorkerWake /\ UNCHANGED engineVars
    BY <2>5 DEF WorkerWake
  <2>6. CASE WorkerAbandon /\ UNCHANGED engineVars
    BY <2>6 DEF WorkerAbandon
  <2>7. CASE WorkerFinish /\ UNCHANGED engineVars
    BY <2>7 DEF WorkerFinish
  <2>8. CASE WorkerNotifyReady /\ UNCHANGED engineVars
    BY <2>8 DEF WorkerNotifyReady
  <2> QED
    BY <1>10, <2>1, <2>2, <2>3, <2>4, <2>5, <2>6, <2>7, <2>8
    DEF WorkerStep, WorkerNext
<1>11. CASE UNCHANGED vars
  BY <1>11 DEF vars, engineVars, workerVars
<1> QED
  BY <1>1, <1>2, <1>3, <1>4, <1>5, <1>6, <1>7, <1>8, <1>9, <1>10, <1>11 DEF Next

\* The inductive invariant, and with it every state invariant of the run.
THEOREM Invariant == Safety => []IInv
<1> QED
  BY InitIInv, NextIInv, PTL DEF Safety

\* Type correctness: no job from a generation not yet issued, no design from a
\* store version that never existed.
THEOREM TypeCorrectness == Safety => []TypeOK
<1>1. IInv => TypeOK
  BY DEF IInv
<1> QED
  BY <1>1, Invariant, PTL

\* "Rebuilding..." is shown exactly while a wanted design is outstanding
\* (isDecoderRebuildInFlight).
THEOREM InFlightExact == Safety => []InFlightIsExact
<1>1. IInv => InFlightIsExact
  BY DEF IInv
<1> QED
  BY <1>1, Invariant, PTL

\* isBusy() never reads FALSE while a design is queued or running.
THEOREM BusyCovers == Safety => []BusyCoversWork
<1>1. IInv => BusyCoversWork
  BY DEF IInv
<1> QED
  BY <1>1, Invariant, PTL

\* A submitted job is never left with a parked worker and no signal.
THEOREM NoWakeupLost == Safety => []NoLostWakeup
<1>1. IInv => NoLostWakeup
  BY DEF IInv
<1> QED
  BY <1>1, Invariant, PTL

\* No update can be posted to the engine once its destructor has finished.
THEOREM TeardownSafe == Safety => []NoCallbackAfterTeardown
<1>1. IInv => NoCallbackAfterTeardown
  BY DEF IInv
<1> QED
  BY <1>1, Invariant, PTL

-----------------------------------------------------------------------------
\* One step of the pipeline is a step of LatestWins or changes nothing of it.
LEMMA StepRefines ==
  ASSUME IInv, IInv', [Next]_vars
  PROVE  [LW!LWNext]_(LW!lwVars)
<1> USE DEF LW!LWNext, LW!lwVars, LW!Change, LW!Show, LW!Close, Open
<1>0. /\ storeVersion \in Nat
      /\ published \in Nat
      /\ published <= storeVersion
      /\ published' \in Nat
      /\ published' <= storeVersion'
  BY DEF IInv, TypeOK
<1>1. CASE EditDecoderInput
  BY <1>1, Zenon DEF EditDecoderInput
<1>2. CASE TimerCallback
  <2>1. storeVersion' = storeVersion /\ published' = published
    BY <1>2, Zenon DEF TimerCallback
  <2>2. Open /\ Open'
    BY <1>2 DEF TimerCallback
  <2> QED
    BY <2>1, <2>2, Zenon
<1>3. CASE NotifyWorker
  <2>1. storeVersion' = storeVersion /\ published' = published
    BY <1>3, Zenon DEF NotifyWorker
  <2>2. Open /\ Open'
    BY <1>3 DEF NotifyWorker
  <2> QED
    BY <2>1, <2>2, Zenon
<1>4. ASSUME DrainCompleted, mpc = "idle", UNCHANGED <<storeVersion, mpc>>
      PROVE  [LW!LWNext]_(LW!lwVars)
  <2>1. \/ published' = published
        \/ published' = completed.version /\ published <= completed.version
    <3>0. CASE completed = NoJob
      BY <1>4, <3>0, Zenon DEF DrainCompleted
    <3>1. CASE completed # NoJob /\ completed.gen # generation
      BY <1>4, <3>1, Zenon DEF DrainCompleted, IsStale
    <3>2. CASE completed # NoJob /\ completed.gen = generation
      <4>1. published' = completed.version
        BY <1>4, <3>2, Zenon DEF DrainCompleted, IsStale
      <4>2. published <= completed.version
        BY <3>2 DEF IInv, WantedIsNewer, Outstanding
      <4> QED
        BY <4>1, <4>2
    <3> QED
      BY <3>0, <3>1, <3>2
  <2>2. published' = published \/ published' \in (published + 1)..storeVersion
    <3>1. published <= published'
      BY <1>0, <2>1
    <3>2. published' <= storeVersion
      BY <1>0, <1>4
    <3> QED
      BY <1>0, <3>1, <3>2
  <2> QED
    BY <1>4, <2>2, Zenon
<1>5. CASE HandleAsyncUpdate
  BY <1>4, <1>5, Zenon DEF HandleAsyncUpdate
<1>6. CASE FinishPendingAsyncRebuild
  BY <1>4, <1>6, Zenon DEF FinishPendingAsyncRebuild
<1>7. CASE FlushDecoderRebuild
  <2>1. mpc = "idle" /\ published' = storeVersion /\ UNCHANGED <<storeVersion, mpc>>
    BY <1>7, Zenon DEF FlushDecoderRebuild
  <2>2. published' = published \/ published' \in (published + 1)..storeVersion
    BY <1>0, <2>1
  <2> QED
    BY <2>1, <2>2, Zenon
<1>8. CASE BeginTeardown
  <2>1. storeVersion' = storeVersion /\ published' = published
    BY <1>8, Zenon DEF BeginTeardown
  <2>2. Open /\ ~Open'
    BY <1>8 DEF BeginTeardown
  <2> QED
    BY <2>1, <2>2
<1>9. CASE EndTeardown
  <2>1. storeVersion' = storeVersion /\ published' = published
    BY <1>9, Zenon DEF EndTeardown
  <2>2. ~Open /\ ~Open'
    BY <1>9 DEF EndTeardown
  <2> QED
    BY <2>1, <2>2
<1>10. CASE JoinTimesOut \/ WorkerStep
  BY <1>10, Zenon DEF JoinTimesOut, WorkerStep, engineVars
<1>11. CASE UNCHANGED vars
  BY <1>11, Zenon DEF vars, engineVars
<1> QED
  BY <1>1, <1>2, <1>3, <1>5, <1>6, <1>7, <1>8, <1>9, <1>10, <1>11 DEF Next

\* The safety half of the refinement: the pipeline implements LatestWins for
\* every bound (its liveness stays with the model checker).
THEOREM RefinesLatestWins == Safety => LW!LWSafe
<1>1. Init => LW!LWInit
  BY DEF Init, LW!LWInit, Open
<1> QED
  BY <1>1, InitIInv, NextIInv, StepRefines, PTL DEF Safety, LW!LWSafe

\* A decoder computed from an older layout never replaces a newer one on the
\* audio thread, whatever is flushed, re-requested or delivered late.
THEOREM NeverRegresses == Safety => PublishedNeverRegresses
<1>1. IInv /\ IInv' /\ [Next]_vars => [published' >= published]_vars
  <2> SUFFICES ASSUME IInv, IInv', [Next]_vars
               PROVE  published' >= published
    OBVIOUS
  <2>1. [LW!LWNext]_(LW!lwVars)
    BY StepRefines
  <2>2. published \in Nat /\ published' \in Nat
    BY DEF IInv, TypeOK
  <2> QED
    BY <2>1, <2>2
    DEF LW!LWNext, LW!lwVars, LW!Change, LW!Show, LW!Close
<1> QED
  BY <1>1, InitIInv, NextIInv, PTL DEF Safety, PublishedNeverRegresses

-----------------------------------------------------------------------------
(* 2. The rV/rE map of the shell.                                          *)

\* Without an edit waiting for the debounce, a design still wanted is of the
\* store's version, and if there is none, so is what is published.
EngineSettled ==
  /\ Open /\ ~timerArmed =>
       \A j \in {pending, job, completed} : Outstanding(j) => j.version = storeVersion
  /\ Open /\ ~timerArmed /\ ~inFlight => published = storeVersion

\* The pair submitted last, wherever it is.
LastAnalysis ==
  IF queued # NoAnalysis THEN queued
  ELSE IF analysing # NoAnalysis THEN analysing ELSE latest

\* It is of the published matrix, and of its layout if that is still the store's.
SubmittedLast ==
  shell \in {"running", "submitting"} =>
    /\ LastAnalysis \in Analyses
    /\ LastAnalysis.matrix = published
    /\ published = storeVersion => LastAnalysis.layout = storeVersion

\* What is shown is no younger than what is analysed, and that no younger than
\* what waits; nothing is younger than the published matrix.
AnalysesOrdered ==
  /\ \A a \in {queued, analysing, latest} : a # NoAnalysis => a.matrix <= published
  /\ latest # NoAnalysis /\ analysing # NoAnalysis => latest.matrix <= analysing.matrix
  /\ latest # NoAnalysis /\ queued # NoAnalysis => latest.matrix <= queued.matrix
  /\ analysing # NoAnalysis /\ queued # NoAnalysis => analysing.matrix <= queued.matrix

\* A pair is in analysis exactly inside runAnalysis(); the thread ends only
\* when told to, and has ended when the service is gone; a pair that waits is
\* not slept on.
ServiceShape ==
  /\ apc = "analyse" <=> analysing # NoAnalysis
  /\ apc = "exited" => Exiting
  /\ shell = "closed" => apc = "exited"
  /\ queued # NoAnalysis /\ apc \in {"loop", "wait"} => wake \/ shell = "submitting"

AInv ==
  /\ IInv
  /\ EngineSettled
  /\ ShellTypeOK
  /\ SubmittedLast
  /\ AnalysesOrdered
  /\ ServiceShape

-----------------------------------------------------------------------------
(* The engine inside the shell. *)

\* A step of the shell is a step of the engine or leaves it alone.
LEMMA ShellStepIsEngineStep == [ShellNext]_shellVars => [Next]_vars
BY Zenon DEF ShellNext, shellVars, StartShell, Edit, Request, Notified, Deliver,
   DrainByHand, Flush, SignalAnalysis, CloseShell, ServiceJoined, ServiceKilled,
   CloseEngine, EngineJoined, EngineJoinTimesOut, EngineWorkerStep, AnalysisStep,
   Next

\* Inside the shell the engine behaves as DecoderRebuild says, so every theorem
\* about its Safety holds of the composition.
THEOREM ShellKeepsEngine == ShellSafety => Safety
<1>1. ShellInit => Init
  BY DEF ShellInit
<1> QED
  BY <1>1, ShellStepIsEngineStep, PTL DEF ShellSafety, Safety

\* Draining the outbox adopts a wanted design or publishes nothing.
LEMMA DrainSettled ==
  ASSUME IInv, EngineSettled, DrainCompleted, mpc = "idle",
         UNCHANGED <<storeVersion, timerArmed, generation, mpc, pending, job>>
  PROVE  EngineSettled'
<1> USE DEF EngineSettled, Outstanding, Open, DrainCompleted, TakeCompleted, IsStale
<1>1. CASE completed = NoJob
  BY <1>1
<1>2. CASE completed # NoJob /\ completed.gen # generation
  BY <1>2
<1>3. CASE completed # NoJob /\ completed.gen = generation
  <2>1. published' = completed.version /\ completed' = NoJob
    BY <1>3
  <2>2. Outstanding(completed)
    BY <1>3
  <2> QED
    BY <1>3, <2>1, <2>2
<1> QED
  BY <1>1, <1>2, <1>3

LEMMA EngineStepSettled == IInv /\ EngineSettled /\ [Next]_vars => EngineSettled'
<1> SUFFICES ASSUME IInv, EngineSettled, [Next]_vars PROVE EngineSettled'
  OBVIOUS
<1> USE NoJobAssumption DEF Outstanding, Open
<1>0. /\ \A j \in {pending, job, completed} : j # NoJob => j \in Jobs /\ j.gen <= generation
      /\ generation \in Nat
  BY DEF IInv, TypeOK, WorkerTypeOK
<1>1. CASE EditDecoderInput
  BY <1>1 DEF EditDecoderInput, EngineSettled
<1>2. CASE TimerCallback
  <2> DEFINE new == [gen |-> generation + 1, version |-> storeVersion]
  <2>1. new.gen = generation + 1 /\ new.version = storeVersion
    OBVIOUS
  <2>2. pending' = new
    BY <1>2 DEF TimerCallback, SubmitLocked
  <2> HIDE DEF new
  <2>3. UNCHANGED <<storeVersion, job, completed>> /\ generation' = generation + 1 /\ inFlight'
    BY <1>2 DEF TimerCallback
  <2>4. ~Outstanding(job)' /\ ~Outstanding(completed)'
    BY <1>0, <2>3
  <2> QED
    BY <2>1, <2>2, <2>3, <2>4 DEF EngineSettled
<1>3. CASE NotifyWorker
  BY <1>3 DEF NotifyWorker, EngineSettled
<1>4. CASE HandleAsyncUpdate
  BY <1>4, DrainSettled DEF HandleAsyncUpdate
<1>5. CASE FinishPendingAsyncRebuild
  BY <1>5, DrainSettled DEF FinishPendingAsyncRebuild
<1>6. CASE FlushDecoderRebuild
  <2>1. /\ UNCHANGED <<storeVersion, pending, job, completed>>
        /\ generation' = generation + 1
        /\ published' = storeVersion
    BY <1>6 DEF FlushDecoderRebuild, workerVars
  <2>2. \A j \in {pending, job, completed} : ~Outstanding(j)'
    BY <1>0, <2>1
  <2> QED
    BY <2>1, <2>2 DEF EngineSettled
<1>7. CASE BeginTeardown
  BY <1>7 DEF BeginTeardown, EngineSettled
<1>8. CASE EndTeardown
  BY <1>8 DEF EndTeardown, EngineSettled
<1>9. CASE JoinTimesOut
  BY <1>9 DEF JoinTimesOut, WorkerKilled, engineVars, EngineSettled
<1>10. CASE WorkerStep
  <2>1. UNCHANGED <<storeVersion, timerArmed, generation, inFlight, published, mpc>>
    BY <1>10 DEF WorkerStep, engineVars
  <2>2. {pending', job', completed'} \subseteq {pending, job, completed, NoJob}
    BY <1>10 DEF WorkerStep, WorkerNext, WorkerReturn, WorkerTake, WorkerIdle,
       WorkerPark, WorkerWake, WorkerAbandon, WorkerFinish, WorkerNotifyReady
  <2> QED
    BY <2>1, <2>2 DEF EngineSettled
<1>11. CASE UNCHANGED vars
  BY <1>11 DEF vars, engineVars, workerVars, EngineSettled
<1> QED
  BY <1>1, <1>2, <1>3, <1>4, <1>5, <1>6, <1>7, <1>8, <1>9, <1>10, <1>11 DEF Next

-----------------------------------------------------------------------------
(* The service inside the shell. *)

LEMMA InitAInv == ShellInit => AInv
<1> SUFFICES ASSUME ShellInit PROVE AInv
  OBVIOUS
<1>1. IInv /\ TypeOK
  BY InitIInv DEF ShellInit, IInv
<1>2. EngineSettled
  BY NoJobAssumption
  DEF ShellInit, Init, WorkerInit, EngineSettled, Outstanding, Open
<1>3. ShellTypeOK /\ SubmittedLast /\ AnalysesOrdered /\ ServiceShape
  BY <1>1 DEF ShellInit, ShellTypeOK, ShellPoints, AnalysisPoints, SubmittedLast,
     AnalysesOrdered, ServiceShape
<1> QED
  BY <1>1, <1>2, <1>3 DEF AInv

\* A step of the engine that publishes nothing.
LEMMA QuietKeeps ==
  ASSUME AInv, IInv', EngineSettled', UNCHANGED analysisVars, published' = published,
         storeVersion' \in {storeVersion, storeVersion + 1}
  PROVE  AInv'
<1> USE DEF AInv, analysisVars
<1>1. published \in Nat /\ storeVersion \in Nat /\ published <= storeVersion
  BY DEF IInv, TypeOK
<1>2. ShellTypeOK'
  BY DEF ShellTypeOK, IInv
<1>3. SubmittedLast'
  BY <1>1 DEF SubmittedLast, LastAnalysis
<1>4. AnalysesOrdered' /\ ServiceShape'
  BY DEF AnalysesOrdered, ServiceShape, Exiting
<1> QED
  BY <1>2, <1>3, <1>4

\* A step that publishes and calls back.
LEMMA CallBackKeeps ==
  ASSUME AInv, IInv', EngineSettled', shell \in {"starting", "running"},
         NEW version \in Nat, OnDecoderRebuilt(version),
         published' = version, published <= version, storeVersion' = storeVersion
  PROVE  AInv'
<1> DEFINE new == [matrix |-> version, layout |-> storeVersion]
<1> USE DEF AInv, OnDecoderRebuilt, SubmitAnalysis
<1>1. storeVersion \in Nat /\ published \in Nat
  BY DEF IInv, TypeOK
<1>2. new \in Analyses /\ new.matrix = version /\ new.layout = storeVersion
  BY <1>1 DEF Analyses
<1>3. queued' = new
  OBVIOUS
<1> HIDE DEF new
<1>4. new # NoAnalysis
  BY <1>2, NoAnalysisAssumption
<1>5. /\ shell' = "submitting"
      /\ UNCHANGED <<analysing, latest, apc, wake>>
  OBVIOUS
<1>6. ShellTypeOK'
  BY <1>2, <1>3, <1>5 DEF ShellTypeOK, ShellPoints, IInv
<1>7. SubmittedLast'
  BY <1>2, <1>3, <1>4 DEF SubmittedLast, LastAnalysis
<1>8. AnalysesOrdered'
  <2>1. \A a \in {analysing, latest} : a # NoAnalysis => a.matrix \in Nat
    BY DEF ShellTypeOK, Analyses
  <2> QED
    BY <1>1, <1>2, <1>3, <1>5, <2>1 DEF AnalysesOrdered
<1>9. ServiceShape'
  BY <1>5 DEF ServiceShape, Exiting
<1> QED
  BY <1>6, <1>7, <1>8, <1>9

\* Draining calls back exactly when it publishes.
LEMMA DrainKeeps ==
  ASSUME AInv, IInv', EngineSettled', shell = "running",
         DrainCompleted, CallBackIfAdopted, storeVersion' = storeVersion
  PROVE  AInv'
<1>1. CASE completed # NoJob /\ ~IsStale(completed)
  <2>1. OnDecoderRebuilt(completed.version) /\ published' = completed.version
    BY <1>1 DEF DrainCompleted, CallBackIfAdopted
  <2>2. completed.version \in Nat
    BY <1>1 DEF AInv, IInv, TypeOK, WorkerTypeOK, Jobs
  <2>3. published <= completed.version
    BY <1>1 DEF AInv, IInv, WantedIsNewer, Outstanding, IsStale
  <2> QED
    BY <2>1, <2>2, <2>3, CallBackKeeps
<1>2. CASE ~(completed # NoJob /\ ~IsStale(completed))
  <2>1. UNCHANGED analysisVars /\ published' = published
    BY <1>2 DEF DrainCompleted, CallBackIfAdopted
  <2> QED
    BY <2>1, QuietKeeps
<1> QED
  BY <1>1, <1>2

\* The flush, of the constructor or later.
LEMMA FlushKeeps ==
  ASSUME AInv, IInv', EngineSettled', shell \in {"starting", "running"},
         FlushDecoderRebuild, OnDecoderRebuilt(storeVersion)
  PROVE  AInv'
<1>1. published' = storeVersion /\ storeVersion' = storeVersion
  BY DEF FlushDecoderRebuild
<1>2. storeVersion \in Nat /\ published <= storeVersion
  BY DEF AInv, IInv, TypeOK
<1> QED
  BY <1>1, <1>2, CallBackKeeps

\* A step of the service's thread, or of the shell with the service only.
LEMMA ServiceKeeps ==
  ASSUME AInv, IInv', EngineSettled', UNCHANGED vars,
         SignalAnalysis \/ CloseShell \/ ServiceJoined \/ ServiceKilled \/ AnalysisStep
  PROVE  AInv'
<1> USE DEF AInv
<1>0. UNCHANGED <<storeVersion, published>>
  BY DEF vars, engineVars
<1>1. ShellTypeOK'
  BY DEF ShellTypeOK, ShellPoints, AnalysisPoints, IInv, SignalAnalysis, CloseShell,
     ServiceJoined, ServiceKilled, AnalysisStep, AnalysisReturn, AnalysisPark,
     AnalysisWake, AnalysisTake, AnalysisDrained, AnalysisPublish
<1>2. SubmittedLast'
  BY <1>0 DEF ServiceShape, SubmittedLast, LastAnalysis, SignalAnalysis, CloseShell,
     ServiceJoined, ServiceKilled, AnalysisStep, AnalysisReturn, AnalysisPark,
     AnalysisWake, AnalysisTake, AnalysisDrained, AnalysisPublish
<1>3. AnalysesOrdered'
  BY <1>0 DEF AnalysesOrdered, SignalAnalysis, CloseShell, ServiceJoined, ServiceKilled,
     AnalysisStep, AnalysisReturn, AnalysisPark, AnalysisWake, AnalysisTake,
     AnalysisDrained, AnalysisPublish
<1>4. ServiceShape'
  BY DEF ServiceShape, Exiting, SignalAnalysis, CloseShell, ServiceJoined,
     ServiceKilled, AnalysisStep, AnalysisReturn, AnalysisPark, AnalysisWake,
     AnalysisTake, AnalysisDrained, AnalysisPublish
<1> QED
  BY <1>1, <1>2, <1>3, <1>4

LEMMA NextAInv == AInv /\ [ShellNext]_shellVars => AInv'
<1> SUFFICES ASSUME AInv, [ShellNext]_shellVars PROVE AInv'
  OBVIOUS
<1>0. IInv' /\ EngineSettled'
  BY ShellStepIsEngineStep, NextIInv, EngineStepSettled DEF AInv
<1>1. CASE StartShell \/ Flush
  BY <1>0, <1>1, FlushKeeps DEF StartShell, Flush
<1>2. CASE Edit
  <2>1. UNCHANGED analysisVars /\ published' = published /\ storeVersion' = storeVersion + 1
    BY <1>2 DEF Edit, EditDecoderInput
  <2> QED
    BY <1>0, <2>1, QuietKeeps
<1>3. CASE Request \/ Notified \/ CloseEngine \/ EngineJoined \/ EngineJoinTimesOut
             \/ EngineWorkerStep
  <2>1. UNCHANGED <<analysisVars, published, storeVersion>>
    BY <1>3 DEF Request, TimerCallback, Notified, NotifyWorker, CloseEngine,
       BeginTeardown, EngineJoined, EndTeardown, EngineJoinTimesOut, JoinTimesOut,
       EngineWorkerStep, WorkerStep, engineVars
  <2> QED
    BY <1>0, <2>1, QuietKeeps
<1>4. CASE Deliver \/ DrainByHand
  BY <1>0, <1>4, DrainKeeps
  DEF Deliver, HandleAsyncUpdate, DrainByHand, FinishPendingAsyncRebuild
<1>5. CASE SignalAnalysis \/ CloseShell \/ ServiceJoined \/ ServiceKilled \/ AnalysisStep
  <2>1. UNCHANGED vars
    BY <1>5 DEF SignalAnalysis, CloseShell, ServiceJoined, ServiceKilled, AnalysisStep
  <2> QED
    BY <1>0, <1>5, <2>1, ServiceKeeps
<1>6. CASE UNCHANGED shellVars
  <2>1. UNCHANGED <<analysisVars, published, storeVersion>>
    BY <1>6 DEF shellVars, vars, engineVars
  <2> QED
    BY <1>0, <2>1, QuietKeeps
<1> QED
  BY <1>1, <1>2, <1>3, <1>4, <1>5, <1>6 DEF ShellNext

-----------------------------------------------------------------------------
\* The inductive invariant of engine, shell and service together.
THEOREM AnalysisInvariant == ShellSafety => []AInv
<1> QED
  BY InitAInv, NextAInv, PTL DEF ShellSafety

\* At rest the map is of the layout in the store, matrix and speakers alike.
THEOREM SettledMap == ShellSafety => []SettledMapFits
<1>1. AInv => SettledMapFits
  <2> SUFFICES ASSUME AInv, shell = "running", mpc = "idle", ~timerArmed,
                      ~inFlight, apc = "wait", ~wake
               PROVE  latest = [matrix |-> storeVersion, layout |-> storeVersion]
    BY DEF SettledMapFits
  <2>1. published = storeVersion
    BY DEF AInv, EngineSettled, Open
  <2>2. queued = NoAnalysis /\ analysing = NoAnalysis
    BY DEF AInv, ServiceShape
  <2>3. latest \in Analyses /\ latest.matrix = storeVersion /\ latest.layout = storeVersion
    BY <2>1, <2>2 DEF AInv, SubmittedLast, LastAnalysis
  <2> QED
    BY <2>3 DEF Analyses
<1> QED
  BY <1>1, AnalysisInvariant, PTL

\* One step of the composition is a step of LatestWins for the map, or changes
\* nothing of it.
LEMMA StepRefinesMap ==
  ASSUME AInv, AInv', [ShellNext]_shellVars
  PROVE  [LWMap!LWNext]_(LWMap!lwVars)
<1> USE DEF LWMap!LWNext, LWMap!lwVars, LWMap!Change, LWMap!Show, LWMap!Close
<1>0. /\ storeVersion \in Nat /\ published <= storeVersion /\ published \in Nat
      /\ \A a \in {queued, analysing, latest} : a # NoAnalysis => a.matrix \in Nat
  BY DEF AInv, IInv, TypeOK, ShellTypeOK, Analyses
<1>1. CASE AnalysisStep /\ AnalysisPublish
  <2>1. UNCHANGED <<storeVersion, shell>> /\ latest' = analysing
    BY <1>1 DEF AnalysisStep, AnalysisPublish, vars, engineVars
  <2>2. analysing # NoAnalysis /\ shell # "closed"
    BY <1>1 DEF AnalysisPublish, AInv, ServiceShape
  <2>3. ShownVersion' = analysing.matrix
    BY <2>1, <2>2 DEF ShownVersion
  <2>4. /\ ShownVersion \in Nat /\ ShownVersion <= analysing.matrix
        /\ analysing.matrix \in Nat /\ analysing.matrix <= storeVersion
    BY <1>0, <2>2 DEF AInv, AnalysesOrdered, ShownVersion
  <2> QED
    BY <1>0, <2>1, <2>2, <2>3, <2>4
<1>2. CASE Edit
  <2>1. UNCHANGED <<latest, shell>> /\ shell = "running"
    BY <1>2 DEF Edit, analysisVars
  <2> QED
    BY <1>2, <2>1 DEF Edit, EditDecoderInput, ShownVersion
<1>3. CASE ServiceJoined
  <2>1. UNCHANGED <<latest, storeVersion>> /\ shell = "closing" /\ shell' = "closed"
    BY <1>3 DEF ServiceJoined, vars, engineVars
  <2> QED
    BY <2>1 DEF ShownVersion
<1>4. ASSUME UNCHANGED <<latest, storeVersion>>, shell # "closed", shell' # "closed"
      PROVE  [LWMap!LWNext]_(LWMap!lwVars)
  BY <1>4 DEF ShownVersion
<1>5. ASSUME UNCHANGED <<latest, storeVersion, shell>>
      PROVE  [LWMap!LWNext]_(LWMap!lwVars)
  BY <1>5 DEF ShownVersion
<1>6. CASE StartShell \/ Flush \/ SignalAnalysis \/ CloseShell
  <2>1. UNCHANGED <<latest, storeVersion>> /\ shell # "closed" /\ shell' # "closed"
    BY <1>6 DEF StartShell, Flush, FlushDecoderRebuild, OnDecoderRebuilt,
       SignalAnalysis, CloseShell, vars, engineVars
  <2> QED
    BY <1>4, <2>1
<1>7. CASE Deliver \/ DrainByHand
  <2>1. UNCHANGED <<latest, storeVersion>> /\ shell # "closed" /\ shell' # "closed"
    BY <1>7 DEF Deliver, HandleAsyncUpdate, DrainByHand, FinishPendingAsyncRebuild,
       CallBackIfAdopted, OnDecoderRebuilt, analysisVars
  <2> QED
    BY <1>4, <2>1
<1>8. CASE \/ Request \/ Notified \/ CloseEngine \/ EngineJoined
           \/ EngineJoinTimesOut \/ EngineWorkerStep
  <2>1. UNCHANGED <<latest, storeVersion, shell>>
    BY <1>8 DEF Request, TimerCallback, Notified, NotifyWorker, CloseEngine,
       BeginTeardown, EngineJoined, EndTeardown, EngineJoinTimesOut, JoinTimesOut,
       EngineWorkerStep, WorkerStep, engineVars, analysisVars
  <2> QED
    BY <1>5, <2>1
<1>9. CASE ServiceKilled \/ (AnalysisStep /\ ~AnalysisPublish) \/ UNCHANGED shellVars
  <2>1. UNCHANGED <<latest, storeVersion, shell>>
    BY <1>9 DEF ServiceKilled, AnalysisStep, AnalysisReturn, AnalysisPark,
       AnalysisWake, AnalysisTake, AnalysisDrained, shellVars, analysisVars, vars,
       engineVars
  <2> QED
    BY <1>5, <2>1
<1> QED
  BY <1>1, <1>2, <1>3, <1>6, <1>7, <1>8, <1>9 DEF ShellNext

\* Two newest-wins stages in a row are one: the map never shows an older layout
\* after a newer, nor anything new once the service is destroyed.
THEOREM MapNeverGoesBack == ShellSafety => LWMap!LWSafe
<1>1. ShellInit => LWMap!LWInit
  BY DEF ShellInit, Init, LWMap!LWInit, ShownVersion
<1> QED
  BY <1>1, InitAInv, NextAInv, StepRefinesMap, PTL DEF ShellSafety, LWMap!LWSafe

-----------------------------------------------------------------------------
(* 3. The double buffer.                                                   *)

USE ClockAssumption

\* A running debounce was started after the last request.
TimerFollowsRequest == timer # None => timer + sinceRequest >= Debounce

\* What is known of the past of a block that has seen a debounced publish: it
\* came from a request at most Latency + blockAge ago, and nothing newer was
\* requested since.
PublishIsRecent ==
  ~flushed /\ publishes > 0 =>
    /\ request = None
    /\ sinceRequest <= Latency + blockAge

\* An outstanding request is the last one made.
RequestIsLast == request # None => request = sinceRequest

\* Only a publish separates the buffer being read from the active one.
ReaderHoldsActive == ~flushed /\ publishes = 0 => held \in {active, None}

Timed ==
  /\ BlocksTypeOK
  /\ TimerFollowsRequest

BlocksInv ==
  /\ Timed
  /\ PublishIsRecent
  /\ RequestIsLast
  /\ ReaderHoldsActive
  /\ OnePublishPerBlock

-----------------------------------------------------------------------------
\* The part that needs no bound on the latency.
LEMMA NextTimed == Timed /\ [BlocksNext]_blocksVars => Timed'
<1> SUFFICES ASSUME Timed, [BlocksNext]_blocksVars PROVE Timed'
  OBVIOUS
<1> USE DEF Timed, BlocksTypeOK, TimerFollowsRequest, blockVars
<1>1. CASE RestartDebounce
  BY <1>1 DEF RestartDebounce, StartTimer
<1>2. CASE DebounceElapses
  BY <1>2 DEF DebounceElapses
<1>3. CASE AdoptAsync
  BY <1>3 DEF AdoptAsync, AdoptAndPublish
<1>4. CASE FlushAndPublish
  BY <1>4 DEF FlushAndPublish, AdoptAndPublish
<1>5. CASE Tick
  BY <1>5 DEF Tick, AdvanceClocks
<1>6. CASE NextBlock
  <2>1. flushed' \in BOOLEAN
    BY <1>6, Zenon DEF NextBlock
  <2>2. /\ timer' \in 0..Debounce \cup {None}
        /\ request' \in 0..Latency \cup {None}
        /\ sinceRequest' \in 0..Debounce
        /\ timer' # None => timer' + sinceRequest' >= Debounce
    BY <1>6 DEF NextBlock, AdvanceClocks
  <2>3. active' \in 0..1 /\ held' = active' /\ blockAge' = 0 /\ publishes' = 0
    BY <1>6 DEF NextBlock, AdvanceClocks
  <2>4. blockAge' \in 0..(BlockTime - 1) /\ publishes' \in 0..2
    BY <2>3
  <2> QED
    BY <2>1, <2>2, <2>3, <2>4, Zenon
<1>7. CASE EndBlock
  BY <1>7 DEF EndBlock
<1>8. CASE UNCHANGED blocksVars
  BY <1>8 DEF blocksVars
<1> QED
  BY <1>1, <1>2, <1>3, <1>4, <1>5, <1>6, <1>7, <1>8 DEF BlocksNext

LEMMA InitTimed == BlocksInit => Timed
<1> SUFFICES ASSUME BlocksInit PROVE Timed
  OBVIOUS
<1>1. flushed \in BOOLEAN
  BY Zenon DEF BlocksInit
<1>2. timer = None /\ request = None /\ held = None
  BY DEF BlocksInit
<1>3. sinceRequest \in 0..Debounce /\ active \in 0..1 /\ publishes \in 0..2
  BY DEF BlocksInit
<1>4. blockAge \in 0..(BlockTime - 1)
  BY DEF BlocksInit
<1> QED
  BY <1>1, <1>2, <1>3, <1>4 DEF Timed, BlocksTypeOK, TimerFollowsRequest

\* Clocks stay in range: type correctness.
THEOREM BlocksTypeCorrectness == BlocksSpec => []BlocksTypeOK
<1>1. Timed => BlocksTypeOK
  BY DEF Timed
<1> QED
  BY <1>1, InitTimed, NextTimed, PTL DEF BlocksSpec

\* The debounce spaces requests by at least Debounce, for every latency.
THEOREM RequestsAreSpaced == BlocksSpec => RequestsSpaced
<1>1. Timed /\ DebounceElapses => sinceRequest = Debounce
  BY DEF Timed, BlocksTypeOK, TimerFollowsRequest, DebounceElapses
<1>2. Timed /\ [BlocksNext]_blocksVars => [DebounceElapses => sinceRequest = Debounce]_blocksVars
  BY <1>1
<1> QED
  BY <1>2, InitTimed, NextTimed, PTL DEF BlocksSpec, RequestsSpaced

-----------------------------------------------------------------------------
\* With designs that arrive soon enough, a second request cannot even be made
\* in the block of the first one's publish.
LEMMA NextBlocksInv ==
  ASSUME Latency + BlockTime <= Debounce
  PROVE  BlocksInv /\ [BlocksNext]_blocksVars => BlocksInv'
<1> SUFFICES ASSUME BlocksInv, [BlocksNext]_blocksVars PROVE BlocksInv'
  OBVIOUS
<1>0. Timed'
  BY NextTimed DEF BlocksInv
<1> USE <1>0 DEF BlocksInv, Timed, BlocksTypeOK, TimerFollowsRequest, PublishIsRecent,
                 RequestIsLast, ReaderHoldsActive, OnePublishPerBlock, blockVars
<1>1. CASE RestartDebounce
  BY <1>1 DEF RestartDebounce, StartTimer
<1>2. CASE DebounceElapses
  <2>1. flushed \/ publishes = 0
    BY <1>2 DEF DebounceElapses
  <2> QED
    BY <1>2, <2>1 DEF DebounceElapses
<1>3. CASE AdoptAsync
  <2>1. flushed \/ publishes = 0
    BY <1>3 DEF AdoptAsync
  <2>2. /\ UNCHANGED <<flushed, blockAge, sinceRequest, held>>
        /\ request' = None
    BY <1>3, Zenon DEF AdoptAsync
  <2>3. ~flushed => publishes' = 1
    BY <1>3, <2>1 DEF AdoptAsync, AdoptAndPublish
  <2>5. sinceRequest <= Latency
    BY <1>3 DEF AdoptAsync
  <2>6. PublishIsRecent' /\ RequestIsLast'
    BY <2>2, <2>3, <2>5
  <2>7. ReaderHoldsActive' /\ OnePublishPerBlock'
    BY <2>2, <2>3
  <2> QED
    BY <2>6, <2>7
<1>4. CASE FlushAndPublish
  BY <1>4 DEF FlushAndPublish, AdoptAndPublish
<1>5. CASE Tick
  BY <1>5 DEF Tick, AdvanceClocks
<1>6. CASE NextBlock
  BY <1>6 DEF NextBlock, AdvanceClocks
<1>7. CASE EndBlock
  BY <1>7 DEF EndBlock
<1>8. CASE UNCHANGED blocksVars
  BY <1>8 DEF blocksVars
<1> QED
  BY <1>1, <1>2, <1>3, <1>4, <1>5, <1>6, <1>7, <1>8 DEF BlocksNext

LEMMA InitBlocksInv == BlocksInit => BlocksInv
  BY InitTimed
  DEF BlocksInit, BlocksInv, PublishIsRecent, RequestIsLast, ReaderHoldsActive,
      OnePublishPerBlock

\* The contract holds whenever the slowest design still lands one block before
\* the debounce could elapse again.
THEOREM ContractHolds ==
  ASSUME Latency + BlockTime <= Debounce
  PROVE  BlocksSpec => []OnePublishPerBlock
<1>1. BlocksInv => OnePublishPerBlock
  BY DEF BlocksInv
<1> QED
  BY <1>1, InitBlocksInv, NextBlocksInv, PTL DEF BlocksSpec

\* Under the same bound a debounced rebuild never writes the matrix the audio
\* thread is reading.
THEOREM ReaderIsSafe ==
  ASSUME Latency + BlockTime <= Debounce
  PROVE  BlocksSpec => NoWriteUnderReader
<1>1. BlocksInv /\ AdoptAsync /\ ~flushed => held # FilledBuffer
  BY DEF BlocksInv, Timed, BlocksTypeOK, PublishIsRecent, ReaderHoldsActive, AdoptAsync,
         FilledBuffer
<1>2. BlocksInv /\ [BlocksNext]_blocksVars =>
        [AdoptAsync /\ ~flushed => held # FilledBuffer]_blocksVars
  BY <1>1
<1> QED
  BY <1>2, InitBlocksInv, NextBlocksInv, PTL DEF BlocksSpec, NoWriteUnderReader
=============================================================================
