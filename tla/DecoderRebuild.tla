--------------------------- MODULE DecoderRebuild ---------------------------
(***************************************************************************)
(* How an edit of the speaker layout or of the decoder options becomes a   *)
(* published decoder matrix (AudioEngine.cpp, DecoderRebuildWorker.h,      *)
(* DecoderMatrixBuilder.h).                                                *)
(*                                                                         *)
(* The message thread owns the store, the debounce timer, the generation   *)
(* counter and the builder; the worker (DesignWorker) designs.  The store  *)
(* is reduced to a version number: what matters is which version a design  *)
(* was computed from, and `published` is the version of the matrix behind  *)
(* the snapshot the audio thread acquires.                                 *)
(*                                                                         *)
(* A message-thread handler is one step, except where the worker can see   *)
(* its middle: submit() releases the lock before it calls notify(), and    *)
(* the destructor blocks in the join.                                      *)
(***************************************************************************)
EXTENDS DesignWorker

CONSTANTS
  MaxVersion,              \* bound: edits explored
  MaxFlushGeneration       \* bound: no flush from this generation on

ASSUME BoundsAssumption ==
  /\ MaxVersion \in Nat
  /\ MaxFlushGeneration \in Nat

VARIABLES
  storeVersion,            \* version of the decoder-relevant store contents
  timerArmed,              \* the 150 ms trailing-edge debounce is running
  generation,              \* rebuildGeneration
  inFlight,                \* rebuildInFlight, what the UI shows
  published,               \* version of the matrix last published
  mpc                      \* what the message thread is in the middle of

engineVars == <<storeVersion, timerArmed, generation, inFlight, published, mpc>>
vars == <<engineVars, workerVars>>

\* Points of the message thread: free to run the next message; between
\* submit()'s lock and its notify(); joining the worker in ~AudioEngine;
\* destroyed.
MessagePoints == {"idle", "submitted", "joining", "gone"}

Jobs == [gen : Nat, version : Nat]

ASSUME NoJobAssumption == NoJob \notin Jobs

\* Types, and: every job carries a generation already issued, every design and
\* the published matrix stem from a store version that existed.
TypeOK ==
  /\ WorkerTypeOK(Jobs)
  /\ storeVersion \in Nat
  /\ timerArmed \in BOOLEAN
  /\ generation \in Nat
  /\ inFlight \in BOOLEAN
  /\ published \in Nat
  /\ mpc \in MessagePoints
  /\ published <= storeVersion
  /\ \A j \in {pending, job, completed} :
       j # NoJob => j.gen <= generation /\ j.version <= storeVersion

\* End of the constructor: rebuildDecoderNow() published the initial layout
\* and the worker thread has been started.
Init ==
  /\ WorkerInit
  /\ storeVersion = 0
  /\ timerArmed = FALSE
  /\ generation = 0
  /\ inFlight = FALSE
  /\ published = 0
  /\ mpc = "idle"

-----------------------------------------------------------------------------
(* Message-thread handlers. *)

\* A write that valueTreePropertyChanged (or a speaker added or removed)
\* routes to markDecoderDirty(): (re)start the one-shot.
EditDecoderInput ==
  /\ mpc = "idle"
  /\ storeVersion < MaxVersion
  /\ storeVersion' = storeVersion + 1
  /\ timerArmed' = TRUE
  /\ UNCHANGED <<generation, inFlight, published, mpc, workerVars>>

\* timerCallback -> requestAsyncRebuild, up to the end of submit()'s critical
\* section.  The layout and the options are read here, on the message thread.
TimerCallback ==
  /\ mpc = "idle"
  /\ timerArmed
  /\ timerArmed' = FALSE
  /\ generation' = generation + 1
  /\ inFlight' = TRUE
  /\ SubmitLocked([gen |-> generation + 1, version |-> storeVersion])
  /\ mpc' = "submitted"
  /\ UNCHANGED <<storeVersion, published, completed, job, wpc, wakeEvent,
                 exitFlag, updatePending>>

\* The notify() at the end of submit(), after the lock is released.
NotifyWorker ==
  /\ mpc = "submitted"
  /\ Notify
  /\ mpc' = "idle"
  /\ UNCHANGED <<storeVersion, timerArmed, generation, inFlight, published,
                 pending, completed, busy, job, wpc, exitFlag, updatePending>>

\* Adopting whatever arrives, superseded or not.
IsStaleNever(result) == FALSE

\* gen != rebuildGeneration: superseded by a newer request or by a flush.
IsStale(result) == result.gen # generation

\* The body of handleAsyncUpdate, which finishPendingAsyncRebuild also calls:
\* take the result if there is one; drop it if superseded, else adopt and
\* publish it.
DrainCompleted ==
  IF completed = NoJob
  THEN UNCHANGED <<completed, inFlight, published>>
  ELSE /\ TakeCompleted
       /\ IF IsStale(completed)
          THEN UNCHANGED <<inFlight, published>>
          ELSE /\ published' = completed.version
               /\ inFlight' = FALSE

\* The AsyncUpdater's message: its flag is cleared before the handler runs.
HandleAsyncUpdate ==
  /\ mpc = "idle"
  /\ updatePending
  /\ updatePending' = FALSE
  /\ DrainCompleted
  /\ UNCHANGED <<storeVersion, timerArmed, generation, mpc, pending, busy, job,
                 wpc, wakeEvent, exitFlag>>

\* finishPendingAsyncRebuild: poll isBusy() until it reads FALSE or 15 s have
\* gone by, then drain in place; so it may drain whether or not busy.
FinishPendingAsyncRebuild ==
  /\ mpc = "idle"
  /\ DrainCompleted
  /\ UNCHANGED <<storeVersion, timerArmed, generation, mpc, pending, busy, job,
                 wpc, wakeEvent, exitFlag, updatePending>>

\* A flush that does not invalidate the design in flight.
FlushKeepsGeneration ==
  /\ mpc = "idle"
  /\ generation < MaxFlushGeneration
  /\ timerArmed' = FALSE
  /\ published' = storeVersion
  /\ inFlight' = FALSE
  /\ UNCHANGED <<storeVersion, generation, mpc, workerVars>>

\* flushDecoderRebuild: cancel the debounce, invalidate the design in flight,
\* design and publish synchronously.
FlushDecoderRebuild ==
  /\ mpc = "idle"
  /\ generation < MaxFlushGeneration
  /\ timerArmed' = FALSE
  /\ generation' = generation + 1
  /\ published' = storeVersion
  /\ inFlight' = FALSE
  /\ UNCHANGED <<storeVersion, mpc, workerVars>>

\* ~AudioEngine, up to the join: stopTimer(), then rebuildWorker.stop().
BeginTeardown ==
  /\ mpc = "idle"
  /\ timerArmed' = FALSE
  /\ SignalExit
  /\ mpc' = "joining"
  /\ UNCHANGED <<storeVersion, generation, inFlight, published, pending,
                 completed, busy, job, wpc, updatePending>>

\* Cancelling the pending update before the join instead of after it.
EndTeardownCancelsFirst ==
  /\ mpc = "joining"
  /\ updatePending' = FALSE
  /\ mpc' = "gone"
  /\ UNCHANGED <<storeVersion, timerArmed, generation, inFlight, published,
                 pending, completed, busy, job, wpc, wakeEvent, exitFlag>>

\* The worker is gone, so cancelPendingUpdate() is final.
EndTeardown ==
  /\ mpc = "joining"
  /\ wpc = "exited"
  /\ updatePending' = FALSE
  /\ mpc' = "gone"
  /\ UNCHANGED <<storeVersion, timerArmed, generation, inFlight, published,
                 pending, completed, busy, job, wpc, wakeEvent, exitFlag>>

\* stopThread (5000) timed out.
JoinTimesOut ==
  /\ mpc = "joining"
  /\ WorkerKilled
  /\ UNCHANGED engineVars

-----------------------------------------------------------------------------
WorkerStep == WorkerNext /\ UNCHANGED engineVars

Next ==
  \/ EditDecoderInput
  \/ TimerCallback
  \/ NotifyWorker
  \/ HandleAsyncUpdate
  \/ FinishPendingAsyncRebuild
  \/ FlushDecoderRebuild
  \/ BeginTeardown
  \/ EndTeardown
  \/ JoinTimesOut
  \/ WorkerStep

\* The thread is scheduled, the message loop delivers timer callbacks and
\* posted updates and runs each handler to its end.  Nobody has to edit,
\* flush, drain by hand or quit.
Fairness ==
  /\ WF_vars(WorkerStep)
  /\ WF_vars(TimerCallback)
  /\ WF_vars(NotifyWorker)
  /\ WF_vars(HandleAsyncUpdate)
  /\ WF_vars(EndTeardown)

Safety == Init /\ [][Next]_vars
Spec == Safety /\ Fairness

-----------------------------------------------------------------------------
(* Properties. *)

\* Nothing is left running once the destructor has begun.
Open == mpc \in {"idle", "submitted"}

\* The design that will be adopted if nothing supersedes it.
Outstanding(j) == j # NoJob /\ j.gen = generation

\* isBusy() is polled without the lock, by the UI and by waitUntilIdle: while
\* it reads FALSE no design is queued or running, whatever the order of the
\* submit, the take and the hand-off.
BusyCoversWork == ~busy => pending = NoJob /\ wpc # "design"

\* isDecoderRebuildInFlight() is TRUE exactly while a design that is still
\* wanted is queued, running, or waiting to be adopted: a discarded result
\* never leaves the indicator stuck, a superseded one never clears it.  With
\* BusyCoversWork this is what finishPendingAsyncRebuild relies on: when the
\* worker is idle, the result still wanted is in the outbox.
InFlightIsExact ==
  Open => (inFlight <=> \E j \in {pending, job, completed} : Outstanding(j))

\* A job waiting in the inbox is never slept on: a worker that is parked, or
\* about to park, has its event set, or the submitter is about to set it.
NoLostWakeup ==
  wpc \in {"parking", "wait"} /\ pending # NoJob =>
    wakeEvent \/ mpc = "submitted"

\* ~AudioEngine: once the destructor is past cancelPendingUpdate() no worker
\* step can post an update to the dead object.
NoCallbackAfterTeardown == mpc = "gone" => wpc = "exited" /\ ~updatePending

\* The published decoder never goes back to an older layout, in whatever
\* order requests, flushes, designs and deliveries interleave.
PublishedNeverRegresses == [][published' >= published]_vars

\* The pipeline seen from outside.
LW == INSTANCE LatestWins
        WITH source <- storeVersion, shown <- published, open <- Open

\* The whole pipeline implements LatestWins: safety, and that the last edit of
\* a drag reaches the audio thread unless the engine is destroyed first.
ImplementsLatestWins == LW!LWSpec
=============================================================================
