---------------------------- MODULE DesignWorker ----------------------------
(***************************************************************************)
(* The background design thread shared, line for line, by                  *)
(* DecoderRebuildWorker (Source/Audio/DecoderRebuildWorker.h) and          *)
(* BinauralDesignWorker (Source/Audio/BinauralDesignWorker.h).             *)
(*                                                                         *)
(* One persistent thread, one pending slot, latest wins: a job submitted   *)
(* while another is being designed replaces the pending one, and a result  *)
(* that nobody took is overwritten by the next.  Both ends of the hand-off *)
(* are short critical sections on one lock, so each is one step here; what *)
(* lies between two critical sections (the design itself, the wait, the    *)
(* completion callback) is a step of its own.                              *)
(*                                                                         *)
(* The owner is a juce::AsyncUpdater: the worker's callback only raises    *)
(* `updatePending`, and the message thread later runs handleAsyncUpdate.   *)
(* The owner's modules EXTEND this one and give the jobs their shape.      *)
(***************************************************************************)
EXTENDS Naturals

CONSTANT NoJob             \* "hasPending/hasCompleted is false"

VARIABLES
  pending,                 \* the one-slot inbox (pending, hasPending)
  completed,               \* the one-slot outbox (completed, hasCompleted)
  busy,                    \* std::atomic<bool> busy, read without the lock
  job,                     \* run()'s local copy of the job it is designing
  wpc,                     \* where run() is
  wakeEvent,               \* juce::Thread's auto-reset event behind notify/wait
  exitFlag,                \* threadShouldExit()
  updatePending            \* the owner's AsyncUpdater has a message in flight

workerVars == <<pending, completed, busy, job, wpc, wakeEvent, exitFlag,
                updatePending>>

\* Points of run(): the top of the loop; past the critical section with nothing
\* to do; parked in wait (-1); inside design(); past the locked hand-off, about
\* to call notifyReady; returned or killed.
WorkerPoints == {"loop", "parking", "wait", "design", "notify", "exited"}

WorkerTypeOK(Jobs) ==
  /\ pending \in Jobs \cup {NoJob}
  /\ completed \in Jobs \cup {NoJob}
  /\ job \in Jobs \cup {NoJob}
  /\ wpc \in WorkerPoints
  /\ busy \in BOOLEAN
  /\ wakeEvent \in BOOLEAN
  /\ exitFlag \in BOOLEAN
  /\ updatePending \in BOOLEAN

WorkerInit ==
  /\ pending = NoJob
  /\ completed = NoJob
  /\ job = NoJob
  /\ wpc = "loop"
  /\ busy = FALSE
  /\ wakeEvent = FALSE
  /\ exitFlag = FALSE
  /\ updatePending = FALSE

-----------------------------------------------------------------------------
(* The owner's side (message thread). *)

\* submit(), its critical section.  The notify() that follows it outside the
\* lock is Notify.
SubmitLocked(j) ==
  /\ pending' = j
  /\ busy' = TRUE

\* juce::Thread::notify: signal the thread's auto-reset event.
Notify == wakeEvent' = TRUE

\* takeCompleted() when there is something to take.
TakeCompleted == completed' = NoJob

\* Raising the flag without waking the parked thread.
SignalExitSilently ==
  /\ exitFlag' = TRUE
  /\ UNCHANGED wakeEvent

\* stop(), up to the join: the exit flag and the wake-up.
SignalExit ==
  /\ exitFlag' = TRUE
  /\ wakeEvent' = TRUE

-----------------------------------------------------------------------------
(* The thread's side: DecoderRebuildWorker::run. *)

\* Loop test fails, return.
WorkerReturn ==
  /\ wpc = "loop"
  /\ exitFlag
  /\ wpc' = "exited"
  /\ UNCHANGED <<pending, completed, busy, job, wakeEvent, exitFlag,
                 updatePending>>

\* Critical section, something is pending: take it.
WorkerTake ==
  /\ wpc = "loop"
  /\ ~exitFlag
  /\ pending # NoJob
  /\ job' = pending
  /\ pending' = NoJob
  /\ wpc' = "design"
  /\ UNCHANGED <<completed, busy, wakeEvent, exitFlag, updatePending>>

\* Critical section, nothing pending: not busy, about to wait.
WorkerIdle ==
  /\ wpc = "loop"
  /\ ~exitFlag
  /\ pending = NoJob
  /\ busy' = FALSE
  /\ wpc' = "parking"
  /\ UNCHANGED <<pending, completed, job, wakeEvent, exitFlag, updatePending>>

\* Clearing the event on the way into wait() would swallow a notify that came
\* between the critical section and the wait.
WorkerParkResetsEvent ==
  /\ wpc = "parking"
  /\ wpc' = "wait"
  /\ wakeEvent' = FALSE
  /\ UNCHANGED <<pending, completed, busy, job, exitFlag, updatePending>>

\* Into wait (-1); a signal that came first is kept by the event.
WorkerPark ==
  /\ wpc = "parking"
  /\ wpc' = "wait"
  /\ UNCHANGED <<pending, completed, busy, job, wakeEvent, exitFlag,
                 updatePending>>

\* wait (-1) returns and consumes the event.
WorkerWake ==
  /\ wpc = "wait"
  /\ wakeEvent
  /\ wakeEvent' = FALSE
  /\ wpc' = "loop"
  /\ UNCHANGED <<pending, completed, busy, job, exitFlag, updatePending>>

\* design() ran to its end but the thread was told to exit meanwhile.
WorkerAbandon ==
  /\ wpc = "design"
  /\ exitFlag
  /\ job' = NoJob
  /\ wpc' = "exited"
  /\ UNCHANGED <<pending, completed, busy, wakeEvent, exitFlag, updatePending>>

\* Forgetting that a newer job may have been queued during the design.
WorkerFinishForgetsPending ==
  /\ wpc = "design"
  /\ ~exitFlag
  /\ completed' = job
  /\ job' = NoJob
  /\ busy' = FALSE
  /\ wpc' = "notify"
  /\ UNCHANGED <<pending, wakeEvent, exitFlag, updatePending>>

\* design() done; critical section: hand the result over, stay busy only if a
\* newer job was queued during the design.
WorkerFinish ==
  /\ wpc = "design"
  /\ ~exitFlag
  /\ completed' = job
  /\ job' = NoJob
  /\ busy' = (pending # NoJob)
  /\ wpc' = "notify"
  /\ UNCHANGED <<pending, wakeEvent, exitFlag, updatePending>>

\* notifyReady(): the owner's triggerAsyncUpdate, on the worker thread.
WorkerNotifyReady ==
  /\ wpc = "notify"
  /\ updatePending' = TRUE
  /\ wpc' = "loop"
  /\ UNCHANGED <<pending, completed, busy, job, wakeEvent, exitFlag>>

WorkerNext ==
  \/ WorkerReturn
  \/ WorkerTake
  \/ WorkerIdle
  \/ WorkerPark
  \/ WorkerWake
  \/ WorkerAbandon
  \/ WorkerFinish
  \/ WorkerNotifyReady

\* stopThread (5000) gave up waiting and killed the thread where it stood.
WorkerKilled ==
  /\ wpc # "exited"
  /\ wpc' = "exited"
  /\ job' = NoJob
  /\ UNCHANGED <<pending, completed, busy, wakeEvent, exitFlag, updatePending>>
=============================================================================
