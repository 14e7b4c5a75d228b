---------------------------- MODULE RvReAnalysis ----------------------------
(***************************************************************************)
(* From the speaker layout to the rV/rE map of the running decoder: the    *)
(* application shell composes DecoderRebuild with the analysis service     *)
(* (AppShell.cpp, RvReAnalysisService.h).                                  *)
(*                                                                         *)
(* The engine calls onDecoderRebuilt whenever it has published a decoder;  *)
(* the shell answers by submitting the adopted matrix and the layout the   *)
(* store has by then, which may be newer.  The service's thread analyses   *)
(* the pair submitted last and publishes it; the decoder tab polls what is *)
(* published, so the service's asynchronous update, to which nobody        *)
(* listens in this program, is left out.                                   *)
(*                                                                         *)
(* All handlers of the shell run on the message thread.  They are the      *)
(* engine's, one step each, except that the service's thread can see the   *)
(* middle of submit() and that the shell's destructor waits for it.        *)
(***************************************************************************)
EXTENDS DecoderRebuild

CONSTANT NoAnalysis        \* "hasPending is false", "published is null"

VARIABLES
  shell,                   \* what the shell is in the middle of
  queued,                  \* the service's inbox (pendingMatrix, pendingLayout)
  analysing,               \* run()'s local copy
  latest,                  \* the result latest() returns
  apc,                     \* where run() is
  wake                     \* the service's auto-reset event

analysisVars == <<shell, queued, analysing, latest, apc, wake>>
shellVars == <<vars, analysisVars>>

\* The store's version a matrix was designed from, and the one its layout is of.
Analyses == [matrix : Nat, layout : Nat]

ASSUME NoAnalysisAssumption == NoAnalysis \notin Analyses

\* Before the constructor's flush; free; between submit()'s lock and its
\* signal; joining the service; past it, with the engine still to go.
ShellPoints == {"starting", "running", "submitting", "closing", "closed"}

\* Points of run(): the outer loop test; wait (-1); the inner loop, about to
\* look into the inbox; inside runAnalysis(); returned or killed.
AnalysisPoints == {"loop", "wait", "drain", "analyse", "exited"}

ShellTypeOK ==
  /\ TypeOK
  /\ shell \in ShellPoints
  /\ {queued, analysing, latest} \subseteq Analyses \cup {NoAnalysis}
  /\ apc \in AnalysisPoints
  /\ wake \in BOOLEAN

\* The members are constructed and the callback is set; the engine published
\* its first decoder before there was one.
ShellInit ==
  /\ Init
  /\ shell = "starting"
  /\ queued = NoAnalysis
  /\ analysing = NoAnalysis
  /\ latest = NoAnalysis
  /\ apc = "loop"
  /\ wake = FALSE

-----------------------------------------------------------------------------
(* The shell (message thread). *)

\* Keeping the pair that waits.
SubmitAnalysisFirstWins(a) ==
  queued' = IF queued = NoAnalysis THEN a ELSE queued

\* submit(), its critical section.
SubmitAnalysis(a) == queued' = a

\* Calling back before the builder has adopted the new master.
OnDecoderRebuiltTooEarly(version) ==
  /\ SubmitAnalysis([matrix |-> published, layout |-> storeVersion])
  /\ shell' = "submitting"
  /\ UNCHANGED <<analysing, latest, apc, wake>>

\* The callback: the matrix just published, and the layout as the store has it.
OnDecoderRebuilt(version) ==
  /\ SubmitAnalysis([matrix |-> version, layout |-> storeVersion])
  /\ shell' = "submitting"
  /\ UNCHANGED <<analysing, latest, apc, wake>>

\* The wake.signal() at the end of submit(), after the lock is released.
SignalAnalysis ==
  /\ shell = "submitting"
  /\ wake' = TRUE
  /\ shell' = "running"
  /\ UNCHANGED <<vars, queued, analysing, latest, apc>>

\* The constructor's flush, which gives the map its first decoder.
StartShell ==
  /\ shell = "starting"
  /\ FlushDecoderRebuild
  /\ OnDecoderRebuilt(storeVersion)

\* The engine's handlers that publish nothing.
Edit == shell = "running" /\ EditDecoderInput /\ UNCHANGED analysisVars
Request == shell = "running" /\ TimerCallback /\ UNCHANGED analysisVars
Notified == shell = "running" /\ NotifyWorker /\ UNCHANGED analysisVars

\* Draining the worker's outbox calls back if it adopts.
CallBackIfAdopted ==
  IF completed # NoJob /\ ~IsStale(completed)
  THEN OnDecoderRebuilt(completed.version)
  ELSE UNCHANGED analysisVars

Deliver == shell = "running" /\ HandleAsyncUpdate /\ CallBackIfAdopted
DrainByHand == shell = "running" /\ FinishPendingAsyncRebuild /\ CallBackIfAdopted

\* The rebuild button, a project load, a test tone.
Flush == shell = "running" /\ FlushDecoderRebuild /\ OnDecoderRebuilt(storeVersion)

\* ~AppShell: the callback is dropped and, with the members declared after the
\* engine, the service is told to exit and woken.
CloseShell ==
  /\ shell = "running"
  /\ mpc = "idle"
  /\ shell' = "closing"
  /\ wake' = TRUE
  /\ UNCHANGED <<vars, queued, analysing, latest, apc>>

ServiceJoined ==
  /\ shell = "closing"
  /\ apc = "exited"
  /\ shell' = "closed"
  /\ UNCHANGED <<vars, queued, analysing, latest, apc, wake>>

\* The service's stopThread (2000) timed out.
ServiceKilled ==
  /\ shell = "closing"
  /\ apc # "exited"
  /\ apc' = "exited"
  /\ analysing' = NoAnalysis
  /\ UNCHANGED <<vars, shell, queued, latest, wake>>

\* The engine goes last of the three.
CloseEngine == shell = "closed" /\ BeginTeardown /\ UNCHANGED analysisVars
EngineJoined == EndTeardown /\ UNCHANGED analysisVars
EngineJoinTimesOut == JoinTimesOut /\ UNCHANGED analysisVars

-----------------------------------------------------------------------------
(* The service's thread: RvReAnalysisService::run. *)

Exiting == shell \in {"closing", "closed"}

\* Either loop test fails.
AnalysisReturn ==
  /\ apc \in {"loop", "drain"}
  /\ Exiting
  /\ apc' = "exited"
  /\ UNCHANGED <<shell, queued, analysing, latest, wake>>

\* Into wait (-1).
AnalysisPark ==
  /\ apc = "loop"
  /\ ~Exiting
  /\ apc' = "wait"
  /\ UNCHANGED <<shell, queued, analysing, latest, wake>>

\* wait (-1) returns and consumes the event.
AnalysisWake ==
  /\ apc = "wait"
  /\ wake
  /\ wake' = FALSE
  /\ apc' = "drain"
  /\ UNCHANGED <<shell, queued, analysing, latest>>

\* Critical section, something is pending: take it.
AnalysisTake ==
  /\ apc = "drain"
  /\ ~Exiting
  /\ queued # NoAnalysis
  /\ analysing' = queued
  /\ queued' = NoAnalysis
  /\ apc' = "analyse"
  /\ UNCHANGED <<shell, latest, wake>>

\* Critical section, nothing pending: leave the inner loop.
AnalysisDrained ==
  /\ apc = "drain"
  /\ ~Exiting
  /\ queued = NoAnalysis
  /\ apc' = "loop"
  /\ UNCHANGED <<shell, queued, analysing, latest, wake>>

\* runAnalysis() done: publish it, even if told to exit meanwhile, and look
\* into the inbox again.
AnalysisPublish ==
  /\ apc = "analyse"
  /\ latest' = analysing
  /\ analysing' = NoAnalysis
  /\ apc' = "drain"
  /\ UNCHANGED <<shell, queued, wake>>

AnalysisStep ==
  /\ \/ AnalysisReturn
     \/ AnalysisPark
     \/ AnalysisWake
     \/ AnalysisTake
     \/ AnalysisDrained
     \/ AnalysisPublish
  /\ UNCHANGED vars

EngineWorkerStep == WorkerStep /\ UNCHANGED analysisVars

ShellNext ==
  \/ StartShell
  \/ Edit
  \/ Request
  \/ Notified
  \/ Deliver
  \/ DrainByHand
  \/ Flush
  \/ SignalAnalysis
  \/ CloseShell
  \/ ServiceJoined
  \/ ServiceKilled
  \/ CloseEngine
  \/ EngineJoined
  \/ EngineJoinTimesOut
  \/ EngineWorkerStep
  \/ AnalysisStep

\* Both threads are scheduled, the message loop delivers timer callbacks and
\* posted updates, and a constructor, handler or destructor that has begun
\* goes on.
ShellFairness ==
  /\ WF_shellVars(EngineWorkerStep)
  /\ WF_shellVars(AnalysisStep)
  /\ WF_shellVars(Request)
  /\ WF_shellVars(Notified)
  /\ WF_shellVars(Deliver)
  /\ WF_shellVars(SignalAnalysis)
  /\ WF_shellVars(StartShell)
  /\ WF_shellVars(ServiceJoined)
  /\ WF_shellVars(CloseEngine)
  /\ WF_shellVars(EngineJoined)

ShellSafety == ShellInit /\ [][ShellNext]_shellVars
ShellSpec == ShellSafety /\ ShellFairness

-----------------------------------------------------------------------------
(* Properties. *)

\* Whenever an edit is neither waiting for the debounce nor being designed and
\* the service is parked, the map is of the layout in the store: its matrix
\* was designed for that layout and is drawn against it.  In between, a matrix
\* may be analysed against a newer layout.
SettledMapFits ==
  /\ shell = "running"
  /\ mpc = "idle"
  /\ ~timerArmed
  /\ ~inFlight
  /\ apc = "wait"
  /\ ~wake
  => latest = [matrix |-> storeVersion, layout |-> storeVersion]

\* What the map shows, 0 while there is none.
ShownVersion == IF latest = NoAnalysis THEN 0 ELSE latest.matrix

LWMap == INSTANCE LatestWins
           WITH source <- storeVersion, shown <- ShownVersion,
                open <- shell # "closed"

\* The two newest-wins stages in a row are one: the map never goes back to an
\* older layout and reaches the newest, unless the application is closed; and
\* nothing is published once the service is destroyed.
MapFollowsLayout == LWMap!LWSpec

\* ~AppShell ends, even when none of stopThread's timeouts strikes: both
\* threads leave their waits and loops when told to.
TeardownEnds == (shell = "closing") ~> (mpc = "gone")
=============================================================================
