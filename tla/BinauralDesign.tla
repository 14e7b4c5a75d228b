--------------------------- MODULE BinauralDesign ---------------------------
(***************************************************************************)
(* How a choice of HRTF set becomes the filter bank the headphone monitor  *)
(* convolves with (XoaMonitoringEngine.h, BinauralDesignWorker.h,          *)
(* AmbiBinauralFilterBank.h).                                              *)
(*                                                                         *)
(* A selection stands for what resolveSofaFile() and the decoder mode give *)
(* together: the HRTF parameter, the mode and the project folder can each  *)
(* change it.  A key is a selection at a sample rate (requestedKey).  The  *)
(* SOFA load and the SH design run on the worker and may fail; which way a *)
(* job will go is drawn when it is submitted, which nobody can tell from   *)
(* drawing it when it ends.  A design is reduced to the key it was made    *)
(* for, a bank to that key and the block size it was cooked for.           *)
(***************************************************************************)
EXTENDS DesignWorker

CONSTANTS
  Selections,              \* resolved HRTF files, with a decoder mode
  Missing,                 \* those whose file does not exist
  Rates, BlockSizes,       \* what the device may open with
  MaxChanges,              \* bound: selection and device changes explored
  Nothing                  \* no device, no key, no design, empty bank

\* Block sizes, in samples, that cook() takes: it refuses fewer than 4, and the
\* callers would then publish an empty bank under the status "loaded".
Cookable == Nat \ 0..3

ASSUME SelectionAssumption ==
  /\ Missing \subseteq Selections
  /\ BlockSizes \subseteq Cookable    \* no device opens with fewer
  /\ Nothing \notin Rates \cup BlockSizes
  /\ MaxChanges \in Nat

VARIABLES
  selection,               \* what the store selects, resolved
  rate, block,             \* deviceSampleRate, deviceBlockSize
  requestedKey,            \* key of the last request that was not dropped
  designGeneration,
  currentDesign,           \* key of the design the bank is cooked from
  bank,                    \* the published handle
  status,                  \* statusMessage: its kind and the key it is about
  changes,                 \* selection and device changes so far (bound)
  mpc                      \* what the message thread is in the middle of

engineVars == <<selection, rate, block, requestedKey, designGeneration,
                currentDesign, bank, status, changes, mpc>>
vars == <<engineVars, workerVars>>

Keys == [selection : Selections, rate : Rates]
Jobs == [gen : Nat, key : Keys, loads : BOOLEAN]
Banks == [key : Keys, block : BlockSizes]
NoStatus == [kind |-> "none", key |-> Nothing]
Statuses == [kind : {"missing", "failed", "loaded"}, key : Keys]

ASSUME NothingAssumption ==
  /\ NoJob \notin Jobs
  /\ Nothing \notin Keys \cup Banks

TypeOK ==
  /\ WorkerTypeOK(Jobs)
  /\ selection \in Selections
  /\ rate \in Rates \cup {Nothing}
  /\ block \in BlockSizes \cup {Nothing}
  /\ (rate = Nothing) = (block = Nothing)
  /\ requestedKey \in Keys \cup {Nothing}
  /\ designGeneration \in Nat
  /\ currentDesign \in Keys \cup {Nothing}
  /\ bank \in Banks \cup {Nothing}
  /\ status \in Statuses \cup {NoStatus}
  /\ changes \in 0..MaxChanges
  /\ mpc \in {"idle", "submitted", "adopting", "joining", "gone"}
  /\ \A j \in {pending, job, completed} : j # NoJob => j.gen <= designGeneration

\* Constructed, no device yet: requests are ignored until prepareToPlay.
Init ==
  /\ WorkerInit
  /\ selection \in Selections
  /\ rate = Nothing
  /\ block = Nothing
  /\ requestedKey = Nothing
  /\ designGeneration = 0
  /\ currentDesign = Nothing
  /\ bank = Nothing
  /\ status = NoStatus
  /\ changes = 0
  /\ mpc = "idle"

-----------------------------------------------------------------------------
(* The filter bank. *)

\* Cooking with the block size on record, which deviceChanged has yet to update.
CookForOldBlock(design, size) ==
  bank' = [key |-> design,
           block |-> IF block = Nothing THEN size ELSE block]

\* cook() + publish(); every size is Cookable, so cook() never refuses.
CookAndPublish(design, size) == bank' = [key |-> design, block |-> size]

\* publishEmpty(): the monitor renders silence.
PublishEmpty == bank' = Nothing

-----------------------------------------------------------------------------
(* requestDesign (force is never passed by its callers). *)

RequestDropped(key) ==
  /\ key = requestedKey
  /\ mpc' = mpc
  /\ UNCHANGED <<requestedKey, designGeneration, currentDesign, bank, status,
                 pending, busy>>

\* The set is not there: say so, fall silent, remember the key.
RequestMissing(key) ==
  /\ key # requestedKey
  /\ key.selection \in Missing
  /\ requestedKey' = key
  /\ status' = [kind |-> "missing", key |-> key]
  /\ currentDesign' = Nothing
  /\ PublishEmpty
  /\ mpc' = mpc
  /\ UNCHANGED <<designGeneration, pending, busy>>

\* Hand the key to the worker, up to the end of submit()'s critical section.
RequestSubmitted(key) ==
  /\ key # requestedKey
  /\ key.selection \notin Missing
  /\ requestedKey' = key
  /\ designGeneration' = designGeneration + 1
  /\ \E ok \in BOOLEAN :
       SubmitLocked([gen |-> designGeneration + 1, key |-> key, loads |-> ok])
  /\ mpc' = "submitted"
  /\ UNCHANGED <<currentDesign, bank, status>>

RequestDesign(key) ==
  RequestDropped(key) \/ RequestMissing(key) \/ RequestSubmitted(key)

-----------------------------------------------------------------------------
(* Message-thread handlers. *)

\* binauralSofaFile, binauralDecoderMode or the project folder changed.
SelectHrtf(s) ==
  /\ mpc = "idle"
  /\ changes < MaxChanges
  /\ changes' = changes + 1
  /\ selection' = s
  /\ IF rate = Nothing
     THEN UNCHANGED <<requestedKey, designGeneration, currentDesign, bank,
                      status, pending, busy, mpc>>
     ELSE RequestDesign([selection |-> s, rate |-> rate])
  /\ UNCHANGED <<rate, block, completed, job, wpc, wakeEvent, exitFlag,
                 updatePending>>

\* prepareToPlay -> deviceChanged: a moved rate, or no valid design, asks for
\* a new one; otherwise the current one is cooked again for the block size.
DeviceChanged(r, b) ==
  /\ mpc = "idle"
  /\ changes < MaxChanges
  /\ changes' = changes + 1
  /\ rate' = r
  /\ block' = b
  /\ IF r # rate \/ currentDesign = Nothing
     THEN RequestDesign([selection |-> selection, rate |-> r])
     ELSE /\ CookAndPublish(currentDesign, b)
          /\ UNCHANGED <<requestedKey, designGeneration, currentDesign, status,
                         pending, busy, mpc>>
  /\ UNCHANGED <<selection, completed, job, wpc, wakeEvent, exitFlag,
                 updatePending>>

\* The notify() that ends submit().
NotifyWorker ==
  /\ mpc = "submitted"
  /\ Notify
  /\ mpc' = "idle"
  /\ UNCHANGED <<selection, rate, block, requestedKey, designGeneration,
                 currentDesign, bank, status, changes, pending, completed, busy,
                 job, wpc, exitFlag, updatePending>>

\* Adopting whatever arrives.
IsStaleNever(result) == FALSE

\* result.generation != designGeneration.
IsStale(result) == result.gen # designGeneration

\* Reporting a failed load and keeping the previous bank.
AdoptFailedKeepsBank(result) ==
  /\ ~result.loads
  /\ status' = [kind |-> "failed", key |-> result.key]
  /\ currentDesign' = Nothing
  /\ UNCHANGED bank

\* A failed load or an invalid design silences the monitor.
AdoptFailed(result) ==
  /\ ~result.loads
  /\ status' = [kind |-> "failed", key |-> result.key]
  /\ currentDesign' = Nothing
  /\ PublishEmpty

\* A design is cooked for the block size of now, not of the request.
AdoptLoaded(result) ==
  /\ result.loads
  /\ status' = [kind |-> "loaded", key |-> result.key]
  /\ currentDesign' = result.key
  /\ CookAndPublish(result.key, block)

\* handleAsyncUpdate: the AsyncUpdater clears its flag and calls in.
HandleAsyncUpdate ==
  /\ mpc = "idle"
  /\ updatePending
  /\ updatePending' = FALSE
  /\ mpc' = "adopting"
  /\ UNCHANGED <<selection, rate, block, requestedKey, designGeneration,
                 currentDesign, bank, status, changes, pending, completed, busy,
                 job, wpc, wakeEvent, exitFlag>>

\* One turn of adoptCompletedDesign's loop; the worker may refill the outbox
\* between two turns.
AdoptCompletedDesign ==
  /\ mpc = "adopting"
  /\ IF completed = NoJob
     THEN /\ mpc' = "idle"
          /\ UNCHANGED <<completed, status, currentDesign, bank>>
     ELSE /\ TakeCompleted
          /\ mpc' = mpc
          /\ IF IsStale(completed)
             THEN UNCHANGED <<status, currentDesign, bank>>
             ELSE AdoptFailed(completed) \/ AdoptLoaded(completed)
  /\ UNCHANGED <<selection, rate, block, requestedKey, designGeneration,
                 changes, pending, busy, job, wpc, wakeEvent, exitFlag,
                 updatePending>>

\* ~XoaMonitoringEngine: designWorker.stop(), then cancelPendingUpdate().
BeginTeardown ==
  /\ mpc = "idle"
  /\ SignalExit
  /\ mpc' = "joining"
  /\ UNCHANGED <<selection, rate, block, requestedKey, designGeneration,
                 currentDesign, bank, status, changes, pending, completed,
                 busy, job, wpc, updatePending>>

\* The join is over: cancelPendingUpdate() and the object goes.
EndTeardown ==
  /\ mpc = "joining"
  /\ wpc = "exited"
  /\ updatePending' = FALSE
  /\ mpc' = "gone"
  /\ UNCHANGED <<selection, rate, block, requestedKey, designGeneration,
                 currentDesign, bank, status, changes, pending, completed,
                 busy, job, wpc, wakeEvent, exitFlag>>

\* stopThread (5000) timed out.
JoinTimesOut ==
  /\ mpc = "joining"
  /\ WorkerKilled
  /\ UNCHANGED engineVars

-----------------------------------------------------------------------------
WorkerStep == WorkerNext /\ UNCHANGED engineVars

Next ==
  \/ \E s \in Selections : SelectHrtf(s)
  \/ \E r \in Rates, b \in BlockSizes : DeviceChanged(r, b)
  \/ NotifyWorker
  \/ HandleAsyncUpdate
  \/ AdoptCompletedDesign
  \/ BeginTeardown
  \/ EndTeardown
  \/ JoinTimesOut
  \/ WorkerStep

\* The thread is scheduled and the message loop runs what is posted to it;
\* nobody has to select, reconfigure or quit.
Fairness ==
  /\ WF_vars(WorkerStep)
  /\ WF_vars(NotifyWorker)
  /\ WF_vars(HandleAsyncUpdate)
  /\ WF_vars(AdoptCompletedDesign)

Safety == Init /\ [][Next]_vars
Spec == Safety /\ Fairness

-----------------------------------------------------------------------------
(* Properties. *)

Open == mpc \in {"idle", "submitted", "adopting"}

\* What the store and the device ask for now.
WantedKey == [selection |-> selection, rate |-> rate]

\* Nothing queued, running, or waiting to be adopted.
Settled ==
  /\ mpc = "idle"
  /\ pending = NoJob
  /\ job = NoJob
  /\ completed = NoJob

\* The status line the user reads and the bank the user hears agree in every
\* state, through failed loads, missing files, re-cooks and stale results.
StatusMatchesBank ==
  IF status.kind = "loaded"
  THEN bank # Nothing /\ bank.key = status.key /\ currentDesign = status.key
  ELSE bank = Nothing /\ currentDesign = Nothing

\* Once everything has come to rest on a set that exists, the monitor plays
\* that set, at the device's rate and cooked for its block size, or the status
\* says that this very set failed to load.
SettledPlaysSelection ==
  Settled /\ rate # Nothing /\ selection \notin Missing =>
    /\ status.key = WantedKey
    /\ status.kind = "loaded" => bank = [key |-> WantedKey, block |-> block]

\* The same of a set whose file does not exist: it is reported missing and the
\* monitor is silent.  ("Stale generations are discarded", of the designs that
\* were still running when the missing set was selected.)
SettledReportsMissing ==
  Settled /\ rate # Nothing /\ selection \in Missing =>
    status = [kind |-> "missing", key |-> WantedKey]

\* A design is adopted only while it is the one asked for last, or while the
\* last selection had no file to ask for.
AdoptsOnlyRequested ==
  [][currentDesign' \notin {currentDesign, Nothing} =>
       \/ currentDesign' = requestedKey
       \/ requestedKey.selection \in Missing]_vars

\* No update can be posted to the engine once its destructor has finished.
NoCallbackAfterTeardown == mpc = "gone" => wpc = "exited" /\ ~updatePending

\* Every selection of a set that exists is answered: its outcome reaches the
\* status line unless the selection or the rate moves on, or the engine goes
\* away, first.
SelectionAnswered ==
  \A k \in Keys :
    k.selection \notin Missing =>
      ((Open /\ WantedKey = k) ~> (status.key = k \/ WantedKey # k \/ ~Open))
=============================================================================
