----------------------- MODULE BinauralDesign_proofs -----------------------
(***************************************************************************)
(* Proofs about BinauralDesign, for any number of HRTF sets, rates, block  *)
(* sizes and changes.                                                      *)
(*                                                                         *)
(* What is heard once everything is at rest is an invariant only together  *)
(* with what is still under way: a request is answered, or its job is in   *)
(* one of the three places a job can be in.  The generations keep those    *)
(* three apart.                                                            *)
(***************************************************************************)
EXTENDS BinauralDesign, TLAPS

\* The design that will be adopted if nothing supersedes it.
Wanted(j) == j # NoJob /\ j.gen = designGeneration

UnderWay == \E j \in {pending, job, completed} : Wanted(j)

\* A job exists exactly in the points where run() holds one, and the thread
\* ends only when told to.
WorkerShape ==
  /\ wpc = "design" <=> job # NoJob
  /\ wpc = "exited" => exitFlag
  /\ exitFlag <=> ~Open

\* Outbox before the design being computed before the inbox.
GenerationsOrdered ==
  /\ completed # NoJob /\ job # NoJob => completed.gen < job.gen
  /\ job # NoJob /\ pending # NoJob => job.gen < pending.gen
  /\ completed # NoJob /\ pending # NoJob => completed.gen < pending.gen

\* A job still wanted is for the key requested last, unless a missing set was
\* selected after it.
WantedIsRequested ==
  \A j \in {pending, job, completed} :
    Wanted(j) => j.key = requestedKey \/ requestedKey.selection \in Missing

\* The key requested last is the one the store and the device ask for.
KeyFollowsStore ==
  IF rate = Nothing THEN requestedKey = Nothing ELSE requestedKey = WantedKey

\* Nothing is requested before there is a device.
JobsNeedDevice == rate = Nothing => pending = NoJob /\ job = NoJob /\ completed = NoJob

\* A request for a set that exists is under way or answered; its bank, if
\* it has one, is cooked for the block size of now.
Answered ==
  Open /\ rate # Nothing /\ selection \notin Missing /\ ~UnderWay =>
    /\ status.key = WantedKey
    /\ bank # Nothing => bank.block = block

BInv ==
  /\ TypeOK
  /\ WorkerShape
  /\ GenerationsOrdered
  /\ WantedIsRequested
  /\ KeyFollowsStore
  /\ JobsNeedDevice
  /\ Answered
  /\ StatusMatchesBank
  /\ NoCallbackAfterTeardown

USE DEF WorkerPoints

-----------------------------------------------------------------------------
\* The invariant holds when the engine is constructed.
LEMMA InitBInv == Init => BInv
<1> SUFFICES ASSUME Init PROVE BInv
  OBVIOUS
<1> USE DEF Init, WorkerInit
<1>1. TypeOK
  <2>1. WorkerTypeOK(Jobs)
    BY Zenon DEF WorkerTypeOK
  <2>2. \A j \in {pending, job, completed} : j # NoJob => j.gen <= designGeneration
    BY Zenon
  <2>3. designGeneration \in Nat /\ changes \in 0..MaxChanges
    BY SelectionAssumption
  <2>4. /\ selection \in Selections
        /\ rate \in Rates \cup {Nothing}
        /\ block \in BlockSizes \cup {Nothing}
        /\ (rate = Nothing) = (block = Nothing)
        /\ requestedKey \in Keys \cup {Nothing}
        /\ currentDesign \in Keys \cup {Nothing}
        /\ bank \in Banks \cup {Nothing}
        /\ status \in Statuses \cup {NoStatus}
        /\ mpc \in {"idle", "submitted", "adopting", "joining", "gone"}
    BY Zenon
  <2> QED
    BY <2>1, <2>2, <2>3, <2>4 DEF TypeOK
<1>2. WorkerShape /\ GenerationsOrdered
  BY Zenon DEF WorkerShape, GenerationsOrdered, Open
<1>3. WantedIsRequested /\ KeyFollowsStore /\ JobsNeedDevice
  BY Zenon DEF WantedIsRequested, Wanted, KeyFollowsStore, JobsNeedDevice
<1>4. Answered
  BY Zenon DEF Answered
<1>5. StatusMatchesBank
  BY DEF StatusMatchesBank, NoStatus
<1>6. NoCallbackAfterTeardown
  BY Zenon DEF NoCallbackAfterTeardown
<1> QED
  BY <1>1, <1>2, <1>3, <1>4, <1>5, <1>6 DEF BInv

\* Without a current design there is no bank.
LEMMA NoDesignNoBank ==
  ASSUME BInv, currentDesign = Nothing
  PROVE  bank = Nothing
<1>1. status.kind = "loaded" => status.key \in Keys
  BY DEF BInv, TypeOK, Statuses, NoStatus
<1>2. status.kind = "loaded" => status.key # Nothing
  BY <1>1, NothingAssumption
<1> QED
  BY <1>2 DEF BInv, StatusMatchesBank

\* requestDesign, from either of its callers: the selection, the rate and the
\* block size are those of after the call, and a block size that changed at an
\* unchanged rate found nothing to re-cook.
LEMMA RequestBInv ==
  ASSUME BInv, mpc = "idle",
         selection' \in Selections, rate' \in Rates, block' \in BlockSizes,
         block' = block \/ rate' # rate \/ currentDesign = Nothing,
         RequestDesign([selection |-> selection', rate |-> rate']),
         changes' \in 0..MaxChanges,
         UNCHANGED <<completed, job, wpc, wakeEvent, exitFlag, updatePending>>
  PROVE  BInv'
<1> DEFINE key == [selection |-> selection', rate |-> rate']
<1>1. /\ key \in Keys
      /\ key # Nothing
      /\ key = WantedKey'
      /\ key.selection = selection'
      /\ rate' # Nothing
      /\ block' # Nothing
  BY SelectionAssumption, NothingAssumption DEF Keys, WantedKey
<1> HIDE DEF key
<1>2. RequestDropped(key) \/ RequestMissing(key) \/ RequestSubmitted(key)
  BY DEF RequestDesign, key
<1>3. /\ selection' \in Selections
      /\ rate' \in Rates \cup {Nothing}
      /\ block' \in BlockSizes \cup {Nothing}
      /\ (rate' = Nothing) = (block' = Nothing)
      /\ changes' \in 0..MaxChanges
  BY <1>1, Zenon
<1>4. NoCallbackAfterTeardown' /\ WorkerShape' /\ JobsNeedDevice'
  <2>1. mpc' \in {"idle", "submitted"}
    BY <1>2 DEF RequestDropped, RequestMissing, RequestSubmitted
  <2> QED
    BY <1>1, <2>1 DEF BInv, NoCallbackAfterTeardown, WorkerShape, Open,
                      JobsNeedDevice
<1>5. CASE RequestDropped(key)
  <2> USE <1>5 DEF RequestDropped
  <2>1. /\ requestedKey = key
        /\ UNCHANGED <<requestedKey, designGeneration, currentDesign, bank,
                       status, pending, busy, mpc>>
    OBVIOUS
  <2>2. rate # Nothing /\ WantedKey = key
    BY <1>1, <2>1 DEF BInv, KeyFollowsStore
  <2>3. rate' = rate /\ selection' = selection
    BY <1>1, <2>2 DEF WantedKey
  <2>4. TypeOK'
    BY <2>1, <1>3, ZenonT(40) DEF BInv, TypeOK, WorkerTypeOK
  <2>5. (GenerationsOrdered /\ WantedIsRequested /\ StatusMatchesBank)'
    BY <2>1 DEF BInv, GenerationsOrdered, WantedIsRequested, Wanted,
                StatusMatchesBank
  <2>6. KeyFollowsStore'
    BY <1>1, <2>1 DEF KeyFollowsStore
  <2>7. Answered'
    <3>1. bank # Nothing => block' = block
      BY <2>3, NoDesignNoBank
    <3>2. UnderWay' = UnderWay /\ Open' = Open
      BY <2>1 DEF UnderWay, Wanted, Open
    <3> QED
      BY <2>1, <2>3, <3>1, <3>2 DEF BInv, Answered, WantedKey
  <2> QED
    BY <1>4, <2>4, <2>5, <2>6, <2>7 DEF BInv
<1>6. CASE RequestMissing(key)
  <2>1. /\ key.selection \in Missing
        /\ requestedKey' = key
        /\ status' = [kind |-> "missing", key |-> key]
        /\ currentDesign' = Nothing
        /\ bank' = Nothing
        /\ UNCHANGED <<mpc, designGeneration, pending, busy>>
    BY <1>6 DEF RequestMissing, PublishEmpty
  <2>2. status' \in Statuses
    BY <1>1, <2>1 DEF Statuses
  <2>3. TypeOK'
    BY <1>1, <1>3, <2>1, <2>2, ZenonT(40) DEF BInv, TypeOK, WorkerTypeOK
  <2>4. (GenerationsOrdered /\ WantedIsRequested /\ StatusMatchesBank)'
    BY <2>1 DEF BInv, GenerationsOrdered, WantedIsRequested, Wanted,
                StatusMatchesBank
  <2>5. KeyFollowsStore'
    BY <1>1, <2>1 DEF KeyFollowsStore
  <2>6. Answered'
    BY <1>1, <2>1 DEF Answered
  <2> QED
    BY <1>4, <2>3, <2>4, <2>5, <2>6 DEF BInv
<1>7. CASE RequestSubmitted(key)
  <2>1. PICK ok \in BOOLEAN :
          SubmitLocked([gen |-> designGeneration + 1, key |-> key, loads |-> ok])
    BY <1>7 DEF RequestSubmitted
  <2> DEFINE new == [gen |-> designGeneration + 1, key |-> key, loads |-> ok]
  <2>2. designGeneration \in Nat
    BY DEF BInv, TypeOK
  <2>3. new.gen = designGeneration + 1 /\ new.key = key
    OBVIOUS
  <2>4. new \in Jobs
    <3>1. designGeneration + 1 \in Nat
      BY <2>2
    <3> QED
      BY <1>1, <3>1, Zenon DEF Jobs
  <2>5. new # NoJob
    BY <2>4, NothingAssumption
  <2>6. /\ pending' = new
        /\ busy' = TRUE
        /\ requestedKey' = key
        /\ designGeneration' = designGeneration + 1
        /\ mpc' = "submitted"
        /\ UNCHANGED <<currentDesign, bank, status>>
    BY <1>7, <2>1 DEF RequestSubmitted, SubmitLocked
  <2> HIDE DEF new
  <2>7. \A j \in {pending, job, completed} :
          j # NoJob => j.gen \in Nat /\ j.gen <= designGeneration
    BY DEF BInv, TypeOK, WorkerTypeOK, Jobs
  <2>8. TypeOK'
    <3>1. WorkerTypeOK(Jobs)'
      BY <2>4, <2>6, Zenon DEF BInv, TypeOK, WorkerTypeOK
    <3>2. designGeneration' \in Nat
      BY <2>2, <2>6
    <3>3. \A j \in {pending', job', completed'} :
            j # NoJob => j.gen <= designGeneration'
      BY <2>2, <2>3, <2>6, <2>7
    <3>4. /\ requestedKey' \in Keys \cup {Nothing}
          /\ currentDesign' \in Keys \cup {Nothing}
          /\ bank' \in Banks \cup {Nothing}
          /\ status' \in Statuses \cup {NoStatus}
          /\ mpc' \in {"idle", "submitted", "adopting", "joining", "gone"}
      BY <1>1, <2>6, Zenon DEF BInv, TypeOK
    <3> QED
      BY <1>3, <3>1, <3>2, <3>3, <3>4, Zenon DEF TypeOK
  <2>9. GenerationsOrdered'
    BY <2>2, <2>3, <2>5, <2>6, <2>7 DEF BInv, GenerationsOrdered
  <2>10. WantedIsRequested'
    BY <2>2, <2>3, <2>5, <2>6, <2>7 DEF WantedIsRequested, Wanted
  <2>11. (KeyFollowsStore /\ StatusMatchesBank)'
    BY <1>1, <2>6 DEF BInv, KeyFollowsStore, StatusMatchesBank
  <2>12. Answered'
    BY <2>3, <2>5, <2>6 DEF Answered, UnderWay, Wanted
  <2> QED
    BY <1>4, <2>8, <2>9, <2>10, <2>11, <2>12 DEF BInv
<1> QED
  BY <1>2, <1>5, <1>6, <1>7

\* Types are kept by a step that moves jobs about but requests and adopts none.
LEMMA TypeFrame ==
  ASSUME TypeOK, WorkerTypeOK(Jobs)',
         selection' \in Selections,
         rate' \in Rates \cup {Nothing},
         block' \in BlockSizes \cup {Nothing},
         (rate' = Nothing) = (block' = Nothing),
         bank' \in Banks \cup {Nothing},
         changes' \in 0..MaxChanges,
         mpc' \in {"idle", "submitted", "adopting", "joining", "gone"},
         UNCHANGED <<requestedKey, designGeneration, currentDesign, status>>,
         \A j \in {pending', job', completed'} :
           j \in {pending, job, completed, NoJob}
  PROVE  TypeOK'
<1>1. \A j \in {pending', job', completed'} :
        j # NoJob => j.gen <= designGeneration'
  BY DEF TypeOK
<1>2. /\ requestedKey' \in Keys \cup {Nothing}
      /\ designGeneration' \in Nat
      /\ currentDesign' \in Keys \cup {Nothing}
      /\ status' \in Statuses \cup {NoStatus}
  BY DEF TypeOK
<1> QED
  BY <1>1, <1>2, Zenon DEF TypeOK

\* The same where nothing of the engine but its program counter changes.
LEMMA EngineFrame ==
  ASSUME TypeOK, WorkerTypeOK(Jobs)',
         mpc' \in {"idle", "submitted", "adopting", "joining", "gone"},
         UNCHANGED <<selection, rate, block, requestedKey, designGeneration,
                     currentDesign, bank, status, changes>>,
         \A j \in {pending', job', completed'} :
           j \in {pending, job, completed, NoJob}
  PROVE  TypeOK'
<1>1. /\ selection' \in Selections
      /\ rate' \in Rates \cup {Nothing}
      /\ block' \in BlockSizes \cup {Nothing}
      /\ (rate' = Nothing) = (block' = Nothing)
      /\ bank' \in Banks \cup {Nothing}
      /\ changes' \in 0..MaxChanges
  BY DEF TypeOK
<1> QED
  BY <1>1, TypeFrame

\* One turn of the adoption loop: nothing there, a stale result dropped, or
\* the wanted result adopted.
LEMMA AdoptBInv == BInv /\ AdoptCompletedDesign => BInv'
<1> SUFFICES ASSUME BInv, AdoptCompletedDesign PROVE BInv'
  OBVIOUS
<1>1. /\ mpc = "adopting"
      /\ UNCHANGED <<selection, rate, block, requestedKey, designGeneration,
                     changes, pending, busy, job, wpc, wakeEvent, exitFlag,
                     updatePending>>
  BY DEF AdoptCompletedDesign
<1>2. CASE completed = NoJob
  <2>1. mpc' = "idle" /\ UNCHANGED <<completed, status, currentDesign, bank>>
    BY <1>2 DEF AdoptCompletedDesign
  <2>2. TypeOK'
    <3>1. WorkerTypeOK(Jobs)'
      BY <1>1, <2>1, Zenon DEF BInv, TypeOK, WorkerTypeOK
    <3>2. mpc' \in {"idle", "submitted", "adopting", "joining", "gone"}
      BY <2>1
    <3> QED
      BY <1>1, <2>1, <3>1, <3>2, Zenon DEF BInv, TypeOK
  <2> QED
    BY <1>1, <2>1, <2>2
    DEF BInv, WorkerShape, GenerationsOrdered, WantedIsRequested, Wanted,
        UnderWay, KeyFollowsStore, WantedKey, Answered, StatusMatchesBank,
        NoCallbackAfterTeardown, JobsNeedDevice, Open
<1>3. CASE completed # NoJob
  <2>1. completed' = NoJob /\ mpc' = mpc
    BY <1>3 DEF AdoptCompletedDesign, TakeCompleted
  <2>2. (WorkerShape /\ GenerationsOrdered /\ WantedIsRequested)'
    BY <1>1, <2>1 DEF BInv, WorkerShape, GenerationsOrdered,
                      WantedIsRequested, Wanted, Open
  <2>3. (KeyFollowsStore /\ JobsNeedDevice /\ NoCallbackAfterTeardown)'
    BY <1>1, <2>1 DEF BInv, KeyFollowsStore, WantedKey, JobsNeedDevice,
                      NoCallbackAfterTeardown
  <2>4. ASSUME currentDesign' \in Keys \cup {Nothing},
               bank' \in Banks \cup {Nothing},
               status' \in Statuses \cup {NoStatus}
        PROVE  TypeOK'
    <3>1. WorkerTypeOK(Jobs)'
      BY <1>1, <2>1, Zenon DEF BInv, TypeOK, WorkerTypeOK
    <3>2. \A j \in {pending', job', completed'} :
            j # NoJob => j.gen <= designGeneration'
      BY <1>1, <2>1 DEF BInv, TypeOK
    <3> QED
      BY <1>1, <2>1, <2>4, <3>1, <3>2, Zenon DEF BInv, TypeOK
  <2>5. CASE IsStale(completed)
    <3>1. UNCHANGED <<status, currentDesign, bank>>
      BY <1>3, <2>5 DEF AdoptCompletedDesign
    <3>2. TypeOK'
      BY <2>4, <3>1, Zenon DEF BInv, TypeOK
    <3>3. UnderWay' <=> UnderWay
      BY <1>1, <2>1, <2>5 DEF UnderWay, Wanted, IsStale
    <3>4. Answered'
      BY <1>1, <2>1, <3>1, <3>3 DEF BInv, Answered, WantedKey, Open
    <3> QED
      BY <2>2, <2>3, <3>1, <3>2, <3>4 DEF BInv, StatusMatchesBank
  <2>6. CASE ~IsStale(completed)
    <3>1. AdoptFailed(completed) \/ AdoptLoaded(completed)
      BY <1>3, <2>6 DEF AdoptCompletedDesign
    <3>2. /\ completed.key \in Keys
          /\ completed.key # Nothing
      BY <1>3, NothingAssumption DEF BInv, TypeOK, WorkerTypeOK, Jobs
    <3>3. completed.key = requestedKey \/ requestedKey.selection \in Missing
      BY <1>3, <2>6 DEF BInv, WantedIsRequested, Wanted, IsStale
    <3>4. /\ status'.key = completed.key
          /\ status' \in Statuses
      BY <3>1, <3>2 DEF AdoptFailed, AdoptLoaded, Statuses
    <3>5. block \in BlockSizes
      BY <1>3 DEF BInv, TypeOK, JobsNeedDevice
    <3>6. /\ currentDesign' \in Keys \cup {Nothing}
          /\ bank' \in Banks \cup {Nothing}
          /\ StatusMatchesBank'
          /\ bank' # Nothing => bank'.block = block
      <4>1. CASE AdoptFailed(completed)
        BY <4>1 DEF AdoptFailed, PublishEmpty, StatusMatchesBank
      <4>2. CASE AdoptLoaded(completed)
        <5>1. /\ bank' = [key |-> completed.key, block |-> block]
              /\ currentDesign' = completed.key
              /\ status'.kind = "loaded"
          BY <4>2 DEF AdoptLoaded, CookAndPublish
        <5>2. bank' \in Banks /\ bank' # Nothing
          BY <3>2, <3>5, <5>1, NothingAssumption DEF Banks
        <5> QED
          BY <3>2, <3>4, <5>1, <5>2 DEF StatusMatchesBank
      <4> QED
        BY <3>1, <4>1, <4>2
    <3>7. TypeOK'
      BY <2>4, <3>4, <3>6
    <3>8. Answered'
      <4> SUFFICES ASSUME rate # Nothing, selection \notin Missing
                   PROVE  status'.key = WantedKey'
        BY <1>1, <3>6 DEF Answered
      <4>1. requestedKey = WantedKey /\ requestedKey.selection = selection
        BY DEF BInv, KeyFollowsStore, WantedKey
      <4> QED
        BY <1>1, <3>3, <3>4, <4>1 DEF WantedKey
    <3> QED
      BY <2>2, <2>3, <3>6, <3>7, <3>8 DEF BInv
  <2> QED
    BY <2>5, <2>6
<1> QED
  BY <1>2, <1>3

\* Every handler and every step of run() preserves the invariant.
LEMMA NextBInv == BInv /\ [Next]_vars => BInv'
<1> SUFFICES ASSUME BInv, [Next]_vars PROVE BInv'
  OBVIOUS
<1> USE DEF workerVars
<1>1. ASSUME NEW s \in Selections, SelectHrtf(s) PROVE BInv'
  <2>1. /\ mpc = "idle"
        /\ selection' = s
        /\ UNCHANGED <<rate, block, completed, job, wpc, wakeEvent, exitFlag,
                       updatePending>>
    BY <1>1 DEF SelectHrtf
  <2>2. changes' \in 0..MaxChanges
    BY <1>1, SelectionAssumption DEF SelectHrtf, BInv, TypeOK
  <2>3. CASE rate = Nothing
    <3>1. UNCHANGED <<requestedKey, designGeneration, currentDesign, bank,
                      status, pending, busy, mpc>>
      BY <1>1, <2>3 DEF SelectHrtf
    <3>2. TypeOK'
      <4>1. WorkerTypeOK(Jobs)'
        BY <2>1, <3>1, Zenon DEF BInv, TypeOK, WorkerTypeOK
      <4> QED
        BY <2>1, <2>2, <3>1, <4>1, TypeFrame DEF BInv, TypeOK
    <3> QED
      BY <2>1, <2>3, <3>1, <3>2
      DEF BInv, WorkerShape, GenerationsOrdered, WantedIsRequested, Wanted,
          KeyFollowsStore, JobsNeedDevice, Answered, StatusMatchesBank,
          NoCallbackAfterTeardown, Open
  <2>4. CASE rate # Nothing
    <3>1. rate \in Rates /\ block \in BlockSizes
      BY <2>4 DEF BInv, TypeOK
    <3>2. RequestDesign([selection |-> selection', rate |-> rate'])
      BY <1>1, <2>1, <2>4 DEF SelectHrtf
    <3> QED
      BY <2>1, <2>2, <3>1, <3>2, RequestBInv
  <2> QED
    BY <2>3, <2>4
<1>2. ASSUME NEW r \in Rates, NEW b \in BlockSizes, DeviceChanged(r, b)
      PROVE  BInv'
  <2>1. /\ mpc = "idle"
        /\ rate' = r
        /\ block' = b
        /\ UNCHANGED <<selection, completed, job, wpc, wakeEvent, exitFlag,
                       updatePending>>
    BY <1>2 DEF DeviceChanged
  <2>2. changes' \in 0..MaxChanges
    BY <1>2, SelectionAssumption DEF DeviceChanged, BInv, TypeOK
  <2>3. selection' \in Selections
    BY <2>1 DEF BInv, TypeOK
  <2>4. CASE r # rate \/ currentDesign = Nothing
    <3>1. RequestDesign([selection |-> selection', rate |-> rate'])
      BY <1>2, <2>1, <2>4 DEF DeviceChanged
    <3> QED
      BY <2>1, <2>2, <2>3, <2>4, <3>1, RequestBInv
  <2>5. CASE r = rate /\ currentDesign # Nothing
    <3>1. /\ bank' = [key |-> currentDesign, block |-> b]
          /\ UNCHANGED <<requestedKey, designGeneration, currentDesign, status,
                         pending, busy, mpc>>
      BY <1>2, <2>5 DEF DeviceChanged, CookAndPublish
    <3>2. currentDesign \in Keys
      BY <2>5 DEF BInv, TypeOK
    <3>3. bank' \in Banks /\ bank' # Nothing /\ bank'.block = b
      BY <3>1, <3>2, NothingAssumption DEF Banks
    <3>4. (rate' = Nothing) = (block' = Nothing)
      BY <2>1, SelectionAssumption
    <3>5. TypeOK'
      <4>1. WorkerTypeOK(Jobs)'
        BY <2>1, <3>1, Zenon DEF BInv, TypeOK, WorkerTypeOK
      <4> QED
        BY <2>1, <2>2, <2>3, <3>1, <3>3, <3>4, <4>1, TypeFrame DEF BInv, TypeOK
    <3>6. UnderWay' <=> UnderWay
      BY <2>1, <3>1 DEF UnderWay, Wanted
    <3>7. Answered'
      BY <2>1, <2>5, <3>1, <3>3, <3>6 DEF BInv, Answered, WantedKey, Open
    <3>8. StatusMatchesBank'
      BY <2>5, <3>1, <3>3 DEF BInv, StatusMatchesBank
    <3> QED
      BY <2>1, <2>5, <3>1, <3>5, <3>7, <3>8
      DEF BInv, WorkerShape, GenerationsOrdered, WantedIsRequested, Wanted,
          KeyFollowsStore, WantedKey, JobsNeedDevice, NoCallbackAfterTeardown,
          Open
  <2> QED
    BY <2>4, <2>5
<1>3. CASE AdoptCompletedDesign
  BY <1>3, AdoptBInv
<1>4. ASSUME UNCHANGED <<selection, rate, block, requestedKey,
                         designGeneration, currentDesign, bank, status, changes>>,
             TypeOK',
             NotifyWorker \/ HandleAsyncUpdate \/ BeginTeardown \/ EndTeardown
      PROVE  BInv'
  BY <1>4
  DEF NotifyWorker, Notify, HandleAsyncUpdate, BeginTeardown, SignalExit,
      EndTeardown, BInv, WorkerShape, GenerationsOrdered, WantedIsRequested,
      Wanted, UnderWay, KeyFollowsStore, WantedKey, JobsNeedDevice, Answered,
      StatusMatchesBank, NoCallbackAfterTeardown, Open
<1>5. CASE NotifyWorker
  <2>1. WorkerTypeOK(Jobs)'
    BY <1>5, Zenon DEF NotifyWorker, Notify, BInv, TypeOK, WorkerTypeOK
  <2>2. TypeOK'
    BY <1>5, <2>1, EngineFrame DEF NotifyWorker, BInv
  <2> QED
    BY <1>4, <1>5, <2>2 DEF NotifyWorker
<1>6. CASE HandleAsyncUpdate
  <2>1. WorkerTypeOK(Jobs)'
    BY <1>6, Zenon DEF HandleAsyncUpdate, BInv, TypeOK, WorkerTypeOK
  <2>2. TypeOK'
    BY <1>6, <2>1, EngineFrame DEF HandleAsyncUpdate, BInv
  <2> QED
    BY <1>4, <1>6, <2>2 DEF HandleAsyncUpdate
<1>7. CASE BeginTeardown
  <2>1. WorkerTypeOK(Jobs)'
    BY <1>7, Zenon DEF BeginTeardown, SignalExit, BInv, TypeOK, WorkerTypeOK
  <2>2. TypeOK'
    BY <1>7, <2>1, EngineFrame DEF BeginTeardown, BInv
  <2> QED
    BY <1>4, <1>7, <2>2 DEF BeginTeardown
<1>8. CASE EndTeardown
  <2>1. WorkerTypeOK(Jobs)'
    BY <1>8, Zenon DEF EndTeardown, BInv, TypeOK, WorkerTypeOK
  <2>2. TypeOK'
    BY <1>8, <2>1, EngineFrame DEF EndTeardown, BInv
  <2> QED
    BY <1>4, <1>8, <2>2 DEF EndTeardown
<1>9. CASE JoinTimesOut \/ WorkerStep
  <2>1. UNCHANGED engineVars
    BY <1>9 DEF JoinTimesOut, WorkerStep
  <2> USE DEF BInv, WorkerShape, GenerationsOrdered, WantedIsRequested, Wanted,
              UnderWay, KeyFollowsStore, WantedKey, JobsNeedDevice, Answered,
              StatusMatchesBank, NoCallbackAfterTeardown, Open
  <2>2. CASE WorkerReturn
    <3>1. WorkerTypeOK(Jobs)'
      BY <2>2, Zenon DEF WorkerReturn, TypeOK, WorkerTypeOK
    <3>2. TypeOK'
      BY <2>1, <2>2, <3>1, EngineFrame DEF WorkerReturn, engineVars, TypeOK
    <3> QED
      BY <2>1, <2>2, <3>2 DEF WorkerReturn, engineVars, TypeOK
  <2>3. CASE WorkerTake
    <3>1. WorkerTypeOK(Jobs)'
      BY <2>3, Zenon DEF WorkerTake, TypeOK, WorkerTypeOK
    <3>2. TypeOK'
      BY <2>1, <2>3, <3>1, EngineFrame DEF WorkerTake, engineVars, TypeOK
    <3> QED
      BY <2>1, <2>3, <3>2 DEF WorkerTake, engineVars, TypeOK
  <2>4. CASE WorkerIdle
    <3>1. WorkerTypeOK(Jobs)'
      BY <2>4, Zenon DEF WorkerIdle, TypeOK, WorkerTypeOK
    <3>2. TypeOK'
      BY <2>1, <2>4, <3>1, EngineFrame DEF WorkerIdle, engineVars, TypeOK
    <3> QED
      BY <2>1, <2>4, <3>2 DEF WorkerIdle, engineVars, TypeOK
  <2>5. CASE WorkerPark
    <3>1. WorkerTypeOK(Jobs)'
      BY <2>5, Zenon DEF WorkerPark, TypeOK, WorkerTypeOK
    <3>2. TypeOK'
      BY <2>1, <2>5, <3>1, EngineFrame DEF WorkerPark, engineVars, TypeOK
    <3> QED
      BY <2>1, <2>5, <3>2 DEF WorkerPark, engineVars, TypeOK
  <2>6. CASE WorkerWake
    <3>1. WorkerTypeOK(Jobs)'
      BY <2>6, Zenon DEF WorkerWake, TypeOK, WorkerTypeOK
    <3>2. TypeOK'
      BY <2>1, <2>6, <3>1, EngineFrame DEF WorkerWake, engineVars, TypeOK
    <3> QED
      BY <2>1, <2>6, <3>2 DEF WorkerWake, engineVars, TypeOK
  <2>7. CASE WorkerAbandon
    <3>1. WorkerTypeOK(Jobs)'
      BY <2>7, Zenon DEF WorkerAbandon, TypeOK, WorkerTypeOK
    <3>2. TypeOK'
      BY <2>1, <2>7, <3>1, EngineFrame DEF WorkerAbandon, engineVars, TypeOK
    <3> QED
      BY <2>1, <2>7, <3>2 DEF WorkerAbandon, engineVars, TypeOK
  <2>8. CASE WorkerFinish
    <3>1. WorkerTypeOK(Jobs)'
      BY <2>8, Zenon DEF WorkerFinish, TypeOK, WorkerTypeOK
    <3>2. TypeOK'
      BY <2>1, <2>8, <3>1, EngineFrame DEF WorkerFinish, engineVars, TypeOK
    <3>3. UnderWay => UnderWay'
      <4>1. /\ designGeneration' = designGeneration
            /\ designGeneration \in Nat
            /\ completed' = job /\ pending' = pending
        BY <2>1, <2>8 DEF WorkerFinish, engineVars, TypeOK
      <4>2. job \in Jobs /\ job.gen <= designGeneration
        BY <2>8 DEF WorkerFinish, TypeOK, WorkerTypeOK
      <4>3. completed # NoJob => completed.gen \in Nat /\ completed.gen < job.gen
        BY <2>8 DEF WorkerFinish, TypeOK, WorkerTypeOK, Jobs
      <4>4. ~Wanted(completed)
        BY <4>1, <4>2, <4>3 DEF Jobs
      <4> QED
        BY <4>1, <4>4
    <3>4. Answered'
      BY <2>1, <2>8, <3>3 DEF WorkerFinish, engineVars
    <3> QED
      BY <2>1, <2>8, <3>2, <3>4 DEF WorkerFinish, engineVars
  <2>9. CASE WorkerNotifyReady
    <3>1. WorkerTypeOK(Jobs)'
      BY <2>9, Zenon DEF WorkerNotifyReady, TypeOK, WorkerTypeOK
    <3>2. TypeOK'
      BY <2>1, <2>9, <3>1, EngineFrame DEF WorkerNotifyReady, engineVars, TypeOK
    <3> QED
      BY <2>1, <2>9, <3>2 DEF WorkerNotifyReady, engineVars, TypeOK
  <2>10. CASE JoinTimesOut
    <3>1. WorkerTypeOK(Jobs)'
      BY <2>10, Zenon DEF JoinTimesOut, WorkerKilled, TypeOK, WorkerTypeOK
    <3>2. TypeOK'
      BY <2>1, <2>10, <3>1, EngineFrame
      DEF JoinTimesOut, WorkerKilled, engineVars, TypeOK
    <3> QED
      BY <2>1, <2>10, <3>2 DEF JoinTimesOut, WorkerKilled, engineVars
  <2> QED
    BY <1>9, <2>2, <2>3, <2>4, <2>5, <2>6, <2>7, <2>8, <2>9, <2>10
    DEF WorkerStep, WorkerNext
<1>10. CASE UNCHANGED vars
  <2>1. WorkerTypeOK(Jobs)'
    BY <1>10, Zenon DEF vars, BInv, TypeOK, WorkerTypeOK
  <2>2. TypeOK'
    BY <1>10, <2>1, EngineFrame DEF vars, engineVars, BInv, TypeOK
  <2> QED
    BY <1>10, <2>2
    DEF vars, engineVars, BInv, WorkerShape, GenerationsOrdered,
        WantedIsRequested, Wanted, UnderWay, KeyFollowsStore, WantedKey,
        JobsNeedDevice, Answered, StatusMatchesBank, NoCallbackAfterTeardown,
        Open
<1> QED
  BY <1>1, <1>2, <1>3, <1>5, <1>6, <1>7, <1>8, <1>9, <1>10 DEF Next

\* The inductive invariant, and with it every state invariant of the run.
THEOREM Invariant == Safety => []BInv
<1> QED
  BY InitBInv, NextBInv, PTL DEF Safety

\* Type correctness, with: no job from a generation not yet issued.
THEOREM TypeCorrectness == Safety => []TypeOK
<1>1. BInv => TypeOK
  BY DEF BInv
<1> QED
  BY <1>1, Invariant, PTL

\* What the status line says and what the bank plays agree, in every state.
THEOREM StatusAgrees == Safety => []StatusMatchesBank
<1>1. BInv => StatusMatchesBank
  BY DEF BInv
<1> QED
  BY <1>1, Invariant, PTL

\* At rest on a set that exists, the monitor plays it as the device needs it,
\* or says that this set failed.
THEOREM SettledPlays == Safety => []SettledPlaysSelection
<1>1. BInv => SettledPlaysSelection
  <2> SUFFICES ASSUME BInv, Settled, rate # Nothing, selection \notin Missing
               PROVE  /\ status.key = WantedKey
                      /\ status.kind = "loaded" =>
                           bank = [key |-> WantedKey, block |-> block]
    BY DEF SettledPlaysSelection
  <2>1. Open /\ ~UnderWay
    BY DEF Settled, Open, UnderWay, Wanted
  <2>2. /\ status.key = WantedKey
        /\ bank # Nothing => bank.block = block
    BY <2>1 DEF BInv, Answered
  <2>3. ASSUME status.kind = "loaded"
        PROVE  bank = [key |-> WantedKey, block |-> block]
    <3>1. bank # Nothing /\ bank.key = WantedKey
      BY <2>2, <2>3 DEF BInv, StatusMatchesBank
    <3>2. bank \in Banks /\ bank.block = block
      BY <2>2, <3>1 DEF BInv, TypeOK
    <3> QED
      BY <3>1, <3>2 DEF Banks
  <2> QED
    BY <2>2, <2>3
<1> QED
  BY <1>1, Invariant, PTL

\* No update can be posted to the engine once its destructor has finished.
THEOREM TeardownSafe == Safety => []NoCallbackAfterTeardown
<1>1. BInv => NoCallbackAfterTeardown
  BY DEF BInv
<1> QED
  BY <1>1, Invariant, PTL

\* Only what was requested last is adopted, unless a missing set was selected
\* since: the one gap is the one the code leaves open.
THEOREM AdoptsRequested == Safety => AdoptsOnlyRequested
<1>1. BInv /\ [Next]_vars =>
        [currentDesign' \notin {currentDesign, Nothing} =>
           \/ currentDesign' = requestedKey
           \/ requestedKey.selection \in Missing]_vars
  <2> SUFFICES ASSUME BInv, Next, currentDesign' \notin {currentDesign, Nothing}
               PROVE  \/ currentDesign' = requestedKey
                      \/ requestedKey.selection \in Missing
    BY DEF vars, engineVars
  <2>1. CASE AdoptCompletedDesign
    <3>1. completed # NoJob /\ ~IsStale(completed) /\ currentDesign' = completed.key
      BY <2>1 DEF AdoptCompletedDesign, AdoptFailed, AdoptLoaded
    <3> QED
      BY <3>1 DEF BInv, WantedIsRequested, Wanted, IsStale
  <2>2. ASSUME NEW key, RequestDesign(key) PROVE FALSE
    BY <2>2 DEF RequestDesign, RequestDropped, RequestMissing, RequestSubmitted
  <2>3. ASSUME NEW s \in Selections, SelectHrtf(s) PROVE FALSE
    BY <2>2, <2>3 DEF SelectHrtf
  <2>4. ASSUME NEW r \in Rates, NEW b \in BlockSizes, DeviceChanged(r, b)
        PROVE  FALSE
    BY <2>2, <2>4 DEF DeviceChanged
  <2> QED
    BY <2>1, <2>3, <2>4
    DEF Next, NotifyWorker, HandleAsyncUpdate, BeginTeardown, EndTeardown,
        JoinTimesOut, WorkerStep, engineVars
<1> QED
  BY <1>1, Invariant, PTL DEF Safety, AdoptsOnlyRequested

=============================================================================
