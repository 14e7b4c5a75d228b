-------------------------- MODULE StemPatch_proofs --------------------------
(***************************************************************************)
(* Proofs about StemPatch, for every size of the patch, every set of       *)
(* projects, and sessions of any length.                                   *)
(*                                                                         *)
(* The properties speak of reconciled stores; between an undone count      *)
(* change and the next handler the store is not.  What always holds is     *)
(* that rows, span cache and routing belong together, whatever the formats *)
(* are by now (Settled and Sound, of PatchStore_proofs), that every file   *)
(* on disk holds one-to-one rows within the ceiling, and that what an undo *)
(* would put back still fits.                                              *)
(***************************************************************************)
EXTENDS StemPatch, PatchStore_proofs

\* What the sections of a project are, each by itself.
SavedFile(file) ==
  /\ file \in [formats : Seq(0..MaxOrder), speakers : 1..MaxSpeakers,
               inRows : Seq(Columns), outRows : Seq(Columns),
               pair : 0..(MaxHardware - 1)]
  /\ Len(file.formats) \in 1..MaxInputs
  /\ Len(file.inRows) <= MaxStem
  /\ OneRowPerColumn(file.inRows)
  /\ OneRowPerColumn(file.outRows)

\* Undoing the last count change leaves between one and MaxInputs inputs.
UndoFits ==
  \/ undoTail = NothingToUndo
  \/ \E tail \in Seq(0..MaxOrder) :
       /\ undoTail = <<"restore", tail>>
       /\ Len(store.formats) + Len(tail) <= MaxInputs
  \/ \E n \in 1..Len(store.formats) : undoTail = <<"trim", n>>

IInv ==
  /\ Sound(store)
  /\ Settled(store)
  /\ SavedFile(saved)
  /\ SavedFile(backup)
  /\ UndoFits
  /\ steps \in 0..MaxSteps

-----------------------------------------------------------------------------
(* Loading and saving. *)

LEMMA ColumnsAreUnshared ==
  ASSUME NEW rows \in Seq(Columns)
  PROVE  Unshared(rows) <=> OneRowPerColumn(rows)
<1>1. \A k \in DOMAIN rows : rows[k] # NewRow
  <2>1. \A k \in DOMAIN rows : rows[k] \in Columns
    OBVIOUS
  <2> QED BY <2>1, SizesAreNat DEF Columns, NewRow
<1> QED BY <1>1 DEF Unshared, OneRowPerColumn

\* loadSectionFrom of the inputs.
LEMMA LoadInputsSound ==
  ASSUME NEW s, Sound(s), NEW file, SavedFile(file)
  PROVE  LET t == LoadInputs(s, file)
         IN  /\ Sound(t) /\ Settled(t) /\ Reconciled(t)
             /\ t.formats = ClampStemSpans(file.formats)
<1> DEFINE formats == file.formats
           counted == ApplyInputCount(s, Len(formats))
           merged == [counted EXCEPT !.formats = formats]
<1>1. formats \in Formats /\ Len(formats) \in Int
  BY DEF SavedFile, Formats
<1>2. LoadInputs(s, file) = ReconcileAudioPatch(merged)
  BY DEF LoadInputs
<1> HIDE DEF formats
<1>3. Sound(counted)
  BY <1>1, ApplyInputCountSound
<1> HIDE DEF counted
<1>4. Sound(merged) /\ merged.formats = formats
  BY <1>1, <1>3, WithFormatsSound
<1> HIDE DEF merged
<1> QED BY <1>2, <1>4, ReconcileSound DEF formats

\* loadSectionFrom of the speakers.
LEMMA LoadSpeakersSound ==
  ASSUME NEW s, Sound(s), Settled(s), NEW file, SavedFile(file)
  PROVE  LET t == LoadSpeakers(s, file)
         IN  /\ Sound(t) /\ Settled(t) /\ Reconciled(t)
             /\ Len(t.formats) = Len(s.formats)
             /\ t.formats = ClampStemSpans(ClampStemSpans(s.formats))
             /\ t.speakers = file.speakers
<1> DEFINE n == file.speakers
           counted == ApplySpeakerCount(s, n)
<1>1. n \in 1..MaxSpeakers /\ n \in Int
  BY DEF SavedFile
<1>2. Limit(n, 1, MaxSpeakers) = n
  <2> HIDE DEF n
  <2> QED BY <1>1, SizesAreNat DEF Limit
<1>3. LoadSpeakers(s, file) = ReconcileAudioPatch(counted)
  BY DEF LoadSpeakers
<1> HIDE DEF n
<1>4. /\ Sound(counted) /\ counted.formats = ClampStemSpans(s.formats)
      /\ Len(counted.formats) = Len(s.formats) /\ counted.speakers = n
  BY <1>1, <1>2, ApplySpeakerCountSound
<1> HIDE DEF counted
<1> QED BY <1>3, <1>4, ReconcileSound DEF n

LEMMA LoadMonitoringSound ==
  ASSUME NEW s, Sound(s), NEW file, SavedFile(file)
  PROVE  LET t == LoadMonitoring(s, file)
         IN  /\ Sound(t) /\ (Settled(s) => Settled(t))
             /\ t.formats = s.formats /\ t.speakers = s.speakers
             /\ t.lastSpans = s.lastSpans
             /\ t.pair = file.pair
<1>1. file.pair \in Pairs
  BY DEF SavedFile, Pairs
<1>2. LoadMonitoring(s, file) = WithPair(s, file.pair)
  BY DEF LoadMonitoring, WithPair
<1> QED BY <1>1, <1>2, WithPairSound

\* loadSectionFrom of the patch.
LEMMA LoadAudioPatchSound ==
  ASSUME NEW s, Sound(s), NEW file, SavedFile(file)
  PROVE  LET t == LoadAudioPatch(s, file)
         IN  /\ Sound(t) /\ Settled(t) /\ Reconciled(t)
             /\ Len(t.formats) = Len(s.formats)
             /\ t.formats = ClampStemSpans(s.formats)
             /\ t.speakers = s.speakers /\ t.pair = s.pair
             /\ t.inRows =
                  FillNewRows(RemapRows(file.inRows, s.lastSpans, t.lastSpans))
             /\ t.outRows = FillNewRows(ResizeRows(file.outRows, s.speakers))
<1> DEFINE inRows == file.inRows
           outRows == file.outRows
           written == WriteRows(s, inRows, outRows)
<1>1. /\ inRows \in Seq(Columns) /\ Unshared(inRows)
      /\ outRows \in Seq(Columns) /\ Unshared(outRows)
  BY ColumnsAreUnshared DEF SavedFile
<1>2. LoadAudioPatch(s, file) = ReconcileAudioPatch(written)
  BY DEF LoadAudioPatch
<1> HIDE DEF inRows, outRows
<1>3. /\ Sound(written) /\ written.formats = s.formats
      /\ written.speakers = s.speakers /\ written.pair = s.pair
      /\ written.lastSpans = s.lastSpans
      /\ written.inRows = inRows /\ written.outRows = outRows
  BY <1>1, WriteRowsSound
<1> HIDE DEF written
<1> QED BY <1>2, <1>3, ReconcileSound DEF inRows, outRows

\* Any sections of a project, read in the order of loadProject.
LEMMA LoadAllSound ==
  ASSUME NEW s, Sound(s), Settled(s), NEW file, SavedFile(file), NEW ok
  PROVE  LET t == LoadAll(s, file, ok)
         IN  /\ Sound(t) /\ Settled(t)
             /\ "inputs" \notin ok => Len(t.formats) = Len(s.formats)
<1> DEFINE inputs == IF "inputs" \in ok THEN LoadInputs(s, file) ELSE s
           speakers == IF "speakers" \in ok THEN LoadSpeakers(inputs, file)
                       ELSE inputs
           monitored == IF "monitoring" \in ok
                        THEN LoadMonitoring(speakers, file) ELSE speakers
           loaded == IF "audiopatch" \in ok THEN LoadAudioPatch(monitored, file)
                     ELSE monitored
           keeps(t) == "inputs" \notin ok => Len(t.formats) = Len(s.formats)
<1>1. LoadAll(s, file, ok) = loaded
  BY DEF LoadAll
<1>2. Sound(inputs) /\ Settled(inputs) /\ keeps(inputs)
  BY LoadInputsSound
<1> HIDE DEF inputs
<1>3. Sound(speakers) /\ Settled(speakers) /\ keeps(speakers)
  BY <1>2, LoadSpeakersSound
<1> HIDE DEF speakers
<1>4. Sound(monitored) /\ Settled(monitored) /\ keeps(monitored)
  BY <1>3, LoadMonitoringSound
<1> HIDE DEF monitored
<1>5. Sound(loaded) /\ Settled(loaded) /\ keeps(loaded)
  BY <1>4, LoadAudioPatchSound
<1> QED BY <1>1, <1>5

\* What saveProject writes over any sections.
LEMMA OverwriteSaved ==
  ASSUME NEW old, SavedFile(old), NEW s, Sound(s), Settled(s), NEW ok
  PROVE  SavedFile(Overwrite(old, ProjectOf(s), ok))
<1> DEFINE new == ProjectOf(s)
           pick(section) == IF section \in ok THEN new ELSE old
           file == [formats |-> pick("inputs").formats,
                    speakers |-> pick("speakers").speakers,
                    inRows |-> pick("audiopatch").inRows,
                    outRows |-> pick("audiopatch").outRows,
                    pair |-> pick("monitoring").pair]
<1>1. SavedFile(new)
  <2>1. /\ new.formats = s.formats /\ new.speakers = s.speakers
        /\ new.inRows = s.inRows /\ new.outRows = s.outRows /\ new.pair = s.pair
    BY DEF ProjectOf
  <2>2. /\ s.inRows \in Seq(Columns) /\ OneRowPerColumn(s.inRows)
        /\ s.outRows \in Seq(Columns) /\ OneRowPerColumn(s.outRows)
        /\ Len(s.inRows) <= MaxStem
    BY ColumnsAreUnshared DEF Sound, Stores, Settled
  <2> QED BY <2>1, <2>2 DEF SavedFile, ProjectOf, Sound, Stores, Formats, Pairs
<1> HIDE DEF new
<1>2. \A section : SavedFile(pick(section))
  BY <1>1
<1>3. SavedFile(file)
  <2> HIDE DEF pick
  <2> QED BY <1>2 DEF SavedFile
<1> QED BY <1>3 DEF Overwrite, new

-----------------------------------------------------------------------------
(* The inductive invariant. *)

LEMMA InitIInv == Init => IInv
<1> SUFFICES ASSUME Init PROVE IInv
  OBVIOUS
<1>1. Sound(store) /\ Settled(store)
  BY DefaultStoreSound DEF Init
<1>2. SavedFile(saved) /\ SavedFile(backup)
  <2>1. saved \in Projects /\ backup = saved
    BY DEF Init
  <2> QED BY <2>1, ProjectsAssumption DEF SavedFile
<1>3. UndoFits /\ steps \in 0..MaxSteps
  BY SessionAssumption DEF Init, UndoFits
<1> QED BY <1>1, <1>2, <1>3 DEF IInv

LEMMA StepsBounded ==
  ASSUME IInv, Step
  PROVE  steps' \in 0..MaxSteps
BY SessionAssumption DEF IInv, Step

\* What is undone still fits when the number of inputs has not changed.
LEMMA UndoStillFits ==
  ASSUME UndoFits, Len(store'.formats) = Len(store.formats),
         undoTail' = undoTail \/ undoTail' = NothingToUndo
  PROVE  UndoFits'
BY DEF UndoFits

LEMMA StepIInv == IInv /\ [Next]_vars => IInv'
<1> SUFFICES ASSUME IInv, [Next]_vars PROVE IInv'
  OBVIOUS
<1> DEFINE StoreKept == Sound(store') /\ Settled(store')
           FilesKept == SavedFile(saved') /\ SavedFile(backup')
<1>0. /\ Sound(store) /\ Settled(store) /\ UndoFits
      /\ SavedFile(saved) /\ SavedFile(backup)
      /\ store.formats \in Formats
      /\ store.formats \in Seq(0..MaxOrder)
      /\ Len(store.formats) \in 1..MaxInputs
      /\ DOMAIN store.formats = 1..Len(store.formats)
      /\ store.inRows \in Seq(Columns) /\ store.outRows \in Seq(Columns)
  BY FormatsAreNat DEF IInv, Sound, Stores, Formats
<1>1. ASSUME NEW i \in DOMAIN store.formats, NEW f \in 0..MaxOrder,
             NEW u \in BOOLEAN, SetInputFormat(i, f, u)
      PROVE  IInv'
  <2>1. StoreKept /\ Len(store'.formats) = Len(store.formats)
    BY <1>0, <1>1, WithFormatSound DEF SetInputFormat
  <2>2. UndoFits'
    BY <1>0, <1>1, <2>1, UndoStillFits DEF SetInputFormat
  <2>3. FilesKept /\ steps' \in 0..MaxSteps
    BY <1>0, <1>1, StepsBounded DEF SetInputFormat
  <2> QED BY <2>1, <2>2, <2>3 DEF IInv
<1>2. ASSUME NEW n \in 1..MaxInputs, SetNumInputs(n) PROVE IInv'
  <2> DEFINE old == store.formats
  <2>1. StoreKept /\ Len(store'.formats) = n
    <3>1. Limit(n, 1, MaxInputs) = n /\ n \in Int
      BY SizesAreNat DEF Limit
    <3> QED BY <1>0, <1>2, <3>1, ApplyInputCountSound DEF SetNumInputs
  <2>2. undoTail' = CountUndo(old, n)
    BY <1>2 DEF SetNumInputs
  <2>3. UndoFits'
    <3>1. CASE n < Len(old)
      <4> DEFINE tail == SubSeq(old, n + 1, Len(old))
      <4>1. tail \in Seq(0..MaxOrder) /\ Len(tail) = Len(old) - n
        <5>1. /\ old \in Seq(0..MaxOrder) /\ Len(old) \in Int /\ n + 1 \in Int
              /\ n + 1 <= Len(old) /\ n >= 1
          BY <1>0, <3>1
        <5> HIDE DEF old
        <5>2. \A i \in (n + 1)..Len(old) : old[i] \in 0..MaxOrder
          <6> SUFFICES ASSUME NEW i \in (n + 1)..Len(old)
                       PROVE  old[i] \in 0..MaxOrder
            OBVIOUS
          <6>1. i \in 1..Len(old)
            BY <5>1
          <6> QED BY <5>1, <6>1, ElementOfSeq
        <5> QED BY <5>1, <5>2, SubSeqProperties
      <4>2. undoTail' = <<"restore", tail>>
        BY <2>2, <3>1 DEF CountUndo
      <4> HIDE DEF tail
      <4>3. Len(store'.formats) + Len(tail) <= MaxInputs
        BY <1>0, <2>1, <4>1
      <4> QED BY <4>1, <4>2, <4>3 DEF UndoFits
    <3>2. CASE n > Len(old)
      <4>1. undoTail' = <<"trim", Len(old)>>
        BY <2>2, <3>2 DEF CountUndo
      <4>2. Len(old) \in 1..Len(store'.formats)
        BY <1>0, <2>1, <3>2
      <4> QED BY <4>1, <4>2 DEF UndoFits
    <3>3. CASE n = Len(old)
      BY <1>2, <3>3 DEF SetNumInputs
    <3> QED BY <1>0, <3>1, <3>2, <3>3
  <2>4. FilesKept /\ steps' \in 0..MaxSteps
    BY <1>0, <1>2, StepsBounded DEF SetNumInputs
  <2> QED BY <2>1, <2>3, <2>4 DEF IInv
<1>3. CASE UndoInputCount
  <2>1. FilesKept /\ steps' \in 0..MaxSteps /\ UndoFits'
    BY <1>0, <1>3, StepsBounded DEF UndoInputCount, UndoFits
  <2>2. CASE /\ undoTail[1] = "restore"
             /\ store' = [store EXCEPT !.formats = @ \o undoTail[2]]
    <3>1. PICK tail \in Seq(0..MaxOrder) :
            /\ undoTail = <<"restore", tail>>
            /\ Len(store.formats) + Len(tail) <= MaxInputs
      BY <1>0, <2>2 DEF UndoFits, NothingToUndo
    <3> DEFINE formats == store.formats \o tail
    <3>2. formats \in Formats
      BY <1>0, <3>1, SizesAreNat DEF Formats
    <3>3. store' = [store EXCEPT !.formats = formats]
      BY <2>2, <3>1
    <3> HIDE DEF formats
    <3>4. /\ Sound(store') /\ store'.lastSpans = store.lastSpans
          /\ store'.inRows = store.inRows /\ store'.outRows = store.outRows
          /\ store'.speakers = store.speakers
      BY <1>0, <3>2, <3>3, WithFormatsSound
    <3>5. Settled(store')
      BY <1>0, <3>4 DEF Settled
    <3> QED BY <2>1, <3>4, <3>5 DEF IInv
  <2>3. CASE /\ undoTail[1] = "trim"
             /\ store' = [store EXCEPT !.formats = SubSeq(@, 1, undoTail[2])]
    <3>1. PICK n \in 1..Len(store.formats) : undoTail = <<"trim", n>>
      BY <1>0, <2>3 DEF UndoFits, NothingToUndo
    <3> DEFINE formats == SubSeq(store.formats, 1, n)
    <3>2. formats \in Formats
      BY SMTT(30), <1>0, <3>1, SizesAreNat DEF Formats
    <3>3. store' = [store EXCEPT !.formats = formats]
      BY <2>3, <3>1
    <3> HIDE DEF formats
    <3>4. /\ Sound(store') /\ store'.lastSpans = store.lastSpans
          /\ store'.inRows = store.inRows /\ store'.outRows = store.outRows
          /\ store'.speakers = store.speakers
      BY <1>0, <3>2, <3>3, WithFormatsSound
    <3>5. Settled(store')
      BY <1>0, <3>4 DEF Settled
    <3> QED BY <2>1, <3>4, <3>5 DEF IInv
  <2> QED BY <1>3, <2>2, <2>3 DEF UndoInputCount
<1>4. ASSUME NEW n \in 1..MaxSpeakers, SetNumSpeakers(n) PROVE IInv'
  <2>1. StoreKept /\ Len(store'.formats) = Len(store.formats)
    BY <1>0, <1>4, ApplySpeakerCountSound, n \in Int DEF SetNumSpeakers
  <2>2. UndoFits'
    BY <1>0, <1>4, <2>1, UndoStillFits DEF SetNumSpeakers
  <2>3. FilesKept /\ steps' \in 0..MaxSteps
    BY <1>0, <1>4, StepsBounded DEF SetNumSpeakers
  <2> QED BY <2>1, <2>2, <2>3 DEF IInv
<1>5. EditColumns \cup {Unpatched} \subseteq Columns /\ PairChoices \subseteq Pairs
  BY SessionAssumption, SizesAreNat DEF Columns, Unpatched, Pairs
<1>6. ASSUME NEW r \in DOMAIN store.inRows,
             NEW c \in EditColumns \cup {Unpatched}, PatchInput(r, c)
      PROVE  IInv'
  <2>1. StoreKept /\ store'.formats = store.formats
    BY <1>0, <1>5, <1>6, WithInputPatchSound DEF PatchInput
  <2>2. UndoFits'
    BY <1>0, <1>6, <2>1, UndoStillFits DEF PatchInput
  <2>3. FilesKept /\ steps' \in 0..MaxSteps
    BY <1>0, <1>6, StepsBounded DEF PatchInput
  <2> QED BY <2>1, <2>2, <2>3 DEF IInv
<1>7. ASSUME NEW r \in DOMAIN store.outRows,
             NEW c \in EditColumns \cup {Unpatched}, PatchOutput(r, c)
      PROVE  IInv'
  <2>1. StoreKept /\ store'.formats = store.formats
    BY <1>0, <1>5, <1>7, WithOutputPatchSound DEF PatchOutput
  <2>2. UndoFits'
    BY <1>0, <1>7, <2>1, UndoStillFits DEF PatchOutput
  <2>3. FilesKept /\ steps' \in 0..MaxSteps
    BY <1>0, <1>7, StepsBounded DEF PatchOutput
  <2> QED BY <2>1, <2>2, <2>3 DEF IInv
<1>8. ASSUME NEW p \in PairChoices, ReservePair(p) PROVE IInv'
  <2>1. StoreKept /\ store'.formats = store.formats
    BY <1>0, <1>5, <1>8, WithPairSound DEF ReservePair
  <2>2. UndoFits'
    BY <1>0, <1>8, <2>1, UndoStillFits DEF ReservePair
  <2>3. FilesKept /\ steps' \in 0..MaxSteps
    BY <1>0, <1>8, StepsBounded DEF ReservePair
  <2> QED BY <2>1, <2>2, <2>3 DEF IInv
<1>9. ASSUME NEW ok, SaveProject(ok) PROVE IInv'
  <2>1. FilesKept
    BY <1>0, <1>9, OverwriteSaved DEF SaveProject
  <2>2. StoreKept /\ UndoFits'
    BY <1>0, <1>9, UndoStillFits DEF SaveProject
  <2>3. steps' \in 0..MaxSteps
    BY <1>9, StepsBounded DEF SaveProject
  <2> QED BY <2>1, <2>2, <2>3 DEF IInv
<1>10. ASSUME NEW ok, NEW file, SavedFile(file), Step,
             store' = LoadAll(store, file, ok), undoTail' = UndoAfterLoad(ok),
             UNCHANGED <<saved, backup>>
      PROVE  IInv'
  <2>1. StoreKept /\ ("inputs" \notin ok => Len(store'.formats) = Len(store.formats))
    BY <1>0, <1>10, LoadAllSound
  <2>2. UndoFits'
    <3>1. CASE "inputs" \in ok
      BY <1>10, <3>1 DEF UndoAfterLoad, UndoFits
    <3>2. CASE "inputs" \notin ok
      BY <1>0, <1>10, <2>1, <3>2, UndoStillFits DEF UndoAfterLoad
    <3> QED BY <3>1, <3>2
  <2>3. FilesKept /\ steps' \in 0..MaxSteps
    BY <1>0, <1>10, StepsBounded
  <2> QED BY <2>1, <2>2, <2>3 DEF IInv
<1>11. ASSUME NEW ok, LoadProject(ok) PROVE IInv'
  BY <1>0, <1>10, <1>11 DEF LoadProject
<1>12. ASSUME NEW section, NEW file \in {saved, backup}, LoadSection(section, file)
       PROVE  IInv'
  BY <1>0, <1>10, <1>12 DEF LoadSection
<1>13. CASE UNCHANGED vars
  <2>1. UndoFits'
    BY <1>0, <1>13, UndoStillFits DEF vars
  <2> QED BY <1>13, <2>1 DEF IInv, vars
<1> QED BY <1>1, <1>2, <1>3, <1>4, <1>6, <1>7, <1>8, <1>9, <1>11, <1>12, <1>13
        DEF Next

\* Rows, span cache and routing belong together after every handler, a partial
\* load and an undone count change included.
THEOREM SessionsStaySound == Spec => []IInv
BY InitIInv, StepIInv, PTL DEF Spec

-----------------------------------------------------------------------------
(* The invariants the runs check. *)

\* Formats, counts, rows and the pair stay in their ranges: an undone count
\* change leaves between one and MaxInputs inputs.
THEOREM StemPatchTypes == Spec => []TypeOK
<1>1. IInv => TypeOK
  <2> SUFFICES ASSUME IInv PROVE TypeOK
    OBVIOUS
  <2>1. store \in Stores /\ steps \in 0..MaxSteps
    BY DEF IInv, Sound
  <2>2. /\ store.formats \in Seq(0..MaxOrder)
        /\ Len(store.formats) \in 1..MaxInputs
    BY <2>1 DEF Stores, Formats
  <2>3. \A i \in DOMAIN store.formats : store.formats[i] \in 0..MaxOrder
    <3> DEFINE formats == store.formats
               orders == 0..MaxOrder
    <3>1. formats \in Seq(orders)
      BY <2>2
    <3> HIDE DEF formats, orders
    <3>2. \A i \in DOMAIN formats : formats[i] \in orders
      BY <3>1
    <3> QED BY <3>2 DEF formats, orders
  <2>4. /\ \A k \in DOMAIN store.inRows : store.inRows[k] \in Columns
        /\ \A k \in DOMAIN store.outRows : store.outRows[k] \in Columns
    BY <2>1 DEF Stores
  <2>5. store.speakers \in 1..MaxSpeakers /\ store.pair \in 0..(MaxHardware - 1)
    BY <2>1 DEF Stores, Pairs
  <2> QED BY <2>1, <2>2, <2>3, <2>4, <2>5 DEF TypeOK
<1> QED BY <1>1, SessionsStaySound, PTL

\* Of a reconciled store: one row per stem channel and per speaker, and no
\* more than kMaxStemChannels of them.
THEOREM RowsAlwaysFollowSpans == Spec => []RowsFollowSpans
<1>1. IInv => RowsFollowSpans
  BY DEF IInv, Settled, RowsFollowSpans, Reconciled, RowsFit
<1> QED BY <1>1, SessionsStaySound, PTL

\* No handler ever patches one hardware channel to two rows.
THEOREM PatchesStayOneToOne == Spec => []OneToOne
<1>1. IInv => OneToOne
  <2> SUFFICES ASSUME IInv PROVE OneToOne
    OBVIOUS
  <2>1. /\ store.inRows \in Seq(Columns) /\ Unshared(store.inRows)
        /\ store.outRows \in Seq(Columns) /\ Unshared(store.outRows)
    BY DEF IInv, Sound, Stores
  <2> QED BY <2>1, ColumnsAreUnshared DEF OneToOne
<1> QED BY <1>1, SessionsStaySound, PTL

\* The routing of a reconciled store sends every stem channel it covers, and
\* every speaker, where the patch does.
THEOREM RoutingAlwaysMatchesPatch == Spec => []RoutingMatchesPatch
<1>1. IInv => RoutingMatchesPatch
  <2> SUFFICES ASSUME IInv, Reconciled(store) PROVE RoutingMatchesPatch
    BY DEF RoutingMatchesPatch
  <2> DEFINE now == ComposePatchRouting(store)
  <2>1. /\ store \in Stores
        /\ \A k \in DOMAIN store.routing.stem \cap DOMAIN store.inRows :
             store.routing.stem[k] = store.inRows[k]
        /\ Len(store.outRows) = store.speakers
        /\ store.routing.output = store.outRows
        /\ Total(Spans(store.formats)) = Len(store.inRows)
        /\ Len(store.inRows) <= MaxStem
    BY DEF IInv, Sound, Settled, Reconciled
  <2>2. now.output = store.outRows /\ now.stem = store.inRows
    BY <2>1, ComposedRouting
  <2> HIDE DEF now
  <2>3. \A k \in DOMAIN now.stem \cap DOMAIN store.routing.stem :
          store.routing.stem[k] = now.stem[k]
    BY <2>1, <2>2
  <2> QED BY <2>1, <2>2, <2>3 DEF RoutingMatchesPatch, now
<1> QED BY <1>1, SessionsStaySound, PTL

-----------------------------------------------------------------------------
(* What a format or count change keeps. *)

LEMMA MinOfTwo ==
  ASSUME NEW a \in Nat, NEW b \in Nat, NEW r \in 1..Min({a, b})
  PROVE  r \in 1..a /\ r \in 1..b
<1> DEFINE S == {a, b}
<1>1. \E x \in S : \A y \in S : x <= y
  <2>1. CASE a <= b
    BY <2>1
  <2>2. CASE b <= a
    BY <2>2
  <2> QED BY <2>1, <2>2
<1>2. Min(S) \in S /\ \A y \in S : Min(S) <= y
  BY <1>1 DEF Min
<1>3. /\ Min({a, b}) \in Nat /\ Min({a, b}) <= a /\ Min({a, b}) <= b
  BY <1>2
<1> HIDE DEF S
<1> QED BY <1>3

\* A remap from the spans remembered: input i's shared rows keep their columns.
LEMMA RemapKeepsShared ==
  ASSUME NEW rows \in Seq(Columns), Unshared(rows),
         NEW last \in Seq(Nat), Total(last) = Len(rows),
         NEW spans \in Seq(Nat), Len(spans) > 0,
         NEW i \in DOMAIN spans \cap DOMAIN last,
         NEW r \in 1..Min({last[i], spans[i]})
  PROVE  FillNewRows(RemapRows(rows, last, spans))[Rows(spans, i - 1) + r]
           = rows[Rows(last, i - 1) + r]
<1> DEFINE remapped == RemapRows(rows, last, spans)
           before == Rows(last, i - 1) + r
           after == Rows(spans, i - 1) + r
<1>1. i \in 1..Len(spans) /\ i \in 1..Len(last)
  OBVIOUS
<1>2. last[i] \in Nat /\ spans[i] \in Nat
  BY <1>1, ElementOfSeq
<1>3. r \in 1..last[i] /\ r \in 1..spans[i]
  BY <1>2, MinOfTwo
<1>4. before \in 1..Len(rows) /\ after \in 1..Total(spans)
  BY <1>1, <1>3, RowsInside
<1>5. OldSpans(rows, last) = last
  BY DEF OldSpans
<1>6. /\ remapped \in Seq(Drafts)
      /\ Len(remapped) = Total(spans)
      /\ remapped[after] = rows[before]
  <2>1. i <= Len(last) /\ r <= last[i]
    BY <1>1, <1>2, <1>3
  <2> DEFINE old == OldSpans(rows, last)
  <2>2. /\ remapped \in Seq(Drafts)
        /\ Len(remapped) = Total(spans)
        /\ \A j \in 1..Len(spans) : \A k \in 1..spans[j] :
             remapped[Rows(spans, j - 1) + k] =
               IF j <= Len(old) /\ k <= old[j]
               THEN rows[Rows(old, j - 1) + k] ELSE NewRow
    BY RemapBlocks
  <2> HIDE DEF remapped
  <2>3. remapped[Rows(spans, i - 1) + r]
          = IF i <= Len(last) /\ r <= last[i]
            THEN rows[Rows(last, i - 1) + r] ELSE NewRow
    BY <1>1, <1>3, <1>5, <2>2, Zenon
  <2>4. remapped[after] = rows[before]
    BY <2>1, <2>3
  <2> QED BY <2>2, <2>4
<1>7. Unshared(remapped)
  BY RemapUnshared
<1>8. rows[before] # NewRow
  <2>1. rows[before] \in Columns
    <3> HIDE DEF before
    <3> QED BY <1>4, ElementOfSeq
  <2> HIDE DEF before
  <2> QED BY <2>1, SizesAreNat DEF Columns, NewRow
<1> HIDE DEF remapped, before, after
<1>9. FillNewRows(remapped)[after] = remapped[after]
  BY <1>4, <1>6, <1>7, <1>8, FillRows
<1> QED BY <1>6, <1>9 DEF remapped, before, after

\* The same of stores, before and after a handler that reconciles once.
LEMMA RespanKeeps ==
  ASSUME NEW s, Sound(s), Settled(s),
         NEW t, Sound(t), Reconciled(t),
         t.inRows = FillNewRows(RemapRows(s.inRows, s.lastSpans, t.lastSpans)),
         NEW i \in DOMAIN t.lastSpans \cap DOMAIN s.lastSpans,
         NEW r \in 1..Min({s.lastSpans[i], t.lastSpans[i]})
  PROVE  t.inRows[Rows(t.lastSpans, i - 1) + r]
           = s.inRows[Rows(s.lastSpans, i - 1) + r]
<1> DEFINE rows == s.inRows
           last == s.lastSpans
           spans == t.lastSpans
           formats == t.formats
<1>1. /\ rows \in Seq(Columns) /\ Unshared(rows)
      /\ last \in Seq(Nat) /\ Total(last) = Len(rows)
  BY DEF Sound, Settled, Stores
<1>2. spans \in Seq(Nat) /\ Len(spans) > 0
  <2>1. formats \in Formats /\ spans = Spans(formats)
    BY DEF Sound, Stores, Reconciled
  <2> HIDE DEF formats, spans
  <2>2. formats \in Seq(Nat) /\ Len(formats) > 0
    BY <2>1, FormatsAreNat
  <2> QED BY <2>1, <2>2, SpansType
<1>3. /\ t.inRows = FillNewRows(RemapRows(rows, last, spans))
      /\ i \in DOMAIN spans \cap DOMAIN last
      /\ r \in 1..Min({last[i], spans[i]})
  OBVIOUS
<1> HIDE DEF rows, last, spans
<1>4. FillNewRows(RemapRows(rows, last, spans))[Rows(spans, i - 1) + r]
        = rows[Rows(last, i - 1) + r]
  BY <1>1, <1>2, <1>3, RemapKeepsShared
<1> QED BY <1>3, <1>4 DEF rows, last, spans

\* A format or count change keeps, of every input, the hardware channels of
\* the rows its old and its new span share.
THEOREM InputsAlwaysKeepPatches == Spec => InputsKeepPatches
<1>1. IInv /\ IInv' /\ [Next]_vars => [KeepsSharedRows \/ ~Respan]_vars
  <2> SUFFICES ASSUME IInv, IInv', Respan PROVE KeepsSharedRows
    OBVIOUS
  <2>1. /\ Sound(store) /\ Settled(store) /\ Sound(store')
        /\ Len(store'.formats) \in Int
    BY FormatsAreNat DEF IInv, Sound, Stores, Formats
  <2>2. /\ Reconciled(store')
        /\ store'.inRows = FillNewRows(RemapRows(store.inRows, store.lastSpans,
                                                 store'.lastSpans))
    <3>1. CASE store' = ApplyInputCount(store, Len(store'.formats))
      BY <2>1, <3>1, ApplyInputCountSound
    <3>2. ASSUME NEW i \in DOMAIN store.formats, NEW f \in 0..MaxOrder,
                 store' = WithFormat(store, i, f)
          PROVE  /\ Reconciled(store')
                 /\ store'.inRows =
                      FillNewRows(RemapRows(store.inRows, store.lastSpans,
                                            store'.lastSpans))
      BY <2>1, <3>2, WithFormatSound
    <3> QED BY <3>1, <3>2 DEF Respan
  <2> QED BY <2>1, <2>2, RespanKeeps DEF KeepsSharedRows
<1> QED BY <1>1, SessionsStaySound, PTL DEF Spec, InputsKeepPatches

-----------------------------------------------------------------------------
(* Saving and loading. *)

\* All sections of a project whose rows fit its counts, read over any store.
LEMMA LoadRestores ==
  ASSUME NEW s, Sound(s), Settled(s), NEW file, SavedFile(file),
         file.speakers = Len(file.outRows),
         Total(Spans(file.formats)) = Len(file.inRows)
  PROVE  ProjectOf(LoadAll(s, file, Sections)) = file
<1> DEFINE formats == file.formats
           inputs == LoadInputs(s, file)
           speakers == LoadSpeakers(inputs, file)
           monitored == LoadMonitoring(speakers, file)
           loaded == LoadAudioPatch(monitored, file)
<1>1. /\ ClampStemSpans(formats) = formats
      /\ formats \in Formats
  BY DEF SavedFile, Formats, ClampStemSpans
<1>2. LoadAll(s, file, Sections) = loaded
  BY DEF LoadAll, Sections
<1>3. Sound(inputs) /\ Settled(inputs) /\ inputs.formats = formats
  BY <1>1, LoadInputsSound
<1> HIDE DEF inputs
<1>4. /\ Sound(speakers) /\ Settled(speakers) /\ speakers.formats = formats
      /\ speakers.lastSpans = Spans(formats)
      /\ speakers.speakers = file.speakers
  BY <1>1, <1>3, LoadSpeakersSound DEF Reconciled
<1> HIDE DEF speakers
<1>5. /\ Sound(monitored) /\ monitored.formats = formats
      /\ monitored.lastSpans = Spans(formats)
      /\ monitored.speakers = file.speakers /\ monitored.pair = file.pair
  BY <1>4, LoadMonitoringSound
<1> HIDE DEF monitored
<1>6. /\ loaded.formats = formats
      /\ loaded.speakers = file.speakers /\ loaded.pair = file.pair
      /\ loaded.inRows = FillNewRows(RemapRows(file.inRows, Spans(formats),
                                               Spans(formats)))
      /\ loaded.outRows = FillNewRows(ResizeRows(file.outRows, file.speakers))
  BY <1>1, <1>5, LoadAudioPatchSound DEF Reconciled
<1> HIDE DEF loaded
<1>7. loaded.inRows = file.inRows
  <2> DEFINE rows == file.inRows
             spans == Spans(formats)
  <2>1. rows \in Seq(Columns) /\ Total(spans) = Len(rows)
    BY DEF SavedFile
  <2>2. spans \in Seq(Nat) /\ Len(spans) > 0
    <3> HIDE DEF formats
    <3>1. formats \in Seq(Nat) /\ Len(formats) > 0
      BY <1>1, FormatsAreNat
    <3> QED BY <3>1, SpansType
  <2>3. loaded.inRows = FillNewRows(RemapRows(rows, spans, spans))
    BY <1>6
  <2> HIDE DEF rows, spans
  <2> QED BY <2>1, <2>2, <2>3, RemapSame, FillNothing DEF rows
<1>8. loaded.outRows = file.outRows
  <2> DEFINE rows == file.outRows
  <2>1. /\ rows \in Seq(Columns) /\ file.speakers = Len(rows)
        /\ file.speakers \in Nat
    BY DEF SavedFile
  <2>2. loaded.outRows = FillNewRows(ResizeRows(rows, file.speakers))
    BY <1>6
  <2> HIDE DEF rows
  <2>3. ResizeRows(rows, file.speakers) = rows
    BY <2>1, ResizedRows
  <2> QED BY <2>1, <2>2, <2>3, FillNothing DEF rows
<1>9. ProjectOf(loaded) = file
  <2>1. file = [formats |-> file.formats, speakers |-> file.speakers,
                inRows |-> file.inRows, outRows |-> file.outRows,
                pair |-> file.pair]
    BY DEF SavedFile
  <2> QED BY <1>6, <1>7, <1>8, <2>1 DEF ProjectOf
<1> QED BY <1>2, <1>9

\* A project whose rows fit its counts comes back exactly as it was saved.
THEOREM ProjectsAlwaysRoundTrip == Spec => ProjectRoundTrips
<1> DEFINE fits == /\ saved.speakers = Len(saved.outRows)
                   /\ Total(Spans(saved.formats)) = Len(saved.inRows)
<1>1. IInv /\ [Next]_vars
        => [fits /\ ProjectOf(store') # saved => ~LoadProject(Sections)]_vars
  <2> SUFFICES ASSUME IInv, fits, LoadProject(Sections)
               PROVE  ProjectOf(store') = saved
    OBVIOUS
  <2> QED BY LoadRestores DEF IInv, LoadProject
<1> QED BY <1>1, SessionsStaySound, PTL DEF Spec, ProjectRoundTrips
=============================================================================
