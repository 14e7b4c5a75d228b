----------------------------- MODULE StemPatch -----------------------------
(***************************************************************************)
(* Sessions on the store of PatchStore: edits by hand and by OSC, undo,    *)
(* saving and loading (XoaValueTreeState.cpp, XoaFileManager.cpp).         *)
(*                                                                         *)
(* One handler of the message thread per step.  An undone count change and *)
(* a loaded file come behind the back of reconcileAudioPatch's span cache. *)
(* A project is a file per section: a save may fail to write some of them  *)
(* and a load to read some, and the project is then a mixture of sessions. *)
(***************************************************************************)
EXTENDS PatchStore

CONSTANTS
  Projects,                \* on disk, saved by earlier sessions
  EditColumns,             \* bound: hardware columns patched by hand
  PairChoices,             \* bound: headphone pairs chosen
  MaxFailures,             \* bound: sections failing in one save or load
  MaxSteps                 \* bound: length of a session

ASSUME SessionAssumption ==
  /\ PairChoices \subseteq 0..(MaxHardware - 1)
  /\ EditColumns \subseteq 1..MaxHardware
  /\ MaxFailures \in Nat
  /\ MaxSteps \in Nat

\* Every section was written by saveProject, though not all of them need be of
\* one session: nothing is assumed of one section's agreement with another.
ASSUME ProjectsAssumption ==
  \A file \in Projects :
    /\ file \in [formats : Seq(0..MaxOrder), speakers : 1..MaxSpeakers,
                 inRows : Seq(Columns), outRows : Seq(Columns),
                 pair : 0..(MaxHardware - 1)]
    /\ Len(file.formats) \in 1..MaxInputs
    /\ Len(file.inRows) <= MaxStem
    /\ OneRowPerColumn(file.inRows)
    /\ OneRowPerColumn(file.outRows)

VARIABLES
  store,                   \* the value tree, the span cache, the routing
  saved,                   \* the section files of the project folder
  backup,                  \* bound: the newest backup of each, no older ones
  undoTail,                \* what undoing the last input count change does
  steps                    \* bound

vars == <<store, saved, backup, undoTail, steps>>

NothingToUndo == <<"none">>

-----------------------------------------------------------------------------
(* Project files. *)

\* loadSectionFrom, section by section: the count pre-pass, the merge, and a
\* reconcile.
LoadInputs(s, file) ==
  ReconcileAudioPatch([ApplyInputCount(s, Len(file.formats))
                         EXCEPT !.formats = file.formats])

LoadSpeakers(s, file) ==
  ReconcileAudioPatch(ApplySpeakerCount(s, file.speakers))

LoadMonitoring(s, file) == [s EXCEPT !.pair = file.pair]

LoadAudioPatch(s, file) ==
  ReconcileAudioPatch(WriteRows(s, file.inRows, file.outRows))

Sections == {"inputs", "speakers", "monitoring", "audiopatch"}

\* The patch before the inputs it belongs to.
LoadPatchFirst(s, file, ok) ==
  LET patched == IF "audiopatch" \in ok THEN LoadAudioPatch(s, file) ELSE s
      sized == IF "inputs" \in ok THEN LoadInputs(patched, file) ELSE patched
  IN  IF "speakers" \in ok THEN LoadSpeakers(sized, file) ELSE sized

\* loadProject, in its order; a section that cannot be read, or is of a newer
\* schema, is passed over and the next is loaded all the same.
LoadAll(s, file, ok) ==
  LET inputs == IF "inputs" \in ok THEN LoadInputs(s, file) ELSE s
      speakers == IF "speakers" \in ok THEN LoadSpeakers(inputs, file)
                  ELSE inputs
      monitored == IF "monitoring" \in ok THEN LoadMonitoring(speakers, file)
                   ELSE speakers
  IN  IF "audiopatch" \in ok THEN LoadAudioPatch(monitored, file)
      ELSE monitored

\* Writing the sections `ok` of one project over another.
Overwrite(old, new, ok) ==
  LET pick(section) == IF section \in ok THEN new ELSE old
  IN  [formats |-> pick("inputs").formats,
       speakers |-> pick("speakers").speakers,
       inRows |-> pick("audiopatch").inRows,
       outRows |-> pick("audiopatch").outRows,
       pair |-> pick("monitoring").pair]

\* What saveProject writes.
ProjectOf(s) ==
  [formats |-> s.formats, speakers |-> s.speakers, inRows |-> s.inRows,
   outRows |-> s.outRows, pair |-> s.pair]

-----------------------------------------------------------------------------
Init ==
  /\ store = DefaultStore
  /\ saved \in Projects
  /\ backup = saved
  /\ undoTail = NothingToUndo
  /\ steps = 0

Step ==
  /\ steps < MaxSteps
  /\ steps' = steps + 1

\* A write of inputFormat, by the user (a new undo transaction) or by OSC
\* (none); handlePostWrite reconciles.
SetInputFormat(i, format, undoable) ==
  /\ Step
  /\ store' = WithFormat(store, i, format)
  /\ undoTail' = IF undoable THEN NothingToUndo ELSE undoTail
  /\ UNCHANGED <<saved, backup>>

\* What an undo of the change from `old` to n inputs has to put back.
CountUndo(old, n) ==
  IF n < Len(old) THEN <<"restore", SubSeq(old, n + 1, Len(old))>>
  ELSE IF n > Len(old) THEN <<"trim", Len(old)>> ELSE NothingToUndo

SetNumInputs(n) ==
  /\ Step
  /\ n # Len(store.formats)
  /\ store' = ApplyInputCount(store, n)
  /\ undoTail' = CountUndo(store.formats, n)
  /\ UNCHANGED <<saved, backup>>

\* undo(): the removed inputs come back with their formats, or the added ones
\* go.  "Patch maintenance is deliberately outside undo": no reconcile.
UndoInputCount ==
  /\ Step
  /\ \/ /\ undoTail[1] = "restore"
        /\ store' = [store EXCEPT !.formats = @ \o undoTail[2]]
     \/ /\ undoTail[1] = "trim"
        /\ store' = [store EXCEPT !.formats = SubSeq(@, 1, undoTail[2])]
  /\ undoTail' = NothingToUndo
  /\ UNCHANGED <<saved, backup>>

SetNumSpeakers(n) ==
  /\ Step
  /\ n # store.speakers
  /\ store' = ApplySpeakerCount(store, n)
  /\ UNCHANGED <<saved, backup, undoTail>>

PatchInput(row, column) ==
  /\ Step
  /\ MayPatchInput(store, row, column)
  /\ store' = WithInputPatch(store, row, column)
  /\ UNCHANGED <<saved, backup, undoTail>>

PatchOutput(row, column) ==
  /\ Step
  /\ MayPatchOutput(store, row, column)
  /\ store' = WithOutputPatch(store, row, column)
  /\ UNCHANGED <<saved, backup, undoTail>>

ReservePair(first) ==
  /\ Step
  /\ first # store.pair
  /\ store' = WithPair(store, first)
  /\ UNCHANGED <<saved, backup, undoTail>>

\* Each section's old file becomes its newest backup, then the section is
\* written; one that cannot be written does not keep the others from it.
SaveProject(ok) ==
  /\ Step
  /\ backup' = saved
  /\ saved' = Overwrite(saved, ProjectOf(store), ok)
  /\ UNCHANGED <<store, undoTail>>

\* The merge is a transaction of its section's undo domain.
UndoAfterLoad(ok) == IF "inputs" \in ok THEN NothingToUndo ELSE undoTail

LoadProject(ok) ==
  /\ Step
  /\ store' = LoadAll(store, saved, ok)
  /\ undoTail' = UndoAfterLoad(ok)
  /\ UNCHANGED <<saved, backup>>

\* loadSection and loadSectionBackup.
LoadSection(section, file) ==
  /\ Step
  /\ store' = LoadAll(store, file, {section})
  /\ undoTail' = UndoAfterLoad({section})
  /\ UNCHANGED <<saved, backup>>

Next ==
  \/ \E i \in DOMAIN store.formats, f \in 0..MaxOrder, u \in BOOLEAN :
       SetInputFormat(i, f, u)
  \/ \E n \in 1..MaxInputs : SetNumInputs(n)
  \/ UndoInputCount
  \/ \E n \in 1..MaxSpeakers : SetNumSpeakers(n)
  \/ \E r \in DOMAIN store.inRows, c \in EditColumns \cup {Unpatched} :
       PatchInput(r, c)
  \/ \E r \in DOMAIN store.outRows, c \in EditColumns \cup {Unpatched} :
       PatchOutput(r, c)
  \/ \E p \in PairChoices : ReservePair(p)
  \/ \E failing \in SUBSET Sections :
       /\ Cardinality(failing) <= MaxFailures
       /\ \/ SaveProject(Sections \ failing)
          \/ LoadProject(Sections \ failing)
  \/ \E section \in Sections, file \in {saved, backup} :
       LoadSection(section, file)

Spec == Init /\ [][Next]_vars

-----------------------------------------------------------------------------
(* Properties. *)

TypeOK ==
  /\ Len(store.formats) \in 1..MaxInputs
  /\ \A i \in DOMAIN store.formats : store.formats[i] \in 0..MaxOrder
  /\ store.speakers \in 1..MaxSpeakers
  /\ \A k \in DOMAIN store.inRows : store.inRows[k] \in Columns
  /\ \A k \in DOMAIN store.outRows : store.outRows[k] \in Columns
  /\ store.pair \in 0..(MaxHardware - 1)
  /\ steps \in 0..MaxSteps

\* Formats, rows and the ceiling agree after every sequence of format and
\* count changes, hand edits and loads: each stem channel has one row, each
\* speaker has one, and the sum of spans never passes kMaxStemChannels.
RowsFollowSpans == Reconciled(store) => RowsFit(store)

\* A hardware channel serves at most one row of each patch: remapping and
\* identity continuation never patch over a channel in use.
OneToOne ==
  \A rows \in {store.inRows, store.outRows} : OneRowPerColumn(rows)

\* What the audio thread routes, it routes as the patch window shows it,
\* whichever handler changed the patch last.
RoutingMatchesPatch ==
  Reconciled(store) =>
    LET now == ComposePatchRouting(store)
    IN  /\ \A k \in DOMAIN now.stem \cap DOMAIN store.routing.stem :
             store.routing.stem[k] = now.stem[k]
        /\ store.routing.output = now.output

\* The rows an input's old and new span share are patched as before.
KeepsSharedRows ==
  \A i \in DOMAIN store'.lastSpans \cap DOMAIN store.lastSpans :
    LET before == Rows(store.lastSpans, i - 1)
        after == Rows(store'.lastSpans, i - 1)
        shared == 1..Min({store.lastSpans[i], store'.lastSpans[i]})
    IN  \A r \in shared : store'.inRows[after + r] = store.inRows[before + r]

\* A step of SetNumInputs or SetInputFormat.
Respan ==
  /\ steps' # steps
  /\ \/ store' = ApplyInputCount(store, Len(store'.formats))
     \/ \E i \in DOMAIN store.formats, f \in 0..MaxOrder :
          store' = WithFormat(store, i, f)

\* A format or count change moves rows, never patches: every input keeps the
\* hardware channels of the rows its old and new spans share, also when the
\* ceiling stepped other inputs down, and when a count change was undone in
\* between.  (Respan => KeepsSharedRows, the cheaper side first.)
InputsKeepPatches == [][KeepsSharedRows \/ ~Respan]_vars

\* A project whose rows fit its counts comes back exactly as it was saved,
\* whatever was in the store before, a half-loaded project included: neither
\* the count pre-pass, nor the reconciles between the sections, nor a stale
\* span cache reshuffles a patch.
ProjectRoundTrips ==
  [][/\ saved.speakers = Len(saved.outRows)
     /\ Total(Spans(saved.formats)) = Len(saved.inRows)
     /\ ProjectOf(store') # saved
     => ~LoadProject(Sections)]_vars

\* "the store's reconcile rewrites patchData whenever the spans move, so one
\* listener covers every route": spans, rows and the headphone pair of the
\* published routing are the store's.
RoutingIsPublished ==
  Reconciled(store) => store.routing = ComposePatchRouting(store)
=============================================================================
