----------------------------- MODULE PatchStore ----------------------------
(***************************************************************************)
(* Input formats, the flattened stem rows they span, and the two patches   *)
(* that connect stem rows and speakers to hardware channels, as functions  *)
(* from store to store (XoaValueTreeState.cpp, PatchRouting.h).            *)
(*                                                                         *)
(* An input of format f occupies Span(f) consecutive rows of the input     *)
(* patch; a format or count change moves every later input's rows.         *)
(* reconcileAudioPatch() re-establishes the agreement of formats, rows and *)
(* routing after such a change, working from the spans it cached the last  *)
(* time.                                                                   *)
(*                                                                         *)
(* All of it runs on the message thread, one handler at a time, and a      *)
(* handler that calls others composes them.  A patch row is the hardware   *)
(* column of its one '1' (columns count from 1 here), or Unpatched.  The   *)
(* columns displayed and the active hardware counts, which only the matrix *)
(* reads, are left out.                                                    *)
(***************************************************************************)
EXTENDS Integers, SequencesExt

CONSTANTS
  MaxInputs, MaxSpeakers,  \* kMaxInputs, kMaxSpeakers
  MaxOrder,                \* kAmbisonicOrder
  MaxStem,                 \* kMaxStemChannels
  MaxHardware,             \* kMaxHardwareChannels
  DefaultInputs, DefaultSpeakers

ASSUME SizesAssumption ==
  /\ MaxHardware \in Nat
  /\ MaxInputs \in 1..MaxStem           \* mono always fits
  /\ MaxStem \in 1..MaxHardware
  /\ MaxSpeakers \in 1..MaxHardware
  /\ DefaultInputs \in 1..MaxInputs
  /\ DefaultSpeakers \in 1..MaxSpeakers
  /\ MaxOrder \in Nat

Unpatched == 0
NewRow == -1               \* reconcile's empty-string placeholder
NoPair == 0                \* binauralOutputChannel -1

Columns == 0..MaxHardware

-----------------------------------------------------------------------------
(* Spans. *)

\* channelCountForFormat.
Span(format) == IF format = 0 THEN 1 ELSE (format + 1) * (format + 1)

\* currentInputSpans.
Spans(formats) == [i \in DOMAIN formats |-> Span(formats[i])]

\* Rows of the first i blocks: getStemChannelOffset(i).
Rows(spans, i) ==
  LET sum[j \in 0..Len(spans)] == IF j = 0 THEN 0 ELSE sum[j - 1] + spans[j]
  IN  sum[IF i < Len(spans) THEN i ELSE Len(spans)]

Total(spans) == Rows(spans, Len(spans))

\* The highest order input i can keep in the budget once every later input
\* is down to mono; mono if none fits.
SteppedDown(formats, i) ==
  LET lowered(f) == [j \in DOMAIN formats |->
                       IF j < i THEN formats[j] ELSE IF j = i THEN f ELSE 0]
  IN  Max({0} \cup {f \in 0..formats[i] :
                     Total(Spans(lowered(f))) <= MaxStem})

\* Stepping down only the last input.
ClampLastOnly(formats) ==
  [i \in DOMAIN formats |-> IF i = Len(formats) THEN SteppedDown(formats, i)
                            ELSE formats[i]]

\* clampStemSpans: step formats down, last input first, until the sum fits;
\* an input is touched only when mono for all later ones is not enough.
ClampStemSpans(formats) ==
  IF Total(Spans(formats)) <= MaxStem THEN formats
  ELSE [i \in DOMAIN formats |-> SteppedDown(formats, i)]

-----------------------------------------------------------------------------
(* Patch rows. *)

\* Identity without a look at what is taken.
FillAlwaysIdentity(rows) ==
  [r \in DOMAIN rows |-> IF rows[r] = NewRow THEN r ELSE rows[r]]

\* fillNewRowsWithIdentity: a new row takes the hardware column of its own
\* index when no row holds it, and is unpatched otherwise.
FillNewRows(rows) ==
  [r \in DOMAIN rows |->
     IF rows[r] # NewRow THEN rows[r]
     ELSE IF r <= MaxHardware /\ ~Contains(rows, r) THEN r ELSE Unpatched]

\* The span cache, when it accounts for the rows present; one row per input
\* otherwise.
OldSpans(rows, last) ==
  IF Total(last) = Len(rows) THEN last ELSE [i \in DOMAIN rows |-> 1]

\* Keeping rows by position instead of by input.
RemapByPosition(rows, last, spans) ==
  [k \in 1..Total(spans) |-> IF k <= Len(rows) THEN rows[k] ELSE NewRow]

\* Block by block: input i keeps the rows its old and its new span share.
RemapRows(rows, last, spans) ==
  LET old == OldSpans(rows, last)
      oldSpan(i) == IF i <= Len(old) THEN old[i] ELSE 0
      block(i) ==
        [r \in 1..spans[i] |->
           IF r <= oldSpan(i) THEN rows[Rows(old, i - 1) + r] ELSE NewRow]
  IN  FlattenSeq([i \in DOMAIN spans |-> block(i)])

\* Truncate, or pad with placeholders.
ResizeRows(rows, n) ==
  [s \in 1..n |-> IF s <= Len(rows) THEN rows[s] ELSE NewRow]

-----------------------------------------------------------------------------
(* The routing the audio thread acquires. *)

\* "half a pair is worse than none".  The parameter's range ends one channel
\* short of the hardware, so that no stored pair is rejected here.
UsablePair(first) == IF first + 1 <= MaxHardware THEN first ELSE NoPair

\* composePatchRouting: per input its span, per stem row and per speaker its
\* hardware channel (identity where the patch has no such row), and the pair.
ComposePatchRouting(s) ==
  LET spans == Spans(s.formats)
      stems == IF Total(spans) < MaxStem THEN Total(spans) ELSE MaxStem
      column(rows, k) == IF k <= Len(rows) THEN rows[k] ELSE k
  IN  [spans  |-> spans,
       stem   |-> [k \in 1..stems |-> column(s.inRows, k)],
       output |-> [k \in 1..s.speakers |-> column(s.outRows, k)],
       pair   |-> UsablePair(s.pair)]

\* A listener that composed the routing before the write it reports.
WriteRowsLate(s, inRows, outRows) ==
  [s EXCEPT !.inRows = inRows, !.outRows = outRows,
            !.routing = IF s.inRows = inRows /\ s.outRows = outRows
                        THEN s.routing
                        ELSE ComposePatchRouting(s)]

\* Writing patchData and rows; a change of either reaches the listener in
\* AudioEngine, which republishes.
WriteRows(s, inRows, outRows) ==
  LET t == [s EXCEPT !.inRows = inRows, !.outRows = outRows]
  IN  IF s.inRows = inRows /\ s.outRows = outRows
      THEN s
      ELSE [t EXCEPT !.routing = ComposePatchRouting(t)]

-----------------------------------------------------------------------------
(* The handlers. *)

\* Clamp the formats, remap the input rows, resize the output rows, remember
\* the spans.
ReconcileAudioPatch(s) ==
  LET formats == ClampStemSpans(s.formats)
      spans == Spans(formats)
      t == WriteRows([s EXCEPT !.formats = formats],
                     FillNewRows(RemapRows(s.inRows, s.lastSpans, spans)),
                     FillNewRows(ResizeRows(s.outRows, s.speakers)))
  IN  [t EXCEPT !.lastSpans = spans]

Limit(n, lo, hi) == IF n < lo THEN lo ELSE IF n > hi THEN hi ELSE n

\* applyChannelCount on the inputs: shrink from the tail, grow with mono.
ApplyInputCount(s, count) ==
  LET n == Limit(count, 1, MaxInputs)
  IN  ReconcileAudioPatch(
        [s EXCEPT !.formats = [i \in 1..n |-> IF i <= Len(s.formats)
                                              THEN s.formats[i] ELSE 0]])

ApplySpeakerCount(s, count) ==
  ReconcileAudioPatch([s EXCEPT !.speakers = Limit(count, 1, MaxSpeakers)])

-----------------------------------------------------------------------------
(* The edits, as functions of the store. *)

\* A write of inputFormat: handlePostWrite reconciles.
WithFormat(s, i, format) ==
  ReconcileAudioPatch([s EXCEPT !.formats[i] = format])

\* The shared patch matrix edits a cell: one row per column, one column per
\* row, and no speaker on the reserved pair.
Reserved(pair) == IF pair = NoPair THEN {} ELSE {pair, pair + 1}

MayPatchInput(s, row, column) ==
  /\ column = Unpatched \/ ~Contains(s.inRows, column)
  /\ s.inRows[row] # column

MayPatchOutput(s, row, column) ==
  /\ column = Unpatched \/ ~Contains(s.outRows, column)
  /\ column \notin Reserved(s.pair)
  /\ s.outRows[row] # column

WithInputPatch(s, row, column) ==
  WriteRows(s, [s.inRows EXCEPT ![row] = column], s.outRows)

WithOutputPatch(s, row, column) ==
  WriteRows(s, s.inRows, [s.outRows EXCEPT ![row] = column])

\* A write of binauralOutputChannel.  No listener of the engine sees it.
WithPair(s, first) == [s EXCEPT !.pair = first]

-----------------------------------------------------------------------------
\* The constructor: defaults, identity patches, a first publish.
DefaultStore ==
  LET formats == [i \in 1..DefaultInputs |-> 0]
      s == [formats   |-> formats,
            speakers  |-> DefaultSpeakers,
            inRows    |-> [k \in 1..DefaultInputs |-> k],
            outRows   |-> [k \in 1..DefaultSpeakers |-> k],
            pair      |-> NoPair,
            lastSpans |-> Spans(formats),
            routing   |-> <<>>]
  IN  [s EXCEPT !.routing = ComposePatchRouting(s)]

-----------------------------------------------------------------------------
(* What the stores between handlers look like. *)

\* No count change has been undone since the last reconcile.
Reconciled(s) == Spans(s.formats) = s.lastSpans

\* Each stem channel and each speaker has one row, and the sum of spans is
\* within kMaxStemChannels.
RowsFit(s) ==
  /\ Total(Spans(s.formats)) <= MaxStem
  /\ Len(s.inRows) = Total(Spans(s.formats))
  /\ Len(s.outRows) = s.speakers

\* A hardware channel serves at most one of the rows.
OneRowPerColumn(rows) ==
  \A j, k \in DOMAIN rows : rows[j] = rows[k] /\ j # k => rows[j] = Unpatched
=============================================================================
