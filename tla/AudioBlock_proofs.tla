------------------------- MODULE AudioBlock_proofs -------------------------
(***************************************************************************)
(* Proofs about AudioBlock, for every number of inputs, speakers and       *)
(* channels, every set of patch columns and any number of edits.           *)
(*                                                                         *)
(* The inductive invariant says what each follower of the store relies on. *)
(* The tick: a row that is not dirty is composed for the format its input  *)
(* has now, and between compose and publish no row of an existing input is *)
(* dirty.  The patch routing: the last one a handler has yet to publish,   *)
(* or the published one when there is none, is of the rows stored.  The    *)
(* block: inputs beyond the last sources are silent.  And the store itself *)
(* is reconciled, with one-to-one rows that fit (Sound and Settled, of     *)
(* PatchStore_proofs), after every edit.                                   *)
(***************************************************************************)
EXTENDS AudioBlock, PatchStore_proofs

StoreInv == Sound(store) /\ Settled(store) /\ Reconciled(store)

\* The routing published once the running handler has ended.
Newest == IF pending = <<>> THEN patch ELSE pending[Len(pending)]

RoutingInv ==
  /\ patch \in Routings
  /\ pending \in Seq(Routings)
  /\ Newest.stem = store.inRows
  /\ Newest.output = store.outRows

RowsInv ==
  /\ \A i \in DOMAIN store.formats \ dirty : live[i] = store.formats[i]
  /\ ticking => dirty \cap DOMAIN store.formats = {}

IInv == StoreInv /\ RoutingInv /\ RowsInv /\ NothingLingers /\ TypeOK

-----------------------------------------------------------------------------
(* The edits. *)

LEMMA ColumnsAndPairs ==
  /\ EditColumns \cup {Unpatched} \subseteq Columns
  /\ PairChoices \subseteq Pairs
BY BlockAssumption, SizesAreNat DEF Columns, Unpatched, Pairs

\* The formats of a sound store, as the invariant uses them.
LEMMA StoredFormats ==
  ASSUME NEW s, Sound(s)
  PROVE  /\ Len(s.formats) \in 1..MaxInputs
         /\ DOMAIN s.formats = 1..Len(s.formats)
         /\ DOMAIN s.formats \subseteq 1..MaxInputs
         /\ \A i \in DOMAIN s.formats : s.formats[i] \in 0..MaxOrder
         /\ s.speakers \in 1..MaxSpeakers
<1> DEFINE formats == s.formats
           orders == 0..MaxOrder
<1>1. formats \in Formats /\ s.speakers \in 1..MaxSpeakers
  BY DEF Sound, Stores
<1>2. formats \in Seq(orders)
  BY <1>1 DEF Formats
<1> HIDE DEF formats, orders
<1>3. \A i \in DOMAIN formats : formats[i] \in orders
  BY <1>2
<1>4. Len(formats) \in 1..MaxInputs /\ DOMAIN formats = 1..Len(formats)
  BY <1>1, FormatsAreNat
<1>5. 1..Len(formats) \subseteq 1..MaxInputs
  BY <1>4, SizesAreNat
<1> QED BY <1>1, <1>3, <1>4, <1>5 DEF formats, orders

\* Every edit of a reconciled store ends in one.
LEMMA EditsSound ==
  ASSUME StoreInv, EditStore
  PROVE  \E t : Edit(t) /\ Sound(t) /\ Settled(t) /\ Reconciled(t)
<1> USE DEF StoreInv
<1>1. ASSUME NEW i \in DOMAIN store.formats, NEW f \in 0..MaxOrder,
             Edit(WithFormat(store, i, f))
      PROVE  \E t : Edit(t) /\ Sound(t) /\ Settled(t) /\ Reconciled(t)
  BY <1>1, WithFormatSound
<1>2. ASSUME NEW n \in 1..MaxInputs, Edit(ApplyInputCount(store, n))
      PROVE  \E t : Edit(t) /\ Sound(t) /\ Settled(t) /\ Reconciled(t)
  BY <1>2, ApplyInputCountSound, n \in Int
<1>3. ASSUME NEW n \in 1..MaxSpeakers, Edit(ApplySpeakerCount(store, n))
      PROVE  \E t : Edit(t) /\ Sound(t) /\ Settled(t) /\ Reconciled(t)
  BY <1>3, ApplySpeakerCountSound, n \in Int
<1>4. ASSUME NEW r \in DOMAIN store.inRows, NEW c \in EditColumns \cup {Unpatched},
             MayPatchInput(store, r, c), Edit(WithInputPatch(store, r, c))
      PROVE  \E t : Edit(t) /\ Sound(t) /\ Settled(t) /\ Reconciled(t)
  <2> DEFINE t == WithInputPatch(store, r, c)
  <2>1. Sound(t) /\ Settled(t) /\ t.formats = store.formats
        /\ t.lastSpans = store.lastSpans
    BY <1>4, ColumnsAndPairs, WithInputPatchSound
  <2> HIDE DEF t
  <2>2. Reconciled(t)
    BY <2>1 DEF Reconciled
  <2> QED BY <1>4, <2>1, <2>2 DEF t
<1>5. ASSUME NEW r \in DOMAIN store.outRows, NEW c \in EditColumns \cup {Unpatched},
             MayPatchOutput(store, r, c), Edit(WithOutputPatch(store, r, c))
      PROVE  \E t : Edit(t) /\ Sound(t) /\ Settled(t) /\ Reconciled(t)
  <2> DEFINE t == WithOutputPatch(store, r, c)
  <2>1. Sound(t) /\ Settled(t) /\ t.formats = store.formats
        /\ t.lastSpans = store.lastSpans
    BY <1>5, ColumnsAndPairs, WithOutputPatchSound
  <2> HIDE DEF t
  <2>2. Reconciled(t)
    BY <2>1 DEF Reconciled
  <2> QED BY <1>5, <2>1, <2>2 DEF t
<1>6. ASSUME NEW p \in PairChoices, Edit(WithPair(store, p))
      PROVE  \E t : Edit(t) /\ Sound(t) /\ Settled(t) /\ Reconciled(t)
  <2> DEFINE t == WithPair(store, p)
  <2>1. Sound(t) /\ Settled(t) /\ t.formats = store.formats
        /\ t.lastSpans = store.lastSpans
    BY <1>6, ColumnsAndPairs, WithPairSound
  <2> HIDE DEF t
  <2>2. Reconciled(t)
    BY <2>1 DEF Reconciled
  <2> QED BY <1>6, <2>1, <2>2 DEF t
<1> QED BY <1>1, <1>2, <1>3, <1>4, <1>5, <1>6 DEF EditStore

-----------------------------------------------------------------------------
(* The routings a handler publishes on its way. *)

\* A write that is reported if it changes anything.
LEMMA Reported ==
  ASSUME NEW T, NEW way \in Seq(T), NEW x \in T, NEW changed \in BOOLEAN
  PROVE  LET longer == way \o (IF changed THEN <<x>> ELSE <<>>)
         IN  /\ longer \in Seq(T)
             /\ Len(longer) <= Len(way) + 1
             /\ changed => longer # <<>> /\ longer[Len(longer)] = x
             /\ ~changed => longer = way
<1>1. CASE changed
  BY <1>1
<1>2. CASE ~changed
  BY <1>2
<1> QED BY <1>1, <1>2

\* Rows that differ from those stored keep a store a store.
LEMMA DuringRoutes ==
  ASSUME NEW t \in Stores, NEW inRows \in Seq(Columns), NEW outRows \in Seq(Columns)
  PROVE  ComposePatchRouting([t EXCEPT !.inRows = inRows, !.outRows = outRows])
           \in Routings
<1> DEFINE u == [t EXCEPT !.inRows = inRows, !.outRows = outRows]
<1>1. u \in Stores
  BY DEF Stores
<1> HIDE DEF u
<1> QED BY <1>1, ComposedRouting DEF u

\* The last routing published on the way from store s to store t is of t's
\* rows; none is published if the rows are the same.
LEMMA LastOnTheWay ==
  ASSUME NEW s, Sound(s),
         NEW t, Sound(t), Settled(t), Reconciled(t)
  PROVE  LET way == RoutingsOnTheWay(s, t)
         IN  /\ way \in Seq(Routings) /\ Len(way) <= 4
             /\ way = <<>> => t.inRows = s.inRows /\ t.outRows = s.outRows
             /\ way # <<>> => /\ way[Len(way)].stem = t.inRows
                              /\ way[Len(way)].output = t.outRows
<1> DEFINE during(inRows, outRows) ==
             ComposePatchRouting([t EXCEPT !.inRows = inRows, !.outRows = outRows])
           moreIn == Len(t.inRows) # Len(s.inRows)
           newIn == t.inRows # s.inRows
           moreOut == Len(t.outRows) # Len(s.outRows)
           newOut == t.outRows # s.outRows
           first == during(s.inRows, s.outRows)
           second == during(t.inRows, s.outRows)
           third == during(t.inRows, t.outRows)
           way1 == IF moreIn THEN <<first>> ELSE <<>>
           way2 == way1 \o (IF newIn THEN <<second>> ELSE <<>>)
           way3 == way2 \o (IF moreOut THEN <<second>> ELSE <<>>)
           way4 == way3 \o (IF newOut THEN <<third>> ELSE <<>>)
           of(routing) == routing.stem = t.inRows /\ routing.output = t.outRows
<1>1. RoutingsOnTheWay(s, t) = way4
  BY DEF RoutingsOnTheWay
<1>2. /\ s.inRows \in Seq(Columns) /\ s.outRows \in Seq(Columns)
      /\ t.inRows \in Seq(Columns) /\ t.outRows \in Seq(Columns)
      /\ t \in Stores
  BY DEF Sound, Stores
<1>3. first \in Routings /\ second \in Routings /\ third \in Routings
  BY <1>2, DuringRoutes
<1>4. of(third)
  <2>1. [t EXCEPT !.inRows = t.inRows, !.outRows = t.outRows] = t
    BY <1>2 DEF Stores
  <2>2. third = ComposePatchRouting(t)
    BY <2>1
  <2>3. /\ Len(t.outRows) = t.speakers
        /\ Total(Spans(t.formats)) = Len(t.inRows) /\ Len(t.inRows) <= MaxStem
    BY DEF Settled, Reconciled
  <2> QED BY <1>2, <2>2, <2>3, ComposedRouting
<1>5. ~newOut => second = third
  OBVIOUS
<1>6. /\ moreIn \in BOOLEAN /\ newIn \in BOOLEAN
      /\ moreOut \in BOOLEAN /\ newOut \in BOOLEAN
      /\ moreIn => newIn
      /\ moreOut => newOut
  OBVIOUS
<1>7. newIn <=> t.inRows # s.inRows
  OBVIOUS
<1>8. newOut <=> t.outRows # s.outRows
  OBVIOUS
<1> HIDE DEF first, second, third, moreIn, newIn, moreOut, newOut
<1>9. way1 \in Seq(Routings) /\ Len(way1) <= 1 /\ (~moreIn => way1 = <<>>)
  BY <1>3
<1> HIDE DEF way1
<1>10. /\ way2 \in Seq(Routings) /\ Len(way2) <= Len(way1) + 1
       /\ newIn => way2 # <<>> /\ way2[Len(way2)] = second
       /\ ~newIn => way2 = way1
  BY <1>3, <1>6, <1>9, Reported
<1> HIDE DEF way2
<1>11. /\ way3 \in Seq(Routings) /\ Len(way3) <= Len(way2) + 1
       /\ ~moreOut => way3 = way2
  BY <1>3, <1>6, <1>10, Reported
<1> HIDE DEF way3
<1>12. /\ way4 \in Seq(Routings) /\ Len(way4) <= Len(way3) + 1
       /\ newOut => way4 # <<>> /\ way4[Len(way4)] = third
       /\ ~newOut => way4 = way3
  BY <1>3, <1>6, <1>11, Reported
<1> HIDE DEF way4, of
<1>13. Len(way4) <= 4
  BY <1>9, <1>10, <1>11, <1>12
<1>14. way4 = <<>> => ~newIn /\ ~newOut
  BY <1>6, <1>10, <1>11, <1>12
<1>15. way4 # <<>> => of(way4[Len(way4)])
  <2>1. CASE newOut
    BY <1>4, <1>12, <2>1
  <2>2. CASE ~newOut /\ newIn
    BY <1>4, <1>5, <1>6, <1>10, <1>11, <1>12, <2>2
  <2>3. CASE ~newOut /\ ~newIn
    BY <1>6, <1>9, <1>10, <1>11, <1>12, <2>3
  <2> QED BY <2>1, <2>2, <2>3, <1>6
<1> QED BY <1>1, <1>7, <1>8, <1>12, <1>13, <1>14, <1>15 DEF of
-----------------------------------------------------------------------------
(* What a block computes. *)

\* The composer's sources are inputs there are.
LEMMA SourcesAreInputs ==
  ASSUME NEW s, Sound(s), NEW enabled \in BOOLEAN
  PROVE  EncoderParams(s, enabled).sources \subseteq 1..MaxInputs
<1>1. DOMAIN s.formats \subseteq 1..MaxInputs
  BY StoredFormats
<1> QED BY <1>1 DEF EncoderParams

LEMMA MaxWriter ==
  ASSUME NEW n \in Nat, NEW writers \in SUBSET (1..n), writers # {}
  PROVE  Max(writers) \in writers
<1>1. writers \in SUBSET Nat /\ \A w \in writers : w <= n
  OBVIOUS
<1> QED BY <1>1, MaxOfNaturals

LEMMA ScatterTypes ==
  ASSUME NEW routing, NEW monitor, prepared \in 1..MaxSpeakers,
         decoded \in 1..MaxSpeakers
  PROVE  Scattered(routing, monitor) \in [1..MaxHardware -> NoSpeaker..Headphones]
<1> DEFINE writers(h) == {s \in 1..prepared : HwForSpeaker(routing, s) = h}
           on(h) == IF monitor /\ h \in Reserved(routing.pair) THEN Headphones
                    ELSE IF writers(h) # {} /\ Max(writers(h)) <= decoded
                    THEN Max(writers(h)) ELSE NoSpeaker
<1>1. Scattered(routing, monitor) = [h \in 1..MaxHardware |-> on(h)]
  BY DEF Scattered
<1>2. ASSUME NEW h \in 1..MaxHardware PROVE on(h) \in NoSpeaker..Headphones
  <2>1. writers(h) # {} => Max(writers(h)) \in 1..prepared
    <3> DEFINE W == writers(h)
    <3>1. W \in SUBSET (1..prepared) /\ prepared \in Nat
      OBVIOUS
    <3> HIDE DEF W
    <3>2. W # {} => Max(W) \in 1..prepared
      BY <3>1, MaxWriter
    <3> QED BY <3>2 DEF W
  <2> DEFINE busy == writers(h) # {}
             top == Max(writers(h))
  <2>2. /\ Headphones \in NoSpeaker..Headphones
        /\ NoSpeaker \in NoSpeaker..Headphones
        /\ busy /\ top <= decoded => top \in NoSpeaker..Headphones
    <3>1. busy => top \in 1..prepared
      BY <2>1
    <3> HIDE DEF busy, top
    <3> QED BY <3>1, SizesAreNat DEF NoSpeaker, Headphones
  <2>3. on(h) = IF monitor /\ h \in Reserved(routing.pair) THEN Headphones
                ELSE IF busy /\ top <= decoded THEN top ELSE NoSpeaker
    OBVIOUS
  <2> HIDE DEF busy, top, on
  <2> QED BY <2>2, <2>3
<1> HIDE DEF on
<1> QED BY <1>1, <1>2

-----------------------------------------------------------------------------
(* The invariant. *)

LEMMA InitIInv == Init => IInv
<1> SUFFICES ASSUME Init PROVE IInv
  OBVIOUS
<1>1. StoreInv
  BY DefaultStoreSound DEF Init, StoreInv
<1>2. RoutingInv
  <2>1. store.routing \in Routings
    BY <1>1 DEF StoreInv, Sound, Stores
  <2>2. /\ patch = store.routing /\ pending = <<>>
        /\ store.routing.stem = store.inRows
        /\ store.routing.output = store.outRows
    BY DefaultStoreSound DEF Init
  <2> QED BY <2>1, <2>2 DEF RoutingInv, Newest
<1>3. RowsInv
  BY DefaultStoreSound, SizesAssumption DEF Init, RowsInv
<1>4. NothingLingers
  BY DEF Init, NothingLingers
<1>5. TypeOK
  <2>1. Len(store.formats) \in 1..MaxInputs
    BY <1>1, StoredFormats DEF StoreInv
  <2>2. \A k \in DOMAIN patch.stem : patch.stem[k] \in Columns
    BY <1>2 DEF RoutingInv, Routings
  <2>3. live \in [1..MaxInputs -> Uncomposed..MaxOrder]
    BY SizesAreNat DEF Init, Uncomposed
  <2>4. enc.sources \subseteq 1..MaxInputs
    BY DEF Init, EncoderParams
  <2>5. outputs \in [1..MaxHardware -> NoSpeaker..Headphones]
    BY SizesAreNat DEF Init, NoSpeaker, Headphones
  <2>6. prepared \in 1..MaxSpeakers /\ decoded \in 1..MaxSpeakers
    BY SizesAssumption DEF Init
  <2>7. /\ dirty \subseteq 1..MaxInputs /\ lastActive \subseteq 1..MaxInputs
        /\ edits \in 0..MaxEdits
    BY BlockAssumption DEF Init
  <2>8. Len(pending) <= 4 /\ Len(gathered) <= 1
    BY DEF Init
  <2> QED BY <2>1, <2>2, <2>3, <2>4, <2>5, <2>6, <2>7, <2>8 DEF TypeOK
<1> QED BY <1>1, <1>2, <1>3, <1>4, <1>5 DEF IInv

\* What an edit leaves.
LEMMA EditIInv ==
  ASSUME IInv, EditStore
  PROVE  IInv'
<1>1. PICK t : Edit(t) /\ Sound(t) /\ Settled(t) /\ Reconciled(t)
  BY EditsSound DEF IInv
<1>2. /\ store' = t /\ pending' = RoutingsOnTheWay(store, t) /\ pending = <<>>
      /\ dirty' = dirty \cup DirtiedBy(store, t)
      /\ UNCHANGED <<patch, gate, live, ticking, enc>>
      /\ UNCHANGED <<sourceVars, deviceVars, blockVars>>
      /\ ~ticking /\ edits < MaxEdits /\ edits' = edits + 1
  BY <1>1 DEF Edit, CountEdit, MessageIdle
<1>3. /\ Sound(store) /\ patch \in Routings
      /\ patch.stem = store.inRows /\ patch.output = store.outRows
      /\ TypeOK /\ RowsInv /\ NothingLingers
  BY <1>2 DEF IInv, StoreInv, RoutingInv, Newest
<1>4. StoreInv'
  BY <1>1, <1>2 DEF StoreInv
<1>5. RoutingInv' /\ Len(pending') <= 4
  <2> DEFINE way == RoutingsOnTheWay(store, t)
  <2>1. /\ way \in Seq(Routings) /\ Len(way) <= 4
        /\ way = <<>> => t.inRows = store.inRows /\ t.outRows = store.outRows
        /\ way # <<>> => /\ way[Len(way)].stem = t.inRows
                         /\ way[Len(way)].output = t.outRows
    BY <1>1, <1>3, LastOnTheWay
  <2>2. pending' = way
    BY <1>2
  <2> HIDE DEF way
  <2> QED BY <1>2, <1>3, <2>1, <2>2 DEF RoutingInv, Newest
<1>6. RowsInv'
  <2>1. DOMAIN t.formats \subseteq 1..MaxInputs
    BY <1>1, StoredFormats
  <2> QED BY <1>2, <1>3, <2>1 DEF RowsInv, DirtiedBy
<1>7. NothingLingers'
  BY <1>2, <1>3 DEF NothingLingers, blockVars
<1>8. TypeOK'
  <2>1. Len(store'.formats) \in 1..MaxInputs /\ DOMAIN t.formats \subseteq 1..MaxInputs
    BY <1>1, <1>2, StoredFormats
  <2>2. dirty' \subseteq 1..MaxInputs
    BY <1>2, <1>3, <2>1 DEF TypeOK, DirtiedBy
  <2>3. edits' \in 0..MaxEdits
    BY <1>2, <1>3, BlockAssumption DEF TypeOK
  <2> QED BY <1>2, <1>3, <1>5, <2>1, <2>2, <2>3
          DEF TypeOK, deviceVars, blockVars
<1> QED BY <1>4, <1>5, <1>6, <1>7, <1>8 DEF IInv

\* A handler publishes the next of its routings.
LEMMA PublishIInv ==
  ASSUME IInv, PublishPatchRouting
  PROVE  IInv'
<1>1. /\ pending # <<>> /\ patch' = Head(pending) /\ pending' = Tail(pending)
      /\ UNCHANGED <<store, encoderVars, sourceVars, deviceVars, blockVars, edits>>
  BY DEF PublishPatchRouting
<1>2. pending \in Seq(Routings) /\ Len(pending) <= 4
  BY DEF IInv, RoutingInv, TypeOK
<1>3. /\ patch' \in Routings /\ pending' \in Seq(Routings)
      /\ Len(pending') = Len(pending) - 1
      /\ Len(pending) \in Nat
  BY <1>1, <1>2
<1>4. Newest' = Newest
  <2>1. CASE Len(pending) = 1
    BY <1>1, <1>2, <2>1 DEF Newest
  <2>2. CASE Len(pending) > 1
    <3>1. Len(Tail(pending)) = Len(pending) - 1 /\ Tail(pending) # <<>>
      BY SMTT(30), <1>2, <2>2
    <3>2. Tail(pending)[Len(pending) - 1] = pending[Len(pending)]
      BY <1>2, <2>2
    <3> QED BY <1>1, <3>1, <3>2 DEF Newest
  <2> QED BY <1>1, <1>2, <1>3, <2>1, <2>2
<1>5. RoutingInv'
  BY <1>1, <1>3, <1>4 DEF IInv, RoutingInv
<1>6. StoreInv' /\ RowsInv' /\ NothingLingers'
  BY <1>1 DEF IInv, StoreInv, RowsInv, NothingLingers, encoderVars, blockVars
<1>7. TypeOK'
  <2>1. \A k \in DOMAIN patch'.stem : patch'.stem[k] \in Columns
    BY <1>3 DEF Routings
  <2> QED BY <1>1, <1>2, <1>3, <2>1
          DEF IInv, TypeOK, encoderVars, deviceVars, blockVars
<1> QED BY <1>5, <1>6, <1>7 DEF IInv

\* Steps that leave the store and its routing as they are.
LEMMA StoreStays ==
  ASSUME IInv, UNCHANGED storeVars
  PROVE  /\ StoreInv' /\ RoutingInv'
         /\ Len(store'.formats) \in 1..MaxInputs /\ Len(pending') <= 4
         /\ \A k \in DOMAIN patch'.stem : patch'.stem[k] \in Columns
BY DEF IInv, storeVars, StoreInv, RoutingInv, Newest, TypeOK

LEMMA TickIInv ==
  ASSUME IInv, Tick
  PROVE  IInv'
<1>1. CASE TickCompose
  <2>1. /\ StoreInv' /\ RoutingInv' /\ NothingLingers'
    BY <1>1, StoreStays DEF TickCompose, blockVars, IInv, NothingLingers
  <2>2. DOMAIN store.formats \subseteq 1..MaxInputs
        /\ \A i \in DOMAIN store.formats : store.formats[i] \in 0..MaxOrder
    BY StoredFormats DEF IInv, StoreInv
  <2>3. RowsInv'
    BY <1>1, <2>2 DEF TickCompose, storeVars, IInv, RowsInv
  <2>4. live' \in [1..MaxInputs -> Uncomposed..MaxOrder]
    <3>1. \A i \in 1..MaxInputs : live[i] \in Uncomposed..MaxOrder
      BY DEF IInv, TypeOK
    <3>2. 0..MaxOrder \subseteq Uncomposed..MaxOrder
      BY SizesAreNat DEF Uncomposed
    <3> DEFINE orders == 0..MaxOrder
               rows == Uncomposed..MaxOrder
    <3> HIDE DEF orders, rows
    <3> QED BY <1>1, <2>2, <3>1, <3>2 DEF TickCompose, orders, rows
  <2>5. TypeOK'
    BY <1>1, <2>4, StoreStays DEF TickCompose, IInv, TypeOK, deviceVars, blockVars
  <2> QED BY <2>1, <2>3, <2>5 DEF IInv
<1>2. CASE TickPublish
  <2>1. StoreInv' /\ RoutingInv' /\ NothingLingers' /\ RowsInv'
    BY <1>2, StoreStays
       DEF TickPublish, storeVars, blockVars, IInv, NothingLingers, RowsInv
  <2>2. enc'.sources \subseteq 1..MaxInputs
    BY <1>2, StoredFormats DEF TickPublish, EncoderParams, IInv, StoreInv
  <2>3. TypeOK'
    BY <1>2, <2>2, StoreStays DEF TickPublish, IInv, TypeOK, deviceVars, blockVars
  <2> QED BY <2>1, <2>3 DEF IInv
<1> QED BY <1>1, <1>2 DEF Tick

\* The gate, the input source, the bus parameters and the decoder.
LEMMA PublisherIInv ==
  ASSUME IInv, SetGate \/ SetInputSource \/ PublishBusParams \/ AdoptDecoder
  PROVE  IInv'
<1>1. UNCHANGED storeVars /\ UNCHANGED blockVars
      /\ UNCHANGED <<dirty, live, ticking, prepared>>
  BY DEF SetGate, SetInputSource, PublishBusParams, AdoptDecoder, encoderVars,
         deviceVars
<1>2. StoreInv' /\ RoutingInv' /\ NothingLingers' /\ RowsInv'
  BY <1>1, StoreStays DEF IInv, NothingLingers, RowsInv, storeVars, blockVars
<1>3. enc'.sources \subseteq 1..MaxInputs
  <2>1. CASE SetGate
    BY <2>1, StoredFormats DEF SetGate, EncoderParams, IInv, StoreInv
  <2>2. CASE UNCHANGED enc
    BY <2>2 DEF IInv, TypeOK
  <2> QED BY <2>1, <2>2
          DEF SetInputSource, PublishBusParams, AdoptDecoder, encoderVars
<1>4. decoded' \in 1..MaxSpeakers
  <2>1. CASE AdoptDecoder
    BY <2>1, StoredFormats DEF AdoptDecoder, IInv, StoreInv
  <2>2. CASE UNCHANGED decoded
    BY <2>2 DEF IInv, TypeOK
  <2> QED BY <2>1, <2>2
          DEF SetGate, SetInputSource, PublishBusParams, deviceVars
<1>5. edits' \in 0..MaxEdits
  BY BlockAssumption DEF SetGate, SetInputSource, PublishBusParams, AdoptDecoder,
     CountEdit, IInv, TypeOK
<1>6. TypeOK'
  BY <1>1, <1>3, <1>4, <1>5, StoreStays DEF IInv, TypeOK, blockVars
<1> QED BY <1>2, <1>6 DEF IInv

\* The device restarts, and a block begins.
LEMMA PrepareIInv ==
  ASSUME IInv, PrepareToPlay \/ BlockGather
  PROVE  IInv'
<1>1. UNCHANGED <<storeVars, encoderVars, sourceVars>> /\ UNCHANGED <<decoded, outputs>>
  BY DEF PrepareToPlay, BlockGather, deviceVars
<1>2. StoreInv' /\ RoutingInv' /\ RowsInv'
  BY <1>1, StoreStays DEF IInv, RowsInv, storeVars, encoderVars
<1>3. NothingLingers'
  <2>1. CASE PrepareToPlay
    BY <2>1 DEF PrepareToPlay, NothingLingers
  <2>2. CASE BlockGather
    BY <2>2 DEF BlockGather, IInv, NothingLingers
  <2> QED BY <2>1, <2>2
<1>4. /\ prepared' \in 1..MaxSpeakers /\ Len(gathered') <= 1
      /\ lastActive' \subseteq 1..MaxInputs /\ edits' \in 0..MaxEdits
  <2>1. CASE PrepareToPlay
    BY <2>1, StoredFormats, BlockAssumption
       DEF PrepareToPlay, CountEdit, IInv, StoreInv, TypeOK
  <2>2. CASE BlockGather
    BY <2>2 DEF BlockGather, IInv, TypeOK, deviceVars
  <2> QED BY <2>1, <2>2
<1>5. TypeOK'
  BY <1>1, <1>4, StoreStays DEF IInv, TypeOK, encoderVars
<1> QED BY <1>2, <1>3, <1>5 DEF IInv

LEMMA RenderIInv ==
  ASSUME IInv, NEW monitor \in BOOLEAN, BlockRender(monitor)
  PROVE  IInv'
<1>1. /\ UNCHANGED <<storeVars, encoderVars, sourceVars, deviceVars, edits>>
      /\ lastActive' = enc.sources /\ gathered' = <<>>
      /\ applied' = Encoded(gathered[1].routing.stem)
      /\ outputs' = Scattered(gathered[1].routing, monitor)
  BY DEF BlockRender
<1>2. StoreInv' /\ RoutingInv' /\ RowsInv'
  BY <1>1, StoreStays DEF IInv, RowsInv, storeVars, encoderVars
<1>3. NothingLingers'
  <2> SUFFICES ASSUME NEW i \in 1..MaxInputs \ enc.sources
               PROVE  applied'[i] = Silent
    BY <1>1 DEF NothingLingers
  <2>1. applied'[i] = IF i \in lastActive THEN Silent ELSE applied[i]
    BY <1>1 DEF Encoded
  <2> QED BY <2>1 DEF IInv, NothingLingers
<1>4. outputs' \in [1..MaxHardware -> NoSpeaker..Headphones]
  BY <1>1, ScatterTypes DEF IInv, TypeOK
<1>5. /\ Len(gathered') <= 1 /\ lastActive' \subseteq 1..MaxInputs
      /\ dirty' \subseteq 1..MaxInputs /\ enc'.sources \subseteq 1..MaxInputs
      /\ live' \in [1..MaxInputs -> Uncomposed..MaxOrder]
  BY <1>1 DEF IInv, TypeOK, encoderVars
<1>6. /\ prepared' \in 1..MaxSpeakers /\ decoded' \in 1..MaxSpeakers
      /\ edits' \in 0..MaxEdits
  BY <1>1 DEF IInv, TypeOK, deviceVars
<1>7. TypeOK'
  BY <1>1, <1>4, <1>5, <1>6, StoreStays DEF TypeOK
<1> QED BY <1>2, <1>3, <1>7 DEF IInv

LEMMA NextIInv == IInv /\ [Next]_vars => IInv'
<1> SUFFICES ASSUME IInv, [Next]_vars PROVE IInv'
  OBVIOUS
<1>1. CASE UNCHANGED vars
  <2>1. StoreInv' /\ RoutingInv' /\ RowsInv' /\ NothingLingers'
    BY <1>1, StoreStays
       DEF IInv, RowsInv, NothingLingers, vars, storeVars, encoderVars, blockVars
  <2>2. TypeOK'
    BY <1>1, StoreStays DEF IInv, TypeOK, vars, encoderVars, deviceVars, blockVars
  <2> QED BY <2>1, <2>2 DEF IInv
<1> QED
  BY <1>1, EditIInv, PublishIInv, TickIInv, PublisherIInv, PrepareIInv, RenderIInv
     DEF Next, Block

\* Store, routing, composed rows and ramp history belong together after every
\* step of either thread.
THEOREM Invariant == Spec => []IInv
<1> QED BY InitIInv, NextIInv, PTL DEF Spec

-----------------------------------------------------------------------------
(* The properties. *)

\* Snapshots, masks, matrix rows and outputs stay in their ranges, and no
\* handler publishes more than four routings.
THEOREM AudioBlockTypes == Spec => []TypeOK
<1>1. IInv => TypeOK
  BY DEF IInv
<1> QED BY <1>1, Invariant, PTL

\* Offsets and routing, published apart, mean the same rows once both have
\* caught up: an input is read from the channels it is patched to.
THEOREM OffsetsAlwaysMeetRouting == Spec => []OffsetsMeetRouting
<1>1. IInv => OffsetsMeetRouting
  <2> DEFINE formats == store.formats
             spans == Spans(formats)
  <2> SUFFICES ASSUME IInv, pending = <<>>, enc = EncoderParams(store, gate),
                      NEW i \in enc.sources
               PROVE  LET last == enc.offsets[i] + Span(enc.orders[i])
                      IN  /\ last <= Len(patch.stem)
                          /\ SubSeq(patch.stem, enc.offsets[i] + 1, last)
                               = StoredRows(i)
    BY DEF OffsetsMeetRouting
  <2>1. /\ i \in DOMAIN formats
        /\ i \in 1..MaxInputs
        /\ DOMAIN formats = 1..Len(formats)
    <3>1. i \in DOMAIN formats
      BY DEF EncoderParams
    <3> QED BY <3>1, StoredFormats DEF IInv, StoreInv
  <2>2. enc.offsets[i] = Rows(spans, i - 1) /\ enc.orders[i] = formats[i]
    BY <2>1 DEF EncoderParams
  <2>3. formats \in Seq(Nat)
    BY FormatsAreNat DEF IInv, StoreInv, Sound, Stores
  <2>4. patch.stem = store.inRows /\ Len(store.inRows) = Total(spans)
    BY DEF IInv, RoutingInv, Newest, StoreInv, Settled, Reconciled
  <2>5. StoredRows(i) = SubSeq(store.inRows, Rows(spans, i - 1) + 1, Rows(spans, i))
    BY DEF StoredRows
  <2> HIDE DEF formats
  <2>6. /\ spans \in Seq(Nat) /\ Len(spans) = Len(formats)
        /\ spans[i] = Span(formats[i])
    BY <2>1, <2>3, SpansType
  <2> HIDE DEF spans
  <2>7. Rows(spans, i) = Rows(spans, i - 1) + Span(formats[i])
    BY <2>1, <2>6, RowsSum
  <2>8. Rows(spans, i) <= Total(spans)
    BY <2>1, <2>6, RowsMonotone DEF Total
  <2> QED BY <2>2, <2>4, <2>5, <2>7, <2>8
<1> QED BY <1>1, Invariant, PTL

\* Rows are one to one, so the only speaker that scatters to a channel is the
\* one patched to it.
LEMMA OnlyWriter ==
  ASSUME Sound(store), Settled(store), NEW routing,
         routing.output = store.outRows,
         prepared \in Nat, prepared <= store.speakers,
         NEW s \in 1..prepared, NEW h, h = store.outRows[s], h # Unpatched
  PROVE  {r \in 1..prepared : HwForSpeaker(routing, r) = h} = {s}
<1> DEFINE rows == store.outRows
<1>1. rows \in Seq(Columns) /\ Unshared(rows) /\ Len(rows) = store.speakers
  BY DEF Sound, Stores, Settled
<1>2. store.speakers \in Nat
  BY StoredFormats, SizesAreNat
<1> HIDE DEF rows
<1>3. DOMAIN rows = 1..Len(rows) /\ 1..prepared \subseteq DOMAIN rows
  BY <1>1, <1>2
<1>4. \A r \in 1..prepared : HwForSpeaker(routing, r) = rows[r]
  BY <1>3 DEF HwForSpeaker, rows
<1>5. h \notin {Unpatched, NewRow}
  <2>1. h \in Columns
    BY <1>1, <1>3 DEF rows
  <2> QED BY <2>1, SizesAreNat DEF Columns, NewRow
<1>6. \A r \in 1..prepared : rows[r] = h <=> r = s
  BY <1>1, <1>3, <1>5 DEF Unshared, rows
<1> QED BY <1>4, <1>6

LEMMA MaxOfOne ==
  ASSUME NEW s \in Nat
  PROVE  Max({s}) = s
BY DEF Max

\* A block gathered by the store's own output routing carries every prepared
\* speaker to its patched output.
THEOREM PreparedSpeakersAlwaysSound == Spec => PreparedSpeakersSound
<1> DEFINE heard == RenderOfStore /\ prepared <= store.speakers =>
                      \A s \in 1..prepared : s <= decoded => CarriesPatch(s)
<1>1. IInv /\ [Next]_vars => [heard]_vars
  <2> SUFFICES ASSUME IInv, Next, RenderOfStore, prepared <= store.speakers,
                      NEW s \in 1..prepared, s <= decoded,
                      store.outRows[s] # Unpatched
               PROVE  outputs'[store.outRows[s]] \in {s, Headphones}
    BY DEF CarriesPatch
  <2> DEFINE h == store.outRows[s]
             routing == gathered[1].routing
  <2>1. PICK monitor \in BOOLEAN : BlockRender(monitor)
    <3>1. gathered # <<>> /\ gathered' = <<>>
      BY DEF RenderOfStore
    <3> QED
      BY <3>1 DEF Next, EditStore, Edit, PublishPatchRouting, SetGate, Tick,
         TickCompose, TickPublish, SetInputSource, PublishBusParams,
         AdoptDecoder, PrepareToPlay, Block, BlockGather, blockVars
  <2>2. /\ Sound(store) /\ Settled(store)
        /\ store \in Stores /\ Len(store.outRows) = store.speakers
        /\ store.outRows \in Seq(Columns) /\ store.speakers \in Nat
        /\ prepared \in Nat
    BY SMTT(30), StoredFormats, SizesAreNat
       DEF IInv, StoreInv, TypeOK, Sound, Stores, Settled
  <2>3. routing.output = store.outRows
    BY <2>2, ComposedRouting DEF RenderOfStore
  <2>4. h \in 1..MaxHardware
    <3>1. s \in 1..Len(store.outRows)
      BY <2>2
    <3>2. h \in Columns
      BY <2>2, <3>1
    <3> HIDE DEF h
    <3>3. h # Unpatched
      BY DEF h
    <3> QED BY <3>2, <3>3, SizesAreNat DEF Columns, Unpatched
  <2>5. {r \in 1..prepared : HwForSpeaker(routing, r) = h} = {s}
    BY <2>2, <2>3, OnlyWriter
  <2>6. outputs' = Scattered(routing, monitor)
    BY <2>1 DEF BlockRender
  <2> HIDE DEF h, routing
  <2>7. outputs'[h] = IF monitor /\ h \in Reserved(routing.pair) THEN Headphones
                      ELSE IF {s} # {} /\ Max({s}) <= decoded THEN Max({s})
                      ELSE NoSpeaker
    BY <2>4, <2>5, <2>6 DEF Scattered
  <2>8. Max({s}) = s
    BY <2>2, MaxOfOne
  <2> QED BY <2>7, <2>8 DEF h
<1> QED BY <1>1, Invariant, PTL DEF Spec, PreparedSpeakersSound

\* No coefficient is left for an input that the next block will not touch,
\* however counts, formats and the gate changed between blocks.
THEOREM NoLingering == Spec => []NothingLingers
<1>1. IInv => NothingLingers
  BY DEF IInv
<1> QED BY <1>1, Invariant, PTL

\* A tick never exposes a row that is not composed for the order published.
THEOREM TicksExposeComposed == Spec => TickExposesComposed
<1>1. IInv /\ [Next]_vars =>
        [TickPublish => \A i \in enc'.sources : live'[i] = enc'.orders[i]]_vars
  <2> SUFFICES ASSUME IInv, TickPublish, NEW i \in enc'.sources
               PROVE  live'[i] = enc'.orders[i]
    OBVIOUS
  <2>1. i \in DOMAIN store.formats
    BY DEF TickPublish, EncoderParams
  <2>2. i \in 1..MaxInputs /\ i \notin dirty
    BY <2>1, StoredFormats DEF IInv, StoreInv, RowsInv, TickPublish
  <2>3. live'[i] = store.formats[i]
    BY <2>1, <2>2 DEF IInv, RowsInv, TickPublish
  <2>4. enc'.orders[i] = store.formats[i]
    BY <2>1, <2>2 DEF TickPublish, EncoderParams
  <2> QED BY <2>3, <2>4
<1> QED BY <1>1, Invariant, PTL DEF Spec, TickExposesComposed

\* The bus never takes in the scratch buffer of an earlier block.
THEOREM ScenesAreFresh == Spec => SceneIsThisBlocks
<1>1. [Next]_vars =>
        [\A m \in BOOLEAN :
           BlockRender(m) /\ sceneHeard' => gathered[1].scene]_vars
  BY DEF BlockRender, GathersScene
<1> QED BY <1>1, PTL DEF Spec, SceneIsThisBlocks
=============================================================================
