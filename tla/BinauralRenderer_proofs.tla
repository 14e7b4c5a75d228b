---------------------- MODULE BinauralRenderer_proofs ----------------------
(***************************************************************************)
(* Proofs about BinauralRenderer, for every set of block sizes, filter     *)
(* lengths and attitudes, and runs of any length.                          *)
(*                                                                         *)
(* The bound on the delay is what carries the argument: as long as less    *)
(* than a block waits in the stage and the ring together, a full block     *)
(* still fits in the ring, its cap never bites, and nothing unheard is     *)
(* written over.                                                           *)
(***************************************************************************)
EXTENDS BinauralRenderer, TLAPS

\* Less than a block is waiting; what waits is in order, first in the ring,
\* then in the stage; a monitor that is off holds nothing.
StreamInv ==
  /\ inputFill + outCount < size
  /\ outWrite = Around(outRead, outCount)
  /\ \A i \in 0..(inputFill - 1) : stage[i] = clock - inputFill + 1 + i
  /\ \A k \in 0..(outCount - 1) :
       ring[Around(outRead, k)] = clock - inputFill - outCount + 1 + k
  /\ ~wasEnabled => inputFill = 0 /\ outCount = 0

\* The rotation in use is that of the last attitude.
HeadInv ==
  /\ hasRotation => currentRotation = lastHead
  /\ ~hasRotation => lastHead = Level
  /\ wasEnabled /\ hasRotation => field.to = currentRotation

\* The buffers hold what the handles say.
BankInv ==
  /\ bank # NoBank => /\ bank.index = activeIndex
                      /\ buffers[bank.index] = bank.stamp
  /\ cooked # NoCook => buffers[1 - activeIndex] = cooked.stamp

IInv == TypeOK /\ StreamInv /\ HeadInv /\ BankInv /\ HistoryLinesUp

-----------------------------------------------------------------------------
(* The ring. *)

\* Places of the ring, by how far they lie from the read cursor.
LEMMA AroundType ==
  ASSUME size \in Nat \ {0},
         NEW r \in 0..(2 * size - 1), NEW j \in 0..(2 * size)
  PROVE  Around(r, j) \in 0..(2 * size - 1)
BY DEF Around

LEMMA AroundTwice ==
  ASSUME size \in Nat \ {0}, NEW r \in 0..(2 * size - 1),
         NEW i \in Nat, NEW j \in Nat, i + j <= 2 * size
  PROVE  Around(Around(r, i), j) = Around(r, i + j)
BY DEF Around

LEMMA AheadAround ==
  ASSUME size \in Nat \ {0}, NEW r \in 0..(2 * size - 1),
         NEW i \in 0..(2 * size - 1), NEW j \in 0..(2 * size - 1)
  PROVE  Ahead(Around(r, i), Around(r, j)) =
           IF i >= j THEN i - j ELSE i - j + 2 * size
BY DEF Around, Ahead

\* What waits in the ring once the call has staged its samples: everything
\* not yet heard, in order, nothing written over.
LEMMA RingInOrder ==
  ASSUME RendererAssumption, TypeOK, StreamInv, NEW n \in 1..size,
         NEW k \in 0..(Filled(n) - 1)
  PROVE  /\ Filled(n) = IF Completes(n) THEN outCount + size ELSE outCount
         /\ FilledRing(n)[Around(outRead, k)] =
              clock - inputFill - outCount + 1 + k
<1> DEFINE p == Around(outRead, k)
<1>1. /\ size \in Nat \ {0} /\ inputFill \in 0..(size - 1) /\ clock \in Nat
      /\ outCount \in Nat /\ outCount < size
      /\ outRead \in 0..(2 * size - 1) /\ outWrite = Around(outRead, outCount)
  BY DEF TypeOK, StreamInv, RendererAssumption
<1>2. Filled(n) = IF Completes(n) THEN outCount + size ELSE outCount
  BY <1>1 DEF Filled
<1>3. k \in 0..(2 * size - 1) /\ p \in 0..(2 * size - 1)
  <2>1. k \in 0..(2 * size - 1)
    BY <1>1, <1>2
  <2> QED BY <1>1, <2>1, AroundType
<1>4. Ahead(p, outWrite) = IF k >= outCount THEN k - outCount
                           ELSE k - outCount + 2 * size
  BY <1>1, <1>3, AheadAround
<1>5. CASE k < outCount
  <2>1. ring[p] = clock - inputFill - outCount + 1 + k
    BY <1>1, <1>5 DEF StreamInv
  <2>2. ~(Ahead(p, outWrite) < size)
    BY <1>1, <1>3, <1>4, <1>5
  <2>3. FilledRing(n)[p] = ring[p]
    BY <1>3, <2>2 DEF FilledRing
  <2> QED BY <1>2, <2>1, <2>3
<1>6. CASE k >= outCount
  <2> DEFINE j == k - outCount
  <2>1. Completes(n) /\ j \in 0..(size - 1) /\ Ahead(p, outWrite) = j
    BY <1>1, <1>2, <1>3, <1>4, <1>6
  <2>2. FilledRing(n)[p] = StagedAt(j)
    BY <1>1, <1>3, <2>1 DEF FilledRing
  <2>3. StagedAt(j) = clock - inputFill + 1 + j
    BY <1>1, <2>1 DEF StagedAt, StreamInv
  <2> QED BY <1>1, <1>2, <2>2, <2>3
<1> QED BY <1>1, <1>3, <1>5, <1>6

-----------------------------------------------------------------------------
(* The invariant. *)

LEMMA InitIInv == ASSUME RendererAssumption, Init PROVE IInv
<1>1. size \in Sizes /\ size \in Nat \ {0} /\ Parts \in Nat \ {0}
  BY DEF Init, RendererAssumption, Parts
<1>2. TypeOK
  <2>1. /\ stage \in [0..(size - 1) -> Nat] /\ ring \in [0..(2 * size - 1) -> Nat]
        /\ fdl \in [0..(Parts - 1) -> Nat \X Nat]
    BY <1>1 DEF Init, Silence, NoBlock
  <2>2. /\ params \in [on : BOOLEAN, manual : Attitudes]
        /\ buffers \in [0..1 -> Nat] /\ activeIndex \in 0..1
        /\ cooked \in Cooks \cup {NoCook} /\ bank \in Banks \cup {NoBank}
    BY DEF Init, RendererAssumption
  <2>3. /\ clock \in Nat /\ inputFill \in 0..(size - 1) /\ steps \in Nat
        /\ fdlPos \in 0..(Parts - 1) /\ outCount \in 0..(2 * size)
        /\ outRead \in 0..(2 * size - 1) /\ outWrite \in 0..(2 * size - 1)
        /\ runFrom \in 0..steps /\ clearedAt \in 0..steps
        /\ changes \in 0..MaxChanges
    BY <1>1 DEF Init, RendererAssumption
  <2>4. /\ wasEnabled \in BOOLEAN /\ hasRotation \in BOOLEAN
        /\ active \in BOOLEAN
        /\ lastHead \in Attitudes /\ currentRotation \in Attitudes
    BY DEF Init, RendererAssumption
  <2> QED BY <1>1, <2>1, <2>2, <2>3, <2>4 DEF TypeOK
<1>3. StreamInv
  BY <1>1 DEF Init, StreamInv, Around
<1>4. HeadInv /\ BankInv
  BY DEF Init, HeadInv, BankInv
<1>5. HistoryLinesUp
  BY <1>1 DEF Init, HistoryLinesUp, SlotBack, BlockOfStep, Silence, NoBlock
<1> QED BY <1>2, <1>3, <1>4, <1>5 DEF IInv

\* The message thread leaves the renderer alone ...
LEMMA BankStepsKeepAudio ==
  ASSUME IInv, UNCHANGED audioVars
  PROVE  StreamInv' /\ HeadInv' /\ HistoryLinesUp'
BY DEF IInv, StreamInv, HeadInv, HistoryLinesUp, audioVars, streamVars,
   historyVars, headVars, Around, SlotBack, BlockOfStep, Parts

\* ... and a type of its own state is all that is left to show.
LEMMA BankStepsType ==
  ASSUME IInv, UNCHANGED audioVars,
         params' \in [on : BOOLEAN, manual : Attitudes],
         buffers' \in [0..1 -> Nat], activeIndex' \in 0..1,
         cooked' \in Cooks \cup {NoCook}, bank' \in Banks \cup {NoBank},
         changes' \in 0..MaxChanges
  PROVE  TypeOK'
BY DEF IInv, TypeOK, audioVars, streamVars, historyVars, headVars, Parts

LEMMA BankSteps ==
  ASSUME RendererAssumption, IInv,
         \/ \E on \in BOOLEAN, manual \in Attitudes : PublishParams(on, manual)
         \/ \E fir \in FirLengths : Cook(fir)
         \/ Publish
         \/ PublishEmpty
  PROVE  IInv'
<1>1. /\ params \in [on : BOOLEAN, manual : Attitudes]
      /\ buffers \in [0..1 -> Nat] /\ activeIndex \in 0..1
      /\ cooked \in Cooks \cup {NoCook} /\ bank \in Banks \cup {NoBank}
      /\ changes \in 0..MaxChanges /\ MaxChanges \in Nat /\ BankInv
  BY DEF IInv, TypeOK, RendererAssumption
<1>2. CASE \E on \in BOOLEAN, manual \in Attitudes : PublishParams(on, manual)
  <2>1. PICK on \in BOOLEAN, manual \in Attitudes : PublishParams(on, manual)
    BY <1>2
  <2>2. /\ UNCHANGED audioVars /\ changes' \in 0..MaxChanges
        /\ params' \in [on : BOOLEAN, manual : Attitudes]
        /\ UNCHANGED <<buffers, activeIndex, cooked, bank>>
    BY <1>1, <2>1 DEF PublishParams, CountChange
  <2>3. BankInv'
    BY <1>1, <2>2 DEF BankInv
  <2> QED BY <1>1, <2>2, <2>3, BankStepsKeepAudio, BankStepsType DEF IInv
<1>3. CASE \E fir \in FirLengths : Cook(fir)
  <2>1. PICK fir \in FirLengths : Cook(fir)
    BY <1>3
  <2>2. /\ UNCHANGED audioVars /\ changes' \in 0..MaxChanges /\ changes' \in Nat
        /\ UNCHANGED <<params, activeIndex, bank>>
        /\ cooked = NoCook
        /\ buffers' = [buffers EXCEPT ![1 - activeIndex] = changes']
        /\ cooked' = [stamp |-> changes', size |-> size,
                      parts |-> CeilDiv(fir, size)]
    BY <1>1, <2>1 DEF Cook, CountChange
  <2>3. cooked' \in Cooks
    BY <2>2 DEF Cooks, IInv, TypeOK, RendererAssumption
  <2>4. /\ buffers' \in [0..1 -> Nat]
        /\ buffers'[1 - activeIndex] = changes'
        /\ buffers'[activeIndex] = buffers[activeIndex]
    BY <1>1, <2>2
  <2>5. BankInv'
    BY <1>1, <2>2, <2>4 DEF BankInv
  <2> QED BY <1>1, <2>2, <2>3, <2>4, <2>5, BankStepsKeepAudio, BankStepsType
          DEF IInv
<1>4. CASE Publish
  <2>1. /\ UNCHANGED audioVars /\ UNCHANGED <<params, buffers, changes>>
        /\ cooked \in Cooks /\ cooked # NoCook /\ cooked' = NoCook
        /\ activeIndex' = 1 - activeIndex
        /\ bank' = [stamp |-> cooked.stamp, index |-> activeIndex',
                    size |-> cooked.size, parts |-> cooked.parts]
    BY <1>1, <1>4 DEF Publish
  <2>2. activeIndex' \in 0..1 /\ bank' \in Banks
    BY <1>1, <2>1 DEF Cooks, Banks
  <2>3. BankInv'
    BY <1>1, <2>1 DEF BankInv
  <2> QED BY <1>1, <2>1, <2>2, <2>3, BankStepsKeepAudio, BankStepsType DEF IInv
<1>5. CASE PublishEmpty
  <2>1. /\ UNCHANGED audioVars /\ changes' \in 0..MaxChanges
        /\ UNCHANGED <<params, buffers, activeIndex, cooked>>
        /\ bank' = NoBank
    BY <1>1, <1>5 DEF PublishEmpty, CountChange
  <2>2. BankInv'
    BY <1>1, <2>1 DEF BankInv
  <2> QED BY <1>1, <2>1, <2>2, BankStepsKeepAudio, BankStepsType DEF IInv
<1> QED BY <1>2, <1>3, <1>4, <1>5

\* A reset renderer satisfies its part of the invariant, whatever it held.
LEMMA ResetSteps ==
  ASSUME RendererAssumption, IInv, NEW p \in Sizes, Reset(p), size' = p
  PROVE  /\ StreamInv' /\ HeadInv' /\ HistoryLinesUp'
         /\ stage' \in [0..(size' - 1) -> Nat]
         /\ inputFill' \in 0..(size' - 1)
         /\ steps' \in Nat
         /\ fdl' \in [0..(Parts' - 1) -> Nat \X Nat]
         /\ fdlPos' \in 0..(Parts' - 1)
         /\ ring' \in [0..(2 * size' - 1) -> Nat]
         /\ outRead' \in 0..(2 * size' - 1) /\ outWrite' \in 0..(2 * size' - 1)
         /\ outCount' \in 0..(2 * size')
         /\ wasEnabled' \in BOOLEAN /\ hasRotation' \in BOOLEAN
         /\ lastHead' \in Attitudes /\ currentRotation' \in Attitudes
         /\ runFrom' \in 0..steps' /\ clearedAt' \in 0..steps'
<1>1. /\ size' \in Nat \ {0} /\ Parts' \in Nat \ {0} /\ Parts' = MaxParts(p)
      /\ steps \in Nat /\ currentRotation \in Attitudes
  BY DEF RendererAssumption, Parts, IInv, TypeOK
<1>2. StreamInv'
  BY <1>1 DEF Reset, StreamInv, Around
<1>3. HeadInv'
  BY DEF Reset, ResetHead, HeadInv
<1>4. HistoryLinesUp'
  BY <1>1 DEF Reset, HistoryLinesUp, SlotBack, BlockOfStep, Silence, NoBlock
<1>5. /\ stage' \in [0..(size' - 1) -> Nat] /\ ring' \in [0..(2 * size' - 1) -> Nat]
      /\ fdl' \in [0..(Parts' - 1) -> Nat \X Nat]
  BY <1>1 DEF Reset, Silence, NoBlock
<1>6. /\ inputFill' \in 0..(size' - 1) /\ steps' \in Nat
      /\ fdlPos' \in 0..(Parts' - 1) /\ outCount' \in 0..(2 * size')
      /\ outRead' \in 0..(2 * size' - 1) /\ outWrite' \in 0..(2 * size' - 1)
      /\ runFrom' \in 0..steps' /\ clearedAt' \in 0..steps'
  BY <1>1 DEF Reset
<1>7. /\ wasEnabled' \in BOOLEAN /\ hasRotation' \in BOOLEAN
      /\ lastHead' \in Attitudes /\ currentRotation' \in Attitudes
  BY <1>1 DEF Reset, ResetHead, RendererAssumption
<1> QED BY <1>2, <1>3, <1>4, <1>5, <1>6, <1>7

LEMMA PrepareStep ==
  ASSUME RendererAssumption, IInv, NEW p \in Sizes, Prepare(p) PROVE IInv'
<1>1. Reset(p) /\ size' = p /\ UNCHANGED bankVars
      /\ UNCHANGED <<clock, active>> /\ changes' \in 0..MaxChanges
  BY DEF Prepare, CountChange, IInv, TypeOK, RendererAssumption
<1>2. TypeOK'
  BY <1>1, ResetSteps DEF TypeOK, IInv, bankVars
<1>3. BankInv'
  BY <1>1 DEF BankInv, IInv, bankVars
<1> QED BY <1>1, <1>2, <1>3, ResetSteps DEF IInv

\* Blocks that pass without the monitor.
LEMMA IdleSteps ==
  ASSUME RendererAssumption, IInv, NEW n \in 1..size,
         MarkIdle(n) \/ RenderIdle(n)
  PROVE  IInv' /\ inputFill' = 0 /\ outCount' = 0
<1>1. /\ UNCHANGED bankVars /\ size' = size /\ changes' = changes
      /\ clock' = clock + n /\ active' = FALSE /\ ResetIfEnabled
      /\ size \in Sizes /\ size \in Nat /\ clock \in Nat
  BY DEF MarkIdle, RenderIdle, CountBlock, IInv, TypeOK, RendererAssumption
<1>2. BankInv'
  BY <1>1 DEF BankInv, IInv, bankVars
<1>3. clock' \in Nat /\ active' \in BOOLEAN
  <2>1. clock' \in Nat
    BY <1>1
  <2> QED BY <1>1, <2>1, Zenon
<1>4. CASE wasEnabled
  <2>1. Reset(size)
    BY <1>1, <1>4 DEF ResetIfEnabled
  <2>2. TypeOK'
    BY <1>1, <1>3, <2>1, ResetSteps DEF TypeOK, IInv, bankVars
  <2> QED BY <1>1, <1>2, <2>1, <2>2, ResetSteps DEF IInv, Reset
<1>5. CASE ~wasEnabled
  <2>1. /\ UNCHANGED streamVars /\ UNCHANGED historyVars
        /\ UNCHANGED <<wasEnabled, headVars>>
        /\ inputFill = 0 /\ outCount = 0
    BY <1>1, <1>5 DEF ResetIfEnabled, IInv, StreamInv
  <2>2. TypeOK'
    BY <1>1, <1>3, <2>1 DEF TypeOK, IInv, bankVars, streamVars, historyVars,
       headVars, Parts
  <2>3. StreamInv'
    BY <1>1, <2>1 DEF StreamInv, IInv, TypeOK, streamVars, Around
  <2>4. HeadInv' /\ HistoryLinesUp'
    BY <1>1, <2>1 DEF HeadInv, HistoryLinesUp, IInv, historyVars, headVars,
       SlotBack, BlockOfStep, Parts
  <2> QED BY <1>2, <2>1, <2>2, <2>3, <2>4 DEF IInv, streamVars
<1> QED BY <1>4, <1>5

\* The rotation, of a block that renders.
LEMMA TurnKeepsHead ==
  ASSUME RendererAssumption, IInv, NEW head \in Attitudes, Turn(head)
  PROVE  /\ hasRotation' \in BOOLEAN
         /\ lastHead' \in Attitudes /\ currentRotation' \in Attitudes
         /\ HeadInv'
         /\ field'.to = field'.head
         /\ wasEnabled /\ hasRotation => field'.from = field.to
<1>1. /\ hasRotation \in BOOLEAN /\ lastHead \in Attitudes
      /\ currentRotation \in Attitudes /\ HeadInv
  BY DEF IInv, TypeOK
<1>2. CASE head = Level /\ ~hasRotation
  BY <1>1, <1>2 DEF Turn, HeadInv
<1>3. CASE ~(head = Level /\ ~hasRotation)
  <2> DEFINE moved == head # lastHead
  <2>1. /\ lastHead' = head
        /\ currentRotation' = IF moved THEN head ELSE currentRotation
        /\ hasRotation' = (hasRotation \/ moved)
        /\ field' = [head |-> head,
                     from |-> IF Fades(moved) THEN currentRotation
                              ELSE currentRotation',
                     to |-> currentRotation']
    BY <1>3 DEF Turn
  <2>2. hasRotation' /\ currentRotation' = head
    BY <1>1, <1>3, <2>1 DEF HeadInv
  <2>3. field'.to = head /\ field'.head = head
    BY <2>1, <2>2
  <2>4. wasEnabled /\ hasRotation => field'.from = field.to
    BY <1>1, <2>1, <2>2 DEF HeadInv, Fades
  <2> QED BY <1>1, <2>1, <2>2, <2>3, <2>4 DEF HeadInv
<1> QED BY <1>2, <1>3

\* A ring of N places written at pos: k writes back from there.
Back(pos, k, N) == IF pos > k THEN pos - 1 - k ELSE pos - 1 - k + N

LEMMA BackType ==
  ASSUME NEW N \in Nat \ {0}, NEW pos \in 0..(N - 1), NEW k \in 0..(N - 1)
  PROVE  Back(pos, k, N) \in 0..(N - 1)
BY DEF Back

\* The delay line, of a block that renders.
LEMMA EnterHistoryLinesUp ==
  ASSUME RendererAssumption, IInv, Running, NEW n \in 1..size,
         EnterHistory(n), size' = size
  PROVE  /\ steps' \in Nat
         /\ fdl' \in [0..(Parts' - 1) -> Nat \X Nat]
         /\ fdlPos' \in 0..(Parts' - 1)
         /\ runFrom' \in 0..steps' /\ clearedAt' \in 0..steps'
         /\ HistoryLinesUp'
<1> DEFINE Entered(s) == IF s <= clearedAt' THEN NoBlock
                         ELSE <<IF s - 1 > runFrom THEN s - 1 ELSE Silence, s>>
<1>1. /\ Parts \in Nat \ {0} /\ Parts' = Parts /\ steps \in Nat
      /\ runFrom \in 0..steps /\ clearedAt \in 0..steps
      /\ fdl \in [0..(Parts - 1) -> Nat \X Nat] /\ fdlPos \in 0..(Parts - 1)
      /\ prevBlock = IF steps > runFrom THEN steps ELSE Silence
      /\ \A k \in 0..(Parts - 1) : fdl[Back(fdlPos, k, Parts)] = BlockOfStep(steps - k)
      /\ runFrom' = runFrom
  BY DEF IInv, TypeOK, Parts, RendererAssumption, EnterHistory, HistoryLinesUp,
     SlotBack, Back
<1>2. clearedAt' = IF KeepsHistory THEN clearedAt ELSE steps
  BY DEF EnterHistory
<1>3. clearedAt' \in 0..steps
  BY <1>1, <1>2
<1>n. Parts \in Nat \ {0} /\ Parts' = Parts
  BY <1>1
<1>s. steps \in Nat /\ runFrom \in 0..steps /\ runFrom' = runFrom
  BY <1>1
<1>p. prevBlock = IF steps > runFrom THEN steps ELSE Silence
  BY <1>1
<1>4. PICK pos \in 0..(Parts - 1), f \in [0..(Parts - 1) -> Nat \X Nat] :
        /\ pos = KeptPos /\ f = KeptFdl
        /\ \A k \in 0..(Parts - 1) : f[Back(pos, k, Parts)] = Entered(steps - k)
  <2>1. CASE KeepsHistory
    <3>1. KeptPos = fdlPos /\ KeptFdl = fdl /\ clearedAt' = clearedAt
      BY <1>2, <2>1 DEF KeptPos, KeptFdl
    <3> QED BY <1>1, <3>1 DEF BlockOfStep
  <2>2. CASE ~KeepsHistory
    <3>1. /\ KeptPos = 0 /\ KeptFdl = [k \in 0..(Parts - 1) |-> NoBlock]
          /\ clearedAt' = steps
      BY <1>2, <2>2 DEF KeptPos, KeptFdl
    <3>2. KeptFdl \in [0..(Parts - 1) -> Nat \X Nat] /\ 0 \in 0..(Parts - 1)
      BY <1>1, <3>1 DEF NoBlock
    <3>3. ASSUME NEW k \in 0..(Parts - 1)
          PROVE  KeptFdl[Back(0, k, Parts)] = Entered(steps - k)
      <4>1. Back(0, k, Parts) \in 0..(Parts - 1)
        BY <1>1, <3>2, BackType
      <4>2. KeptFdl[Back(0, k, Parts)] = NoBlock
        BY <3>1, <4>1
      <4>3. steps - k <= clearedAt'
        BY <1>1, <3>1
      <4> QED BY <4>2, <4>3
    <3> QED BY <3>1, <3>2, <3>3
  <2> QED BY <2>1, <2>2
<1> HIDE DEF Entered
<1>5. CASE Completes(n)
  <2>1. /\ steps' = steps + 1 /\ prevBlock' = steps + 1
        /\ fdl' = [f EXCEPT ![pos] = <<prevBlock, steps + 1>>]
        /\ fdlPos' = IF pos + 1 < Parts THEN pos + 1 ELSE 0
    BY <1>4, <1>5 DEF EnterHistory
  <2>2. <<prevBlock, steps + 1>> \in Nat \X Nat
    BY <1>1 DEF Silence
  <2>3. /\ fdlPos' \in 0..(Parts - 1) /\ fdl' \in [0..(Parts - 1) -> Nat \X Nat]
        /\ fdl'[Back(fdlPos', 0, Parts)] = <<prevBlock, steps + 1>>
        /\ \A k \in 1..(Parts - 1) :
             fdl'[Back(fdlPos', k, Parts)] = f[Back(pos, k - 1, Parts)]
    <3> DEFINE v == <<prevBlock, steps + 1>>
               T == Nat \X Nat
    <3>1. v \in T /\ fdl' = [f EXCEPT ![pos] = v]
      BY <2>1, <2>2
    <3>2. f \in [0..(Parts - 1) -> T]
      OBVIOUS
    <3>3. fdlPos' = IF pos + 1 < Parts THEN pos + 1 ELSE 0
      BY <2>1
    <3> HIDE DEF v, T
    <3>4. /\ fdl' \in [0..(Parts - 1) -> T] /\ fdl'[pos] = v
          /\ \A i \in 0..(Parts - 1) : i # pos => fdl'[i] = f[i]
      BY <3>1, <3>2
    <3>5. /\ fdlPos' \in 0..(Parts - 1) /\ Back(fdlPos', 0, Parts) = pos
          /\ \A k \in 1..(Parts - 1) :
               /\ Back(fdlPos', k, Parts) = Back(pos, k - 1, Parts)
               /\ Back(pos, k - 1, Parts) \in 0..(Parts - 1)
               /\ Back(pos, k - 1, Parts) # pos
      BY <1>n, <3>3 DEF Back
    <3>6. ASSUME NEW k \in 1..(Parts - 1)
          PROVE  fdl'[Back(fdlPos', k, Parts)] = f[Back(pos, k - 1, Parts)]
      BY <3>4, <3>5
    <3> QED BY <3>4, <3>5, <3>6 DEF v, T
  <2>4. ASSUME NEW k \in 0..(Parts - 1)
        PROVE  fdl'[Back(fdlPos', k, Parts)] = Entered(steps + 1 - k)
    <3>1. CASE k = 0
      <4>1. Entered(steps + 1) = <<prevBlock, steps + 1>>
        BY SMTT(30), <1>1, <1>3 DEF Entered
      <4>2. steps + 1 - k = steps + 1
        BY <1>1, <3>1
      <4> QED BY <2>3, <3>1, <4>1, <4>2
    <3>2. CASE k > 0
      <4>1. k \in 1..(Parts - 1) /\ k - 1 \in 0..(Parts - 1)
            /\ steps - (k - 1) = steps + 1 - k
        BY <1>1, <3>2
      <4>2. f[Back(pos, k - 1, Parts)] = Entered(steps - (k - 1))
        BY <1>4, <4>1
      <4> QED BY <2>3, <4>1, <4>2
    <3> QED BY <1>1, <3>1, <3>2
  <2>5. HistoryLinesUp'
    <3>1. prevBlock' = IF steps' > runFrom' THEN steps' ELSE Silence
      <4>1. steps + 1 > runFrom
        BY <1>s
      <4>2. steps' = steps + 1 /\ prevBlock' = steps + 1 /\ runFrom' = runFrom
        BY <1>s, <2>1
      <4>3. steps' > runFrom'
        BY <4>1, <4>2
      <4> QED BY <4>2, <4>3
    <3>2. ASSUME NEW k \in 0..(Parts' - 1)
          PROVE  fdl'[SlotBack(k)'] = BlockOfStep(steps - k)'
      <4>1. SlotBack(k)' = Back(fdlPos', k, Parts)
        BY <1>1 DEF SlotBack, Back
      <4>2. BlockOfStep(steps - k)' = Entered(steps + 1 - k)
        BY <1>1, <2>1 DEF Entered, BlockOfStep
      <4> QED BY <1>1, <2>4, <4>1, <4>2
    <3> QED BY <3>1, <3>2 DEF HistoryLinesUp
  <2>6. steps' \in Nat /\ runFrom' \in 0..steps' /\ clearedAt' \in 0..steps'
    BY <1>s, <1>3, <2>1
  <2> QED BY <1>n, <2>3, <2>5, <2>6
<1>6. CASE ~Completes(n)
  <2>1. steps' = steps /\ prevBlock' = prevBlock /\ fdl' = f /\ fdlPos' = pos
    BY <1>4, <1>6 DEF EnterHistory
  <2>2. HistoryLinesUp'
    <3>1. prevBlock' = IF steps' > runFrom' THEN steps' ELSE Silence
      BY <1>s, <1>p, <2>1
    <3>2. ASSUME NEW k \in 0..(Parts' - 1)
          PROVE  fdl'[SlotBack(k)'] = BlockOfStep(steps - k)'
      <4>1. SlotBack(k)' = Back(pos, k, Parts)
        BY <1>1, <2>1 DEF SlotBack, Back
      <4>2. BlockOfStep(steps - k)' = Entered(steps - k)
        BY <1>1, <2>1 DEF Entered, BlockOfStep
      <4> QED BY <1>1, <1>4, <2>1, <4>1, <4>2
    <3> QED BY <3>1, <3>2 DEF HistoryLinesUp
  <2>3. steps' \in Nat /\ runFrom' \in 0..steps' /\ clearedAt' \in 0..steps'
    BY <1>s, <1>3, <2>1
  <2> QED BY <1>n, <1>4, <2>1, <2>2, <2>3
<1> QED BY <1>5, <1>6

\* The stream, of a block that renders: m samples come out, the next ones, and
\* the others wait.
LEMMA OutputInOrder ==
  ASSUME RendererAssumption, IInv, NEW n \in 1..size,
         StageInput(n), Output(n), size' = size, clock' = clock + n,
         wasEnabled' = TRUE
  PROVE  /\ stage' \in [0..(size' - 1) -> Nat]
         /\ inputFill' \in 0..(size' - 1)
         /\ ring' \in [0..(2 * size' - 1) -> Nat]
         /\ outRead' \in 0..(2 * size' - 1) /\ outWrite' \in 0..(2 * size' - 1)
         /\ outCount' \in 0..(2 * size')
         /\ StreamInv'
         /\ \E m \in 0..n :
              /\ out' = [i \in 1..n |->
                           IF i <= m THEN clock - (inputFill + outCount) + i
                           ELSE Silence]
              /\ inputFill' + outCount' = inputFill + outCount + n - m
              /\ n = size => m = n
<1> DEFINE m == Drains(n)
           in == inputFill
           held == outCount
<1>0. size \in Nat \ {0} /\ in \in 0..(size - 1) /\ clock \in Nat
  BY DEF IInv, TypeOK, RendererAssumption
<1>1. /\ size \in Nat /\ size > 0 /\ in \in Nat /\ clock \in Nat
      /\ held \in Nat /\ in + held < size /\ n \in 1..size
      /\ outRead \in 0..(2 * size - 1)
  <2>1. held \in 0..(2 * size) /\ outRead \in 0..(2 * size - 1)
    BY DEF IInv, TypeOK
  <2>2. in + held < size
    BY DEF IInv, StreamInv
  <2> QED BY <1>0, <2>1, <2>2
<1>w. outWrite = Around(outRead, held)
  BY DEF IInv, StreamInv
<1>f. stage \in [0..(size - 1) -> Nat] /\ ring \in [0..(2 * size - 1) -> Nat]
  BY DEF IInv, TypeOK
<1>2. Filled(n) = IF Completes(n) THEN held + size ELSE held
  BY <1>1 DEF Filled
<1>3. inputFill' = IF Completes(n) THEN in + n - size ELSE in + n
  BY DEF StageInput
<1>4. /\ m \in 0..n /\ m <= Filled(n) /\ outCount' = Filled(n) - m
      /\ (m < n => outCount' = 0)
  BY <1>1, <1>2 DEF Output, Drains
<1>5. /\ inputFill' \in 0..(size - 1) /\ outCount' \in 0..(2 * size)
      /\ inputFill' + outCount' = in + held + n - m
      /\ inputFill' + outCount' < size
      /\ (n = size => m = n)
  <2>1. CASE Completes(n)
    BY <1>1, <1>2, <1>3, <1>4, <2>1 DEF Completes
  <2>2. CASE ~Completes(n)
    BY <1>1, <1>2, <1>3, <1>4, <2>2 DEF Completes
  <2> QED BY <2>1, <2>2
<1>6. /\ outRead' = Around(outRead, m) /\ outRead' \in 0..(2 * size - 1)
      /\ outWrite' = Around(outRead, Filled(n))
      /\ outWrite' \in 0..(2 * size - 1)
  <2>1. outRead' = Around(outRead, m)
    BY DEF Output
  <2>2. outWrite' = IF Completes(n) THEN Around(outWrite, size) ELSE outWrite
    BY DEF Output
  <2>3. outWrite' = Around(outRead, Filled(n))
    BY <1>0, <1>1, <1>w, <1>2, <2>2, AroundTwice
  <2>4. m \in 0..(2 * size) /\ Filled(n) \in 0..(2 * size)
    BY <1>1, <1>2, <1>4
  <2> QED BY <1>0, <1>1, <2>1, <2>3, <2>4, AroundType
<1>7. ring' = FilledRing(n)
  BY DEF Output
<1>8. \A k \in 0..(Filled(n) - 1) :
        ring'[Around(outRead, k)] = clock - in - held + 1 + k
  BY <1>7, RingInOrder DEF IInv
<1>9. ring' \in [0..(2 * size - 1) -> Nat]
  <2>1. ASSUME NEW i \in 0..(size - 1) PROVE StagedAt(i) \in Nat
    BY <1>1, <1>f DEF StagedAt
  <2>2. ASSUME NEW p \in 0..(2 * size - 1), Ahead(p, outWrite) < size
        PROVE  Ahead(p, outWrite) \in 0..(size - 1)
    <3>1. held \in 0..(2 * size)
      BY <1>1
    <3>2. outWrite \in 0..(2 * size - 1)
      BY <1>0, <1>1, <1>w, <3>1, AroundType
    <3> QED BY <1>1, <2>2, <3>2 DEF Ahead
  <2> QED BY <1>1, <1>f, <1>7, <2>1, <2>2 DEF FilledRing
<1>10. /\ stage' \in [0..(size - 1) -> Nat]
       /\ \A i \in 0..(inputFill' - 1) :
            stage'[i] = clock' - inputFill' + 1 + i
  <2>1. CASE Completes(n)
    <3>1. /\ inputFill' = in + n - size
          /\ stage' = [i \in 0..(size - 1) |->
                         IF i < in + n - size THEN clock + 1 + (size - in) + i
                         ELSE StagedAt(i)]
      BY <2>1 DEF StageInput
    <3>2. \A i \in 0..(size - 1) : StagedAt(i) \in Nat
      BY <1>1, <1>f DEF StagedAt
    <3>3. stage' \in [0..(size - 1) -> Nat]
      BY <1>1, <3>1, <3>2
    <3>4. ASSUME NEW i \in 0..(inputFill' - 1)
          PROVE  stage'[i] = clock' - inputFill' + 1 + i
      <4>1. i \in 0..(size - 1) /\ i < in + n - size
        BY <1>1, <3>1
      <4>2. stage'[i] = clock + 1 + (size - in) + i
        BY <3>1, <4>1
      <4> QED BY <1>1, <3>1, <4>2
    <3> QED BY <3>3, <3>4
  <2>2. CASE ~Completes(n)
    <3>1. /\ inputFill' = in + n
          /\ stage' = [i \in 0..(size - 1) |->
                         IF i < in + n THEN StagedAt(i) ELSE stage[i]]
      BY <2>2 DEF StageInput
    <3>2. \A i \in 0..(size - 1) : StagedAt(i) \in Nat
      BY <1>1, <1>f DEF StagedAt
    <3>3. \A i \in 0..(in + n - 1) : StagedAt(i) = clock - in + 1 + i
      BY <1>1 DEF StagedAt, IInv, StreamInv
    <3>4. in + n < size
      BY <1>1, <2>2 DEF Completes
    <3>5. stage' \in [0..(size - 1) -> Nat]
      BY <1>1, <1>f, <3>1, <3>2
    <3>6. ASSUME NEW i \in 0..(inputFill' - 1)
          PROVE  stage'[i] = clock' - inputFill' + 1 + i
      <4>1. i \in 0..(size - 1) /\ i < in + n /\ i \in 0..(in + n - 1)
        BY <1>1, <3>1, <3>4
      <4>2. stage'[i] = clock - in + 1 + i
        BY <3>1, <3>3, <4>1
      <4> QED BY <1>1, <3>1, <4>2
    <3> QED BY <3>5, <3>6
  <2> QED BY <2>1, <2>2
<1>11. StreamInv'
  <2>1. outWrite' = Around(outRead, outCount)'
    <3>1. Around(outRead, outCount)' = Around(outRead', outCount')
      BY DEF Around
    <3>2. m + outCount' = Filled(n) /\ Filled(n) <= 2 * size
      BY <1>1, <1>2, <1>4, <1>5
    <3>3. Around(Around(outRead, m), outCount') = Around(outRead, Filled(n))
      <4>1. m \in Nat /\ outCount' \in Nat /\ m + outCount' <= 2 * size
        BY <1>4, <1>5, <1>1, <3>2
      <4> QED BY <1>0, <1>1, <3>2, <4>1, AroundTwice
    <3> QED BY <1>6, <3>1, <3>3
  <2>2. ASSUME NEW k \in 0..(outCount' - 1)
        PROVE  ring'[Around(outRead, k)'] =
                 clock' - inputFill' - outCount' + 1 + k
    <3>1. Around(outRead, k)' = Around(outRead', k)
      BY DEF Around
    <3>2. /\ m \in Nat /\ k \in Nat /\ m + k \in 0..(Filled(n) - 1)
          /\ m + k <= 2 * size
      BY <1>1, <1>2, <1>4, <1>5
    <3>3. Around(outRead', k) = Around(outRead, m + k)
      BY <1>0, <1>1, <1>6, <3>2, AroundTwice
    <3>4. ring'[Around(outRead, m + k)] = clock - in - held + 1 + (m + k)
      BY <1>8, <3>2
    <3>5. clock' - inputFill' - outCount' + 1 + k
            = clock - in - held + 1 + (m + k)
      BY <1>1, <1>4, <1>5
    <3> QED BY <3>1, <3>3, <3>4, <3>5
  <2>3. \A i \in 0..(inputFill' - 1) :
          stage'[i] = clock' - inputFill' + 1 + i
    BY <1>10
  <2>4. inputFill' + outCount' < size'
    BY <1>5
  <2>5. wasEnabled'
    OBVIOUS
  <2> QED BY <2>1, <2>2, <2>3, <2>4, <2>5 DEF StreamInv
<1>12. out' = [i \in 1..n |->
                 IF i <= m THEN clock - (in + held) + i ELSE Silence]
  <2>1. out' = [i \in 1..n |-> IF i <= m THEN ring'[Around(outRead, i - 1)]
                               ELSE Silence]
    BY DEF Output
  <2>2. ASSUME NEW i \in 1..n, i <= m
        PROVE  ring'[Around(outRead, i - 1)] = clock - (in + held) + i
    <3>1. i - 1 \in 0..(Filled(n) - 1)
      BY <1>1, <1>2, <1>4, <2>2
    <3>2. ring'[Around(outRead, i - 1)] = clock - in - held + 1 + (i - 1)
      BY <1>8, <3>1
    <3>3. clock - in - held + 1 + (i - 1) = clock - (in + held) + i
      BY <1>1
    <3> QED BY <3>2, <3>3
  <2> QED BY <2>1, <2>2
<1> QED BY <1>4, <1>5, <1>6, <1>9, <1>10, <1>11, <1>12

LEMMA RunningStep ==
  ASSUME RendererAssumption, IInv, NEW n \in 1..size,
         NEW pose \in Attitudes \cup {NoPose}, RenderRunning(n, pose)
  PROVE  IInv'
<1>1. /\ UNCHANGED bankVars /\ size' = size /\ changes' = changes
      /\ clock' = clock + n /\ active' = TRUE /\ wasEnabled' = TRUE
      /\ size \in Sizes /\ size \in Nat /\ clock \in Nat
      /\ Turn(HeadAttitude(pose)) /\ StageInput(n) /\ EnterHistory(n)
      /\ Output(n) /\ Running
  BY DEF RenderRunning, CountBlock, IInv, TypeOK, RendererAssumption
<1>2. HeadAttitude(pose) \in Attitudes
  BY DEF HeadAttitude, IInv, TypeOK
<1>3. BankInv'
  BY <1>1 DEF BankInv, IInv, bankVars
<1>4. /\ HeadInv' /\ hasRotation' \in BOOLEAN
      /\ lastHead' \in Attitudes /\ currentRotation' \in Attitudes
  BY <1>1, <1>2, TurnKeepsHead
<1>5. /\ HistoryLinesUp' /\ steps' \in Nat
      /\ fdl' \in [0..(Parts' - 1) -> Nat \X Nat]
      /\ fdlPos' \in 0..(Parts' - 1)
      /\ runFrom' \in 0..steps' /\ clearedAt' \in 0..steps'
  BY <1>1, EnterHistoryLinesUp
<1>6. /\ StreamInv' /\ stage' \in [0..(size' - 1) -> Nat]
      /\ inputFill' \in 0..(size' - 1)
      /\ ring' \in [0..(2 * size' - 1) -> Nat]
      /\ outRead' \in 0..(2 * size' - 1) /\ outWrite' \in 0..(2 * size' - 1)
      /\ outCount' \in 0..(2 * size')
  BY <1>1, OutputInOrder
<1>7. clock' \in Nat
  BY <1>1
<1>8. active' \in BOOLEAN /\ wasEnabled' \in BOOLEAN
  BY <1>1, Zenon
<1>9. TypeOK'
  BY <1>1, <1>4, <1>5, <1>6, <1>7, <1>8 DEF TypeOK, IInv, bankVars
<1> QED BY <1>3, <1>4, <1>5, <1>6, <1>9 DEF IInv

LEMMA StutterIInv ==
  ASSUME IInv, UNCHANGED vars PROVE IInv'
BY DEF vars, IInv, TypeOK, StreamInv, HeadInv, BankInv, HistoryLinesUp,
   bankVars, streamVars, historyVars, headVars, Around, SlotBack,
   BlockOfStep, Parts

LEMMA NothingStep == ASSUME IInv, RenderNothing PROVE IInv'
<1>1. active' \in BOOLEAN
  BY DEF RenderNothing
<1> QED BY <1>1 DEF RenderNothing, IInv, TypeOK, StreamInv, HeadInv, BankInv,
    HistoryLinesUp, bankVars, streamVars, historyVars, headVars, Around,
    SlotBack, BlockOfStep, Parts

LEMMA NextIInv ==
  ASSUME RendererAssumption, IInv, [Next]_vars PROVE IInv'
<1>1. CASE UNCHANGED vars
  BY <1>1, StutterIInv
<1>2. CASE MessageThread
  <2>1. CASE \E p \in Sizes : Prepare(p)
    BY <2>1, PrepareStep
  <2>2. CASE ~\E p \in Sizes : Prepare(p)
    BY <1>2, <2>2, BankSteps DEF MessageThread
  <2> QED BY <2>1, <2>2
<1>3. CASE RenderNothing
  BY <1>3, NothingStep
<1>4. ASSUME NEW n \in BlockLengths, MarkIdle(n) \/ RenderIdle(n)
      PROVE  IInv'
  <2>1. n \in 1..size
    BY <1>4 DEF MarkIdle, RenderIdle
  <2> QED BY <1>4, <2>1, IdleSteps
<1>5. ASSUME NEW n \in BlockLengths, NEW pose \in Attitudes \cup {NoPose},
             RenderRunning(n, pose)
      PROVE  IInv'
  <2>1. n \in 1..size
    BY <1>5 DEF RenderRunning
  <2> QED BY <1>5, <2>1, RunningStep
<1> QED BY <1>1, <1>2, <1>3, <1>4, <1>5 DEF Next, Block

\* The inductive invariant holds in every reachable state.
THEOREM Invariant == Spec => []IInv
<1>1. RendererAssumption
  BY RendererAssumption
<1>2. Init => IInv
  BY <1>1, InitIInv
<1>3. IInv /\ [Next]_vars => IInv'
  BY <1>1, NextIInv
<1> QED BY <1>2, <1>3, PTL DEF Spec

\* Each partition of a filter meets the block that far back, or the silence
\* from before the run, however long the run (AmbiBinauralRenderer.h:
\* runTransformStep, reset).
THEOREM HistoryAlwaysLinesUp == Spec => []HistoryLinesUp
<1>1. IInv => HistoryLinesUp
  BY DEF IInv
<1> QED BY <1>1, Invariant, PTL

\* No cook touches the published bank (AmbiBinauralFilterBank.h: cook,
\* publish).
THEOREM BankStaysIntact == Spec => []PublishedBankIntact
<1>1. IInv => PublishedBankIntact
  BY DEF IInv, BankInv, PublishedBankIntact
<1> QED BY <1>1, Invariant, PTL

\* The field is turned by the attitude of its block, without a jump between
\* blocks after the first turn (applyHeadRotation).
THEOREM HeadIsFollowed == Spec => FieldFollowsHead
<1> DEFINE Follows == active' /\ blocks' # blocks =>
                        /\ field'.to = field'.head
                        /\ wasEnabled /\ hasRotation => field'.from = field.to
<1>1. RendererAssumption
  BY RendererAssumption
<1>2. ASSUME IInv, [Next]_vars PROVE [Follows]_vars
  <2>1. SUFFICES ASSUME active', blocks' # blocks PROVE Follows
    OBVIOUS
  <2>2. PICK n \in BlockLengths, pose \in Attitudes \cup {NoPose} :
          RenderRunning(n, pose)
    BY <1>2, <2>1 DEF Next, Block, MessageThread, PublishParams, Cook, Publish,
       PublishEmpty, Prepare, RenderNothing, MarkIdle, RenderIdle, audioVars,
       vars
  <2>3. HeadAttitude(pose) \in Attitudes /\ Turn(HeadAttitude(pose))
    BY <1>2, <2>2 DEF HeadAttitude, RenderRunning, IInv, TypeOK
  <2> QED BY <1>1, <1>2, <2>3, TurnKeepsHead
<1>3. Spec => [][Follows]_vars
  BY <1>2, Invariant, PTL DEF Spec
<1> QED BY <1>3 DEF FieldFollowsHead

-----------------------------------------------------------------------------
(* The monitor implements DelayLine. *)

LEMMA InitMonitor == ASSUME RendererAssumption, Init PROVE Monitor!Init
BY DEF Init, Monitor!Init, Monitor!Idle, Monitor!Silence, Idle, Silence

LEMMA StepMonitor ==
  ASSUME RendererAssumption, IInv, [Next]_vars
  PROVE  [Monitor!Next]_(Monitor!vars)
<1> DEFINE heard == IF active THEN out ELSE Idle
<1>1. CASE \/ UNCHANGED vars
           \/ \E on \in BOOLEAN, manual \in Attitudes : PublishParams(on, manual)
           \/ \E fir \in FirLengths : Cook(fir)
           \/ Publish
           \/ PublishEmpty
  <2>1. UNCHANGED <<size, clock, inputFill, outCount, active, out>>
    BY <1>1 DEF vars, PublishParams, Cook, Publish, PublishEmpty, audioVars,
       streamVars
  <2> QED BY <2>1 DEF Monitor!vars, Idle
<1>2. CASE \E p \in Sizes : Prepare(p)
  <2>1. PICK p \in Sizes : Prepare(p)
    BY <1>2
  <2>2. /\ size' \in Sizes /\ inputFill' = 0 /\ outCount' = 0
        /\ out' = [i \in DOMAIN out |-> Silence]
        /\ active' = active /\ clock' = clock
    BY <2>1 DEF Prepare, Reset
  <2>3. heard' = [i \in DOMAIN heard |-> Silence]
    BY <2>2 DEF Idle
  <2>4. Monitor!Restart
    BY <2>2, <2>3 DEF Monitor!Restart, Monitor!Silence, Silence
  <2> QED BY <2>4 DEF Monitor!Next
<1>3. CASE RenderNothing
  <2>1. Monitor!Pause
    BY <1>3 DEF RenderNothing, Monitor!Pause, Monitor!Idle, Monitor!Silence,
       Idle, Silence, streamVars
  <2> QED BY <2>1 DEF Monitor!Next
<1>4. ASSUME NEW n \in BlockLengths, MarkIdle(n) \/ RenderIdle(n)
      PROVE  Monitor!Next
  <2>1. /\ n \in 1..size /\ clock' = clock + n /\ active' = FALSE
        /\ size' = size
    BY <1>4 DEF MarkIdle, RenderIdle, CountBlock
  <2>2. inputFill' = 0 /\ outCount' = 0
    BY <1>4, <2>1, IdleSteps
  <2>3. Monitor!Skip(n)
    BY <2>1, <2>2 DEF Monitor!Skip, Monitor!Idle, Monitor!Silence, Idle, Silence
  <2> QED BY <2>1, <2>3 DEF Monitor!Next
<1>5. ASSUME NEW n \in BlockLengths, NEW pose \in Attitudes \cup {NoPose},
             RenderRunning(n, pose)
      PROVE  Monitor!Next
  <2>1. /\ n \in 1..size /\ clock' = clock + n /\ active' = TRUE
        /\ size' = size /\ wasEnabled' = TRUE /\ StageInput(n) /\ Output(n)
    BY <1>5 DEF RenderRunning, CountBlock
  <2>2. PICK m \in 0..n :
          /\ out' = [i \in 1..n |->
                       IF i <= m THEN clock - (inputFill + outCount) + i
                       ELSE Silence]
          /\ inputFill' + outCount' = inputFill + outCount + n - m
          /\ n = size => m = n
    BY <2>1, OutputInOrder
  <2>3. inputFill' + outCount' < size
    BY <2>1, OutputInOrder DEF StreamInv
  <2>4. Monitor!Stream(n)
    BY <2>1, <2>2, <2>3 DEF Monitor!Stream, Monitor!Silence, Silence
  <2> QED BY <2>1, <2>4 DEF Monitor!Next
<1> QED BY <1>1, <1>2, <1>3, <1>4, <1>5 DEF Next, MessageThread, Block

\* Whatever the block lengths, stops, re-cooks and restarts, the stream the
\* engine scatters is the field, complete and in order, late by less than one
\* prepared block (render, reset, markIdle).
THEOREM MonitorStreamsField == Spec => StreamsField
<1>1. RendererAssumption
  BY RendererAssumption
<1>2. Init => Monitor!Init
  BY <1>1, InitMonitor
<1>3. IInv /\ [Next]_vars => [Monitor!Next]_(Monitor!vars)
  BY <1>1, StepMonitor
<1>4. Spec => Monitor!Spec
  BY <1>2, <1>3, Invariant, PTL DEF Spec, Monitor!Spec
<1> QED BY <1>4 DEF StreamsField
=============================================================================
