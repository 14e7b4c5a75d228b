-------------------------- MODULE OscControl_proofs --------------------------
(***************************************************************************)
(* Proofs about OscControl, for any parameters, hosts, range of values and *)
(* number of operations.                                                   *)
(*                                                                         *)
(* What holds between handlers is proved from what a handler has still to  *)
(* do: a receiver that should not be connected has a disconnect ahead of   *)
(* it, a parameter that is not yet what was intended has a write ahead of  *)
(* it, and the queue is reset by the last entry, when no disconnect is     *)
(* left.                                                                   *)
(***************************************************************************)
EXTENDS OscControl, SequenceTheorems, TLAPS

\* What a handler's list is made of.
Writes == [op : {"write"}, param : Params, value : Nat]
Disconnects == [op : {"disconnect"}, transport : Transports]
Connects == [op : {"connect"}, transport : Transports]
Ops == Writes \cup Disconnects \cup Connects \cup {ResetQueue}

Fulfils(w, target) == w.op = "write" => target[w.param] = Clamp(w.value)
WritesTo(list, p) == \E i \in DOMAIN list : list[i].op = "write" /\ list[i].param = p
Disconnecting(list) ==
    {t \in Transports : \E i \in DOMAIN list : list[i] = Disconnect(t)}

Allowed == IF phase = "running" THEN Wanted(settings) ELSE {}

ListInv ==
    /\ todo \in Seq(Ops)
    /\ intended \in [Params -> Values]
    /\ phase \in {"idle", "stopped"} => \A i \in DOMAIN todo : todo[i].op = "write"
    /\ \A i \in DOMAIN todo : todo[i].op = "reset" => i = Len(todo) /\ phase = "stopping"

ReceiverInv ==
    /\ \A t \in Transports \ bound : receiver[t] = "waiting"
    /\ phase \in {"running", "stopping"} => alive
    /\ bound \subseteq Allowed \cup Disconnecting(todo)
    /\ \A i \in DOMAIN todo :
          todo[i].op = "connect" => phase = "running" /\ todo[i].transport \in Allowed

StoreInv ==
    /\ \A i \in DOMAIN todo : Fulfils(todo[i], intended)
    /\ \A p \in Params : WritesTo(todo, p) \/ store[p] = intended[p]
    /\ \A p \in Axes : rotation[p] = store[p]

IInv == TypeOK /\ ListInv /\ ReceiverInv /\ StoreInv /\ FeedbackCoversWrites

-----------------------------------------------------------------------------
(* Lists of things to do. *)

\* An entry's op tells what it is.
LEMMA OpKinds ==
    ASSUME NEW e \in Ops
    PROVE  /\ e.op = "write" => e \in Writes
           /\ e.op = "disconnect" => e \in Disconnects
           /\ e.op = "connect" => e \in Connects
           /\ e.op = "reset" => e = ResetQueue
           /\ \A t : e = Disconnect(t) => e.op = "disconnect" /\ e.transport = t
BY DEF Ops, Writes, Disconnects, Connects, ResetQueue, Disconnect

\* What is left of a list after its head.
LEMMA TailFacts ==
    ASSUME NEW list \in Seq(Ops), list # <<>>
    PROVE  /\ Tail(list) \in Seq(Ops)
           /\ Len(Tail(list)) = Len(list) - 1
           /\ 1 \in DOMAIN list /\ Head(list) = list[1] /\ Head(list) \in Ops
           /\ \A i \in DOMAIN Tail(list) : i + 1 \in DOMAIN list /\ Tail(list)[i] = list[i + 1]
           /\ \A i \in DOMAIN list :
                 i = 1 \/ (i - 1 \in DOMAIN Tail(list) /\ Tail(list)[i - 1] = list[i])
OBVIOUS

\* The head aside, a list and its tail write to and disconnect the same.
LEMMA TailKeeps ==
    ASSUME NEW list \in Seq(Ops), list # <<>>
    PROVE  /\ \A p : WritesTo(list, p) =>
                 WritesTo(Tail(list), p) \/ (Head(list).op = "write" /\ Head(list).param = p)
           /\ \A t \in Disconnecting(list) :
                 t \in Disconnecting(Tail(list)) \/ Head(list) = Disconnect(t)
           /\ \A i \in DOMAIN Tail(list) : \E j \in DOMAIN list :
                 j = i + 1 /\ Tail(list)[i] = list[j]
<1>1. ASSUME NEW p, WritesTo(list, p)
      PROVE  WritesTo(Tail(list), p) \/ (Head(list).op = "write" /\ Head(list).param = p)
  <2>1. PICK i \in DOMAIN list : list[i].op = "write" /\ list[i].param = p
    BY <1>1 DEF WritesTo
  <2>2. CASE i = 1
    BY <2>1, <2>2, TailFacts
  <2>3. CASE i # 1
    <3>1. i - 1 \in DOMAIN Tail(list) /\ Tail(list)[i - 1] = list[i]
      BY <2>3, TailFacts
    <3> QED BY <2>1, <3>1 DEF WritesTo
  <2> QED BY <2>2, <2>3
<1>2. ASSUME NEW t \in Disconnecting(list)
      PROVE  t \in Disconnecting(Tail(list)) \/ Head(list) = Disconnect(t)
  <2>1. PICK i \in DOMAIN list : list[i] = Disconnect(t)
    BY <1>2 DEF Disconnecting
  <2> QED BY <2>1, <1>2, TailFacts DEF Disconnecting
<1> QED BY <1>1, <1>2, TailFacts

\* The writes of a sequence of parameters to a sequence of values.
LEMMA WriteAllIsList ==
    ASSUME NEW order \in Seq(Params), NEW values \in [1..Len(order) -> Values],
           IsInjective(order)
    PROVE  /\ WriteAll(order, values) \in Seq(Writes)
           /\ \A i, j \in DOMAIN WriteAll(order, values) :
                 WriteAll(order, values)[i].param = WriteAll(order, values)[j].param => i = j
<1> DEFINE list == WriteAll(order, values)
<1>1. DOMAIN list = 1..Len(order) /\ DOMAIN order = 1..Len(order)
  BY DEF WriteAll
<1>2. \A i \in 1..Len(order) : list[i] \in Writes /\ list[i].param = order[i]
  <2>1. \A i \in 1..Len(order) : order[i] \in Params /\ values[i] \in Nat
    BY OscAssumption DEF Values
  <2> QED BY <2>1 DEF WriteAll, Write, Writes
<1>3. list \in Seq(Writes)
  BY <1>2 DEF WriteAll
<1>4. \A i, j \in DOMAIN order : order[i] = order[j] => i = j
  BY DEF IsInjective
<1> HIDE DEF list
<1>5. \A i, j \in DOMAIN list : list[i].param = list[j].param => i = j
  BY <1>1, <1>2, <1>4
<1> QED BY <1>3, <1>5 DEF list

\* Each datagram asks for a list of writes, none twice to one parameter.
LEMMA DatagramIsList ==
    ASSUME NEW d \in Datagrams
    PROVE  /\ d.writes \in Seq(Writes)
           /\ \A i, j \in DOMAIN d.writes : d.writes[i].param = d.writes[j].param => i = j
<1> USE OscAssumption
<1>0. AxisOrder \in Seq(Params) /\ PositionOrder \in Seq(Params)
  BY DEF Params, Axes
<1>1. CASE \E h \in Hosts, p \in Params, v \in Wire :
              d = [from |-> h, address |-> p, writes |-> <<Write(p, v)>>]
  <2>1. PICK h \in Hosts, p \in Params, v \in Wire : d.writes = <<Write(p, v)>>
    BY <1>1
  <2>2. Write(p, v) \in Writes
    BY DEF Write, Writes, Wire
  <2> QED BY <2>1, <2>2
<1>2. CASE \E h \in Hosts, angles \in [1..Len(AxisOrder) -> Values] :
              d = [from |-> h, address |-> "quaternion", writes |-> WriteAll(AxisOrder, angles)]
  <2>1. PICK angles \in [1..Len(AxisOrder) -> Values] : d.writes = WriteAll(AxisOrder, angles)
    BY <1>2
  <2> QED BY <1>0, <2>1, WriteAllIsList
<1>3. CASE \E h \in Hosts, place \in [1..Len(PositionOrder) -> Values] :
              d = [from |-> h, address |-> "position", writes |-> WriteAll(PositionOrder, place)]
  <2>1. PICK place \in [1..Len(PositionOrder) -> Values] :
           d.writes = WriteAll(PositionOrder, place)
    BY <1>3
  <2> QED BY <1>0, <2>1, WriteAllIsList
<1> QED BY <1>1, <1>2, <1>3 DEF Datagrams

\* Reconnecting takes both receivers down and brings up those that are wanted.
LEMMA ReconnectIsList ==
    ASSUME NEW s
    PROVE  /\ Reconnect(s) \in Seq(Ops)
           /\ Disconnecting(Reconnect(s)) = Transports
           /\ \A i \in DOMAIN Reconnect(s) :
                 /\ Reconnect(s)[i].op \in {"disconnect", "connect"}
                 /\ Reconnect(s)[i].op = "connect" => Reconnect(s)[i].transport \in Wanted(s)
<1> DEFINE down == <<Disconnect("udp"), Disconnect("tcp")>>
           up == IF "udp" \in Wanted(s) THEN <<Connect("udp")>> ELSE <<>>
           more == IF "tcp" \in Wanted(s) THEN <<Connect("tcp")>> ELSE <<>>
<1>1. Reconnect(s) = down \o up \o more
  BY DEF Reconnect
<1>2. down \in Seq(Ops) /\ up \in Seq(Ops) /\ more \in Seq(Ops)
  <2>1. \A t \in Transports : Disconnect(t) \in Ops /\ Connect(t) \in Ops
    BY DEF Ops, Disconnects, Connects, Disconnect, Connect
  <2>2. /\ Disconnect("udp") \in Ops /\ Disconnect("tcp") \in Ops
        /\ Connect("udp") \in Ops /\ Connect("tcp") \in Ops
    BY <2>1 DEF Transports
  <2> QED BY <2>2
<1>3. \A i \in DOMAIN up : i = 1 /\ up[i] = Connect("udp") /\ "udp" \in Wanted(s)
  OBVIOUS
<1>4. \A i \in DOMAIN more : i = 1 /\ more[i] = Connect("tcp") /\ "tcp" \in Wanted(s)
  OBVIOUS
<1>5. Len(down) = 2 /\ down[1] = Disconnect("udp") /\ down[2] = Disconnect("tcp")
  OBVIOUS
<1> HIDE DEF down, up, more
<1>6a. Len(up) \in Nat /\ Len(more) \in Nat
  BY <1>2
<1>6b. /\ down \o up \in Seq(Ops) /\ Len(down \o up) = 2 + Len(up)
       /\ \A i \in 1..(2 + Len(up)) :
             (down \o up)[i] = IF i <= 2 THEN down[i] ELSE up[i - 2]
  <2>1. /\ down \o up \in Seq(Ops) /\ Len(down \o up) = Len(down) + Len(up)
        /\ \A i \in 1..(Len(down) + Len(up)) :
              (down \o up)[i] = IF i <= Len(down) THEN down[i] ELSE up[i - Len(down)]
    BY <1>2, ConcatProperties
  <2>2. Len(down) = 2
    BY <1>5
  <2> QED BY <2>1, <2>2
<1>6c. /\ down \o up \o more \in Seq(Ops)
       /\ Len(down \o up \o more) = 2 + Len(up) + Len(more)
       /\ \A i \in 1..(2 + Len(up) + Len(more)) :
             (down \o up \o more)[i] =
                IF i <= 2 + Len(up) THEN (down \o up)[i] ELSE more[i - (2 + Len(up))]
  <2> DEFINE both == down \o up
  <2>1. both \in Seq(Ops) /\ Len(both) = 2 + Len(up)
    BY <1>6b
  <2> HIDE DEF both
  <2>2. /\ both \o more \in Seq(Ops) /\ Len(both \o more) = Len(both) + Len(more)
        /\ \A i \in 1..(Len(both) + Len(more)) :
              (both \o more)[i] = IF i <= Len(both) THEN both[i] ELSE more[i - Len(both)]
    <3>1. both \in Seq(Ops) /\ more \in Seq(Ops)
      BY <1>2, <2>1
    <3> QED BY ONLY <3>1, ConcatProperties
  <2>3. /\ both \o more \in Seq(Ops) /\ Len(both \o more) = (2 + Len(up)) + Len(more)
        /\ \A i \in 1..((2 + Len(up)) + Len(more)) :
              (both \o more)[i] =
                 IF i <= 2 + Len(up) THEN both[i] ELSE more[i - (2 + Len(up))]
    BY ONLY <2>1, <2>2
  <2> QED BY <2>3 DEF both
<1>6. /\ Reconnect(s) \in Seq(Ops)
      /\ 1 \in DOMAIN Reconnect(s) /\ Reconnect(s)[1] = Disconnect("udp")
      /\ 2 \in DOMAIN Reconnect(s) /\ Reconnect(s)[2] = Disconnect("tcp")
  BY <1>1, <1>5, <1>6a, <1>6b, <1>6c
<1>7. \A i \in DOMAIN Reconnect(s) :
         \/ i \in 1..2
         \/ \E j \in DOMAIN up : Reconnect(s)[i] = up[j]
         \/ \E j \in DOMAIN more : Reconnect(s)[i] = more[j]
  <2> SUFFICES ASSUME NEW i \in DOMAIN (down \o up \o more), i \notin 1..2
               PROVE  \/ \E j \in DOMAIN up : (down \o up \o more)[i] = up[j]
                      \/ \E j \in DOMAIN more : (down \o up \o more)[i] = more[j]
    BY <1>1
  <2>1. i \in Int /\ i > 2 /\ i <= 2 + Len(up) + Len(more)
    BY <1>6a, <1>6b, <1>6c
  <2>2. CASE i <= 2 + Len(up)
    <3>1. (down \o up \o more)[i] = up[i - 2] /\ i - 2 \in DOMAIN up
      BY <1>2, <1>5, <1>6a, <1>6b, <1>6c, <2>1, <2>2
    <3> QED BY <3>1
  <2>3. CASE i > 2 + Len(up)
    <3>1. /\ (down \o up \o more)[i] = more[i - (2 + Len(up))]
          /\ i - (2 + Len(up)) \in DOMAIN more
      BY <1>2, <1>5, <1>6a, <1>6b, <1>6c, <2>1, <2>3
    <3> QED BY <3>1
  <2> QED BY <1>6a, <2>1, <2>2, <2>3
<1>8. Disconnecting(Reconnect(s)) = Transports
  BY <1>6 DEF Disconnecting, Transports
<1>9. ASSUME NEW i \in DOMAIN Reconnect(s)
      PROVE  /\ Reconnect(s)[i].op \in {"disconnect", "connect"}
             /\ Reconnect(s)[i].op = "connect" => Reconnect(s)[i].transport \in Wanted(s)
  <2>1. CASE i \in 1..2
    BY <1>6, <2>1 DEF Disconnect
  <2>2. CASE i \notin 1..2
    BY <1>3, <1>4, <1>7, <2>2 DEF Connect
  <2> QED BY <2>1, <2>2
<1> QED BY <1>6, <1>8, <1>9

\* Stopping disconnects both receivers before it resets the queue.
LEMMA TakeDownIsList ==
    /\ TakeDown \in Seq(Ops)
    /\ Disconnecting(TakeDown) = Transports
    /\ \A i \in DOMAIN TakeDown :
          /\ TakeDown[i].op \in {"disconnect", "reset"}
          /\ TakeDown[i].op = "reset" => i = Len(TakeDown)
<1>1. TakeDown \in Seq(Ops)
  BY DEF TakeDown, Ops, Disconnects, Transports, Disconnect
<1>2. /\ Len(TakeDown) = 3 /\ DOMAIN TakeDown = 1..3
      /\ TakeDown[1] = Disconnect("udp") /\ TakeDown[2] = Disconnect("tcp")
      /\ TakeDown[3] = ResetQueue
  BY DEF TakeDown
<1>3. Disconnecting(TakeDown) = Transports
  BY <1>2 DEF Disconnecting, Transports
<1> QED BY <1>1, <1>2, <1>3 DEF Disconnect, ResetQueue

\* A handler that begins to write intends what its list says.
LEMMA PerformFacts ==
    ASSUME NEW writes \in Seq(Writes), Perform(writes),
           \A i, j \in DOMAIN writes : writes[i].param = writes[j].param => i = j,
           intended \in [Params -> Values]
    PROVE  /\ todo' \in Seq(Ops)
           /\ intended' \in [Params -> Values]
           /\ \A i \in DOMAIN todo' : todo'[i].op = "write" /\ Fulfils(todo'[i], intended')
           /\ \A p \in Params : WritesTo(todo', p) \/ intended'[p] = intended[p]
           /\ Disconnecting(todo') = {}
<1>1. todo' = writes /\ todo' \in Seq(Ops)
  BY DEF Perform, Ops
<1>2. \A i \in DOMAIN writes : /\ writes[i] \in Writes /\ writes[i].op = "write"
                               /\ writes[i].param \in Params
                               /\ Clamp(writes[i].value) \in Values
  <2>1. \A i \in DOMAIN writes : writes[i] \in Writes
    OBVIOUS
  <2>2. \A w \in Writes : w.op = "write" /\ w.param \in Params /\ w.value \in Nat
    BY DEF Writes
  <2>3. \A v \in Nat : Clamp(v) \in Values
    BY OscAssumption DEF Clamp, Values
  <2> QED BY <2>1, <2>2, <2>3
<1>3. \A i \in DOMAIN writes :
         i = CHOOSE j \in DOMAIN writes : writes[j].param = writes[i].param
  OBVIOUS
<1>4. \A p \in Params : intended'[p] \in Values
  <2> SUFFICES ASSUME NEW p \in Params PROVE intended'[p] \in Values
    OBVIOUS
  <2>1. CASE \E i \in DOMAIN writes : writes[i].param = p
    BY <1>2, <2>1 DEF Perform
  <2>2. CASE ~ \E i \in DOMAIN writes : writes[i].param = p
    BY <2>2 DEF Perform
  <2> QED BY <2>1, <2>2
<1>5. \A i \in DOMAIN writes : intended'[writes[i].param] = Clamp(writes[i].value)
  BY <1>2, <1>3 DEF Perform
<1>6. \A p \in Params : WritesTo(todo', p) \/ intended'[p] = intended[p]
  BY <1>1, <1>2 DEF Perform, WritesTo
<1>7. Disconnecting(todo') = {}
  BY <1>1, <1>2 DEF Disconnecting, Disconnect
<1>8. intended' \in [Params -> Values]
  BY <1>4 DEF Perform
<1> QED BY <1>1, <1>2, <1>5, <1>6, <1>7, <1>8 DEF Fulfils


-----------------------------------------------------------------------------
(* The invariant, action by action. *)

LEMMA InitIInv == Init => IInv
<1> SUFFICES ASSUME Init PROVE IInv
  OBVIOUS
<1> USE DEF Init
<1>0. 0 \in Values
  BY OscAssumption DEF Values
<1>1. TypeOK
  <2>1. fifo \in Seq(Datagrams)
    <3>1. <<>> \in Seq(Datagrams)
      OBVIOUS
    <3> QED BY <3>1
  <2> QED BY <1>0, <2>1 DEF TypeOK
<1>2. ListInv
  BY <1>0 DEF ListInv
<1>3. ReceiverInv
  BY DEF ReceiverInv
<1>4. StoreInv
  BY DEF StoreInv, Axes, Params
<1>5. FeedbackCoversWrites
  BY DEF FeedbackCoversWrites
<1> QED BY <1>1, <1>2, <1>3, <1>4, <1>5 DEF IInv

\* Beginning to write disturbs nothing but the list and what is intended.
LEMMA PerformKeeps ==
    ASSUME IInv, Idle, TypeOK',
           todo' \in Seq(Ops), intended' \in [Params -> Values],
           \A i \in DOMAIN todo' : todo'[i].op = "write" /\ Fulfils(todo'[i], intended'),
           \A p \in Params : WritesTo(todo', p) \/ intended'[p] = intended[p],
           UNCHANGED <<handler, store, rotation, feedbackVars>>
    PROVE  IInv'
<1> USE DEF handler, feedbackVars
<1>1. ListInv'
  BY DEF ListInv
<1>2. ReceiverInv'
  BY DEF IInv, ReceiverInv, Idle, Allowed, Disconnecting
<1>3. StoreInv'
  <2>1. \A p \in Params : store[p] = intended[p]
    BY DEF IInv, StoreInv, Idle, WritesTo
  <2> QED BY <2>1 DEF IInv, StoreInv
<1>4. FeedbackCoversWrites'
  BY DEF IInv, FeedbackCoversWrites
<1> QED BY <1>1, <1>2, <1>3, <1>4 DEF IInv

\* What a list leaves when its head is done.
RestIsKept ==
    /\ Head(todo) \in Ops /\ Head(todo) = todo[1] /\ 1 \in DOMAIN todo
    /\ todo' \in Seq(Ops)
    /\ \A i \in DOMAIN todo' : Fulfils(todo'[i], intended)
    /\ \A p \in Params : WritesTo(todo, p) =>
          WritesTo(todo', p) \/ (Head(todo).op = "write" /\ Head(todo).param = p)
    /\ \A t \in Disconnecting(todo) :
          t \in Disconnecting(todo') \/ Head(todo) = Disconnect(t)
    /\ \A i \in DOMAIN todo' :
          /\ todo'[i].op = "connect" => phase = "running" /\ todo'[i].transport \in Allowed
          /\ todo'[i].op = "reset" => i = Len(todo') /\ phase = "stopping"
    /\ Head(todo).op = "reset" => todo' = <<>> /\ phase = "stopping"
    /\ phase \in {"idle", "stopped"} =>
          Head(todo).op = "write" /\ \A i \in DOMAIN todo' : todo'[i].op = "write"

LEMMA RestOfList ==
    ASSUME IInv, ~ Idle, todo' = Tail(todo)
    PROVE  RestIsKept
<1>1. todo \in Seq(Ops) /\ todo # <<>>
  BY DEF IInv, ListInv, Idle
<1>2. /\ Head(todo) \in Ops /\ Head(todo) = todo[1] /\ 1 \in DOMAIN todo
      /\ todo' \in Seq(Ops) /\ Len(todo') = Len(todo) - 1
      /\ \A i \in DOMAIN todo' : i + 1 \in DOMAIN todo /\ todo'[i] = todo[i + 1]
  BY <1>1, TailFacts
<1>3. /\ \A p \in Params : WritesTo(todo, p) =>
            WritesTo(todo', p) \/ (Head(todo).op = "write" /\ Head(todo).param = p)
      /\ \A t \in Disconnecting(todo) :
            t \in Disconnecting(todo') \/ Head(todo) = Disconnect(t)
  BY <1>1, TailKeeps
<1>4. \A i \in DOMAIN todo' : Fulfils(todo'[i], intended)
  BY <1>2 DEF IInv, StoreInv
<1>5. \A i \in DOMAIN todo' :
         todo'[i].op = "connect" => phase = "running" /\ todo'[i].transport \in Allowed
  BY <1>2 DEF IInv, ReceiverInv
<1>6. \A i \in DOMAIN todo : todo[i].op = "reset" => i = Len(todo) /\ phase = "stopping"
  BY DEF IInv, ListInv
<1>7. \A i \in DOMAIN todo' :
         todo'[i].op = "reset" => i = Len(todo') /\ phase = "stopping"
  <2> SUFFICES ASSUME NEW i \in DOMAIN todo', todo'[i].op = "reset"
               PROVE  i = Len(todo') /\ phase = "stopping"
    OBVIOUS
  <2>1. i + 1 \in DOMAIN todo /\ todo[i + 1].op = "reset"
    BY <1>2
  <2>2. i + 1 = Len(todo) /\ phase = "stopping"
    BY <1>6, <2>1
  <2>3. i \in Int /\ Len(todo) \in Int
    BY <1>1, <1>2
  <2> QED BY <1>2, <2>2, <2>3
<1>8. ASSUME Head(todo).op = "reset"
      PROVE  todo' = <<>> /\ phase = "stopping"
  <2>1. Len(todo) = 1 /\ phase = "stopping"
    BY <1>2, <1>6, <1>8
  <2> QED BY <1>1, <1>2, <2>1
<1>9. phase \in {"idle", "stopped"} =>
         Head(todo).op = "write" /\ \A i \in DOMAIN todo' : todo'[i].op = "write"
  BY <1>2 DEF IInv, ListInv
<1> QED BY <1>2, <1>3, <1>4, <1>5, <1>7, <1>8, <1>9 DEF RestIsKept

\* An entry that is no write leaves parameters and feedback as they are.
LEMMA NoWriteKeeps ==
    ASSUME IInv, RestIsKept, Head(todo).op # "write",
           UNCHANGED <<store, rotation, feedbackVars, intended>>
    PROVE  StoreInv' /\ FeedbackCoversWrites'
<1> USE DEF IInv, feedbackVars
<1>1. StoreInv'
  BY DEF StoreInv, RestIsKept
<1>2. FeedbackCoversWrites'
  BY DEF FeedbackCoversWrites
<1> QED BY <1>1, <1>2

LEMMA UnchangedKeeps ==
    ASSUME IInv, TypeOK',
           UNCHANGED <<handler, todo, intended, store, rotation, feedbackVars>>
    PROVE  IInv'
<1> USE DEF IInv, handler, feedbackVars
<1>1. ListInv'
  BY DEF ListInv
<1>2. ReceiverInv'
  BY DEF ReceiverInv, Allowed, Disconnecting
<1>3. StoreInv'
  BY DEF StoreInv, Fulfils, WritesTo
<1>4. FeedbackCoversWrites'
  BY DEF FeedbackCoversWrites
<1> QED BY <1>1, <1>2, <1>3, <1>4

\* A list without writes leaves the store as it was intended.
LEMMA NoWritesBegin ==
    ASSUME StoreInv, todo = <<>>, \A i \in DOMAIN todo' : todo'[i].op # "write",
           UNCHANGED <<store, rotation, intended>>
    PROVE  StoreInv'
<1>1. \A p \in Params : store[p] = intended[p]
  BY DEF StoreInv, WritesTo
<1> QED BY <1>1 DEF StoreInv, Fulfils

LEMMA NextIInv == IInv /\ [Next]_vars => IInv'
<1> SUFFICES ASSUME IInv, [Next]_vars PROVE IInv'
  OBVIOUS
<1> USE DEF IInv, queue
<1>1. ASSUME NEW t \in Transports, Receive(t) \/ CheckQueue(t) \/ Push(t)
      PROVE  IInv'
  <2>1. TypeOK'
    <3>1. fifo' \in Seq(Datagrams) /\ newest' \subseteq Datagrams
      <4>1. fifo \in Seq(Datagrams) /\ newest \subseteq Datagrams
        BY DEF TypeOK
      <4>2. CASE Push(t)
        <5>1. PICK d \in Datagrams :
                 \/ newest' = {q \in newest : q.address # d.address} \cup {d} /\ fifo' = fifo
                 \/ fifo' = Append(fifo, d) /\ newest' = newest
          BY <4>2 DEF Push
        <5>2. Append(fifo, d) \in Seq(Datagrams)
          BY <4>1
        <5> QED BY <4>1, <5>1, <5>2
      <4>3. CASE Receive(t) \/ CheckQueue(t)
        BY <4>1, <4>3 DEF Receive, CheckQueue
      <4> QED BY <1>1, <4>2, <4>3
    <3> QED BY <1>1, <3>1 DEF TypeOK, Receive, CheckQueue, Push, feedbackVars
  <2>2. ListInv'
    BY <1>1 DEF ListInv, Receive, CheckQueue, Push
  <2>3. ReceiverInv'
    BY <1>1 DEF ReceiverInv, TypeOK, Receive, CheckQueue, Push, Allowed
  <2>4. StoreInv'
    BY <1>1 DEF StoreInv, Receive, CheckQueue, Push, Fulfils, WritesTo, feedbackVars
  <2>5. FeedbackCoversWrites'
    BY <1>1 DEF FeedbackCoversWrites, Receive, CheckQueue, Push, feedbackVars
  <2> QED BY <2>1, <2>2, <2>3, <2>4, <2>5
<1>2. CASE Start
  <2>1. TypeOK'
    BY <1>2 DEF TypeOK, Start, feedbackVars
  <2>2. ListInv'
    BY <1>2, ReconnectIsList DEF ListInv, Start, feedbackVars
  <2>3. ReceiverInv'
    BY <1>2, ReconnectIsList DEF ReceiverInv, TypeOK, Start, Allowed
  <2>4. StoreInv'
    <3>1. \A i \in DOMAIN todo' : todo'[i].op # "write"
      BY <1>2, ReconnectIsList DEF Start
    <3>2. todo = <<>> /\ UNCHANGED <<store, rotation, intended>>
      BY <1>2 DEF Idle, Start
    <3> QED BY <3>1, <3>2, NoWritesBegin
  <2>5. FeedbackCoversWrites'
    BY <1>2 DEF FeedbackCoversWrites, Start, feedbackVars
  <2> QED BY <2>1, <2>2, <2>3, <2>4, <2>5
<1>3. CASE Stop
  <2>1. TypeOK'
    BY <1>3 DEF TypeOK, Stop, feedbackVars
  <2>2. ListInv'
    BY <1>3, TakeDownIsList DEF ListInv, Stop, feedbackVars
  <2>3. ReceiverInv'
    BY <1>3, TakeDownIsList DEF ReceiverInv, TypeOK, Stop, Allowed
  <2>4. StoreInv'
    <3>1. \A i \in DOMAIN todo' : todo'[i].op # "write"
      BY <1>3, TakeDownIsList DEF Stop
    <3>2. todo = <<>> /\ UNCHANGED <<store, rotation, intended>>
      BY <1>3 DEF Idle, Stop
    <3> QED BY <3>1, <3>2, NoWritesBegin
  <2>5. FeedbackCoversWrites'
    BY <1>3 DEF FeedbackCoversWrites, Stop, feedbackVars
  <2> QED BY <2>1, <2>2, <2>3, <2>4, <2>5
<1>4. ASSUME NEW f \in DOMAIN settings, ChangeSetting(f)
      PROVE  IInv'
  <2>0. f \in {"enabled", "tcp", "feedback", "anyHost", "hasTarget"}
    BY DEF TypeOK, Settings
  <2>1. TypeOK'
    BY <1>4, <2>0 DEF TypeOK, Settings, ChangeSetting, feedbackVars
  <2>2. CASE f \in {"enabled", "tcp"}
    <3>1. todo' = Reconnect(settings')
      BY <1>4, <2>2 DEF ChangeSetting
    <3>2. ListInv'
      BY <1>4, <3>1, ReconnectIsList DEF ListInv, ChangeSetting
    <3>3. ReceiverInv'
      BY <1>4, <3>1, ReconnectIsList DEF ReceiverInv, TypeOK, ChangeSetting, Allowed
    <3>4. StoreInv'
      <4>1. \A i \in DOMAIN todo' : todo'[i].op # "write"
        BY <3>1, ReconnectIsList
      <4>2. todo = <<>> /\ UNCHANGED <<store, rotation, intended>>
        BY <1>4 DEF Idle, ChangeSetting
      <4> QED BY <4>1, <4>2, NoWritesBegin
    <3> QED BY <1>4, <2>1, <3>2, <3>3, <3>4
            DEF FeedbackCoversWrites, ChangeSetting, feedbackVars
  <2>3. CASE f \notin {"enabled", "tcp"}
    <3>1. todo' = <<>> /\ todo = <<>>
      BY <1>4, <2>3 DEF ChangeSetting, Idle
    <3>2. Wanted(settings') = Wanted(settings)
      BY <1>4, <2>0, <2>3 DEF TypeOK, Settings, ChangeSetting, Wanted
    <3>3. ListInv'
      BY <1>4, <3>1 DEF ListInv, ChangeSetting
    <3>4. ReceiverInv'
      BY <1>4, <3>1, <3>2 DEF ReceiverInv, ChangeSetting, Allowed
    <3>5. StoreInv'
      BY <1>4, <3>1 DEF StoreInv, ChangeSetting, Fulfils, WritesTo, feedbackVars
    <3> QED BY <1>4, <2>1, <3>3, <3>4, <3>5
            DEF FeedbackCoversWrites, ChangeSetting, feedbackVars
  <2> QED BY <2>2, <2>3
<1>5. ASSUME NEW p \in Params, Edit(p)
      PROVE  IInv'
  <2>1. PICK v \in Values : Perform(<<Write(p, v)>>)
    BY <1>5 DEF Edit
  <2>2. /\ <<Write(p, v)>> \in Seq(Writes)
        /\ \A i, j \in DOMAIN <<Write(p, v)>> : i = j
    BY OscAssumption DEF Write, Writes, Values
  <2>3. intended \in [Params -> Values]
    BY DEF ListInv
  <2> HIDE DEF IInv
  <2>4. /\ todo' \in Seq(Ops)
        /\ intended' \in [Params -> Values]
        /\ \A i \in DOMAIN todo' : todo'[i].op = "write" /\ Fulfils(todo'[i], intended')
        /\ \A q \in Params : WritesTo(todo', q) \/ intended'[q] = intended[q]
        /\ Disconnecting(todo') = {}
    BY <2>1, <2>2, <2>3, PerformFacts
  <2>5. TypeOK'
    BY <1>5 DEF IInv, TypeOK, Edit, handler, feedbackVars
  <2> QED BY <1>5, <2>4, <2>5, PerformKeeps DEF Edit
<1>6. CASE OnDatagram
  <2>1. PICK d \in newest \cup ToSet(fifo) :
           /\ TakeOut(d)
           /\ \/ /\ Perform(d.writes)
                 /\ origin' = IF IsTracking(d) THEN "Tracking" ELSE "OSC"
              \/ UNCHANGED <<todo, origin, intended>>
    BY <1>6 DEF OnDatagram
  <2>2. TypeOK'
    <3>1. fifo' \in Seq(Datagrams) /\ newest' \subseteq Datagrams
      <4>1. fifo \in Seq(Datagrams) /\ newest \subseteq Datagrams
        BY DEF TypeOK
      <4>2. fifo # <<>> => Tail(fifo) \in Seq(Datagrams)
        BY <4>1
      <4> QED BY <2>1, <4>1, <4>2 DEF TakeOut
    <3> QED BY <1>6, <2>1, <3>1 DEF TypeOK, OnDatagram, handler, feedbackVars
  <2>3. d \in Datagrams /\ intended \in [Params -> Values]
    BY DEF TypeOK, ListInv, ToSet
  <2>4. CASE Perform(d.writes)
    <3>1. /\ d.writes \in Seq(Writes)
          /\ \A i, j \in DOMAIN d.writes : d.writes[i].param = d.writes[j].param => i = j
      BY <2>3, DatagramIsList
    <3> HIDE DEF IInv
    <3>2. /\ todo' \in Seq(Ops)
          /\ intended' \in [Params -> Values]
          /\ \A i \in DOMAIN todo' : todo'[i].op = "write" /\ Fulfils(todo'[i], intended')
          /\ \A q \in Params : WritesTo(todo', q) \/ intended'[q] = intended[q]
      BY <2>3, <2>4, <3>1, PerformFacts
    <3> QED BY <1>6, <2>2, <3>2, PerformKeeps DEF OnDatagram
  <2>5. CASE UNCHANGED <<todo, origin, intended>>
    <3>1. UNCHANGED <<handler, todo, intended, store, rotation, feedbackVars>>
      BY <1>6, <2>5 DEF OnDatagram
    <3> QED BY <2>2, <3>1, UnchangedKeeps
  <2> QED BY <2>1, <2>4, <2>5
<1>7. CASE FlushOutbound
  <2> USE <1>7 DEF FlushOutbound, handler
  <2>1. TypeOK'
    BY DEF TypeOK, SendToTarget
  <2>2. ListInv'
    BY DEF ListInv
  <2>3. ReceiverInv'
    BY DEF ReceiverInv, Allowed, Disconnecting
  <2>4. StoreInv'
    BY DEF StoreInv, Fulfils, WritesTo
  <2>5. FeedbackCoversWrites'
    BY OscAssumption DEF FeedbackCoversWrites, SendToTarget, TypeOK
  <2> QED BY <2>1, <2>2, <2>3, <2>4, <2>5
<1>8. CASE WriteNext
  <2> DEFINE p == Head(todo).param
             v == Clamp(Head(todo).value)
  <2>1. ~ Idle /\ todo' = Tail(todo) /\ Head(todo).op = "write"
    BY <1>8 DEF WriteNext
  <2> HIDE DEF IInv
  <2>2. RestIsKept
    BY <2>1, RestOfList
  <2> USE DEF IInv
  <2>3. Head(todo) \in Writes
    BY <2>1, <2>2, OpKinds DEF RestIsKept
  <2>4. p \in Params /\ v \in Values
    BY <2>3, OscAssumption DEF Writes, Clamp, Values
  <2>5. v = intended[p]
    BY <2>1, <2>2 DEF StoreInv, Fulfils, RestIsKept
  <2>6. /\ store' = [store EXCEPT ![p] = v]
        /\ OnStoreWrite(p, v)
        /\ IF p \in Axes THEN PublishRotation ELSE rotation' = rotation
        /\ UNCHANGED <<phase, settings, bound, receiver, alive, queue, told, intended>>
    BY <1>8 DEF WriteNext, handler
  <2>7. origin' \in {"UI", origin}
    BY <1>8 DEF WriteNext
  <2> HIDE DEF p, v
  <2>8. TypeOK'
    <3>1. store' \in [Params -> Values]
      BY <2>4, <2>6 DEF TypeOK
    <3>2. rotation' \in [Axes -> Values]
      BY <2>6, <3>1 DEF TypeOK, PublishRotation, Params
    <3>3. pending' \in [Params -> Values \cup {None}] /\ owed' \subseteq Params
      BY <2>4, <2>6 DEF TypeOK, OnStoreWrite, QueueMessage
    <3> QED BY <2>6, <2>7, <3>1, <3>2, <3>3 DEF TypeOK
  <2>9. ListInv'
    BY <2>2, <2>6 DEF ListInv, RestIsKept
  <2>10. ReceiverInv'
    <3>1. \A t : Head(todo) # Disconnect(t)
      BY <2>1 DEF Disconnect
    <3> QED BY <2>2, <2>6, <3>1 DEF ReceiverInv, Allowed, RestIsKept
  <2>11. StoreInv'
    <3>1. \A q \in Params : store'[q] = IF q = p THEN v ELSE store[q]
      BY <2>4, <2>6 DEF TypeOK
    <3>2. \A q \in Params : WritesTo(todo', q) \/ store'[q] = intended'[q]
      BY <2>2, <2>5, <2>6, <3>1 DEF StoreInv, RestIsKept, p
    <3>3. \A q \in Axes : rotation'[q] = store'[q]
      BY <2>6, <3>1 DEF StoreInv, PublishRotation, Params
    <3> QED BY <2>2, <2>6, <3>2, <3>3 DEF StoreInv, RestIsKept
  <2>12. FeedbackCoversWrites'
    <3>1. \A q \in Params : store'[q] = IF q = p THEN v ELSE store[q]
      BY <2>4, <2>6 DEF TypeOK
    <3>2. v # None
      BY <2>4, OscAssumption
    <3>3. CASE settings.feedback /\ origin # "OSC"
      <4>1. pending' = [pending EXCEPT ![p] = v] /\ owed' = owed \cup {p} /\ told' = told
        BY <2>6, <3>3 DEF OnStoreWrite, QueueMessage
      <4> QED BY <2>4, <3>1, <3>2, <4>1 DEF FeedbackCoversWrites, TypeOK
    <3>4. CASE ~ (settings.feedback /\ origin # "OSC")
      <4>1. pending' = pending /\ owed' = owed \ {p} /\ told' = told
        BY <2>6, <3>4 DEF OnStoreWrite
      <4> QED BY <2>4, <3>1, <4>1 DEF FeedbackCoversWrites, TypeOK
    <3> QED BY <3>3, <3>4
  <2> QED BY <2>8, <2>9, <2>10, <2>11, <2>12
<1>9. CASE DisconnectNext
  <2> DEFINE t == Head(todo).transport
  <2>1. /\ ~ Idle /\ todo' = Tail(todo) /\ Head(todo).op = "disconnect"
        /\ receiver[t] = "waiting" /\ bound' = bound \ {t}
        /\ UNCHANGED <<phase, settings, origin, receiver, alive, queue, store, rotation,
                       feedbackVars, intended>>
    BY <1>9 DEF DisconnectNext
  <2>2. RestIsKept
    BY <2>1, RestOfList
  <2>3. \A u : Head(todo) = Disconnect(u) => u = t
    BY DEF Disconnect
  <2>4. TypeOK'
    BY <2>1 DEF TypeOK, feedbackVars
  <2> HIDE DEF t
  <2>5. ListInv'
    BY <2>1, <2>2 DEF ListInv, RestIsKept
  <2>6. ReceiverInv'
    BY <2>1, <2>2, <2>3 DEF ReceiverInv, Allowed, RestIsKept
  <2> QED BY <2>1, <2>2, <2>4, <2>5, <2>6, NoWriteKeeps
<1>10. CASE ConnectNext
  <2> DEFINE t == Head(todo).transport
  <2>1. /\ ~ Idle /\ todo' = Tail(todo) /\ Head(todo).op = "connect"
        /\ bound' \in {bound, bound \cup {t}}
        /\ UNCHANGED <<phase, settings, origin, receiver, alive, queue, store, rotation,
                       feedbackVars, intended>>
    BY <1>10 DEF ConnectNext
  <2>2. RestIsKept
    BY <2>1, RestOfList
  <2>3. Head(todo) \in Connects /\ \A u : Head(todo) # Disconnect(u)
    BY <2>1, <2>2, OpKinds DEF RestIsKept, Disconnect
  <2>4. t \in Transports /\ t \in Allowed
    BY <2>1, <2>2, <2>3 DEF Connects, ReceiverInv, RestIsKept
  <2> HIDE DEF t
  <2>5. TypeOK'
    BY <2>1, <2>4 DEF TypeOK, feedbackVars
  <2>6. ListInv'
    BY <2>1, <2>2 DEF ListInv, RestIsKept
  <2>7. ReceiverInv'
    BY <2>1, <2>2, <2>3, <2>4 DEF ReceiverInv, Allowed, RestIsKept
  <2> QED BY <2>1, <2>2, <2>5, <2>6, <2>7, NoWriteKeeps
<1>11. CASE ResetNext
  <2>1. /\ ~ Idle /\ todo' = Tail(todo) /\ Head(todo).op = "reset"
        /\ alive' = FALSE /\ fifo' = <<>> /\ newest' = {} /\ phase' = "stopped"
        /\ UNCHANGED <<settings, origin, bound, receiver, store, rotation,
                       feedbackVars, intended>>
    BY <1>11 DEF ResetNext
  <2>2. RestIsKept
    BY <2>1, RestOfList
  <2>3. todo' = <<>> /\ phase = "stopping"
    BY <2>1, <2>2 DEF RestIsKept
  <2>4. TypeOK'
    <3>1. fifo' \in Seq(Datagrams)
      BY <2>1
    <3> QED BY <2>1, <3>1 DEF TypeOK, feedbackVars
  <2>5. ListInv'
    BY <2>1, <2>2, <2>3 DEF ListInv, RestIsKept
  <2>6. ReceiverInv'
    <3>1. Disconnecting(todo) = {}
      BY <2>1, <2>2, <2>3 DEF RestIsKept, Disconnecting, Disconnect
    <3>2. bound = {}
      BY <2>3, <3>1 DEF ReceiverInv, Allowed
    <3> QED BY <2>1, <2>3, <3>2 DEF ReceiverInv
  <2> QED BY <2>1, <2>2, <2>4, <2>5, <2>6, NoWriteKeeps
<1>12. CASE UNCHANGED vars
  <2>1. TypeOK'
    BY <1>12 DEF vars, TypeOK
  <2>2. UNCHANGED <<handler, todo, intended, store, rotation, feedbackVars>>
    BY <1>12 DEF vars, handler, feedbackVars
  <2> QED BY <2>1, <2>2, UnchangedKeeps
<1> QED BY <1>1, <1>2, <1>3, <1>4, <1>5, <1>6, <1>7, <1>8, <1>9, <1>10, <1>11, <1>12
        DEF Next, Terminated

-----------------------------------------------------------------------------
(* The theorems. *)

\* The invariant of the message thread's lists, the receivers, the queue and the limiter.
THEOREM Invariant == Spec => []IInv
BY InitIInv, NextIInv, PTL DEF Spec

\* The callback of a receiver never pushes into a queue that stop() has reset.
THEOREM QueueOutlivesPushes == Spec => []NoPushIntoDeadQueue
<1>1. IInv => NoPushIntoDeadQueue
  <2> SUFFICES ASSUME IInv, NEW t \in Transports, receiver[t] = "pushing"
               PROVE  alive
    BY DEF NoPushIntoDeadQueue
  <2>1. t \in bound
    BY DEF IInv, ReceiverInv
  <2>2. phase \notin {"idle", "stopped"}
    BY <2>1 DEF IInv, ListInv, ReceiverInv, Allowed, Disconnecting, Disconnect
  <2> QED BY <2>2 DEF IInv, TypeOK, ReceiverInv
<1> QED BY <1>1, Invariant, PTL

\* Between handlers only the receivers that the settings ask for are connected.
THEOREM SocketsFollowSettings == Spec => []NoSocketWhileOff
<1>1. IInv => NoSocketWhileOff
  BY DEF IInv, ReceiverInv, NoSocketWhileOff, Idle, Allowed, Disconnecting
<1> QED BY <1>1, Invariant, PTL

\* What was reported last is what the target was or will be told.
THEOREM FeedbackCovers == Spec => []FeedbackCoversWrites
<1>1. IInv => FeedbackCoversWrites
  BY DEF IInv
<1> QED BY <1>1, Invariant, PTL

\* A handler leaves parameters and rotation as its datagram asked.
THEOREM PosesArriveWhole == Spec => []PoseArrivesWhole
<1>1. IInv => PoseArrivesWhole
  <2> SUFFICES ASSUME IInv, Idle
               PROVE  store = intended /\ rotation = [p \in Axes |-> intended[p]]
    BY DEF PoseArrivesWhole
  <2>1. \A p \in Params : store[p] = intended[p]
    BY DEF IInv, StoreInv, Idle, WritesTo
  <2>2. store = intended
    BY <2>1 DEF IInv, TypeOK, ListInv
  <2> QED BY <2>2 DEF IInv, StoreInv, TypeOK
<1> QED BY <1>1, Invariant, PTL
=============================================================================
