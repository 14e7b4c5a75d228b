----------------------------- MODULE OscControl -----------------------------
(***************************************************************************)
(* Remote control over OSC (OSCManager).  The receiver threads of UDP and  *)
(* TCP push datagrams into a queue that keeps those of some addresses in   *)
(* order and of others only the newest; the message thread drains it,      *)
(* filters by host, and writes the store under the origin of the write.    *)
(* An observer of the store hands every write that is not a peer's own to  *)
(* a rate limiter, which sends the newest value of each parameter to one   *)
(* target at 50 Hz.  A change of the transport settings reconnects both    *)
(* receivers, stop() takes receivers and queue down.                       *)
(*                                                                         *)
(* A datagram is the writes it asks for.  Values are numbers, those above  *)
(* MaxValue are out of the parameter's range.  The queue, the receivers    *)
(* and the limiter belong to the shared library and are modelled by what   *)
(* this code relies on: disconnect() joins the receiver's thread, the      *)
(* queue's two parts are drained in any interleaving, a flush sends all    *)
(* there is.                                                               *)
(***************************************************************************)
EXTENDS Integers, SequencesExt

CONSTANTS
    AxisOrder,        \* the rotation's parameters, in the order of the writes
    PositionOrder,    \* the parameters of a tracked position, likewise
    MaxValue,         \* parameters range over 0..MaxValue
    Hosts,            \* who sends datagrams
    Target,           \* the host feedback goes to
    None,
    MaxOperations     \* bound: datagrams received, edits of parameters and of settings

Axes == ToSet(AxisOrder)
Params == Axes \cup ToSet(PositionOrder)
Values == 0..MaxValue
Transports == {"udp", "tcp"}

(* hasTarget: the send address is set (the port is never below 1).         *)
Settings == [enabled : BOOLEAN, tcp : BOOLEAN, feedback : BOOLEAN, anyHost : BOOLEAN,
             hasTarget : BOOLEAN]

ASSUME OscAssumption ==
    /\ MaxValue \in Nat /\ MaxOperations \in Nat
    /\ None \notin Values
    /\ Target \in Hosts
    /\ AxisOrder \in Seq(Axes) /\ IsInjective(AxisOrder)
    /\ PositionOrder \in Seq(ToSet(PositionOrder)) /\ IsInjective(PositionOrder)

VARIABLES
    phase,        \* "idle", then "running" from start() to stop(), "stopping", "stopped"
    settings,     \* what the store says of the transport
    todo,         \* what the message thread's handler has still to do
    origin,       \* the current OriginTag: that of the writes in todo, "UI" between handlers
    bound,        \* the transports whose receiver is connected
    receiver,     \* where each receiver thread is; what it holds is drawn when it pushes
    alive,        \* the ingest queue exists
    fifo,         \* what is in it: the datagrams kept in order
    newest,       \* ... and those replaced by a newer one of their address
    store,        \* the parameters
    rotation,     \* the rotation the audio thread acquires
    pending,      \* the rate limiter: newest unsent value per parameter
    told,         \* the value last sent to the target
    owed,         \* (history) parameters whose last write was reported, and not dropped
    intended,     \* (history) what the parameters are to be after the current handler
    operations

queue == <<fifo, newest>>

vars == <<phase, settings, todo, origin, bound, receiver, alive, queue, store,
          rotation, pending, told, owed, intended, operations>>

handler == <<phase, settings, bound, receiver, alive>>
feedbackVars == <<pending, told, owed>>

-----------------------------------------------------------------------------
(* What the message thread can have to do. *)

Write(p, v) == [op |-> "write", param |-> p, value |-> v]
WriteAll(order, values) == [i \in 1..Len(order) |-> Write(order[i], values[i])]
Disconnect(t) == [op |-> "disconnect", transport |-> t]
Connect(t) == [op |-> "connect", transport |-> t]
ResetQueue == [op |-> "reset"]

(* A wire value may lie beyond the range, an angle decomposed from a       *)
(* quaternion cannot.                                                      *)
Wire == 0..(MaxValue + 1)
Datagrams ==
    {[from |-> h, address |-> p, writes |-> <<Write(p, v)>>] :
        h \in Hosts, p \in Params, v \in Wire}
    \cup {[from |-> h, address |-> "quaternion", writes |-> WriteAll(AxisOrder, angles)] :
        h \in Hosts, angles \in [1..Len(AxisOrder) -> Values]}
    \cup {[from |-> h, address |-> "position", writes |-> WriteAll(PositionOrder, place)] :
        h \in Hosts, place \in [1..Len(PositionOrder) -> Values]}

IsTracking(d) == d.address \in {"quaternion", "position"}

-----------------------------------------------------------------------------
Init ==
    /\ phase = "idle"
    /\ settings \in Settings
    /\ todo = <<>>
    /\ origin = "UI"
    /\ bound = {}
    /\ receiver = [t \in Transports |-> "waiting"]
    /\ alive = FALSE
    /\ fifo = <<>>
    /\ newest = {}
    /\ store = [p \in Params |-> 0]
    /\ rotation = [p \in Axes |-> 0]
    /\ pending = [p \in Params |-> None]
    /\ told = [p \in Params |-> None]
    /\ owed = {}
    /\ intended = store
    /\ operations = 0

-----------------------------------------------------------------------------
(* The receiver threads.                                                   *)

Receive(t) ==
    /\ t \in bound
    /\ receiver[t] = "waiting"
    /\ operations < MaxOperations
    /\ operations' = operations + 1
    /\ receiver' = [receiver EXCEPT ![t] = "received"]
    /\ UNCHANGED <<phase, settings, todo, origin, bound, alive, queue, store, rotation,
                   feedbackVars, intended>>

CheckQueue(t) ==
    /\ receiver[t] = "received"
    /\ receiver' = [receiver EXCEPT ![t] = IF alive THEN "pushing" ELSE "waiting"]
    /\ UNCHANGED <<phase, settings, todo, origin, bound, alive, queue, store, rotation,
                   feedbackVars, intended, operations>>

(* The classifier's rules: of the parameters only those of a channel, and  *)
(* these only when the channel is not part of the address.                 *)
MayCoalesce(d) == d.address = "position" \/ d.address \in ToSet(PositionOrder)
MayBypass(d) == d.address # "position"

Push(t) ==
    /\ receiver[t] = "pushing"
    /\ receiver' = [receiver EXCEPT ![t] = "waiting"]
    /\ \E d \in Datagrams :
          \/ /\ MayCoalesce(d)
             /\ newest' = {q \in newest : q.address # d.address} \cup {d}
             /\ UNCHANGED fifo
          \/ /\ MayBypass(d)
             /\ fifo' = Append(fifo, d)
             /\ UNCHANGED newest
    /\ UNCHANGED <<phase, settings, todo, origin, bound, alive, store, rotation,
                   feedbackVars, intended, operations>>

-----------------------------------------------------------------------------
(* The message thread: handlers begin when it is idle.                     *)

Idle == todo = <<>>

Wanted(s) == IF s.enabled THEN {"udp"} \cup (IF s.tcp THEN {"tcp"} ELSE {}) ELSE {}

ReconnectOnlyWanted(s) ==
    (IF s.enabled THEN <<Disconnect("udp"), Disconnect("tcp"), Connect("udp")>> ELSE <<>>)
    \o (IF "tcp" \in Wanted(s) THEN <<Connect("tcp")>> ELSE <<>>)
Reconnect(s) ==
    <<Disconnect("udp"), Disconnect("tcp")>>
    \o (IF "udp" \in Wanted(s) THEN <<Connect("udp")>> ELSE <<>>)
    \o (IF "tcp" \in Wanted(s) THEN <<Connect("tcp")>> ELSE <<>>)

Start ==
    /\ phase = "idle" /\ Idle
    /\ phase' = "running"
    /\ alive' = TRUE
    /\ todo' = Reconnect(settings)
    /\ UNCHANGED <<settings, origin, bound, receiver, queue, store, rotation,
                   feedbackVars, intended, operations>>

TakeDownQueueFirst == <<ResetQueue, Disconnect("udp"), Disconnect("tcp")>>
TakeDown == <<Disconnect("udp"), Disconnect("tcp"), ResetQueue>>

Stop ==
    /\ phase = "running" /\ Idle
    /\ phase' = "stopping"
    /\ todo' = TakeDown
    /\ UNCHANGED <<settings, origin, bound, receiver, alive, queue, store, rotation,
                   feedbackVars, intended, operations>>

(* A change of one setting; those of the receivers reconnect them.         *)
ChangeSetting(field) ==
    /\ phase = "running" /\ Idle
    /\ operations < MaxOperations
    /\ operations' = operations + 1
    /\ settings' = [settings EXCEPT ![field] = ~ @]
    /\ todo' = IF field \in {"enabled", "tcp"} THEN Reconnect(settings') ELSE <<>>
    /\ UNCHANGED <<phase, origin, bound, receiver, alive, queue, store, rotation,
                   feedbackVars, intended>>

Clamp(v) == IF v > MaxValue THEN MaxValue ELSE v

(* The handler will make these writes, one after the other.                *)
Perform(writes) ==
    /\ todo' = writes
    /\ intended' = [p \in Params |->
          IF \E i \in DOMAIN writes : writes[i].param = p
          THEN Clamp(writes[CHOOSE i \in DOMAIN writes : writes[i].param = p].value)
          ELSE intended[p]]

(* A write by the user, before start() and after stop() too.               *)
Edit(p) ==
    /\ Idle
    /\ operations < MaxOperations
    /\ operations' = operations + 1
    /\ \E v \in Values : Perform(<<Write(p, v)>>)
    /\ UNCHANGED <<handler, origin, queue, store, rotation, feedbackVars>>

IsAllowedHost(h) == settings.anyHost \/ (settings.hasTarget /\ h = Target)

TakeOut(d) ==
    \/ /\ d \in newest
       /\ newest' = newest \ {d}
       /\ UNCHANGED fifo
    \/ /\ fifo # <<>> /\ d = Head(fifo)
       /\ fifo' = Tail(fifo)
       /\ UNCHANGED newest

(* One datagram of the drain.  The position filter may hold a jump back.   *)
OnDatagram ==
    /\ phase = "running" /\ Idle
    /\ \E d \in newest \cup ToSet(fifo) :
          /\ TakeOut(d)
          /\ \/ /\ IsAllowedHost(d.from)
                /\ Perform(d.writes)
                /\ origin' = IF IsTracking(d) THEN "Tracking" ELSE "OSC"
             \/ /\ ~ IsAllowedHost(d.from) \/ d.address = "position"
                /\ UNCHANGED <<todo, origin, intended>>
    /\ UNCHANGED <<handler, store, rotation, feedbackVars, operations>>

(* start() sets the function that sends, stop() closes its socket; without *)
(* either, or without an address, the message is dropped.                  *)
SendToTarget ==
    IF phase = "running" /\ settings.hasTarget
    THEN /\ told' = [p \in Params |-> IF pending[p] = None THEN told[p] ELSE pending[p]]
         /\ owed' = owed
    ELSE /\ told' = told
         /\ owed' = {p \in owed : pending[p] = None}

(* The rate limiter's timer, from construction to destruction.             *)
FlushOutbound ==
    /\ Idle
    /\ \E p \in Params : pending[p] # None
    /\ pending' = [p \in Params |-> None]
    /\ SendToTarget
    /\ UNCHANGED <<handler, todo, origin, queue, store, rotation, intended, operations>>

-----------------------------------------------------------------------------
(* ... and go on with what they have to do.                                *)

QueueMessageOnce(p, v) ==
    pending' = IF pending[p] = None THEN [pending EXCEPT ![p] = v] ELSE pending
QueueMessage(p, v) == pending' = [pending EXCEPT ![p] = v]

OnStoreWrite(p, v) ==
    IF settings.feedback /\ origin # "OSC"
    THEN QueueMessage(p, v) /\ owed' = owed \cup {p}
    ELSE pending' = pending /\ owed' = owed \ {p}

PublishRotationEarly == rotation' = [p \in Axes |-> store[p]]
PublishRotation == rotation' = [p \in Axes |-> store'[p]]

WriteNext ==
    /\ ~ Idle /\ Head(todo).op = "write"
    /\ todo' = Tail(todo)
    /\ origin' = IF Len(todo) = 1 THEN "UI" ELSE origin
    /\ LET p == Head(todo).param
           v == Clamp(Head(todo).value)
       IN  /\ store' = [store EXCEPT ![p] = v]
           /\ OnStoreWrite(p, v)
           /\ IF p \in Axes THEN PublishRotation ELSE rotation' = rotation
    /\ UNCHANGED <<handler, queue, told, intended, operations>>

(* disconnect() waits for the callback its thread is in.                   *)
DisconnectNext ==
    /\ ~ Idle /\ Head(todo).op = "disconnect"
    /\ receiver[Head(todo).transport] = "waiting"
    /\ todo' = Tail(todo)
    /\ bound' = bound \ {Head(todo).transport}
    /\ UNCHANGED <<phase, settings, origin, receiver, alive, queue, store, rotation,
                   feedbackVars, intended, operations>>

(* The port may be taken; nobody looks at the result.                      *)
ConnectNext ==
    /\ ~ Idle /\ Head(todo).op = "connect"
    /\ todo' = Tail(todo)
    /\ bound' \in {bound, bound \cup {Head(todo).transport}}
    /\ UNCHANGED <<phase, settings, origin, receiver, alive, queue, store, rotation,
                   feedbackVars, intended, operations>>

ResetNext ==
    /\ ~ Idle /\ Head(todo).op = "reset"
    /\ todo' = Tail(todo)
    /\ alive' = FALSE
    /\ fifo' = <<>> /\ newest' = {}
    /\ phase' = "stopped"
    /\ UNCHANGED <<settings, origin, bound, receiver, store, rotation, feedbackVars,
                   intended, operations>>

Terminated ==
    /\ phase = "stopped"
    /\ UNCHANGED vars

-----------------------------------------------------------------------------
Next ==
    \/ Start \/ Stop \/ OnDatagram \/ FlushOutbound
    \/ WriteNext \/ DisconnectNext \/ ConnectNext \/ ResetNext \/ Terminated
    \/ \E f \in DOMAIN settings : ChangeSetting(f)
    \/ \E p \in Params : Edit(p)
    \/ \E t \in Transports : Receive(t) \/ CheckQueue(t) \/ Push(t)

Spec == Init /\ [][Next]_vars

-----------------------------------------------------------------------------
(* Type correctness. *)
TypeOK ==
    /\ phase \in {"idle", "running", "stopping", "stopped"}
    /\ settings \in Settings
    /\ origin \in {"UI", "OSC", "Tracking"}
    /\ bound \subseteq Transports
    /\ receiver \in [Transports -> {"waiting", "received", "pushing"}]
    /\ alive \in BOOLEAN
    /\ fifo \in Seq(Datagrams) /\ newest \subseteq Datagrams
    /\ store \in [Params -> Values]
    /\ rotation \in [Axes -> Values]
    /\ pending \in [Params -> Values \cup {None}]
    /\ told \in [Params -> Values \cup {None}]
    /\ owed \subseteq Params

(* No receiver thread is inside the queue when the queue is gone: its      *)
(* callback tests the pointer and then uses it, and only the order of      *)
(* stop(), receivers before queue, keeps the reset out of between.         *)
NoPushIntoDeadQueue ==
    \A t \in Transports : receiver[t] = "pushing" => alive

(* Between handlers no receiver is connected that the settings do not ask  *)
(* for: neither an early return of reconnect() nor stop() leaves one open. *)
NoSocketWhileOff ==
    Idle => bound \subseteq (IF phase = "running" THEN Wanted(settings) ELSE {})

(* A write that was reported stays reported: as long as nothing else was   *)
(* written to the parameter, the limiter holds the store's value for it,   *)
(* or the target was told that value.  What the target was told can be     *)
(* wrong only where a peer's own write, or one with feedback switched off, *)
(* came last, or where the flush found nowhere to send the report.         *)
FeedbackCoversWrites ==
    \A p \in owed : (IF pending[p] = None THEN told[p] ELSE pending[p]) = store[p]

(* Between handlers the parameters are what the last handler was asked to  *)
(* make them, and the audio thread's rotation with them: the mixtures of   *)
(* two orientations that the writes of a quaternion publish one by one     *)
(* never stay, whatever other axis was written before.                     *)
PoseArrivesWhole ==
    Idle => store = intended /\ rotation = [p \in Axes |-> intended[p]]
=============================================================================
