----------------------------- MODULE ApiSessions -----------------------------
(***************************************************************************)
(* The WebSocket sessions of the API.  A session sends a snapshot of the   *)
(* store, device by device, and then listens on the EventBus, which awaits *)
(* all its parser listeners before it takes the next message: the store    *)
(* and every open session, whose client may be slow or gone.               *)
(***************************************************************************)
EXTENDS Naturals, Sequences

CONSTANTS
  Devices,     \* as get_statuses lists them: a sequence
  Sessions,
  Room,        \* frames a connection takes before send_json waits for the client
  MaxUpdates   \* bound: messages of the handlers

Device == {Devices[i] : i \in DOMAIN Devices}

SessionsAssumption ==
  /\ Room \in Nat \ {0} /\ MaxUpdates \in Nat
  /\ Devices \in Seq(Device) /\ "store" \notin Sessions

VARIABLES
  bus,        \* the queue of the EventBus
  current,    \* the message its listeners work on, or none
  busy,       \* the listeners that have not returned from it
  store,      \* the StateStore: which message each device's state is from
  produced,   \* messages the handlers have put on the bus
  ws,         \* each session's place in _handle_websocket
  todo,       \* devices its snapshot is still to send
  held,       \* the state it has read from the store and not sent yet
  out,        \* frames its client has not read
  seen,       \* the client: the latest message shown of each device
  missed      \* history: devices updated after their snapshot, before the subscription

busVars == <<bus, current, busy, store>>
sessionVars == <<ws, todo, held, out>>
clientVars == <<seen, missed>>
vars == <<busVars, produced, sessionVars, clientVars>>

Update == [device : Device, seq : 1..MaxUpdates]

None == [device |-> "none", seq |-> 0]

\* send_json returns: the client reads fast enough.
CanSend(s) == Len(out[s]) < Room

\* What s has still to read from the store.
Unread(s) ==
  {todo[s][i] : i \in {j \in DOMAIN todo[s] : j > 1 \/ ws[s] = "status"}}

-----------------------------------------------------------------------------
(* EventBus and StateStore._on_parser_message.                             *)

Put ==
  /\ produced < MaxUpdates /\ produced' = produced + 1
  /\ \E d \in Device : bus' = Append(bus, [device |-> d, seq |-> produced'])
  /\ UNCHANGED <<current, busy, store, sessionVars, clientVars>>

\* Mutant: a session listens before it has sent its snapshot.
ListensFromTheStart(s) == ws[s] \in {"status", "state", "open"}

\* on_parser_message of s is in parser_listeners.
Listens(s) == ws[s] = "open"

\* gather starts the listeners of the moment.
Dispatch ==
  /\ current = None /\ bus # <<>>
  /\ bus' = Tail(bus) /\ current' = Head(bus)
  /\ busy' = {"store"} \cup {s \in Sessions : Listens(s)}
  /\ UNCHANGED <<store, produced, sessionVars, clientVars>>

\* The store's listener was the first to be added and is the first to run.
Store ==
  /\ "store" \in busy /\ busy' = busy \ {"store"}
  /\ store' = [store EXCEPT ![current.device] = current.seq]
  /\ missed' = [s \in Sessions |->
       IF s \notin busy /\ ws[s] # "none" /\ current.device \notin Unread(s)
       THEN missed[s] \cup {current.device}
       ELSE missed[s] \ {current.device}]
  /\ UNCHANGED <<bus, current, produced, sessionVars, seen>>

TaskDone ==
  /\ current # None /\ busy = {}
  /\ current' = None
  /\ UNCHANGED <<bus, busy, store, produced, sessionVars, clientVars>>

-----------------------------------------------------------------------------
(* _handle_websocket.                                                      *)

Open(s) ==
  /\ ws[s] = "none" /\ ws' = [ws EXCEPT ![s] = "status"]
  /\ todo' = [todo EXCEPT ![s] = Devices]
  /\ UNCHANGED <<busVars, produced, held, out, clientVars>>

\* The state is read before the status is sent.
SendStatus(s) ==
  /\ ws[s] = "status" /\ todo[s] # <<>> /\ CanSend(s)
  /\ held' = [held EXCEPT ![s] = store[Head(todo[s])]]
  /\ out' = [out EXCEPT ![s] = Append(@, [device |-> Head(todo[s]), seq |-> 0])]
  /\ ws' = [ws EXCEPT ![s] = "state"]
  /\ UNCHANGED <<busVars, produced, todo, clientVars>>

\* A device without a state has none to send.
SendState(s) ==
  /\ ws[s] = "state" /\ CanSend(s)
  /\ out' = IF held[s] = 0 THEN out
            ELSE [out EXCEPT ![s] = Append(@, [device |-> Head(todo[s]), seq |-> held[s]])]
  /\ ws' = [ws EXCEPT ![s] = "status"]
  /\ todo' = [todo EXCEPT ![s] = Tail(@)]
  /\ UNCHANGED <<busVars, produced, held, clientVars>>

Subscribe(s) ==
  /\ ws[s] = "status" /\ todo[s] = <<>> /\ CanSend(s)
  /\ ws' = [ws EXCEPT ![s] = "open"]
  /\ UNCHANGED <<busVars, produced, todo, held, out, clientVars>>

\* Mutant: a listener does not wait for a slow client.
SentOrDropped(s) ==
  \/ ws[s] = "closed" /\ UNCHANGED out
  \/ Listens(s) /\ out' = IF CanSend(s) THEN [out EXCEPT ![s] = Append(@, current)] ELSE out

\* Mutant: a listener that waits is not woken by the end of its connection.
SentForSure(s) == Listens(s) /\ CanSend(s) /\ out' = [out EXCEPT ![s] = Append(@, current)]

\* on_parser_message: ws is closed, or send_json returns or raises ConnectionError.
Sent(s) ==
  \/ ws[s] = "closed" /\ UNCHANGED out
  \/ Listens(s) /\ CanSend(s) /\ out' = [out EXCEPT ![s] = Append(@, current)]

Deliver(s) ==
  /\ s \in busy /\ "store" \notin busy
  /\ Sent(s)
  /\ busy' = busy \ {s}
  /\ UNCHANGED <<bus, current, store, produced, ws, todo, held, clientVars>>

\* The connection ends: what waits in send_json raises, and finally removes the listener.
Close(s) ==
  /\ ws[s] \in {"status", "state", "open"}
  /\ ws' = [ws EXCEPT ![s] = "closed"]
  /\ todo' = [todo EXCEPT ![s] = <<>>] /\ held' = [held EXCEPT ![s] = 0]
  /\ out' = [out EXCEPT ![s] = <<>>]
  /\ UNCHANGED <<busVars, produced, clientVars>>

ClientReads(s) ==
  /\ out[s] # <<>> /\ out' = [out EXCEPT ![s] = Tail(@)]
  /\ LET frame == Head(out[s])
     IN  seen' = IF frame.seq = 0 THEN seen ELSE [seen EXCEPT ![s][frame.device] = frame.seq]
  /\ UNCHANGED <<busVars, produced, ws, todo, held, missed>>

-----------------------------------------------------------------------------

Init ==
  /\ bus = <<>> /\ current = None /\ busy = {}
  /\ store = [d \in Device |-> 0] /\ produced = 0
  /\ ws = [s \in Sessions |-> "none"] /\ todo = [s \in Sessions |-> <<>>]
  /\ held = [s \in Sessions |-> 0] /\ out = [s \in Sessions |-> <<>>]
  /\ seen = [s \in Sessions |-> [d \in Device |-> 0]] /\ missed = [s \in Sessions |-> {}]

Bus == Dispatch \/ Store \/ TaskDone

Session(s) == SendStatus(s) \/ SendState(s) \/ Subscribe(s) \/ Deliver(s)

Next ==
  \/ Put \/ Bus
  \/ \E s \in Sessions : Open(s) \/ Session(s) \/ Close(s) \/ ClientReads(s)

Spec == Init /\ [][Next]_vars

-----------------------------------------------------------------------------

\* A client that has read everything shows the state of the store, but for a
\* device updated while the session was between its snapshot of that device and
\* its subscription, and not since: only there is an update lost, and no longer
\* than to the next one of the device.
ShowsTheStore ==
  \A s \in Sessions :
    Listens(s) /\ out[s] = <<>> /\ busy = {} =>
      \A d \in Device : seen[s][d] = store[d] \/ d \in missed[s]

\* What a client shows of a device never goes back to an earlier state,
\* although snapshot and updates take different ways.
NeverBack == [][\A s \in Sessions, d \in Device : seen[s][d] <= seen'[s][d]]_vars

\* Every message reaches the store, and with it the handlers' commands their
\* turn, however slow the clients are and whenever they go, if they read at all.
BusGoesOn == \A n \in 1..MaxUpdates : produced >= n ~> \E d \in Device : store[d] >= n
=============================================================================
