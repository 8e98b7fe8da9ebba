----------------------------- MODULE MqttBridge -----------------------------
(***************************************************************************)
(* MQTTClient: what the bus hands over is published, in order, by the      *)
(* message half of the current connection, commands come in by the command *)
(* half.  gather does not cancel the half that is left when the other one  *)
(* raises, so the message halves of connections that have ended may still  *)
(* wait on the queue, each with its dead client.                           *)
(***************************************************************************)
EXTENDS Naturals, FiniteSets, SequencesExt

CONSTANTS
  Devices,
  Discovery,      \* home_assistant_mode is not "none"
  MaxMessages,    \* bound: parser messages
  MaxConnections  \* bound: connections to the broker

BridgeAssumption ==
  Discovery \in BOOLEAN /\ MaxMessages \in Nat /\ MaxConnections \in Nat \ {0}

VARIABLES
  run,        \* connecting, connected, sleeping, or ended by an exception
  alive,      \* the connection works
  conn,       \* how many connections there were: the number of the latest
  half,       \* the message half of each: its state and its message
  queue,      \* message_queue
  known,      \* self.devices
  announced,  \* history: devices whose discovery was published to the end
  put,        \* history: messages the bus has handed over
  published,  \* history: those published, in that order
  lost,       \* history: those taken and not published
  commands    \* history: commands put on the bus

connectionVars == <<run, alive, conn>>
messageVars == <<half, queue, known, announced, published, lost>>
vars == <<connectionVars, messageVars, put, commands>>

Message == [seq : 1..MaxMessages, device : Devices]

NoMessage == [seq |-> 0, device |-> "none"]

Half == [st : {"none", "waiting", "gone"}, msg : {NoMessage}]
          \cup [st : {"announcing", "publishing"}, msg : Message]

Waiting == [st |-> "waiting", msg |-> NoMessage]
Gone == [st |-> "gone", msg |-> NoMessage]

\* The client of connection k can publish.
Usable(k) == k = conn /\ run = "connected" /\ alive

-----------------------------------------------------------------------------
(* run: the connection, and its end.                                       *)

\* Mutant: the message half is started once, with the first connection.
StartedOnce(k) == IF k = 1 THEN Waiting ELSE Gone

Started(k) == Waiting

Connect ==
  /\ run = "connecting"
  /\ \/ /\ conn < MaxConnections /\ conn' = conn + 1
        /\ run' = "connected" /\ alive' = TRUE
        /\ half' = [half EXCEPT ![conn'] = Started(conn')]
     \/ run' = "sleeping" /\ UNCHANGED <<alive, conn, half>>
  /\ UNCHANGED <<queue, known, announced, published, lost, put, commands>>

Wake ==
  /\ run = "sleeping" /\ run' = "connecting"
  /\ UNCHANGED <<alive, conn, messageVars, put, commands>>

\* The last connection of the bound stays.
BrokerGone ==
  /\ run = "connected" /\ alive /\ conn < MaxConnections
  /\ alive' = FALSE
  /\ UNCHANGED <<run, conn, messageVars, put, commands>>

\* client.messages raises MqttError, and run leaves the message half behind.
CommandHalfEnds ==
  /\ run = "connected" /\ ~alive
  /\ run' = "sleeping"
  /\ UNCHANGED <<alive, conn, messageVars, put, commands>>

\* _handle_command: a device not announced yet is unknown, and a payload that
\* cannot be converted raises through gather and run.
Command ==
  /\ run = "connected" /\ alive
  /\ \E d \in known :
       \/ commands < MaxMessages /\ commands' = commands + 1 /\ UNCHANGED run
       \/ conn < MaxConnections /\ run' = "ended" /\ UNCHANGED commands
  /\ UNCHANGED <<alive, conn, messageVars, put>>

-----------------------------------------------------------------------------
(* handle_message and _handle_messages.                                    *)

HandleMessage ==
  /\ put < MaxMessages /\ put' = put + 1
  /\ \E d \in Devices : queue' = Append(queue, [seq |-> put', device |-> d])
  /\ UNCHANGED <<connectionVars, half, known, announced, published, lost, commands>>

\* Mutant: the device is announced and not remembered.
Unremembered(device) == known

\* _init_device counts the device as known before it publishes anything.
Remembered(device) == known \cup {device}

\* Whichever half waits may be the one that wakes.
Take(k) ==
  /\ half[k].st = "waiting" /\ queue # <<>>
  /\ queue' = Tail(queue)
  /\ LET device == Head(queue).device
         st == IF Discovery /\ device \notin known THEN "announcing" ELSE "publishing"
     IN  /\ half' = [half EXCEPT ![k] = [st |-> st, msg |-> Head(queue)]]
         /\ known' = Remembered(device)
  /\ UNCHANGED <<connectionVars, announced, published, lost, put, commands>>

Announce(k) ==
  /\ half[k].st = "announcing" /\ Usable(k)
  /\ half' = [half EXCEPT ![k].st = "publishing"]
  /\ announced' = announced \cup {half[k].msg.device}
  /\ UNCHANGED <<connectionVars, queue, known, published, lost, put, commands>>

Publish(k) ==
  /\ half[k].st = "publishing" /\ Usable(k)
  /\ published' = Append(published, half[k].msg.seq)
  /\ half' = [half EXCEPT ![k] = Waiting]
  /\ UNCHANGED <<connectionVars, queue, known, announced, lost, put, commands>>

\* What a publish that raises does to its half and its message.
Raise(k, next, q) ==
  /\ half[k].st \in {"announcing", "publishing"} /\ (Usable(k) => conn < MaxConnections)
  /\ half' = [half EXCEPT ![k] = next]
  /\ queue' = q
  /\ lost' = IF q = queue THEN lost \cup {half[k].msg.seq} ELSE lost
  /\ run' = IF k = conn /\ run = "connected" /\ next = Gone THEN "sleeping" ELSE run
  /\ alive' = (alive /\ run' = run)
  /\ UNCHANGED <<conn, known, announced, published, put, commands>>

\* Mutant: the message goes back to the end of the queue.
PutBack(k) == Raise(k, Gone, Append(queue, half[k].msg))

\* Mutant: the loop catches the error and goes on.
GoOn(k) == Raise(k, Waiting, queue)

Fail(k) == Raise(k, Gone, queue)

-----------------------------------------------------------------------------

Connections == 1..MaxConnections

Init ==
  /\ run = "connecting" /\ alive = FALSE /\ conn = 0
  /\ half = [k \in Connections |-> [st |-> "none", msg |-> NoMessage]]
  /\ queue = <<>> /\ known = {} /\ announced = {}
  /\ put = 0 /\ published = <<>> /\ lost = {} /\ commands = 0

Step(k) == Take(k) \/ Announce(k) \/ Publish(k) \/ Fail(k)

Next ==
  \/ Connect \/ Wake \/ BrokerGone \/ CommandHalfEnds \/ Command
  \/ HandleMessage
  \/ \E k \in Connections : Step(k)

Spec == Init /\ [][Next]_vars

-----------------------------------------------------------------------------

TypeOK ==
  /\ run \in {"connecting", "connected", "sleeping", "ended"} /\ alive \in BOOLEAN
  /\ conn \in 0..MaxConnections
  /\ \A k \in Connections : half[k] \in Half /\ (half[k].st = "none" <=> k > conn)
  /\ queue \in Seq(Message) /\ announced \subseteq known /\ known \subseteq Devices
  /\ put \in 0..MaxMessages /\ commands \in 0..MaxMessages
  /\ published \in Seq(1..put) /\ lost \subseteq 1..put

\* States are published in the order the bus handed them over, none twice,
\* through every reconnection: a subscriber never sees an old value last.
PublishedInOrder == \A i, j \in DOMAIN published : i < j => published[i] < published[j]

\* A connection that ended costs one message at most, that of its message half,
\* whether the half was publishing or is still waiting.
LossBounded ==
  LET ended == {k \in 1..conn : k < conn \/ run # "connected"}
      waiting == {k \in ended : half[k].st # "gone"}
  IN  Cardinality(lost) + Cardinality(waiting) <= Cardinality(ended)

\* Unless the bridge ended, every message is published or lost in the end: no
\* half of an old connection keeps one, and the queue does not stand still.
EachHandled ==
  \A i \in 1..MaxMessages :
    put >= i ~> run = "ended" \/ i \in lost \cup Range(published)
=============================================================================
