------------------------------- MODULE MCDaemon -------------------------------
(***************************************************************************)
(* Instances of the programs that run for ever: the device manager of the  *)
(* daemon, its MQTT bridge, and the shutdown watchdog that listens to what *)
(* the bridge publishes.  As they are modelled they share nothing; a       *)
(* behaviour is one of one part, while the others stand still.             *)
(***************************************************************************)
EXTENDS Integers, Sequences, FiniteSets

CONSTANTS Addresses, MaxReloads, MaxRequests
CONSTANTS Devices, Discovery, MaxMessages, MaxConnections
CONSTANTS Threshold, Grace, Readings, Retry, MaxRestarts

VARIABLES part,
  phase, config, reloads, loop, scans, statuses, devices, tasks, handlers, awaited, api, requests,
  reloaded, accepted, dropped,
  run, alive, conn, half, queue, known, announced, put, published, lost, commands,
  link, wait, latched, left, off, since, restarts

D == INSTANCE DeviceManager WITH MaxCommands <- MaxRequests, commands <- requests
B == INSTANCE MqttBridge
W == INSTANCE ShutdownWatch

ASSUME DaemonAssumption == D!ManagerAssumption /\ B!BridgeAssumption /\ W!WatchAssumption

manager == <<phase, config, reloads, loop, scans, statuses, devices, tasks, handlers, awaited, api, requests,
             reloaded, accepted, dropped>>
bridge == <<run, alive, conn, half, queue, known, announced, put, published, lost, commands>>
watch == <<link, wait, latched, left, off, since, restarts>>
vars == <<part, manager, bridge, watch>>

Init ==
  /\ part \in {"manager", "bridge", "watch"}
  /\ D!Init /\ B!Init /\ W!Init
  /\ part # "manager" => config = {}

Next ==
  /\ UNCHANGED part
  /\ \/ part = "manager" /\ D!Next /\ UNCHANGED <<bridge, watch>>
     \/ part = "bridge" /\ B!Next /\ UNCHANGED <<manager, watch>>
     \/ part = "watch" /\ W!Next /\ UNCHANGED <<manager, bridge>>

\* The event loop runs every task that can run, and every sleep ends.  Scans end by their
\* timeout and disconnects return; a broker that is tried again and again is reached again
\* and again; the station publishes once a countdown is over.
Fairness ==
  /\ WF_manager(part = "manager" /\ D!PeriodicWakes) /\ WF_manager(part = "manager" /\ D!ApplyConfig)
  /\ WF_manager(part = "manager" /\ D!Shutdown)
  /\ \A s \in D!Scanners : WF_manager(part = "manager" /\ D!Reconciled(s))
  /\ WF_manager(part = "manager" /\ \E t \in DOMAIN tasks : tasks[t].link = "leaving" /\ D!Left(t))
  /\ WF_bridge(part = "bridge" /\ B!Wake) /\ WF_bridge(part = "bridge" /\ B!CommandHalfEnds)
  /\ SF_bridge(part = "bridge" /\ B!Connect /\ run' = "connected")
  /\ \A k \in B!Connections : WF_bridge(part = "bridge" /\ B!Step(k))
  /\ WF_watch(part = "watch" /\ W!Tick) /\ WF_watch(part = "watch" /\ W!Connect)
  /\ SF_watch(part = "watch" /\ W!Connect /\ link' = "listening")
  /\ SF_watch(part = "watch" /\ W!Message /\ latched /\ left = 0)

Spec == Init /\ [][Next]_vars /\ Fairness

\* The properties of the parts, stated where they are defined.
ManagerTyped == D!TypeOK

HandlersOwned == D!HandlersOwned

OneTaker == D!OneTaker

Released == D!Released

ShutdownEnds == D!ShutdownEnds

BridgeTyped == B!TypeOK

PublishedInOrder == B!PublishedInOrder

LossBounded == B!LossBounded

EachHandled == B!EachHandled

WatchTyped == W!TypeOK

GraceGiven == W!GraceGiven

RecoveryIgnored == W!RecoveryIgnored
=============================================================================
