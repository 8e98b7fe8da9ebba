---------------------------- MODULE DeviceManager ----------------------------
(***************************************************************************)
(* The daemon around its device handlers: scans that reconcile the         *)
(* configured devices with those in range, from the start, the periodic    *)
(* loop and every reload of the configuration, all at the same time; the   *)
(* handler tasks they start and cancel; commands the API addresses to a    *)
(* device; and the shutdown.  A handler is reduced to its link: PollCycle  *)
(* is what it does while it runs.                                          *)
(***************************************************************************)
EXTENDS Naturals, FiniteSets, SequencesExt

CONSTANTS
  Addresses,   \* the devices there may be, all of a supported model
  MaxReloads,  \* bound: reloads of the configuration
  MaxCommands  \* bound: commands put on the bus

ManagerAssumption ==
  /\ MaxReloads \in Nat /\ MaxCommands \in Nat
  /\ IsFiniteSet(Addresses) /\ "no scan" \notin Addresses

VARIABLES
  phase,       \* the daemon: boot, run, stopping, closing, exiting, exited
  config,      \* config.devices, which the API and the manager share
  reloads,     \* apply_config_devices tasks not started yet, with their devices
  loop,        \* run_periodic: sleeping, scanning or ended
  scans,       \* reconciles at their scan: config_addresses, and who has advertised since
  statuses,
  devices,     \* addresses in _devices
  tasks,       \* every handler task ever started
  handlers,    \* the tasks in _handlers
  awaited,     \* the tasks DeviceManager.shutdown waits for
  api,         \* a command request past the status check, or "idle"
  commands,    \* on the bus: the tasks whose device is the very one the command names
  reloaded, accepted, dropped  \* history: reloads, commands, one that no handler took

daemonVars == <<phase, loop, awaited>>
configVars == <<config, reloads, reloaded>>
managerVars == <<statuses, devices, handlers>>
commandVars == <<api, commands, accepted, dropped>>
vars == <<daemonVars, configVars, scans, managerVars, tasks, commandVars>>

Startup == <<"startup", 0>>
Periodic == <<"periodic", 0>>
Scanners == {Startup, Periodic} \cup {"reload"} \X (1..MaxReloads)

NoScan == [known |-> {}, seen |-> {"no scan"}]

Scanning(s) == scans[s] # NoScan

Serving == phase \in {"run", "stopping", "closing"}

Task == [addr : Addresses,
         link : {"down", "up", "leaving", "gone", "crashed"},
         current : BOOLEAN]   \* its device is the one in _devices

\* A device that some task holds a link to does not advertise.
Advertising(ts) ==
  {a \in Addresses : \A t \in DOMAIN ts : ts[t].addr = a => ts[t].link \in {"down", "gone"}}

\* A scan sees whoever advertises at any time while it lasts.
Watch(ts) ==
  scans' = [s \in Scanners |->
              IF Scanning(s) THEN [scans[s] EXCEPT !.seen = @ \cup Advertising(ts)] ELSE NoScan]

Handled(a) == \E t \in handlers : tasks[t].addr = a

Cancelled(task) == [task EXCEPT !.link = CASE @ = "up" -> "leaving" [] @ = "down" -> "gone" [] OTHER -> @]

-----------------------------------------------------------------------------
(* _reconcile, and the handlers it starts and cancels.                     *)

ScanBegins(s) ==
  scans' = [scans EXCEPT ![s] = [known |-> config, seen |-> Advertising(tasks)]]

\* The devices are those configured now; config_addresses is from before the scan.
Classify(a, known, found) ==
  CASE a \in found \ known -> "new"
    [] a \in config /\ (a \in found \/ Handled(a)) /\ a \notin found \ known -> "online"
    [] a \in config /\ a \notin found /\ ~Handled(a) -> "missing"
    [] OTHER -> "unknown"

Online == {a \in Addresses : statuses'[a] = "online"}

\* Mutant: a device that is in _devices already is not built again.
RebuiltOnce(found) == (config \cap found) \ devices

Rebuilt(found) == config \cap found

\* Mutant: a device that left both the configuration and the air is overlooked.
EvictedIfMissing(s) ==
  IF s = Startup THEN {} ELSE {t \in handlers : statuses'[tasks[t].addr] = "missing"}

Evicted(s) == IF s = Startup THEN {} ELSE {t \in handlers : tasks[t].addr \notin Online}

\* Mutant: a task that leaves _handlers is not cancelled.
ForgetOnly(t, evicted) == tasks[t]

Evict(t, evicted) == IF t \in evicted THEN Cancelled(tasks[t]) ELSE tasks[t]

\* Mutant: whether the device has a handler is not looked at.
StartAgain(s) == Online

Start(s) == {a \in Online : ~Handled(a)}

Spawn(addrs) ==
  LET order == SetToSeq(addrs)
  IN  [i \in DOMAIN order |-> [addr |-> order[i], link |-> "down", current |-> TRUE]]

ScanEnds(s) ==
  \E found \in SUBSET scans[s].seen :
    /\ statuses' = [a \in Addresses |-> Classify(a, scans[s].known, found)]
    /\ devices' = devices \cup (config \cap found)
    /\ LET kept == [t \in DOMAIN tasks |->
                      [Evict(t, Evicted(s)) EXCEPT
                         !.current = @ /\ tasks[t].addr \notin Rebuilt(found)]]
           new == Spawn(Start(s))
       IN  /\ tasks' = kept \o new
           /\ handlers' = (handlers \ Evicted(s)) \cup {Len(kept) + i : i \in DOMAIN new}

Reconciled(s) ==
  /\ Scanning(s) /\ ScanEnds(s)
  /\ scans' = [r \in Scanners |->
                 CASE r = s -> NoScan
                   [] r # s /\ Scanning(r) -> [scans[r] EXCEPT !.seen = @ \cup Advertising(tasks')]
                   [] OTHER -> NoScan]
  /\ phase' = IF s = Startup THEN "run" ELSE phase
  /\ loop' = CASE s # Periodic -> loop
               [] s = Periodic /\ phase \in {"boot", "run"} -> "sleeping"
               [] OTHER -> "ended"
  /\ UNCHANGED <<awaited, configVars, commandVars>>

\* run_periodic looks at _shutting_down before its sleep and not after it.
PeriodicWakes ==
  /\ loop = "sleeping" /\ loop' = "scanning"
  /\ ScanBegins(Periodic)
  /\ UNCHANGED <<phase, awaited, configVars, managerVars, tasks, commandVars>>

\* POST /api/reload, and the task it creates: of a Daemon that was given the path of its
\* configuration (without one every reload is refused, see ConfigFile).
Reload ==
  /\ Serving /\ reloaded < MaxReloads
  /\ \E d \in SUBSET Addresses : config' = d /\ reloads' = Append(reloads, d)
  /\ reloaded' = reloaded + 1
  /\ UNCHANGED <<daemonVars, scans, managerVars, tasks, commandVars>>

ApplyConfig ==
  /\ reloads # <<>>
  /\ config' = Head(reloads) /\ reloads' = Tail(reloads)
  /\ scans' = [scans EXCEPT ![<<"reload", reloaded - Len(reloads) + 1>>] =
                 [known |-> Head(reloads), seen |-> Advertising(tasks)]]
  /\ UNCHANGED <<daemonVars, reloaded, managerVars, tasks, commandVars>>

-----------------------------------------------------------------------------
(* A handler's link: PollCycle shows why it changes.                       *)

Becomes(t, before, after) ==
  /\ tasks[t].link \in before
  /\ tasks' = [tasks EXCEPT ![t].link = after]
  /\ Watch(tasks')
  /\ UNCHANGED <<daemonVars, configVars, managerVars, commandVars>>

LinkUp(t) == Becomes(t, {"down"}, "up")

LinkDown(t) == Becomes(t, {"up"}, "down")

\* An exception the loop does not catch: nobody disconnects the client.
Crash(t) == Becomes(t, {"up"}, "crashed")

\* The disconnect of a cancelled handler, or the loss of a link nobody uses.
Left(t) == Becomes(t, {"leaving", "crashed"}, "gone")

-----------------------------------------------------------------------------
(* POST /api/device/<address>/command, and the bus.                        *)

CheckStatus ==
  /\ Serving /\ api = "idle" /\ accepted < MaxCommands
  /\ \E a \in Addresses : statuses[a] = "online" /\ api' = a
  /\ UNCHANGED <<daemonVars, configVars, scans, managerVars, tasks, commands, accepted, dropped>>

\* After the body was awaited: whose device is looked up now, if it has one.
PutCommand ==
  /\ api # "idle" /\ api' = "idle"
  /\ IF api \in devices
     THEN /\ commands' = Append(commands,
                           {t \in DOMAIN tasks : tasks[t].addr = api /\ tasks[t].current})
          /\ accepted' = accepted + 1
     ELSE UNCHANGED <<commands, accepted>>
  /\ UNCHANGED <<daemonVars, configVars, scans, managerVars, tasks, dropped>>

\* Every handler ever started listens, and acts if the device is its own.
Dispatch ==
  /\ phase \in {"boot", "run", "stopping"} /\ commands # <<>>
  /\ commands' = Tail(commands)
  /\ dropped' = (dropped \/ Head(commands) = {})
  /\ UNCHANGED <<daemonVars, configVars, scans, managerVars, tasks, api, accepted>>

-----------------------------------------------------------------------------
(* Daemon._shutdown, DeviceManager.shutdown and the end of asyncio.run.    *)

\* Mutant: only the handlers that are connected are cancelled.
CancelLinked(ids) ==
  [t \in DOMAIN tasks |-> IF t \in ids /\ tasks[t].link = "up" THEN Cancelled(tasks[t]) ELSE tasks[t]]

CancelAll(ids) == [t \in DOMAIN tasks |-> IF t \in ids THEN Cancelled(tasks[t]) ELSE tasks[t]]

Ended(t) == tasks[t].link \in {"gone", "crashed"}

StopHandlers ==
  /\ phase = "run" /\ phase' = "stopping"
  /\ tasks' = CancelAll(handlers) /\ awaited' = handlers
  /\ Watch(tasks')
  /\ UNCHANGED <<loop, configVars, managerVars, commandVars>>

\* Mutant: the periodic loop is taken for ended while its scan goes on.
ForgetLoop ==
  /\ phase = "stopping" /\ phase' = "closing"
  /\ \A t \in awaited : Ended(t)
  /\ handlers' = {} /\ devices' = {}
  /\ tasks' = [t \in DOMAIN tasks |-> [tasks[t] EXCEPT !.current = FALSE]]
  /\ loop' = "ended"
  /\ UNCHANGED <<scans, awaited, configVars, statuses, commandVars>>

\* gather returns once the tasks that were cancelled have ended; the periodic
\* loop and the bus are cancelled next, with no await in between.
Forget ==
  /\ phase = "stopping" /\ phase' = "closing"
  /\ \A t \in awaited : Ended(t)
  /\ handlers' = {} /\ devices' = {}
  /\ tasks' = [t \in DOMAIN tasks |-> [tasks[t] EXCEPT !.current = FALSE]]
  /\ loop' = "ended" /\ scans' = [scans EXCEPT ![Periodic] = NoScan]
  /\ UNCHANGED <<awaited, configVars, statuses, commandVars>>

\* The server is closed; asyncio.run cancels what is left and waits for it.
CloseLoop ==
  /\ phase = "closing" /\ phase' = "exiting"
  /\ tasks' = CancelAll(DOMAIN tasks)
  /\ scans' = [s \in Scanners |-> NoScan] /\ reloads' = <<>> /\ api' = "idle"
  /\ UNCHANGED <<loop, awaited, config, reloaded, managerVars, commands, accepted, dropped>>

Exit ==
  /\ phase = "exiting" /\ phase' = "exited"
  /\ \A t \in DOMAIN tasks : Ended(t)
  /\ UNCHANGED <<loop, awaited, configVars, scans, managerVars, tasks, commandVars>>

-----------------------------------------------------------------------------

Init ==
  /\ phase = "boot" /\ config \in SUBSET Addresses /\ reloads = <<>> /\ loop = "sleeping"
  /\ scans = [s \in Scanners |-> IF s = Startup THEN [known |-> config, seen |-> Addresses] ELSE NoScan]
  /\ statuses = [a \in Addresses |-> "unknown"]
  /\ devices = {} /\ tasks = <<>> /\ handlers = {} /\ awaited = {}
  /\ api = "idle" /\ commands = <<>>
  /\ reloaded = 0 /\ accepted = 0 /\ dropped = FALSE

Manager == PeriodicWakes \/ ApplyConfig \/ \E s \in Scanners : Reconciled(s)

Shutdown == Forget \/ CloseLoop \/ Exit

Next ==
  \/ Manager \/ StopHandlers \/ Shutdown
  \/ Reload \/ CheckStatus \/ PutCommand \/ Dispatch
  \/ \E t \in DOMAIN tasks : LinkUp(t) \/ LinkDown(t) \/ Crash(t) \/ Left(t)

Spec == Init /\ [][Next]_vars

-----------------------------------------------------------------------------
(* Properties.                                                             *)

TypeOK ==
  /\ phase \in {"boot", "run", "stopping", "closing", "exiting", "exited"}
  /\ config \subseteq Addresses /\ reloads \in Seq(SUBSET Addresses)
  /\ loop \in {"sleeping", "scanning", "ended"} /\ (loop = "scanning" <=> Scanning(Periodic))
  /\ \A s \in Scanners : Scanning(s) => scans[s] \in [known : SUBSET Addresses, seen : SUBSET Addresses]
  /\ statuses \in [Addresses -> {"unknown", "online", "missing", "new"}]
  /\ devices \subseteq Addresses /\ tasks \in Seq(Task) /\ handlers \cup awaited \subseteq DOMAIN tasks
  /\ api \in Addresses \cup {"idle"} /\ commands \in Seq(SUBSET DOMAIN tasks)

\* Until the shutdown, however the reconciles overlap, a handler that has not
\* been cancelled is in _handlers, and there is one per device at most.
HandlersOwned ==
  phase \in {"boot", "run"} =>
    /\ \A t \in DOMAIN tasks : tasks[t].link \in {"down", "up"} => t \in handlers
    /\ \A t, u \in handlers : tasks[t].addr = tasks[u].addr => t = u

\* A command is taken by one handler at most: a device that was removed and
\* added again is a new object, and the listener its old handler left behind
\* ignores it.
OneTaker == \A i \in DOMAIN commands : Cardinality(commands[i]) <= 1

\* A device that has left the configuration for good is let go in the end, also
\* when a reconcile that began before the reload ends after it.
Released ==
  \A a \in Addresses :
    <>[](a \notin config) =>
      <>[](\A t \in DOMAIN tasks : tasks[t].addr = a => tasks[t].link \notin {"down", "up"})

\* A shutdown ends, with every handler it cancels stopped and its link closed; one that
\* ended with an exception before is gone, and its link is left to the process.
ShutdownEnds ==
  phase = "stopping" ~> /\ phase = "exited"
                        /\ \A t \in DOMAIN tasks : Ended(t)

\* A command that was accepted is taken by a handler.
CommandTaken == ~dropped
=============================================================================
