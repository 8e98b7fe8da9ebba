---------------------------- MODULE ShutdownWatch ----------------------------
(***************************************************************************)
(* mqtt-listen: a subscriber that watches the battery's state of charge,   *)
(* starts a countdown at the first reading below the threshold, and shuts  *)
(* the host down with the first reading after the countdown.               *)
(***************************************************************************)
EXTENDS Integers

CONSTANTS
  Threshold, Grace,
  Readings,    \* what the station may report
  Retry,       \* seconds before a lost connection is made again
  MaxRestarts  \* bound: restarts of the service

WatchAssumption ==
  Threshold \in Int /\ Readings \subseteq Int /\ {Grace, Retry, MaxRestarts} \subseteq Nat

VARIABLES
  link,      \* connecting, listening, waiting, ended (shutdown run), stopped (systemctl stop)
  wait,      \* seconds left of the sleep before the next attempt
  latched,   \* _latched
  left,      \* time_remaining
  off,       \* the host is shutting down
  since,     \* history: seconds since the first low reading of this run, or -1
  restarts   \* history

vars == <<link, wait, latched, left, off, since, restarts>>

Running == link \in {"connecting", "listening", "waiting"}

\* Mutant: the time remaining goes on below zero.
DownUnclamped(n) == n - 1

Down(n) == IF n > 0 THEN n - 1 ELSE 0

Tick ==
  /\ Running
  /\ left' = Down(left) /\ wait' = Down(wait)
  /\ since' = IF since = -1 THEN -1 ELSE IF since < Grace THEN since + 1 ELSE since
  /\ UNCHANGED <<link, latched, off, restarts>>

\* Client's context and subscribe, or an MqttError in either.
Connect ==
  /\ link = "connecting" \/ (link = "waiting" /\ wait = 0)
  /\ \/ link' = "listening" /\ UNCHANGED wait
     \/ link' = "waiting" /\ wait' = Retry
  /\ UNCHANGED <<latched, left, off, since, restarts>>

ConnectionLost ==
  /\ link = "listening" /\ link' = "waiting" /\ wait' = Retry
  /\ UNCHANGED <<latched, left, off, since, restarts>>

\* Mutant: every low reading starts the countdown again.
ArmAgain(soc) == soc < Threshold

Arm(soc) == soc < Threshold /\ ~latched

\* Mutant: the deadline is the time of the reading, without the grace period.
FireNow(soc) == left

Countdown(soc) == IF Arm(soc) THEN Grace ELSE left

\* handle_soc, and execute_shutdown when it says so: the command may fail, the
\* watch ends all the same.  A payload that is no number is skipped.
Reading(soc) ==
  /\ link = "listening"
  /\ latched' = (latched \/ Arm(soc))
  /\ left' = Countdown(soc)
  /\ IF latched' /\ left' = 0 THEN link' = "ended" /\ off' \in BOOLEAN ELSE UNCHANGED <<link, off>>
  /\ since' = IF since = -1 /\ soc < Threshold THEN 0 ELSE since
  /\ UNCHANGED <<wait, restarts>>

\* The source changed, the service failed, or the shutdown it ran did: systemd starts
\* it anew.
Restart ==
  /\ link # "stopped" /\ restarts < MaxRestarts /\ restarts' = restarts + 1
  /\ link' = "connecting" /\ wait' = 0
  /\ latched' = FALSE /\ left' = 0 /\ since' = -1
  /\ UNCHANGED off

Stop ==
  /\ Running /\ link' = "stopped"
  /\ UNCHANGED <<wait, latched, left, off, since, restarts>>

Init ==
  /\ link = "connecting" /\ wait = 0 /\ latched = FALSE /\ left = 0
  /\ off = FALSE /\ since = -1 /\ restarts = 0

Message == \E soc \in Readings : Reading(soc)

Next == Tick \/ Connect \/ ConnectionLost \/ Message \/ Restart \/ Stop

Spec == Init /\ [][Next]_vars

-----------------------------------------------------------------------------

TypeOK ==
  /\ link \in {"connecting", "listening", "waiting", "ended", "stopped"}
  /\ wait \in 0..Retry /\ left \in 0..Grace /\ latched \in BOOLEAN /\ off \in BOOLEAN
  /\ since \in -1..Grace /\ restarts \in 0..MaxRestarts
  /\ (latched <=> since # -1) /\ (link = "ended" => latched /\ left = 0)

\* The host gets its grace period: nothing shuts it down before, and the
\* countdown is never the one of a run of the service that has ended.
GraceGiven == [][link' = "ended" /\ link # "ended" => since' >= Grace]_vars

Over == link \in {"ended", "stopped"}

\* A countdown under way ends in the shutdown whatever the readings say and however
\* often the connection fails (shutdown_watch.py:20, docs/source/user-guide/mqtt.md:34),
\* while the station publishes and the service is neither stopped nor restarted.
RecoveryIgnored == \A n \in 0..MaxRestarts : latched /\ restarts = n ~> Over \/ restarts > n
=============================================================================
