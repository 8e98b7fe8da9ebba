------------------------------ MODULE MCApiTools ------------------------------
(***************************************************************************)
(* Instances of four parts that share nothing: the WebSocket sessions, the *)
(* middlewares before the API, the configuration file, and the load test.  *)
(* A behaviour is one of one part, while the others stand still.           *)
(***************************************************************************)
EXTENDS Naturals, Sequences

CONSTANTS Devices, Sessions, Room, MaxUpdates
CONSTANTS Addresses, Allowed, Window, Limit, Tracked, Horizon
CONSTANTS Editors, MaxCommands, MaxStarts
CONSTANTS Powers, Interval, MAX_BLE_RETRIES, Lasts

VARIABLES part,
  bus, current, busy, store, produced, ws, todo, held, out, seen, missed,
  rate, time, passes,
  given, others, file, doing, edit, draft, commands, force, starts, told,
  stage, link, csv, samples, soc, power, prev, energy, failures, now, logged

S == INSTANCE ApiSessions
G == INSTANCE ApiGuard
C == INSTANCE ConfigFile
L == INSTANCE LoadTest

ASSUME PartsAssumption ==
  S!SessionsAssumption /\ G!GuardAssumption /\ C!ConfigAssumption /\ L!LoadAssumption

sessions == <<bus, current, busy, store, produced, ws, todo, held, out, seen, missed>>
guard == <<rate, time, passes>>
config == <<given, others, file, doing, edit, draft, commands, force, starts, told>>
load == <<stage, link, csv, samples, soc, power, prev, energy, failures, now, logged>>
vars == <<part, sessions, guard, config, load>>

Init ==
  /\ part \in {"sessions", "guard", "config", "load"}
  /\ S!Init /\ G!Init /\ C!Init /\ L!Init
  /\ part # "config" => ~given /\ file = others.first /\ file = others.last

Next ==
  /\ UNCHANGED part
  /\ \/ part = "sessions" /\ S!Next /\ UNCHANGED <<guard, config, load>>
     \/ part = "guard" /\ G!Next /\ UNCHANGED <<sessions, config, load>>
     \/ part = "config" /\ C!Next /\ UNCHANGED <<sessions, guard, load>>
     \/ part = "load" /\ L!Next /\ UNCHANGED <<sessions, guard, config>>

\* Tasks run, and clients read what they are sent or go; reads return or raise,
\* and sleeps end.
Fairness ==
  /\ WF_sessions(part = "sessions" /\ S!Bus)
  /\ \A s \in Sessions :
       WF_sessions(part = "sessions" /\ S!Session(s)) /\ WF_sessions(part = "sessions" /\ S!ClientReads(s))
  /\ WF_load(part = "load" /\ L!Test)

Spec == Init /\ [][Next]_vars /\ Fairness

DevicesListed == <<"d1", "d2">>

\* The properties of the parts, stated where they are defined.
ShowsTheStore == S!ShowsTheStore

NeverBack == S!NeverBack

BusGoesOn == S!BusGoesOn

RateBounded == G!RateBounded

StaleTold == C!StaleTold

EnergyOfTheLog == L!EnergyOfTheLog

EndsClean == L!EndsClean
=============================================================================
