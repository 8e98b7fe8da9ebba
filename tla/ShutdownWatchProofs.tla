------------------------- MODULE ShutdownWatchProofs -------------------------
(***************************************************************************)
(* Proofs about the part of MCDaemon that is ShutdownWatch, for every        *)
(* threshold, grace period, set of readings and number of restarts: types, *)
(* and GraceGiven.                                                         *)
(***************************************************************************)
EXTENDS MCDaemon, TLAPS

\* The countdown and the clock that started with it account for each other.
Accounted == latched => since + left >= Grace

IInv == W!TypeOK /\ Accounted

\* The assumption, one constant at a time.
LEMMA Constants ==
  /\ Threshold \in Int /\ Grace \in Nat /\ Retry \in Nat /\ MaxRestarts \in Nat
  /\ \A soc \in Readings : soc \in Int
BY DaemonAssumption DEF DaemonAssumption, W!WatchAssumption

USE Constants

\* A step of the composition is a step of the watchdog or leaves it as it is.
LEMMA WatchMoves == [Next]_vars => [W!Next]_W!vars
BY DEF Next, vars, watch, W!vars

LEMMA InitInv == W!Init => IInv
<1> SUFFICES ASSUME W!Init PROVE IInv
  OBVIOUS
<1>1. ~latched /\ latched \in BOOLEAN /\ off \in BOOLEAN
  BY Zenon DEF W!Init
<1>2. wait = 0 /\ left = 0 /\ since = -1 /\ restarts = 0 /\ link = "connecting"
  BY DEF W!Init
<1> QED
  BY <1>1, <1>2 DEF IInv, W!TypeOK, Accounted

\* The steps that are not readings.
LEMMA OtherInv ==
  ASSUME IInv, W!Tick \/ W!Connect \/ W!ConnectionLost \/ W!Restart \/ W!Stop \/ UNCHANGED W!vars
  PROVE  IInv'
<1>1. CASE W!Tick
  BY <1>1 DEF W!Tick, W!Running, W!Down, IInv, W!TypeOK, Accounted
<1>2. CASE W!Connect
  BY <1>2 DEF W!Connect, IInv, W!TypeOK, Accounted
<1>3. CASE W!ConnectionLost
  BY <1>3 DEF W!ConnectionLost, IInv, W!TypeOK, Accounted
<1>4. CASE W!Restart
  <2>1. ~latched' /\ latched' \in BOOLEAN
    BY <1>4, Zenon DEF W!Restart
  <2>2. wait' = 0 /\ left' = 0 /\ since' = -1 /\ link' = "connecting" /\ off' = off
    BY <1>4 DEF W!Restart
  <2>3. restarts' \in 0..MaxRestarts /\ off \in BOOLEAN
    BY <1>4 DEF W!Restart, IInv, W!TypeOK
  <2> QED
    BY <2>1, <2>2, <2>3 DEF IInv, W!TypeOK, Accounted
<1>5. CASE W!Stop
  BY <1>5 DEF W!Stop, W!Running, IInv, W!TypeOK, Accounted
<1>6. CASE UNCHANGED W!vars
  BY <1>6 DEF W!vars, IInv, W!TypeOK, Accounted
<1> QED
  BY <1>1, <1>2, <1>3, <1>4, <1>5, <1>6

\* A reading latches at the first low one only, and with it both start together.
LEMMA ReadingInv ==
  ASSUME IInv, NEW soc \in Readings, W!Reading(soc)
  PROVE  IInv'
<1>1. soc \in Int
  OBVIOUS
<1>2. CASE W!Arm(soc)
  <2>1. soc < Threshold /\ since = -1
    BY <1>2 DEF W!Arm, IInv, W!TypeOK
  <2>2. latched' /\ latched' \in BOOLEAN
    BY <1>2, Zenon DEF W!Reading
  <2>3. left' = Grace /\ since' = 0 /\ wait' = wait /\ restarts' = restarts
    BY <1>2, <2>1 DEF W!Reading, W!Countdown
  <2>4. IF left' = 0 THEN link' = "ended" /\ off' \in BOOLEAN ELSE UNCHANGED <<link, off>>
    BY <2>2 DEF W!Reading
  <2>5. link # "ended"
    BY DEF W!Reading
  <2> QED
    BY <2>2, <2>3, <2>4, <2>5 DEF IInv, W!TypeOK, Accounted
<1>3. CASE ~W!Arm(soc)
  BY <1>1, <1>3 DEF W!Arm, W!Reading, W!Countdown, IInv, W!TypeOK, Accounted
<1> QED
  BY <1>2, <1>3

LEMMA NextInv == IInv /\ [W!Next]_W!vars => IInv'
BY OtherInv, ReadingInv DEF W!Next, W!Message

\* Every variable keeps its type; the latch goes with the clock of its countdown.
THEOREM WatchTypeOK == Spec => []WatchTyped
<1>1. IInv => WatchTyped
  BY DEF IInv, WatchTyped
<1>2. Init => IInv
  BY InitInv DEF Init
<1> QED
  BY NextInv, WatchMoves, <1>1, <1>2, PTL DEF Spec

\* A step that runs the shutdown comes Grace seconds after the first low reading.
LEMMA EndGivesGrace ==
  ASSUME IInv, W!Next, link' = "ended", link # "ended"
  PROVE  since' >= Grace
<1>1. PICK soc \in Readings : W!Reading(soc)
  BY DEF W!Next, W!Message, W!Tick, W!Connect, W!ConnectionLost, W!Restart, W!Stop
<1>2. latched' /\ left' = 0
  BY <1>1, Zenon DEF W!Reading
<1>3. IInv'
  BY <1>1, ReadingInv
<1>4. since' + left' >= Grace
  BY <1>2, <1>3, Zenon DEF IInv, Accounted
<1>5. since' \in Int
  BY <1>3 DEF IInv, W!TypeOK
<1>6. \A g, s \in Int : \A l : l = 0 /\ s + l >= g => s >= g
  OBVIOUS
<1>7. Grace \in Int
  OBVIOUS
<1> QED
  BY <1>2, <1>4, <1>5, <1>6, <1>7, Zenon

\* The host always gets its grace period (shutdown_watch.py:51-69), whatever the
\* battery, the broker and the service manager do.
THEOREM WatchGraceGiven == Spec => GraceGiven
<1>1. IInv /\ [W!Next]_W!vars => [link' = "ended" /\ link # "ended" => since' >= Grace]_W!vars
  BY EndGivesGrace
<1>2. Init => IInv
  BY InitInv DEF Init
<1> QED
  BY NextInv, WatchMoves, <1>1, <1>2, PTL DEF Spec, GraceGiven, W!GraceGiven
=============================================================================
