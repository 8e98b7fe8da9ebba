------------------------------- MODULE LoadTest -------------------------------
(***************************************************************************)
(* A discharge test: the prerequisites are read, then a sample is taken    *)
(* every interval, logged and added to the energy, until the battery is    *)
(* empty, the station does not answer any more or the operator interrupts. *)
(* The log takes every row: that writing, flushing or closing it fails is  *)
(* left out.                                                               *)
(***************************************************************************)
EXTENDS Integers, FiniteSetsExt

CONSTANTS
  Powers,           \* what the load may take
  Interval,         \* between samples; a retry waits 2 seconds
  MAX_BLE_RETRIES,
  Lasts             \* bound: samples the battery lasts

LoadAssumption ==
  Powers \subseteq Nat /\ {Interval, MAX_BLE_RETRIES, Lasts} \subseteq Nat \ {0}

VARIABLES
  stage,     \* the place in run_load_test
  link,      \* open, lost, closed, or left as it is by a disconnect that ended early
  csv,       \* the log: none, open or closed
  samples,   \* rows of it
  soc,       \* of the sample being read: is there any charge left?
  power,     \* of the sample being read
  prev,      \* power and time of the last sample
  energy,    \* twice energy_computed
  failures,  \* consecutive_failures
  now,       \* seconds since start
  logged     \* history: the powers of the log, and the time of its first row

readings == <<samples, prev, energy, logged>>
vars == <<stage, link, csv, soc, power, failures, now, readings>>

Reading == {"home", "power", "rest"}

Ended == {"aborted", "done", "crashed"}

-----------------------------------------------------------------------------
(* _verify_prerequisites.  What goes wrong here leaves the link open.      *)

\* Two reads and the operator's Enter before them, each of which may fail, be
\* refused or interrupted, and the test of SOC, grid and PV.
Verify ==
  /\ stage \in {"prompt", "precheck"}
  /\ \/ stage = "prompt" /\ stage' = "precheck" /\ UNCHANGED <<link, csv>>
     \/ stage = "precheck" /\ link = "open" /\ stage' = "home" /\ csv' = "open" /\ UNCHANGED link
     \/ stage' = "aborted" /\ UNCHANGED <<link, csv>>
  /\ UNCHANGED <<soc, power, failures, now, readings>>

-----------------------------------------------------------------------------
(* _read_home: a ModbusError is only an error of the first block.          *)

ReadsOn ==
  /\ stage \in Reading /\ link = "open"
  /\ \/ /\ stage = "home" /\ stage' = "power"
        /\ soc' \in IF samples + 1 < Lasts THEN BOOLEAN ELSE {FALSE}
        /\ UNCHANGED power
     \/ /\ stage = "power" /\ stage' = "rest"
        /\ power' \in Powers \cup {0}    \* 0: a ModbusError
        /\ UNCHANGED soc
     \/ stage = "rest" /\ stage' = "sample" /\ UNCHANGED <<soc, power>>
  /\ UNCHANGED <<link, csv, failures, now, readings>>

ReadRaises ==
  /\ stage \in Reading
  /\ failures' = failures + 1
  /\ stage' = IF failures' > MAX_BLE_RETRIES THEN "closing" ELSE "retry"
  /\ UNCHANGED <<link, csv, soc, power, now, readings>>

Retry ==
  /\ stage = "retry" /\ stage' = "home"
  /\ now' = now + 2
  /\ UNCHANGED <<link, csv, soc, power, failures, readings>>

\* Mutant: samples are taken to be an interval apart.
AddedPerInterval == IF samples > 0 THEN (prev.power + power) * Interval ELSE 0

\* _compute_energy.
Added == IF samples > 0 /\ now > prev.time THEN (prev.power + power) * (now - prev.time) ELSE 0

Sample ==
  /\ stage = "sample" /\ stage' = IF soc THEN "sleep" ELSE "closing"
  /\ failures' = 0
  /\ energy' = energy + Added
  /\ samples' = samples + 1
  /\ prev' = [power |-> power, time |-> now]
  /\ logged' = [powers |-> logged.powers \cup {power}, from |-> IF samples = 0 THEN now ELSE logged.from]
  /\ soc' = TRUE /\ power' = 0
  /\ UNCHANGED <<link, csv, now>>

Sleep ==
  /\ stage = "sleep" /\ stage' = "home"
  /\ now' = now + Interval
  /\ UNCHANGED <<link, csv, soc, power, failures, readings>>

-----------------------------------------------------------------------------
(* The end: finally, and _print_summary.                                   *)

\* Mutant: only the reads are inside the try.
CaughtInReads == stage \in Reading

Caught == stage \in Reading \cup {"retry", "sleep"}

\* Ctrl-C or a cancellation at an await.
Interrupt ==
  /\ stage \in Reading \cup {"retry", "sleep", "disconnect"}
  /\ stage' = IF Caught THEN "closing" ELSE "aborted"
  /\ link' = IF stage = "disconnect" /\ link = "open" THEN "left" ELSE link
  /\ UNCHANGED <<csv, soc, power, failures, now, readings>>

CloseFile ==
  /\ stage = "closing" /\ stage' = "disconnect"
  /\ csv' = "closed"
  /\ UNCHANGED <<link, soc, power, failures, now, readings>>

\* A disconnect that raises is ignored.
Disconnect ==
  /\ stage = "disconnect" /\ stage' = "summary"
  /\ link' \in IF link = "open" THEN {"closed", "left"} ELSE {link}
  /\ UNCHANGED <<csv, soc, power, failures, now, readings>>

\* Without a sample the last sample is an unbound name; with five rows _analyze_csv
\* compares the energy with the register's, by a division.
Summary ==
  /\ stage = "summary"
  /\ stage' \in IF samples = 0 THEN {"crashed"}
                ELSE IF samples >= 5 /\ energy = 0 THEN {"done", "crashed"} ELSE {"done"}
  /\ UNCHANGED <<link, csv, soc, power, failures, now, readings>>

LinkDrops ==
  /\ link = "open" /\ link' = "lost"
  /\ UNCHANGED <<stage, csv, soc, power, failures, now, readings>>

-----------------------------------------------------------------------------

Init ==
  /\ stage = "prompt" /\ link = "open" /\ csv = "none"
  /\ soc = TRUE /\ power = 0 /\ prev = [power |-> 0, time |-> 0]
  /\ samples = 0 /\ energy = 0 /\ failures = 0 /\ now = 0
  /\ logged = [powers |-> {}, from |-> 0]

Test ==
  Verify \/ ReadsOn \/ ReadRaises \/ Retry \/ Sample \/ Sleep \/ CloseFile \/ Disconnect \/ Summary

Next == Test \/ Interrupt \/ LinkDrops

-----------------------------------------------------------------------------

\* The energy is that of the time from the first sample to the last: what the
\* least and the largest power logged would have given in it are its bounds.  A
\* time of failed reads in between is neither left out nor counted twice.
EnergyOfTheLog ==
  samples > 0 =>
    LET span == prev.time - logged.from
    IN  energy \in (2 * Min(logged.powers) * span)..(2 * Max(logged.powers) * span)

\* A test that has begun ends, and then its log is closed and its link closed or
\* lost, or left by a disconnect that failed or was interrupted: a station that
\* does not answer any more ends it as well as an empty battery and the operator.
EndsClean == csv = "open" ~> stage \in Ended /\ csv = "closed" /\ link # "open"
=============================================================================
