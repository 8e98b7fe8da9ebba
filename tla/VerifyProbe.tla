----------------------------- MODULE VerifyProbe -----------------------------
(***************************************************************************)
(* Tier 3 of verify on one control register (core/verify.py): probe writes *)
(* with a restore after each, by commands that may raise whether they have *)
(* been applied or not, on a device that ignores or clamps what it does    *)
(* not take.  A switch is toggled, a mode is taken through its members,    *)
(* and a number is swept from 0 up until two values in a row are rejected  *)
(* after the range.  What the device takes need not be what the field      *)
(* declares, nor 0 and 1 for a switch.                                     *)
(***************************************************************************)
EXTENDS Integers, FiniteSetsExt

CONSTANTS
  Cap,         \* the last value of the sweep: 255
  MaxFailures  \* bound: commands that raise

ASSUME ProbeAssumption == Cap \in Nat \ {0} /\ MaxFailures \in Nat

VARIABLES
  pc,             \* where the run is
  kind,           \* bool, enum, or numeric for every other field
  declared,       \* 0 and 1 of a switch, the members of a mode, the range of a number
  takes, clamps,  \* the device: the values it takes, what it makes of others
  reg,            \* the device: the register
  failures,       \* history: commands that raised
  original,       \* current_int: the value to restore
  value,          \* the value being probed
  zone, rejections,  \* of the sweep: pre, in, post; consecutive_post_rejections
  accepted,       \* of the sweep
  status          \* what the report says of the field: none, pass, fail

deviceVars == <<kind, declared, takes, clamps>>
zoneVars == <<zone, rejections, accepted>>
sweepVars == <<value, zoneVars, status>>
probeVars == <<pc, deviceVars, reg, failures, original, sweepVars>>

Values == 0..Cap

-----------------------------------------------------------------------------
(* execute of a write or a read: it returns, or it raises.                 *)

Made(v) == IF v \in takes THEN v ELSE IF clamps THEN Max(takes) ELSE reg

Write(v) == reg' = Made(v) /\ UNCHANGED failures

Raise == failures < MaxFailures /\ failures' = failures + 1

WriteRaises(v) == Raise /\ reg' \in {reg, Made(v)}

Read == UNCHANGED <<reg, failures>>

ReadRaises == Raise /\ UNCHANGED reg

-----------------------------------------------------------------------------
(* The field: what parse and _to_raw_int make of the register, whether     *)
(* parse keeps it, and what is written where nothing was read.             *)

\* A switch that holds neither 0 nor 1 reads as off; a value that is no member stays.
Parsed(v) == IF kind = "bool" /\ v # 1 THEN 0 ELSE v

InRange(v) == kind = "numeric" => v \in declared

safe_default == Min(declared)

-----------------------------------------------------------------------------
(* The order of the probes.                                                *)

Candidates ==
  CASE kind = "bool" -> {1 - (original % 2)} [] kind = "enum" -> declared [] OTHER -> Values

\* Mutant: the first rejection after the range ends the sweep.
EndedAtOnce(rejected) == rejected >= 1

\* Mutant: three rejections.
EndedLate(rejected) == rejected > 2

Ended(rejected) == rejected >= 2

Finish(s) == pc' = "probed" /\ status' = s /\ UNCHANGED value

Probe(v) == pc' = "write" /\ value' = v /\ UNCHANGED status

Proceed ==
  LET rest == {v \in Candidates : v > value}
  IN  IF rest = {} \/ (kind = "numeric" /\ zone' = "post" /\ Ended(rejections'))
      THEN Finish("pass") ELSE Probe(Min(rest))

RestoreIf(changed) ==
  IF changed THEN pc' = "restore" /\ UNCHANGED <<value, status>> ELSE Proceed

\* Mutant: a toggle that raised is not undone.
UndoneIfAnswered(raised) == IF raised THEN {} ELSE {"bool", "enum"}

\* run_tier3_bool restores in any case, run_tier3_enum unless it probed the original.
Undone(raised) == {"bool", "enum"}

Toggled(raised) ==
  UNCHANGED zoneVars /\ RestoreIf(kind \in Undone(raised) /\ (kind = "bool" \/ value # original))

Accept ==
  zone' = "in" /\ rejections' = 0 /\ accepted' = accepted \cup {value}

Reject ==
  /\ zone' = IF zone = "in" THEN "post" ELSE zone
  /\ rejections' = CASE zone = "in" -> 1 [] zone = "post" -> rejections + 1 [] OTHER -> rejections
  /\ UNCHANGED accepted

-----------------------------------------------------------------------------
(* The steps of a probe.                                                   *)

ProbeInit ==
  /\ kind \in {"bool", "enum", "numeric"}
  /\ declared \in IF kind = "bool" THEN {{0, 1}} ELSE {a..b : a, b \in Values} \ {{}}
  /\ takes \in (SUBSET Values) \ {{}} /\ clamps \in BOOLEAN /\ reg \in takes
  /\ failures = 0 /\ original = 0
  /\ value = 0 /\ zone = "pre" /\ rejections = 0 /\ accepted = {} /\ status = "none"

ProbeStart == pc = "probe" /\ Probe(Min(Candidates)) /\ UNCHANGED <<reg, failures, zoneVars>>

\* The sweep takes a write that raised for a rejection and restores nothing.
ProbeWrite ==
  /\ pc = "write"
  /\ \/ Write(value) /\ pc' = "readback" /\ UNCHANGED sweepVars
     \/ WriteRaises(value) /\ IF kind = "numeric" THEN Reject /\ Proceed ELSE Toggled(TRUE)

\* The sweep ends at its second rejection before it has looked whether there is
\* something to restore.
Readback ==
  /\ pc = "readback"
  /\ \/ kind # "numeric" /\ (Read \/ ReadRaises) /\ Toggled(FALSE)
     \/ kind = "numeric" /\ ReadRaises /\ Reject /\ RestoreIf(TRUE)
     \/ kind = "numeric" /\ Read /\ reg = value /\ Accept /\ RestoreIf(reg # original)
     \/ /\ kind = "numeric" /\ Read /\ reg # value /\ Reject
        /\ RestoreIf(reg # original /\ ~(zone' = "post" /\ Ended(rejections')))

\* _probe_restore.
Restore ==
  /\ pc = "restore" /\ UNCHANGED zoneVars
  /\ \/ Write(original) /\ pc' = "check" /\ UNCHANGED <<value, status>>
     \/ WriteRaises(original) /\ Finish("fail")

Check ==
  /\ pc = "check" /\ UNCHANGED zoneVars
  /\ \/ Read /\ IF reg = original THEN Proceed ELSE Finish("fail")
     \/ ReadRaises /\ Finish("fail")

ProbeNext ==
  /\ ProbeStart \/ ProbeWrite \/ Readback \/ Restore \/ Check
  /\ UNCHANGED <<deviceVars, original>>
=============================================================================
