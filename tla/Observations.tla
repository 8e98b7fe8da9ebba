---------------------------- MODULE Observations ----------------------------
(***************************************************************************)
(* The ground-truth observations of the verify command: what was parsed in *)
(* tier 1 is put beside what the operator reads off the device.  One       *)
(* observation is followed: the blocks that were read, the value taken for *)
(* it, the answer, the comparison, and the raw register that is looked up  *)
(* to say at which scale the raw number would have fitted.  Numbers are in *)
(* hundredths.  The firmware version, asked of one model, is left out.     *)
(***************************************************************************)
EXTENDS Integers, Sequences

CONSTANTS Raws,      \* what a register may hold
          Answers    \* numbers an operator may mistake the display for

ObservedAssumption == Raws \subseteq Nat /\ Answers \subseteq Int

None == -1

\* A numeric observation: the registers of its fields, in the order the blocks are
\* polled, the divisor the code decodes them with, the way they are combined, the
\* tolerance and where the operator reads it.
Definition(registers, divisor, aggregate, tolerance, source) ==
  [registers |-> registers, divisor |-> divisor, aggregate |-> aggregate, tolerance |-> tolerance, source |-> source]

CORE_OBSERVATION_DEFS ==
  [soc |-> Definition(<<102>>, 1, "first", "soc", "device_screen"),
   output_watts |-> Definition(<<140, 142>>, 1, "sum_abs", "watts", "device_screen"),
   input_watts |-> Definition(<<144, 146>>, 1, "sum_abs", "watts", "device_screen"),
   ac_output_frequency |-> Definition(<<1300, 1500>>, 10, "first", "frequency", "device_screen"),
   ac_output_voltage |-> Definition(<<1431>>, 10, "first", "voltage", "multimeter"),
   grid_voltage |-> Definition(<<1314>>, 10, "first", "voltage", "multimeter"),
   pack_voltage |-> Definition(<<100>>, 100, "first", "voltage", "multimeter"),
   ac_output_state |-> Definition(<<2011>>, 1, "first", "exact", "device_screen"),
   dc_output_state |-> Definition(<<2012>>, 1, "first", "exact", "device_screen"),
   charging_mode |-> Definition(<<2020>>, 1, "first", "exact", "device_screen")]

\* The block a register is polled in.
BlockOf(r) ==
  CASE r < 162 -> 100 [] r \in 1300 .. 1330 -> 1300 [] r \in 1400 .. 1447 -> 1400
    [] r \in 1500 .. 1529 -> 1500 [] OTHER -> 2000

VARIABLES id,        \* the observation
          word,      \* what its registers hold
          scale,     \* the divisor the device means, which the code may have wrong
          blocks,    \* for its blocks: "pass", "unparsed" (read, not parsed), "failed"
          answer,    \* what the operator enters
          item       \* the check's outcome

vars == <<id, word, scale, blocks, answer, item>>

Def == CORE_OBSERVATION_DEFS[id]
Switch == id \in {"ac_output_state", "dc_output_state"}
Registers == {Def.registers[i] : i \in DOMAIN Def.registers}
Abs(n) == IF n < 0 THEN -n ELSE n
Larger(a, b) == IF a > b THEN a ELSE b
Hundredths(raw, divisor) == (100 * raw) \div divisor

\* The registers whose values tier 1 has.  Both frequencies have one name: the one
\* that was parsed last is kept.
Kept ==
  LET parsed == {i \in DOMAIN Def.registers : blocks[BlockOf(Def.registers[i])] = "pass"} IN
  IF id = "ac_output_frequency" THEN {i \in parsed : \A j \in parsed : j <= i} ELSE parsed

Read(i) == Hundredths(word[Def.registers[i]], Def.divisor)

\* resolve_observation_value: the first of the values, or the sum of what there is of
\* two.
Comparison ==
  IF Kept = {} THEN None
  ELSE IF Def.aggregate = "first" THEN Read(CHOOSE i \in Kept : \A j \in Kept : i <= j)
  ELSE (IF 1 \in Kept THEN Read(1) ELSE 0) + (IF 2 \in Kept THEN Read(2) ELSE 0)

\* Mutant: a tenth of the value is allowed for, and no least amount.
ToleranceRelative(parsed) == parsed \div 10

\* What the reading may be off by: a point, a hertz, two volts, a tenth or ten watts.
Tolerance(parsed) ==
  CASE Def.tolerance = "soc" -> 100
    [] Def.tolerance = "watts" -> Larger(parsed \div 10, 1000)
    [] Def.tolerance = "voltage" -> 200
    [] Def.tolerance = "frequency" -> 100
    [] OTHER -> 0

\* The first register of the fields, in the order the device lists them, that lies
\* in a block of which the bytes are known, parsed or not.
Looked ==
  LET known == {i \in DOMAIN Def.registers : blocks[BlockOf(Def.registers[i])] # "failed"} IN
  IF known = {} THEN None ELSE Def.registers[CHOOSE i \in known : \A j \in known : i <= j]

\* The scale at which a raw number is what was observed: a tenth, a hundredth, or
\* the number itself.
infer_scale(observed, raw) ==
  LET near(scaled) == 100 * Abs(observed - scaled) <= Larger(Larger(Abs(observed), Abs(scaled)), 100) IN
  IF raw = 0 THEN None
  ELSE IF near(10 * raw) THEN 10
  ELSE IF near(raw) THEN 100
  ELSE IF Abs(observed - 100 * raw) <= 50 THEN 1 ELSE None

Outcome(status, inferred, ref) == [status |-> status, inferred |-> inferred, ref |-> ref]

compare_observation(observed) ==
  LET match == Abs(observed - Comparison) <= Tolerance(Comparison) IN
  Outcome(IF match THEN "match" ELSE "mismatch",
          IF match \/ Looked = None \/ Def.tolerance = "exact" THEN None ELSE infer_scale(observed, word[Looked]),
          Looked)

\* What the device shows, and the readings of it an operator may enter: to the
\* last digit, rounded to a whole number, or something else.
Display ==
  IF Def.aggregate = "sum_abs"
  THEN Hundredths(word[Def.registers[1]], scale) + Hundredths(word[Def.registers[2]], scale)
  ELSE Hundredths(word[Def.registers[Len(Def.registers)]], scale)

Rounded(n) == 100 * ((n + 50) \div 100)

Readings == IF Def.tolerance = "exact" THEN {0, 100} ELSE {Display, Rounded(Display)} \cup Answers

Empty == [kind |-> "empty", low |-> None, high |-> None]
Entered == {[kind |-> "one", low |-> n, high |-> n] : n \in Readings}
           \cup (IF Def.tolerance = "exact" THEN {}
                 ELSE {[kind |-> "levels", low |-> n, high |-> m] : n \in Answers, m \in {Display}}
                      \cup {[kind |-> "levels", low |-> n, high |-> m] : n \in {Display}, m \in Answers})
           \cup {[kind |-> "words", low |-> None, high |-> None], Empty}

Init ==
  /\ id \in DOMAIN CORE_OBSERVATION_DEFS
  /\ word \in [Registers -> IF Def.tolerance = "exact" THEN {0, 1} ELSE Raws]
  /\ scale \in IF Def.tolerance = "exact" THEN {1} ELSE {1, 10, 100}
  /\ blocks \in [{BlockOf(r) : r \in Registers} -> {"pass", "unparsed", "failed"}]
  /\ answer = Empty
  /\ item = Outcome("new", None, None)

\* build_observation_items: an observation without a value is not asked for.
Build ==
  /\ item.status = "new"
  /\ item' = Outcome(IF Comparison = None THEN "unanchored" ELSE "pending", None, None)
  /\ UNCHANGED <<id, word, scale, blocks, answer>>

\* What is made of an answer: nothing entered is a skip, or no source where one needs
\* a meter; two levels match when one of them does; words are a mismatch, but for a
\* switch, where what is not on, yes, true, 1 or y is off.
Checked(entered) ==
  CASE entered.kind = "empty" ->
         Outcome(IF Def.source = "multimeter" THEN "unanchored" ELSE "skipped", None, None)
    [] entered.kind = "levels" ->
         LET first == compare_observation(entered.low)
             second == compare_observation(entered.high)
         IN IF first.status = "match" THEN first
            ELSE IF second.status = "match" THEN second
            ELSE Outcome("mismatch", None, Looked)
    [] entered.kind = "words" /\ ~Switch -> Outcome("mismatch", None, Looked)
    [] entered.kind = "words" /\ Switch -> compare_observation(0)
    [] OTHER -> compare_observation(entered.low)

\* run_observations.
Ask ==
  /\ item.status = "pending"
  /\ \E entered \in Entered : answer' = entered /\ item' = Checked(entered)
  /\ UNCHANGED <<id, word, scale, blocks>>

Next == Build \/ Ask

-----------------------------------------------------------------------------
Complete == \A b \in DOMAIN blocks : blocks[b] = "pass"

\* What the report says of an observation is so.  When the blocks were read, the
\* code's divisor is the device's, and the operator reads the display, to the last
\* digit or to the whole number, alone or as one of two levels, it is a match.  And
\* a scale it proposes on a mismatch is the one the device means, even when the
\* reading was rounded; known exceptions are the sums and the frequency, for which
\* the register that is looked up need not be one whose value was compared.
ObservationSound ==
  /\ (/\ item.status \in {"match", "mismatch"}
      /\ Complete /\ scale = Def.divisor
      /\ \/ answer.kind = "one" /\ answer.low \in {Display, Rounded(Display)}
         \/ answer.kind = "levels") => item.status = "match"
  /\ (/\ item.inferred # None
      /\ Len(Def.registers) = 1
      /\ answer.low \in {Display, Rounded(Display)}) => item.inferred = scale
=============================================================================
