------------------------------ MODULE VerifyRun ------------------------------
(***************************************************************************)
(* The verify command (cli/verify.py) as one writable register goes        *)
(* through it: tier 1 reads a baseline, tier 2 writes it back, tier 3      *)
(* probes, tiers 4 to 6 write it back once the operator agrees, the        *)
(* ground-truth mode hands the link over and later switches the register   *)
(* before the operator's eyes, and an audit compares it with the baseline. *)
(***************************************************************************)
EXTENDS VerifyProbe

VARIABLES
  tier,         \* of the field: 3 if automatic, 4 to 6, or 0 if in SKIP_AUTO
  maxTier,      \* the option --tier
  groundTruth,  \* the option --ground-truth
  initial,      \* history: what the register held before the run
  baseline,     \* what tier 1 read of it, -1 if nothing
  consented,    \* the field's tier is in consented_tiers
  identity,     \* tier 2 or supervised result: none, pass, default, fail
  note,         \* of the actuation: none, remark (skipped, denied), failure
  audit         \* none, clean, deviation, unread

optionVars == <<tier, maxTier, groundTruth, initial>>
reportVars == <<consented, identity, note, audit>>
runVars == <<optionVars, baseline, reportVars>>
vars == <<probeVars, runVars>>

-----------------------------------------------------------------------------
(* Where the run goes after tier n, as far as this field takes part.       *)

Closing == IF groundTruth THEN "gate" ELSE "audit"

Onward(n) ==
  CASE tier = 3 /\ n = 1 /\ maxTier >= 2     -> "tier2"
    [] tier = 3 /\ n = 2 /\ maxTier >= 3     -> "probe"
    [] tier >= 4 /\ n = 1 /\ maxTier >= tier -> "consent"
    [] OTHER                                 -> Closing

\* The block of the register may not be readable, or the number out of the declared
\* range; then a safe default stands in.
Tier1 ==
  /\ pc = "tier1" /\ pc' = IF groundTruth THEN "handoff" ELSE Onward(1)
  /\ \/ Read /\ InRange(reg) /\ baseline' = Parsed(reg) /\ original' = baseline'
     \/ /\ (Read /\ ~InRange(reg)) \/ ReadRaises
        /\ baseline' = -1 /\ original' = safe_default
  /\ UNCHANGED <<deviceVars, sweepVars, optionVars, reportVars>>

\* The link goes to the vendor's app; without it back, the run ends here.
Handoff ==
  /\ pc = "handoff" /\ pc' \in {Onward(1), "ended"}
  /\ UNCHANGED <<deviceVars, reg, failures, original, sweepVars, runVars>>

Consent ==
  /\ pc = "consent"
  /\ \/ pc' = "tier2" /\ consented' = TRUE
     \/ pc' = Closing /\ UNCHANGED consented
  /\ UNCHANGED <<deviceVars, reg, failures, original, sweepVars, optionVars, baseline, identity, note, audit>>

\* run_tier2, also for the supervised tiers: the baseline or the safe default
\* is written, and the register itself compared with it.
IdentityWrite ==
  /\ pc = "tier2"
  /\ \/ Write(original) /\ pc' = "reread" /\ UNCHANGED identity
     \/ WriteRaises(original) /\ pc' = Onward(2) /\ identity' = "fail"
  /\ UNCHANGED <<deviceVars, original, sweepVars, optionVars, baseline, consented, note, audit>>

IdentityRead ==
  /\ pc = "reread" /\ pc' = Onward(2)
  /\ \/ Read /\ identity' = IF reg # original THEN "fail" ELSE IF baseline = -1 THEN "default" ELSE "pass"
     \/ ReadRaises /\ identity' = "fail"
  /\ UNCHANGED <<deviceVars, original, sweepVars, optionVars, baseline, consented, note, audit>>

Tier3 == ProbeNext /\ UNCHANGED runVars

Tier3Ends ==
  /\ pc = "probed" /\ pc' = Closing
  /\ UNCHANGED <<deviceVars, reg, failures, original, sweepVars, runVars>>

-----------------------------------------------------------------------------
(* Ground truth: actuate and confirm.                                      *)

\* Mutant: consent to a tier is not asked for.
CandidateAnyTier(t) == t \in 3..5

\* _is_actuate_candidate: tiers 1 to 3 count as consented whether they ran or not.
Candidate(t) == t = 3 \/ (t \in {4, 5} /\ consented)

\* _other_value: a mode with no other member is not actuated.
Others == IF kind = "bool" THEN {1 - (original % 2)} ELSE declared \ {original}

Other == Min(Others)

\* Some automatic fields have their remark from the start: nothing on the screen
\* confirms them.
Actuate ==
  /\ pc = "gate"
  /\ \/ pc' = "audit" /\ UNCHANGED <<reg, failures, note>>
     \/ /\ kind # "numeric" /\ Candidate(tier) /\ baseline # -1 /\ Others # {}
        /\ \/ Write(Other) /\ pc' = "actuated" /\ note' \in IF tier = 3 THEN {"none", "remark"} ELSE {"none"}
           \/ WriteRaises(Other) /\ pc' = "audit" /\ note' = "failure"
  /\ UNCHANGED <<deviceVars, original, sweepVars, optionVars, baseline, consented, identity, audit>>

Confirm ==
  /\ pc = "actuated" /\ pc' = "undo"
  /\ \/ Read /\ note' \in {note, "remark"}
     \/ ReadRaises /\ note' = "failure"
  /\ UNCHANGED <<deviceVars, original, sweepVars, optionVars, baseline, consented, identity, audit>>

\* That the restore failed is noted only where there is no note yet.
Undo ==
  /\ pc = "undo" /\ pc' = "audit"
  /\ \/ Write(original) /\ UNCHANGED note
     \/ WriteRaises(original) /\ note' = IF note = "none" THEN "failure" ELSE note
  /\ UNCHANGED <<deviceVars, original, sweepVars, optionVars, baseline, consented, identity, audit>>

-----------------------------------------------------------------------------

\* Not after tier 1 alone, and not of a field without a baseline; what is compared
\* is the parsed value, and one that parse does not keep is passed over.
Audit ==
  /\ pc = "audit" /\ pc' = "ended"
  /\ IF maxTier < 2 \/ baseline = -1
     THEN UNCHANGED <<audit, failures>>
     ELSE \/ Read /\ audit' = IF InRange(reg) /\ Parsed(reg) # baseline THEN "deviation" ELSE "clean"
          \/ ReadRaises /\ audit' = "unread"
  /\ UNCHANGED <<deviceVars, reg, original, sweepVars, optionVars, baseline, consented, identity, note>>

\* The operator interrupts: the report has what was finished before.
Interrupt ==
  /\ pc \notin {"ended", "interrupted"} /\ pc' = "interrupted"
  /\ UNCHANGED <<deviceVars, reg, failures, original, sweepVars, runVars>>

Init ==
  /\ ProbeInit /\ pc = "tier1"
  /\ tier \in {0, 3, 4, 5, 6} /\ (kind = "numeric" => tier \in {0, 3})
  /\ maxTier \in 1..6 /\ groundTruth \in BOOLEAN
  /\ initial = reg /\ baseline = -1 /\ consented = FALSE
  /\ identity = "none" /\ note = "none" /\ audit = "none"

Next ==
  \/ Tier1 \/ Handoff \/ Consent \/ IdentityWrite \/ IdentityRead
  \/ Tier3 \/ Tier3Ends \/ Actuate \/ Confirm \/ Undo \/ Audit \/ Interrupt

Spec == Init /\ [][Next]_vars

-----------------------------------------------------------------------------

\* Types; the register holds what the device takes, and what tier 1 read is what
\* parse makes of the register before the run.
TypeOK ==
  /\ pc \in {"tier1", "handoff", "consent", "tier2", "reread", "probe", "write", "readback",
              "restore", "check", "probed", "gate", "actuated", "undo", "audit", "ended", "interrupted"}
  /\ takes \subseteq Values /\ reg \in takes /\ baseline \in {-1, Parsed(initial)}
  /\ value \in Values /\ zone \in {"pre", "in", "post"} /\ accepted \subseteq takes
  /\ rejections \in 0..2 /\ (rejections > 0 <=> zone = "post")
  /\ status \in {"none", "pass", "fail"} /\ identity \in {"none", "pass", "default", "fail"}
  /\ note \in {"none", "remark", "failure"} /\ audit \in {"none", "clean", "deviation", "unread"}

\* What a switch may hold that is neither on nor off to the code.
OddSwitch == kind = "bool" /\ initial \notin {0, 1}

\* A run that was not interrupted and reports no failure of the field leaves in it
\* what it held before.  The code leaves that open in four ways: a switch that held
\* neither 0 nor 1 is written back as off (verify.py:123), a probe write of the sweep
\* that raised and was applied (verify.py:458), a sweep over a device that clamps
\* (verify.py:512), and a failed restore whose note is taken by a remark
\* (ground_truth.py:809).
Restored ==
  pc = "ended" /\ reg # initial =>
    \/ status = "fail" \/ identity \in {"default", "fail"} \/ note = "failure"
    \/ OddSwitch
    \/ kind = "numeric" /\ (failures > 0 \/ clamps)
    \/ note = "remark" /\ failures > 0

\* A field whose identity write and sweep pass, and whose note tells of no failure, holds
\* what it held before the run: an identity write leaves the device as it was, and the
\* original value is restored after each probe (docs/source/user-guide/verify.md:43, 72).
Unchanged ==
  pc = "ended" /\ identity = "pass" /\ status = "pass" /\ note # "failure" => reg = initial

\* Two rejections in a row: the range has ended.
Gap(v) == v \in Values \ takes /\ v + 1 \in Values \ takes

\* Without failures the sweep finds every value the device takes up to the
\* first gap of two after one of them, also where clamping moves the register.
RangeFound ==
  kind = "numeric" /\ failures = 0 /\ status = "pass" =>
    accepted = {v \in takes : ~\E g \in Values : Min(takes) < g /\ g < v /\ Gap(g)}

\* A field of a supervised tier changes only with the operator's consent to its tier,
\* an irreversible one only if what tier 1 read is not what the register held, and
\* one of SKIP_AUTO never.
Consented ==
  tier # 3 /\ reg # initial => consented /\ (tier = 6 => baseline # initial)
=============================================================================
