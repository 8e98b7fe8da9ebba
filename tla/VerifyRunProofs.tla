--------------------------- MODULE VerifyRunProofs ---------------------------
(***************************************************************************)
(* Proofs about the verify command, for any device, any range of the       *)
(* register and any commands that raise: the types, the operator's         *)
(* consent, what the run leaves in the register, and what the sweep finds. *)
(***************************************************************************)
EXTENDS VerifyRun, WellFoundedInduction, TLAPS

\* Nothing is written before tier 1 has read, and what is written back is what parse
\* made of the register.
Baselined ==
  /\ initial \in takes /\ initial \in Nat
  /\ pc = "tier1" => reg = initial
  /\ baseline # -1 => original = baseline /\ baseline = Parsed(initial)

\* Where the run can write, the field is automatic or its tier consented to.
Permitted ==
  /\ tier \in {0, 3, 4, 5, 6}
  /\ pc = "consent" => tier >= 4
  /\ pc \in {"tier2", "reread"} => tier = 3 \/ consented
  /\ pc \in {"probe", "write", "readback", "restore", "check", "probed"} => tier = 3
  /\ pc \in {"actuated", "undo"} => tier = 3 \/ (tier \in {4, 5} /\ consented)

IInv == Baselined /\ Permitted /\ Consented

\* The run starts with what the register holds.
LEMMA InitInv == Init => IInv
<1> SUFFICES ASSUME Init PROVE IInv
  OBVIOUS
<1>1. initial \in takes /\ initial \in Nat
  BY ProbeAssumption DEF Init, ProbeInit, Values
<1> QED
  BY <1>1 DEF Init, ProbeInit, IInv, Baselined, Permitted, Consented

\* Where a tier ends: a supervised field comes to the question, and no other field
\* than an automatic one to a write without it.
LEMMA OnwardStages ==
  ASSUME Permitted, NEW n \in 1..2
  PROVE  /\ Onward(n) \in {"tier2", "probe", "consent", "gate", "audit"}
         /\ Onward(n) = "tier2" => tier = 3
         /\ Onward(n) = "probe" => tier = 3
         /\ Onward(n) = "consent" => tier >= 4
BY DEF Onward, Closing, Permitted

\* Writing the baseline back changes nothing on a device that held it.
LEMMA BaselineKept ==
  ASSUME Baselined, baseline = initial
  PROVE  Made(original) = initial
BY DEF Baselined, Made

\* A step that leaves the register, and the field's data, as they are.
LEMMA QuietInv ==
  ASSUME IInv, UNCHANGED <<kind, takes, initial, reg, baseline, original, tier>>,
         consented => consented', pc' # "tier1", Permitted'
  PROVE  IInv'
BY DEF IInv, Baselined, Consented, Parsed

\* A write of a field that is automatic, or consented to, or its baseline.
LEMMA WriteInv ==
  ASSUME IInv, UNCHANGED <<kind, takes, initial, baseline, original, tier, consented>>,
         pc' # "tier1", Permitted',
         \/ tier = 3
         \/ consented /\ tier # 6
         \/ consented /\ reg' \in {reg, Made(original)}
  PROVE  IInv'
<1>1. Baselined'
  BY DEF IInv, Baselined, Parsed
<1>2. Consented'
  BY BaselineKept DEF IInv, Consented, Permitted
<1> QED
  BY <1>1, <1>2 DEF IInv

\* What reads, asks and ends.
LEMMA ReadingInv ==
  ASSUME IInv, Tier1 \/ Handoff \/ Consent \/ IdentityRead \/ Tier3Ends \/ Confirm \/ Audit \/ Interrupt
  PROVE  IInv'
<1>1. CASE Tier1
  <2>1. /\ UNCHANGED <<kind, takes, initial, tier, consented>> /\ reg' = initial /\ reg = initial
        /\ baseline' = -1 \/ (original' = baseline' /\ baseline' = Parsed(initial))
    BY <1>1 DEF Tier1, Read, ReadRaises, Raise, deviceVars, optionVars, reportVars, IInv, Baselined
  <2>2. pc' \in {"handoff", Onward(1)}
    BY <1>1 DEF Tier1
  <2>3. Permitted' /\ pc' # "tier1"
    BY <2>1, <2>2, OnwardStages DEF IInv, Permitted
  <2> QED
    BY <2>1, <2>3 DEF IInv, Baselined, Consented, Parsed
<1>2. CASE Handoff
  <2>1. /\ UNCHANGED <<kind, takes, initial, reg, baseline, original, tier, consented>>
        /\ pc' \in {"ended", Onward(1)}
    BY <1>2 DEF Handoff, deviceVars, runVars, optionVars, reportVars
  <2> QED
    BY <2>1, OnwardStages, QuietInv DEF IInv, Permitted
<1>3. CASE Consent
  <2>1. /\ UNCHANGED <<kind, takes, initial, reg, baseline, original, tier>> /\ tier >= 4
        /\ \/ pc' = "tier2" /\ consented'
           \/ pc' \in {"gate", "audit"} /\ consented' = consented
    BY <1>3 DEF Consent, Closing, deviceVars, optionVars, IInv, Permitted
  <2>2. Permitted' /\ pc' # "tier1" /\ (consented => consented')
    BY <2>1 DEF IInv, Permitted
  <2> QED
    BY <2>1, <2>2, QuietInv
<1>4. CASE IdentityRead
  <2>1. /\ UNCHANGED <<kind, takes, initial, reg, baseline, original, tier, consented>>
        /\ pc' = Onward(2)
    BY <1>4 DEF IdentityRead, Read, ReadRaises, Raise, deviceVars, optionVars
  <2> QED
    BY <2>1, OnwardStages, QuietInv DEF IInv, Permitted
<1>5. CASE Confirm
  <2>1. /\ UNCHANGED <<kind, takes, initial, reg, baseline, original, tier, consented>>
        /\ pc = "actuated" /\ pc' = "undo"
    BY <1>5 DEF Confirm, Read, ReadRaises, Raise, deviceVars, optionVars
  <2>2. Permitted'
    BY <2>1 DEF IInv, Permitted
  <2> QED
    BY <2>1, <2>2, QuietInv
<1>6. CASE Tier3Ends \/ Audit \/ Interrupt
  <2>1. /\ UNCHANGED <<kind, takes, initial, reg, baseline, original, tier, consented>>
        /\ pc' \in {"gate", "audit", "ended", "interrupted"}
    BY <1>6 DEF Tier3Ends, Audit, Interrupt, Closing, Read, ReadRaises, Raise,
                deviceVars, optionVars, runVars, reportVars
  <2>2. Permitted'
    BY <2>1 DEF IInv, Permitted
  <2> QED
    BY <2>1, <2>2, QuietInv
<1> QED
  BY <1>1, <1>2, <1>3, <1>4, <1>5, <1>6

\* What writes.
LEMMA WritingInv ==
  ASSUME IInv, IdentityWrite \/ Tier3 \/ Actuate \/ Undo
  PROVE  IInv'
<1>1. CASE IdentityWrite
  <2>1. /\ UNCHANGED <<kind, takes, initial, baseline, original, tier, consented>>
        /\ pc = "tier2" /\ pc' \in {"reread", Onward(2)} /\ reg' \in {reg, Made(original)}
    BY <1>1 DEF IdentityWrite, Write, WriteRaises, deviceVars, optionVars
  <2>2. tier = 3 \/ consented
    BY <2>1 DEF IInv, Permitted
  <2>3. Permitted' /\ pc' # "tier1"
    BY <2>1, <2>2, OnwardStages DEF IInv, Permitted
  <2> QED
    BY <2>1, <2>2, <2>3, WriteInv
<1>2. CASE Tier3
  <2>1. UNCHANGED <<kind, takes, initial, baseline, original, tier, consented>>
    BY <1>2 DEF Tier3, ProbeNext, deviceVars, runVars, optionVars, reportVars
  <2>2. pc \in {"probe", "write", "readback", "restore", "check"}
    BY <1>2 DEF Tier3, ProbeNext, ProbeStart, ProbeWrite, Readback, Restore, Check
  <2>3. tier = 3
    BY <2>2 DEF IInv, Permitted
  <2>4. pc' \in {"write", "readback", "restore", "check", "probed"}
    <3>1. \A v : Probe(v) => pc' = "write"
      BY DEF Probe
    <3>2. \A s : Finish(s) => pc' = "probed"
      BY DEF Finish
    <3>3. Proceed => pc' \in {"write", "probed"}
      BY <3>1, <3>2 DEF Proceed
    <3>4. \A c : RestoreIf(c) => pc' \in {"restore", "write", "probed"}
      BY <3>3 DEF RestoreIf
    <3>5. \A c : Toggled(c) => pc' \in {"restore", "write", "probed"}
      BY <3>4 DEF Toggled
    <3> QED
      BY <1>2, <3>1, <3>2, <3>3, <3>4, <3>5
         DEF Tier3, ProbeNext, ProbeStart, ProbeWrite, Readback, Restore, Check
  <2>5. Permitted'
    BY <2>1, <2>3, <2>4 DEF IInv, Permitted
  <2> QED
    BY <2>1, <2>3, <2>4, <2>5, WriteInv
<1>3. CASE Actuate
  <2>1. /\ UNCHANGED <<kind, takes, initial, baseline, original, tier, consented>>
        /\ pc' \in {"audit", "actuated"}
        /\ (UNCHANGED reg /\ pc' = "audit") \/ Candidate(tier)
    BY <1>3 DEF Actuate, deviceVars, optionVars
  <2>2. Permitted'
    BY <2>1 DEF IInv, Permitted, Candidate
  <2>3. CASE UNCHANGED reg
    BY <2>1, <2>2, <2>3, QuietInv
  <2>4. CASE Candidate(tier)
    BY <2>1, <2>2, <2>4, WriteInv DEF Candidate
  <2> QED
    BY <2>1, <2>3, <2>4
<1>4. CASE Undo
  <2>1. /\ UNCHANGED <<kind, takes, initial, baseline, original, tier, consented>>
        /\ pc = "undo" /\ pc' = "audit"
    BY <1>4 DEF Undo, deviceVars, optionVars
  <2>2. Permitted' /\ (tier = 3 \/ (consented /\ tier # 6))
    BY <2>1 DEF IInv, Permitted
  <2> QED
    BY <2>1, <2>2, WriteInv
<1> QED
  BY <1>1, <1>2, <1>3, <1>4

\* Every step keeps the invariant.
LEMMA NextInv ==
  ASSUME IInv, [Next]_vars
  PROVE  IInv'
<1>1. CASE UNCHANGED vars
  BY <1>1 DEF vars, probeVars, runVars, deviceVars, optionVars, reportVars,
              IInv, Baselined, Permitted, Consented, Parsed
<1>2. CASE Next
  BY <1>2, ReadingInv, WritingInv DEF Next
<1> QED
  BY <1>1, <1>2

\* Wherever commands raise and the operator interrupts: a register of a supervised
\* tier holds what it held before the run unless the operator consented to that tier,
\* and an irreversible one with a baseline, or one of SKIP_AUTO, in any case.
THEOREM VerifyConsented == Spec => []Consented
<1>1. Init => IInv
  BY InitInv
<1>2. IInv /\ [Next]_vars => IInv'
  BY NextInv
<1>3. IInv => Consented
  BY DEF IInv
<1> QED
  BY <1>1, <1>2, <1>3, PTL DEF Spec

-----------------------------------------------------------------------------
(* Types, and where the run is.                                            *)

Early == {"tier1", "handoff", "consent", "tier2", "reread"}

Probing == {"write", "readback", "restore", "check"}

\* What TypeOK needs to be inductive: a report is written once, and a probe goes on
\* only where fewer than two values in a row were rejected.
Typed ==
  /\ TypeOK
  /\ kind \in {"bool", "enum", "numeric"} /\ clamps \in BOOLEAN /\ failures \in Nat /\ original \in Values
  /\ declared # {} /\ declared \subseteq Values
  /\ kind # "numeric" => zone = "pre"
  /\ pc \in Early \cup {"probe"} => zone = "pre" /\ accepted = {}
  /\ pc \in {"write", "readback"} => rejections < 2
  /\ pc \in Early => identity = "none"
  /\ pc \in Early \cup {"probe"} \cup Probing => status = "none"
  /\ pc \in Early \cup {"probe", "probed", "gate"} \cup Probing => note = "none"
  /\ pc = "actuated" => note # "failure"

\* A set of numbers that is not empty has a least element, and a bounded one a largest.
LEMMA LeastOf ==
  ASSUME NEW S \in SUBSET Nat, S # {}
  PROVE  \E x \in S : \A y \in S : x <= y
<1> DEFINE R == OpToRel(<, Nat)
<1>1. PICK x \in S : \A y \in S : ~(<<y, x>> \in R)
  <2>1. IsWellFoundedOn(R, Nat)
    BY NatLessThanWellFounded
  <2> HIDE DEF R
  <2> QED
    BY <2>1, WFMin
<1>2. \A y \in S : ~(y < x)
  BY <1>1 DEF OpToRel
<1> QED
  BY <1>2

LEMMA LeastIs ==
  ASSUME NEW S \in SUBSET Nat, S # {}
  PROVE  Min(S) \in S /\ \A y \in S : Min(S) <= y
BY LeastOf DEF Min

LEMMA LargestIs ==
  ASSUME NEW n \in Nat, NEW S \in SUBSET (0..n), S # {}
  PROVE  Max(S) \in S /\ \A y \in S : y <= Max(S)
<1> DEFINE T == {n - x : x \in S}
<1>1. \A x \in S : x \in 0..n /\ n - x \in Nat
  OBVIOUS
<1>2. T \in SUBSET Nat
  BY <1>1
<1>3. T # {}
  <2>1. PICK x \in S : TRUE
    OBVIOUS
  <2>2. n - x \in T
    BY <2>1
  <2> QED
    BY <2>2
<1>4. PICK t \in T : \A y \in T : t <= y
  BY <1>2, <1>3, LeastOf
<1>5. PICK x \in S : t = n - x
  OBVIOUS
<1>6. \A y \in S : y <= x
  <2> TAKE y \in S
  <2>1. n - y \in T
    OBVIOUS
  <2> HIDE DEF T
  <2> QED
    BY <1>1, <1>4, <1>5, <2>1
<1> HIDE DEF T
<1> QED
  BY <1>6 DEF Max

\* What the device makes of a write is a value it takes, and the value that was
\* written if it takes that.
LEMMA MadeOf ==
  ASSUME Typed, NEW v
  PROVE  /\ Made(v) \in takes /\ (Made(v) = v <=> v \in takes)
         /\ v \notin takes /\ ~clamps => Made(v) = reg
<1>1. takes # {} /\ takes \in SUBSET (0..Cap) /\ Cap \in Nat
  BY ProbeAssumption DEF Typed, TypeOK, Values
<1>2. Max(takes) \in takes
  BY <1>1, LargestIs
<1> QED
  BY <1>2 DEF Made, Typed, TypeOK

\* The values a probe goes through.
LEMMA CandidatesOf ==
  ASSUME Typed
  PROVE  /\ Candidates \in SUBSET Nat /\ Candidates # {} /\ Candidates \subseteq Values
         /\ kind = "numeric" => Candidates = Values
<1>1. original % 2 \in {0, 1} /\ 0 \in Values /\ 1 \in Values /\ Values \subseteq Nat
  BY ProbeAssumption DEF Typed, Values
<1>2. declared # {} /\ declared \subseteq Values
  BY DEF Typed
<1>3. CASE kind = "bool"
  BY <1>1, <1>3 DEF Candidates
<1>4. CASE kind = "enum"
  BY <1>1, <1>2, <1>4 DEF Candidates
<1>5. CASE kind = "numeric"
  BY <1>1, <1>5 DEF Candidates
<1> QED
  BY <1>3, <1>4, <1>5 DEF Typed

LEMMA NextOf ==
  ASSUME NEW n \in Values
  PROVE  /\ {v \in Values : v > n} = {} <=> n = Cap
         /\ n # Cap => Min({v \in Values : v > n}) = n + 1
<1>1. Cap \in Nat /\ n \in 0..Cap
  BY ProbeAssumption DEF Values
<1>2. n # Cap => n + 1 \in {v \in Values : v > n}
  BY <1>1 DEF Values
<1>3. \A v \in {u \in Values : u > n} : v >= n + 1 /\ v <= Cap /\ v \in Nat
  BY <1>1 DEF Values
<1>4. n = Cap => {v \in Values : v > n} = {}
  BY <1>1 DEF Values
<1> DEFINE S == {v \in Values : v > n}
<1>5. ASSUME n # Cap PROVE Min(S) = n + 1
  <2>1. S \in SUBSET Nat /\ S # {} /\ n + 1 \in S /\ \A v \in S : v >= n + 1
    BY <1>2, <1>3, <1>5
  <2> HIDE DEF S
  <2>2. Min(S) \in S /\ \A v \in S : Min(S) <= v
    BY <2>1, LeastIs
  <2>3. Min(S) \in Nat /\ Min(S) <= n + 1 /\ Min(S) >= n + 1
    BY <2>1, <2>2
  <2> QED
    BY <1>1, <2>3
<1> QED
  BY <1>2, <1>4, <1>5

\* The sweep goes on to the next value, and every probe to one of its candidates, or
\* the probes are over.
LEMMA ProceedOf ==
  ASSUME Typed, Proceed
  PROVE  \/ /\ pc' = "write" /\ status' = status /\ value' \in Values
            /\ kind = "numeric" =>
                 value' = value + 1 /\ ~(zone' = "post" /\ Ended(rejections'))
         \/ /\ pc' = "probed" /\ status' = "pass" /\ value' = value
            /\ kind = "numeric" => value = Cap \/ (zone' = "post" /\ Ended(rejections'))
<1> DEFINE rest == {v \in Candidates : v > value}
<1>1. value \in Values
  BY DEF Typed, TypeOK
<1>2. rest \in SUBSET Nat /\ rest \subseteq Values
  BY CandidatesOf
<1>3. CASE rest = {} \/ (kind = "numeric" /\ zone' = "post" /\ Ended(rejections'))
  <2>1. pc' = "probed" /\ status' = "pass" /\ value' = value
    BY <1>3 DEF Proceed, Finish
  <2>2. kind = "numeric" => value = Cap \/ (zone' = "post" /\ Ended(rejections'))
    BY <1>1, <1>3, CandidatesOf, NextOf
  <2> QED
    BY <2>1, <2>2
<1>4. CASE ~(rest = {} \/ (kind = "numeric" /\ zone' = "post" /\ Ended(rejections')))
  <2>1. pc' = "write" /\ status' = status /\ value' = Min(rest)
    BY <1>4 DEF Proceed, Probe
  <2>2. kind = "numeric" => rest = {v \in Values : v > value}
    BY CandidatesOf
  <2>3. kind = "numeric" => Min(rest) = value + 1
    BY <1>1, <1>4, <2>2, NextOf
  <2> HIDE DEF rest
  <2>4. Min(rest) \in Values
    BY <1>2, <1>4, LeastIs
  <2> QED
    BY <1>4, <2>1, <2>3, <2>4
<1> QED
  BY <1>3, <1>4

\* After a probe write: a restore, the next probe, or the end.
LEMMA RestoreIfOf ==
  ASSUME Typed, pc \in Probing, NEW changed, RestoreIf(changed)
  PROVE  /\ pc' \in {"restore", "write", "probed"} /\ value' \in Values
         /\ status' \in {"none", "pass"} /\ (pc' # "probed" => status' = "none")
         /\ pc' = "write" /\ kind = "numeric" => ~(zone' = "post" /\ Ended(rejections'))
<1>1. status = "none" /\ value \in Values
  BY DEF Typed, TypeOK, Probing
<1>2. CASE changed
  BY <1>1, <1>2 DEF RestoreIf
<1>3. CASE ~changed
  <2>1. Proceed
    BY <1>3 DEF RestoreIf
  <2> QED
    BY <1>1, <2>1, ProceedOf
<1> QED
  BY <1>2, <1>3

\* The sweep's zones, with what is accepted.
ZonesTyped ==
  /\ zone \in {"pre", "in", "post"} /\ rejections \in 0..2 /\ (rejections > 0 <=> zone = "post")
  /\ accepted \subseteq takes /\ (kind # "numeric" => zone = "pre")

LEMMA RejectOf ==
  ASSUME Typed, pc \in {"write", "readback"}, kind = "numeric", Reject, UNCHANGED <<takes, kind>>
  PROVE  ZonesTyped' /\ accepted' = accepted
<1>1. /\ zone \in {"pre", "in", "post"} /\ rejections \in 0..2 /\ (rejections > 0 <=> zone = "post")
      /\ rejections < 2 /\ accepted \subseteq takes
  BY DEF Typed, TypeOK
<1>2. CASE zone = "post"
  BY <1>1, <1>2 DEF Reject, ZonesTyped
<1>3. CASE zone = "in"
  BY <1>1, <1>3 DEF Reject, ZonesTyped
<1>4. CASE zone = "pre"
  BY <1>1, <1>4 DEF Reject, ZonesTyped
<1> QED
  BY <1>1, <1>2, <1>3, <1>4

\* A step of tier 3, by what it does to each part.
LEMMA ProbeTyped ==
  ASSUME Typed, Tier3
  PROVE  Typed'
<1>1. UNCHANGED <<kind, declared, takes, clamps, original, tier, maxTier, groundTruth, initial, baseline, consented,
                  identity, note, audit>>
  BY DEF Tier3, ProbeNext, deviceVars, runVars, optionVars, reportVars
<1>2. /\ pc \in {"probe"} \cup Probing
      /\ reg' \in takes /\ failures' \in Nat
  <2>1. reg \in takes /\ failures \in Nat
    BY DEF Typed, TypeOK
  <2>2. \A v : Write(v) \/ WriteRaises(v) => reg' \in takes /\ failures' \in Nat
    BY <2>1, MadeOf DEF Write, WriteRaises, Raise
  <2>3. Read \/ ReadRaises \/ UNCHANGED <<reg, failures>> => reg' \in takes /\ failures' \in Nat
    BY <2>1 DEF Read, ReadRaises, Raise
  <2> QED
    BY <2>2, <2>3 DEF Tier3, ProbeNext, ProbeStart, ProbeWrite, Readback, Restore, Check, Probing
<1>3. UNCHANGED zoneVars => ZonesTyped'
  BY <1>1 DEF zoneVars, ZonesTyped, Typed, TypeOK
<1> DEFINE Goes == /\ pc' \in Probing \cup {"probed"} /\ value' \in Values /\ status' \in {"none", "pass", "fail"}
                   /\ (pc' # "probed" => status' = "none") /\ ZonesTyped'
                   /\ pc' \in {"write", "readback"} => rejections' < 2
<1>4. Goes
  <2>1. CASE ProbeStart
    <3>1. pc' = "write" /\ value' = Min(Candidates) /\ status' = status /\ UNCHANGED zoneVars /\ pc = "probe"
      BY <2>1 DEF ProbeStart, Probe
    <3>2. Min(Candidates) \in Values
      BY CandidatesOf, LeastIs
    <3>3. status = "none" /\ zone = "pre" /\ rejections \in 0..2 /\ ~(rejections > 0)
      BY <3>1 DEF Typed, TypeOK
    <3>4. rejections' = rejections /\ rejections < 2
      BY <3>1, <3>3 DEF zoneVars
    <3> QED
      BY <1>3, <3>1, <3>2, <3>3, <3>4 DEF Probing
  <2>2. ASSUME NEW changed, RestoreIf(changed), pc \in Probing, ZonesTyped', UNCHANGED kind
        PROVE  Goes
    <3>1. ~(zone' = "post" /\ Ended(rejections')) /\ ZonesTyped' => rejections' < 2
      BY DEF ZonesTyped, Ended
    <3>2. ZonesTyped' /\ kind # "numeric" => rejections' < 2
      BY <1>1 DEF ZonesTyped
    <3> QED
      BY <2>2, <3>1, <3>2, RestoreIfOf DEF Probing
  <2>3. CASE ProbeWrite \/ Readback
    <3>1. pc \in {"write", "readback"} /\ pc \in Probing
      BY <2>3 DEF ProbeWrite, Readback, Probing
    <3>2. CASE \E raised : Toggled(raised)
      <4>1. UNCHANGED zoneVars /\ \E changed : RestoreIf(changed)
        BY <3>2 DEF Toggled
      <4> QED
        BY <1>1, <1>3, <2>2, <3>1, <4>1
    <3>3. CASE /\ kind = "numeric" /\ Reject /\ \E changed : RestoreIf(changed)
      BY <1>1, <2>2, <3>1, <3>3, RejectOf
    <3>4. CASE kind = "numeric" /\ Reject /\ Proceed
      <4>1. RestoreIf(FALSE)
        BY <3>4 DEF RestoreIf
      <4> QED
        BY <3>3, <3>4, <4>1
    <3>5. CASE kind = "numeric" /\ Read /\ reg = value /\ Accept /\ RestoreIf(reg # original)
      <4>1. ZonesTyped'
        BY <1>1, <3>5 DEF Accept, ZonesTyped, Typed, TypeOK
      <4> QED
        BY <1>1, <2>2, <3>1, <3>5, <4>1
    <3>6. CASE pc = "write" /\ pc' = "readback" /\ UNCHANGED sweepVars
      <4>1. UNCHANGED zoneVars /\ value' = value /\ status' = status /\ rejections' = rejections
        BY <3>6 DEF sweepVars, zoneVars
      <4>2. rejections < 2 /\ status = "none" /\ value \in Values
        BY <3>6 DEF Typed, TypeOK, Probing
      <4> QED
        BY <1>3, <3>6, <4>1, <4>2 DEF Probing
    <3> QED
      BY <2>3, <3>2, <3>3, <3>4, <3>5, <3>6 DEF ProbeWrite, Readback
  <2>4. CASE Restore
    <3>1. /\ pc = "restore" /\ UNCHANGED zoneVars /\ value' = value
          /\ \/ pc' = "check" /\ status' = status
             \/ pc' = "probed" /\ status' = "fail"
      BY <2>4 DEF Restore, Finish
    <3>2. status = "none" /\ value \in Values
      BY <3>1 DEF Typed, TypeOK, Probing
    <3> QED
      BY <1>3, <3>1, <3>2 DEF Probing
  <2>5. CASE Check
    <3>1. pc = "check" /\ UNCHANGED zoneVars /\ (Proceed \/ (pc' = "probed" /\ status' = "fail" /\ value' = value))
      BY <2>5 DEF Check, Finish
    <3>2. CASE Proceed
      <4>1. RestoreIf(FALSE)
        BY <3>2 DEF RestoreIf
      <4> QED
        BY <1>1, <1>3, <2>2, <3>1, <4>1 DEF Probing
    <3>3. CASE pc' = "probed" /\ status' = "fail" /\ value' = value
      BY <1>3, <3>1, <3>3 DEF Typed, TypeOK
    <3> QED
      BY <3>1, <3>2, <3>3
  <2> QED
    BY <2>1, <2>3, <2>4, <2>5 DEF Tier3, ProbeNext
<1>5. TypeOK'
  BY <1>1, <1>2, <1>4 DEF Typed, TypeOK, ZonesTyped, Probing, Values, Parsed
<1>6. note' = "none"
  BY <1>1, <1>2 DEF Typed
<1> QED
  BY <1>1, <1>2, <1>4, <1>5, <1>6 DEF Typed, ZonesTyped, Probing, Early, Values

\* Where a tier ends, nothing is under way.
LEMMA OnwardEarly ==
  ASSUME NEW n \in 1..2
  PROVE  /\ Onward(n) \in {"tier2", "probe", "consent", "gate", "audit"}
         /\ n = 1 => Onward(n) # "probe"
         /\ n = 2 => Onward(n) \in {"probe", "gate", "audit"}
BY DEF Onward, Closing

\* What Typed says of the sweep does not change outside tier 3.
LEMMA SweepKept ==
  ASSUME Typed, UNCHANGED <<kind, declared, takes, clamps, value, zone, rejections, accepted, status>>,
         reg' \in takes, failures' \in Nat, original' \in Values, initial' = initial, baseline' \in {-1, Parsed(initial)},
         pc' \in Early \cup {"probe", "probed", "gate", "actuated", "undo", "audit", "ended", "interrupted"},
         pc' \in Early \cup {"probe"} => pc \in Early,
         identity' \in {"none", "pass", "default", "fail"}, pc' \in Early => identity' = "none",
         note' \in {"none", "remark", "failure"}, audit' \in {"none", "clean", "deviation", "unread"},
         pc' \in Early \cup {"probe", "probed", "gate"} => note' = "none",
         pc' = "actuated" => note' # "failure"
  PROVE  Typed'
<1>1. TypeOK'
  BY DEF Typed, TypeOK, Early, Values, Parsed
<1> QED
  BY <1>1 DEF Typed, Early, Probing, Values

\* A step outside tier 3 that reports what it does.
LEMMA OtherTyped ==
  ASSUME IInv, Typed,
         \/ Tier1 \/ Handoff \/ Consent \/ IdentityWrite \/ IdentityRead
         \/ Tier3Ends \/ Actuate \/ Confirm \/ Undo \/ Audit \/ Interrupt
  PROVE  Typed'
<1>1. /\ reg \in takes /\ failures \in Nat /\ original \in Values /\ baseline \in {-1, Parsed(initial)}
      /\ takes \subseteq Values /\ 0 \in Values
      /\ identity \in {"none", "pass", "default", "fail"} /\ note \in {"none", "remark", "failure"}
      /\ audit \in {"none", "clean", "deviation", "unread"}
  BY ProbeAssumption DEF Typed, TypeOK, Values
<1>2. \A v : Write(v) \/ WriteRaises(v) => reg' \in takes /\ failures' \in Nat
  BY <1>1, MadeOf DEF Write, WriteRaises, Raise
<1>3. Read \/ ReadRaises => reg' = reg /\ failures' \in Nat
  BY <1>1 DEF Read, ReadRaises, Raise
<1>4. CASE Tier1
  <2>1. /\ UNCHANGED <<kind, declared, takes, clamps, value, zone, rejections, accepted, status, initial, identity, note, audit>>
        /\ pc = "tier1" /\ pc' \in {"handoff", Onward(1)} /\ (Read \/ ReadRaises)
        /\ \/ baseline' = Parsed(reg) /\ original' = Parsed(reg)
           \/ baseline' = -1 /\ original' = safe_default
    BY <1>4 DEF Tier1, deviceVars, sweepVars, zoneVars, optionVars, reportVars
  <2>2. reg = initial
    BY <2>1 DEF IInv, Baselined
  <2>3. identity = "none" /\ note = "none"
    BY <2>1 DEF Typed, Early
  <2>4. Parsed(reg) \in Values /\ safe_default \in Values
    <3>1. declared \in SUBSET Nat /\ declared # {} /\ declared \subseteq Values
      BY ProbeAssumption DEF Typed, Values
    <3>2. safe_default \in declared
      BY <3>1, LeastIs DEF safe_default
    <3> QED
      BY <1>1, <3>1, <3>2 DEF Parsed
  <2> QED
    BY <1>1, <1>3, <2>1, <2>2, <2>3, <2>4, OnwardEarly, SweepKept DEF Early
<1>5. CASE Handoff \/ Consent
  <2>1. /\ UNCHANGED <<kind, declared, takes, clamps, value, zone, rejections, accepted, status, initial, identity, note, audit,
                       reg, failures, original, baseline>>
        /\ pc \in {"handoff", "consent"} /\ pc' \in {"tier2", "gate", "audit", "ended", Onward(1)}
    BY <1>5 DEF Handoff, Consent, Closing, deviceVars, sweepVars, zoneVars, optionVars, runVars, reportVars
  <2>2. identity = "none" /\ note = "none"
    BY <2>1 DEF Typed, Early
  <2> QED
    BY <1>1, <2>1, <2>2, OnwardEarly, SweepKept DEF Early
<1>6. CASE IdentityWrite
  <2>1. /\ UNCHANGED <<kind, declared, takes, clamps, value, zone, rejections, accepted, status, initial, note, audit,
                       original, baseline>>
        /\ pc = "tier2" /\ (Write(original) \/ WriteRaises(original))
        /\ \/ pc' = "reread" /\ identity' = identity
           \/ pc' = Onward(2) /\ identity' = "fail"
    BY <1>6 DEF IdentityWrite, deviceVars, sweepVars, zoneVars, optionVars
  <2>2. identity = "none" /\ note = "none"
    BY <2>1 DEF Typed, Early
  <2> QED
    BY <1>1, <1>2, <2>1, <2>2, OnwardEarly, SweepKept DEF Early
<1>7. CASE IdentityRead
  <2>1. /\ UNCHANGED <<kind, declared, takes, clamps, value, zone, rejections, accepted, status, initial, note, audit,
                       original, baseline>>
        /\ pc = "reread" /\ pc' = Onward(2) /\ (Read \/ ReadRaises) /\ identity' \in {"pass", "default", "fail"}
    BY <1>7 DEF IdentityRead, deviceVars, sweepVars, zoneVars, optionVars
  <2>2. note = "none"
    BY <2>1 DEF Typed, Early
  <2> QED
    BY <1>1, <1>3, <2>1, <2>2, OnwardEarly, SweepKept DEF Early
<1>8. CASE Tier3Ends \/ Interrupt
  <2>1. /\ UNCHANGED <<kind, declared, takes, clamps, value, zone, rejections, accepted, status, initial, identity, note, audit,
                       reg, failures, original, baseline>>
        /\ \/ pc = "probed" /\ pc' \in {"gate", "audit"}
           \/ pc' = "interrupted"
    BY <1>8 DEF Tier3Ends, Interrupt, Closing, deviceVars, sweepVars, zoneVars, optionVars, runVars, reportVars
  <2>2. pc = "probed" => note = "none"
    BY DEF Typed, Early
  <2> QED
    BY <1>1, <2>1, <2>2, SweepKept DEF Early
<1>9. CASE Actuate
  <2>1. /\ UNCHANGED <<kind, declared, takes, clamps, value, zone, rejections, accepted, status, initial, identity, audit,
                       original, baseline>>
        /\ pc = "gate"
        /\ \/ pc' = "audit" /\ UNCHANGED <<reg, failures, note>>
           \/ Write(Other) /\ pc' = "actuated" /\ note' \in {"none", "remark"}
           \/ WriteRaises(Other) /\ pc' = "audit" /\ note' = "failure"
    BY <1>9 DEF Actuate, deviceVars, sweepVars, zoneVars, optionVars
  <2> QED
    BY <1>1, <1>2, <2>1, SweepKept DEF Early
<1>10. CASE Confirm
  <2>1. /\ UNCHANGED <<kind, declared, takes, clamps, value, zone, rejections, accepted, status, initial, identity, audit,
                       original, baseline>>
        /\ pc' = "undo" /\ (Read \/ ReadRaises) /\ note' \in {note, "remark", "failure"}
    BY <1>10 DEF Confirm, deviceVars, sweepVars, zoneVars, optionVars
  <2> QED
    BY <1>1, <1>3, <2>1, SweepKept DEF Early
<1>11. CASE Undo
  <2>1. /\ UNCHANGED <<kind, declared, takes, clamps, value, zone, rejections, accepted, status, initial, identity, audit,
                       original, baseline>>
        /\ pc' = "audit" /\ (Write(original) \/ WriteRaises(original)) /\ note' \in {note, "failure"}
    BY <1>11 DEF Undo, deviceVars, sweepVars, zoneVars, optionVars
  <2> QED
    BY <1>1, <1>2, <2>1, SweepKept DEF Early
<1>12. CASE Audit
  <2>1. /\ UNCHANGED <<kind, declared, takes, clamps, value, zone, rejections, accepted, status, initial, identity, note,
                       original, baseline, reg>>
        /\ pc' = "ended" /\ failures' \in Nat /\ audit' \in {audit, "clean", "deviation", "unread"}
    BY <1>1, <1>3, <1>12 DEF Audit, deviceVars, sweepVars, zoneVars, optionVars
  <2> QED
    BY <1>1, <2>1, SweepKept DEF Early
<1> QED
  BY <1>4, <1>5, <1>6, <1>7, <1>8, <1>9, <1>10, <1>11, <1>12

\* The run starts with a register that holds a value the device takes.
LEMMA InitTyped == Init => Typed
<1> SUFFICES ASSUME Init PROVE Typed
  OBVIOUS
<1>1. takes \subseteq Values /\ reg \in takes /\ 0 \in Values
  BY ProbeAssumption DEF Init, ProbeInit, Values
<1>2. TypeOK
  BY <1>1 DEF Init, ProbeInit, TypeOK
<1>3. declared # {} /\ declared \subseteq Values
  <2>1. CASE kind = "bool"
    <3>1. declared = {0, 1}
      BY <2>1 DEF Init, ProbeInit
    <3> QED
      BY <3>1, ProbeAssumption DEF Values
  <2>2. CASE kind # "bool"
    <3>1. PICK a \in Values, b \in Values : declared = a..b
      BY <2>2 DEF Init, ProbeInit
    <3>2. declared # {}
      BY <2>2 DEF Init, ProbeInit
    <3> QED
      BY <3>1, <3>2, ProbeAssumption DEF Values
  <2> QED
    BY <2>1, <2>2
<1> QED
  BY <1>1, <1>2, <1>3 DEF Init, ProbeInit, Typed, Early, Probing

LEMMA NextTyped ==
  ASSUME IInv, Typed, [Next]_vars
  PROVE  Typed'
<1>1. CASE UNCHANGED vars
  BY <1>1 DEF vars, probeVars, runVars, deviceVars, sweepVars, zoneVars, optionVars, reportVars, Typed, TypeOK, Values, Parsed
<1>2. CASE Next
  BY <1>2, ProbeTyped, OtherTyped DEF Next
<1> QED
  BY <1>1, <1>2

\* Every variable of the run keeps its type, and the register holds what the device
\* takes, for any range, any device and any commands that raise.
THEOREM VerifyTypeOK == Spec => []TypeOK
<1>1. Init => IInv /\ Typed
  BY InitInv, InitTyped
<1>2. IInv /\ Typed /\ [Next]_vars => (IInv /\ Typed)'
  BY NextInv, NextTyped
<1>3. Typed => TypeOK
  BY DEF Typed
<1> QED
  BY <1>1, <1>2, <1>3, PTL DEF Spec

-----------------------------------------------------------------------------
(* What is changed is restored, or the report says so.                     *)

\* The report has a failure of the field, or the code leaves it without one.
Excused ==
  \/ status = "fail" \/ identity \in {"default", "fail"} \/ note = "failure"
  \/ OddSwitch
  \/ kind = "numeric" /\ (failures > 0 \/ clamps)
  \/ note = "remark" /\ failures > 0

Settled == reg = initial \/ Excused

\* Where the register held what parse made of it, the baseline is the way back.
LEMMA OddOrKept ==
  ASSUME IInv, baseline # -1, ~OddSwitch
  PROVE  baseline = initial /\ original = initial /\ Made(original) = initial
<1>1. original = baseline /\ baseline = Parsed(initial)
  BY DEF IInv, Baselined
<1>2. Parsed(initial) = initial
  BY DEF Parsed, OddSwitch
<1> QED
  BY <1>1, <1>2, BaselineKept DEF IInv

\* Between a write and the end of its restore the register may be anything; a probe
\* that does not restore has written the original, or the device has ignored it.
Settling ==
  /\ pc \in {"tier1", "handoff", "consent", "tier2", "probe", "write", "probed", "gate", "audit", "ended"} => Settled
  /\ pc = "readback" => Settled \/ IF kind = "numeric" THEN reg = value ELSE kind = "bool" \/ value # original
  /\ pc \in {"probe"} \cup Probing /\ baseline = -1 => identity \in {"default", "fail"}
  /\ pc \in {"actuated", "undo"} => baseline # -1

\* In tier 3 a field without a baseline already has the report.
LEMMA ProbeSettles ==
  ASSUME IInv, Typed, Settling, Tier3
  PROVE  Settling'
<1>1. /\ UNCHANGED <<kind, declared, takes, clamps, original, initial, baseline, identity, note>>
      /\ pc \in {"probe"} \cup Probing
  BY DEF Tier3, ProbeNext, ProbeStart, ProbeWrite, Readback, Restore, Check,
         deviceVars, runVars, optionVars, reportVars, Probing
<1>2. failures' \in Nat /\ failures' >= failures /\ failures \in Nat /\ status = "none" /\ note = "none"
  <2>1. failures \in Nat /\ status = "none" /\ note = "none"
    BY <1>1 DEF Typed
  <2>2. failures' = failures \/ failures' = failures + 1
    BY DEF Tier3, ProbeNext, ProbeStart, ProbeWrite, Readback, Restore, Check,
           Write, WriteRaises, Read, ReadRaises, Raise
  <2> QED
    BY <2>1, <2>2
<1>3. \A c : RestoreIf(c) /\ pc \in Probing => /\ pc' \in {"restore", "write", "probed"}
                                               /\ (c => pc' = "restore")
  BY RestoreIfOf DEF RestoreIf
<1>4. pc' \in {"write", "readback", "restore", "check", "probed"}
  <2>1. CASE ProbeStart
    BY <2>1 DEF ProbeStart, Probe
  <2>2. Proceed => pc' \in {"write", "probed"}
    BY ProceedOf
  <2>3. \A c : Toggled(c) => \E d : RestoreIf(d)
    BY DEF Toggled
  <2>4. CASE ProbeWrite
    BY <1>3, <2>2, <2>3, <2>4 DEF ProbeWrite, Probing
  <2>5. CASE Readback
    BY <1>3, <2>3, <2>5 DEF Readback, Probing
  <2>6. CASE Restore \/ Check
    BY <2>2, <2>6 DEF Restore, Check, Finish
  <2> QED
    BY <2>1, <2>4, <2>5, <2>6 DEF Tier3, ProbeNext
<1>5. Excused => Excused'
  <2>1. CASE identity \in {"default", "fail"}
    BY <1>1, <2>1 DEF Excused
  <2>2. CASE kind = "numeric" /\ failures > 0
    BY <1>1, <1>2, <2>2 DEF Excused
  <2>3. CASE kind = "numeric" /\ clamps
    BY <1>1, <2>3, Zenon DEF Excused
  <2>4. CASE OddSwitch
    BY <1>1, <2>4 DEF Excused, OddSwitch
  <2> QED
    BY <1>2, <2>1, <2>2, <2>3, <2>4 DEF Excused
<1>6. CASE baseline = -1
  <2>1. identity' \in {"default", "fail"} /\ baseline' = -1
    BY <1>1, <1>6 DEF Settling
  <2> QED
    BY <1>4, <2>1 DEF Settling, Settled, Excused
<1>7. CASE OddSwitch
  <2>1. Excused'
    BY <1>1, <1>7 DEF Excused, OddSwitch
  <2> QED
    BY <1>4, <1>1, <2>1 DEF Settling, Settled, Probing
<1>8. CASE baseline # -1 /\ ~OddSwitch
  <2>1. original = initial /\ initial \in takes /\ Made(initial) = initial /\ baseline' # -1
    BY <1>1, <1>8, OddOrKept DEF IInv, Baselined
  <2> SUFFICES ASSUME ~Settled', pc' \in {"probe", "write", "probed", "readback"}
               PROVE  pc' = "readback" /\ IF kind = "numeric" THEN reg' = value' ELSE kind = "bool" \/ value' # original
    BY <1>1, <1>4, <2>1 DEF Settling
  <2>2. reg' # initial /\ ~Excused /\ ~Excused'
    BY <1>1, <1>5 DEF Settled
  <2>3. kind = "numeric" => failures' = 0 /\ ~clamps
    BY <1>1, <1>2, <2>2 DEF Excused
  <2>4. CASE ProbeStart
    BY <1>1, <2>2, <2>4 DEF ProbeStart, Settling, Settled
  <2>5. CASE ProbeWrite
    <3>1. reg = initial /\ pc = "write"
      BY <2>2, <2>5 DEF ProbeWrite, Settling, Settled
    <3>2. CASE Write(value) /\ pc' = "readback" /\ UNCHANGED sweepVars
      <4>1. value' = value /\ reg' = Made(value)
        BY <3>2 DEF sweepVars, Write
      <4>2. kind = "numeric" => reg' = value
        BY <2>2, <2>3, <3>1, <4>1, MadeOf
      <4>3. value # original
        BY <2>1, <2>2, <4>1
      <4> QED
        BY <3>2, <4>1, <4>2, <4>3
    <3>3. CASE WriteRaises(value) /\ kind # "numeric" /\ Toggled(TRUE)
      <4>1. RestoreIf(kind \in Undone(TRUE) /\ (kind = "bool" \/ value # original))
        BY <3>3 DEF Toggled
      <4>2. kind \in Undone(TRUE)
        BY <3>3 DEF Undone, Typed
      <4>3. ~(kind = "bool" \/ value # original)
        BY <1>1, <1>3, <4>1, <4>2, <3>1 DEF Probing
      <4>4. reg' \in {reg, Made(value)}
        BY <3>3 DEF WriteRaises
      <4> QED
        BY <2>1, <2>2, <3>1, <4>3, <4>4
    <3>4. CASE WriteRaises(value) /\ kind = "numeric"
      BY <1>2, <2>3, <3>4 DEF WriteRaises, Raise
    <3> QED
      BY <2>5, <3>2, <3>3, <3>4 DEF ProbeWrite
  <2>6. CASE Readback
    <3>1. reg' = reg /\ pc = "readback"
      BY <2>6 DEF Readback, Read, ReadRaises
    <3>2. IF kind = "numeric" THEN reg = value ELSE kind = "bool" \/ value # original
      BY <2>2, <3>1 DEF Settling, Settled
    <3>3. CASE kind # "numeric"
      <4>1. RestoreIf(kind \in Undone(FALSE) /\ (kind = "bool" \/ value # original))
        BY <2>6, <3>3 DEF Readback, Toggled
      <4>2. kind \in Undone(FALSE)
        BY <3>3 DEF Undone, Typed
      <4> QED
        BY <1>1, <1>3, <3>1, <3>2, <3>3, <4>1, <4>2 DEF Probing
    <3>4. CASE kind = "numeric"
      <4>1. Read /\ reg = value /\ RestoreIf(reg # original)
        <5>1. reg = value /\ ~ReadRaises
          BY <1>2, <2>3, <3>2, <3>4 DEF ReadRaises, Raise
        <5> QED
          BY <2>6, <3>4, <5>1 DEF Readback
      <4> QED
        BY <1>1, <1>3, <2>1, <2>2, <3>1, <4>1 DEF Probing
    <3> QED
      BY <3>3, <3>4
  <2>7. CASE Restore
    BY <2>2, <2>7 DEF Restore, Finish, Excused
  <2>8. CASE Check
    BY <2>1, <2>2, <2>8 DEF Check, Finish, Read, ReadRaises, Excused
  <2> QED
    BY <2>4, <2>5, <2>6, <2>7, <2>8 DEF Tier3, ProbeNext
<1> QED
  BY <1>6, <1>7, <1>8

\* A step outside tier 3 that does not write.
LEMMA SettledKept ==
  ASSUME Typed, UNCHANGED <<kind, clamps, status, initial, reg>>, failures' \in Nat, failures' >= failures,
         Settled, identity' = identity \/ identity = "none",
         note' = note \/ note \in {"none", "remark"}, note = "remark" => note' \in {"remark", "failure"}
  PROVE  Settled'
<1>1. failures \in Nat
  BY DEF Typed
<1>2. CASE reg = initial
  BY <1>2 DEF Settled
<1>3. CASE status = "fail" \/ identity \in {"default", "fail"} \/ note = "failure"
  BY <1>3 DEF Settled, Excused
<1>4. CASE kind = "numeric" /\ failures > 0
  BY <1>1, <1>4 DEF Settled, Excused
<1>5. CASE kind = "numeric" /\ clamps
  BY <1>5, Zenon DEF Settled, Excused
<1>6. CASE note = "remark" /\ failures > 0
  <2>1. failures' > 0
    BY <1>1, <1>6
  <2> QED
    BY <1>6, <2>1 DEF Settled, Excused
<1>7. CASE OddSwitch
  BY <1>7 DEF Settled, Excused, OddSwitch
<1> QED
  BY <1>2, <1>3, <1>4, <1>5, <1>6, <1>7 DEF Settled, Excused

\* The other steps: what writes keeps its baseline, and what fails to is reported.
LEMMA OtherSettles ==
  ASSUME IInv, Typed, Settling,
         \/ Tier1 \/ Handoff \/ Consent \/ IdentityWrite \/ IdentityRead
         \/ Tier3Ends \/ Actuate \/ Confirm \/ Undo \/ Audit \/ Interrupt
  PROVE  Settling'
<1>1. failures \in Nat /\ (baseline # -1 => (original = initial /\ Made(original) = initial) \/ OddSwitch)
  BY OddOrKept DEF Typed
<1>2. Read \/ ReadRaises => reg' = reg /\ failures' \in Nat /\ failures' >= failures
  BY <1>1 DEF Read, ReadRaises, Raise
<1>3. \A v : WriteRaises(v) => failures' \in Nat /\ failures' > 0 /\ reg' \in {reg, Made(v)}
  BY <1>1 DEF WriteRaises, Raise
<1>4. CASE Tier1
  <2>1. reg' = initial' /\ pc' \in {"handoff", "tier2", "consent", "gate", "audit"}
    <3>1. pc = "tier1" /\ initial' = initial /\ pc' \in {"handoff", Onward(1)} /\ (Read \/ ReadRaises)
      BY <1>4 DEF Tier1, optionVars
    <3> QED
      BY <1>2, <3>1, OnwardEarly DEF IInv, Baselined
  <2> QED
    BY <2>1 DEF Settling, Settled, Probing
<1>5. CASE Handoff \/ Consent \/ Tier3Ends
  <2>1. /\ UNCHANGED <<kind, clamps, status, initial, identity, note, reg, failures>>
        /\ pc \in {"handoff", "consent", "probed"} /\ pc' \in {"tier2", "gate", "audit", "ended", Onward(1)}
    BY <1>5 DEF Handoff, Consent, Tier3Ends, Closing, deviceVars, sweepVars, optionVars, runVars, reportVars
  <2>2. Settled'
    BY <1>1, <2>1, SettledKept DEF Settling
  <2> QED
    BY <2>1, <2>2, OnwardEarly DEF Settling, Probing
<1>6. CASE IdentityWrite
  <2>1. \/ pc' = "reread"
        \/ pc' = Onward(2) /\ identity' = "fail"
    BY <1>6 DEF IdentityWrite
  <2> QED
    BY <2>1, OnwardEarly DEF Settling, Settled, Excused, Probing
<1>7. CASE IdentityRead
  <2>1. /\ UNCHANGED <<kind, reg, initial, baseline>> /\ pc' = Onward(2)
        /\ \/ identity' \in {"default", "fail"}
           \/ identity' = "pass" /\ reg = original /\ baseline # -1
    BY <1>2, <1>7 DEF IdentityRead, optionVars, deviceVars
  <2> QED
    BY <1>1, <2>1, OnwardEarly DEF Settling, Settled, Excused, Probing, OddSwitch
<1>8. CASE Actuate
  <2>1. /\ UNCHANGED <<kind, clamps, status, initial, identity, baseline>> /\ pc = "gate"
        /\ \/ pc' = "audit" /\ UNCHANGED <<reg, failures, note>>
           \/ baseline # -1 /\ pc' = "actuated"
           \/ pc' = "audit" /\ note' = "failure"
    BY <1>8 DEF Actuate, deviceVars, sweepVars, optionVars
  <2>2. CASE pc' = "audit" /\ UNCHANGED <<reg, failures, note>>
    <3>1. Settled'
      BY <1>1, <2>1, <2>2, SettledKept DEF Settling
    <3> QED
      BY <2>2, <3>1 DEF Settling, Probing
  <2> QED
    BY <2>1, <2>2 DEF Settling, Settled, Excused, Probing
<1>9. CASE Confirm
  BY <1>9 DEF Confirm, Settling, Probing
<1>10. CASE Undo
  <2>1. /\ UNCHANGED <<kind, status, initial, identity, baseline, original>> /\ pc = "undo" /\ pc' = "audit"
        /\ \/ reg' = Made(original)
           \/ WriteRaises(original) /\ note' = IF note = "none" THEN "failure" ELSE note
    BY <1>10 DEF Undo, Write, deviceVars, sweepVars, optionVars
  <2>2. baseline # -1 /\ note \in {"none", "remark", "failure"}
    BY <2>1 DEF Settling, Typed, TypeOK
  <2>3. Settled'
    BY <1>1, <1>3, <2>1, <2>2 DEF Settled, Excused, OddSwitch
  <2> QED
    BY <2>1, <2>3 DEF Settling, Probing
<1>11. CASE Audit
  <2>1. UNCHANGED <<kind, clamps, status, initial, reg, identity, note>> /\ pc = "audit" /\ pc' = "ended"
    BY <1>11 DEF Audit, deviceVars, sweepVars, optionVars
  <2>2. failures' \in Nat /\ failures' >= failures
    BY <1>1, <1>2, <1>11 DEF Audit
  <2>3. Settled'
    BY <2>1, <2>2, SettledKept DEF Settling
  <2> QED
    BY <2>1, <2>3 DEF Settling, Probing
<1>12. CASE Interrupt
  BY <1>12 DEF Interrupt, Settling, Probing
<1> QED
  BY <1>4, <1>5, <1>6, <1>7, <1>8, <1>9, <1>10, <1>11, <1>12

LEMMA NextSettles ==
  ASSUME IInv, Typed, Settling, [Next]_vars
  PROVE  Settling'
<1>1. CASE UNCHANGED vars
  <2>1. UNCHANGED <<kind, clamps, status, initial, reg, identity, note, failures, pc, value, original, baseline>>
    BY <1>1 DEF vars, probeVars, runVars, deviceVars, sweepVars, optionVars, reportVars
  <2>2. Settled => Settled'
    BY <2>1, SettledKept DEF Typed
  <2> QED
    BY <2>1, <2>2 DEF Settling
<1>2. CASE Next
  BY <1>2, ProbeSettles, OtherSettles DEF Next
<1> QED
  BY <1>1, <1>2

\* A run that ends with nothing to report of the field leaves it as it was, wherever
\* commands raise and whether they were applied, but for the gaps Restored names.
THEOREM VerifyRestored == Spec => []Restored
<1>1. Init => IInv /\ Typed /\ Settling
  BY InitInv, InitTyped DEF Init, Settling, Settled, Probing
<1>2. IInv /\ Typed /\ Settling /\ [Next]_vars => (IInv /\ Typed /\ Settling)'
  BY NextInv, NextTyped, NextSettles
<1>3. Settling => Restored
  BY DEF Settling, Settled, Excused, Restored
<1> QED
  BY <1>1, <1>2, <1>3, PTL DEF Spec

-----------------------------------------------------------------------------
(* The sweep.                                                              *)

\* The sweep has the values below n behind it, with acc accepted, in zone z after r
\* rejections: nothing was left out, and there was no gap of two yet, but for one
\* that has just ended.
SweptBy(acc, z, r, n) ==
  /\ acc = {u \in takes : u < n}
  /\ z = "pre" => acc = {}
  /\ z = "in" => n - 1 \in takes
  /\ z = "post" => n - 1 - r \in takes /\ \A u \in Values : n - r <= u /\ u < n => u \notin takes
  /\ \A g \in Values : Min(takes) < g /\ g + 1 < n /\ Gap(g) => r = 2 /\ g = n - 2

Past == IF pc \in {"restore", "check"} THEN value + 1 ELSE value

Sweeping ==
  kind = "numeric" /\ failures = 0 =>
    /\ pc \in Probing => SweptBy(accepted, zone, rejections, Past)
    /\ pc = "readback" /\ value \in takes => reg = value

\* What the device takes has a least value.
LEMMA LeastTaken ==
  ASSUME Typed
  PROVE  /\ Min(takes) \in takes /\ \A v \in takes : Min(takes) <= v
         /\ takes \subseteq Values /\ Values = 0..Cap /\ Cap \in Nat
<1>1. takes # {} /\ takes \subseteq Values /\ Values = 0..Cap /\ Cap \in Nat
  BY ProbeAssumption DEF Typed, TypeOK, Values
<1> QED
  BY <1>1, LeastIs

\* One more value, accepted.
LEMMA AcceptSweeps ==
  ASSUME Typed, NEW acc, NEW z, NEW r \in 0..1, NEW n \in takes, SweptBy(acc, z, r, n)
  PROVE  SweptBy(acc \cup {n}, "in", 0, n + 1)
<1>1. n \in Nat /\ \A u \in takes : u \in Nat
  BY LeastTaken
<1>2. acc \cup {n} = {u \in takes : u < n + 1}
  <2>1. acc = {u \in takes : u < n}
    BY DEF SweptBy
  <2>2. \A u \in takes : u < n + 1 <=> (u < n \/ u = n)
    BY <1>1
  <2> QED
    BY <2>1, <2>2
<1>3. ASSUME NEW g \in Values, Min(takes) < g, g + 1 < n + 1, Gap(g)
      PROVE  FALSE
  <2>1. g \in Nat /\ g + 1 # n
    BY <1>3, LeastTaken DEF Gap
  <2>2. g + 1 < n
    BY <1>1, <1>3, <2>1
  <2>3. r = 2
    BY <1>3, <2>2 DEF SweptBy
  <2> QED
    BY <2>3
<1>4. (n + 1) - 1 = n
  BY <1>1
<1> QED
  BY <1>2, <1>3, <1>4 DEF SweptBy

\* One more value, rejected.
LEMMA RejectSweeps ==
  ASSUME Typed, NEW acc, NEW z \in {"pre", "in", "post"}, NEW r \in 0..1, r > 0 <=> z = "post",
         NEW n \in Values \ takes, SweptBy(acc, z, r, n), NEW y, NEW s,
         y = IF z = "in" THEN "post" ELSE z,
         s = CASE z = "in" -> 1 [] z = "post" -> r + 1 [] OTHER -> r
  PROVE  SweptBy(acc, y, s, n + 1)
<1>1. n \in Nat /\ (\A u \in takes : u \in Nat) /\ \A g \in Values : g \in Nat
  BY LeastTaken
<1>2. acc = {u \in takes : u < n + 1}
  <2>1. \A u \in takes : u < n <=> u < n + 1
    BY <1>1
  <2> QED
    BY <2>1 DEF SweptBy
<1>3. ASSUME NEW g \in Values, Min(takes) < g, g + 1 < n + 1, Gap(g)
      PROVE  g + 1 = n
  <2>1. g + 1 < n => r = 2
    BY <1>3 DEF SweptBy
  <2> QED
    BY <1>1, <1>3, <2>1
<1>4. CASE z = "pre"
  <2>1. ASSUME NEW g \in Values, Min(takes) < g, g + 1 < n + 1, Gap(g)
        PROVE  FALSE
    <3>1. Min(takes) \in takes /\ Min(takes) < n
      BY <1>1, <2>1, LeastTaken
    <3>2. Min(takes) \in acc
      BY <3>1 DEF SweptBy
    <3> QED
      BY <1>4, <3>2 DEF SweptBy
  <2> QED
    BY <1>2, <1>4, <2>1 DEF SweptBy
<1>5. CASE z = "in"
  <2>1. y = "post" /\ s = 1 /\ n - 1 \in takes
    BY <1>5 DEF SweptBy
  <2>2. ASSUME NEW g \in Values, Min(takes) < g, g + 1 < n + 1, Gap(g)
        PROVE  FALSE
    <3>1. g = n - 1
      BY <1>1, <1>3, <2>2
    <3> QED
      BY <2>1, <2>2, <3>1 DEF Gap
  <2>3. (n + 1) - 1 - s = n - 1 /\ \A u \in Values : (n + 1) - s <= u /\ u < n + 1 => u = n
    BY <1>1, <2>1
  <2> QED
    BY <1>2, <2>1, <2>2, <2>3 DEF SweptBy
<1>6. CASE z = "post"
  <2>1. y = "post" /\ r = 1 /\ s = 2
    BY <1>6
  <2>2. n - 2 \in takes /\ \A u \in Values : n - 1 <= u /\ u < n => u \notin takes
    <3>1. n - 1 - 1 = n - 2
      BY <1>1
    <3> QED
      BY <1>6, <2>1, <3>1 DEF SweptBy
  <2>3. (n + 1) - 1 - 2 = n - 2
    BY <1>1
  <2>4. ASSUME NEW u \in Values, (n + 1) - 2 <= u, u < n + 1
        PROVE  u \notin takes
    <3>1. u = n \/ (n - 1 <= u /\ u < n)
      BY <1>1, <2>4
    <3> QED
      BY <2>2, <3>1
  <2>5. ASSUME NEW g \in Values, Min(takes) < g, g + 1 < n + 1, Gap(g)
        PROVE  g = (n + 1) - 2
    BY <1>1, <1>3, <2>5
  <2> QED
    BY <1>2, <2>1, <2>2, <2>3, <2>4, <2>5 DEF SweptBy
<1> QED
  BY <1>4, <1>5, <1>6

\* Where the sweep ends it has found the range.
LEMMA SweepEnds ==
  ASSUME Typed, NEW acc, NEW z, NEW r \in 0..2, NEW n \in Nat, n <= Cap + 1, SweptBy(acc, z, r, n),
         n = Cap + 1 \/ (z = "post" /\ r = 2)
  PROVE  acc = {v \in takes : ~\E g \in Values : Min(takes) < g /\ g < v /\ Gap(g)}
<1>1. (\A u \in takes : u \in 0..Cap) /\ (\A g \in Values : g \in 0..Cap) /\ Cap \in Nat /\ Min(takes) \in 0..Cap
  BY LeastTaken
<1>2. ASSUME NEW v \in takes, v < n, NEW g \in Values, Min(takes) < g, g < v, Gap(g)
      PROVE  FALSE
  <2>1. g + 1 # v
    BY <1>2 DEF Gap
  <2>2. g + 1 < v /\ g + 1 < n
    BY <1>1, <1>2, <2>1
  <2>3. g = n - 2
    BY <1>2, <2>2 DEF SweptBy
  <2> QED
    BY <1>1, <1>2, <2>2, <2>3
<1>3. ASSUME NEW v \in takes, ~(v < n)
      PROVE  \E g \in Values : Min(takes) < g /\ g < v /\ Gap(g)
  <2>1. z = "post" /\ r = 2
    BY <1>1, <1>3
  <2>2. n - 1 - 2 \in takes /\ \A u \in Values : n - 2 <= u /\ u < n => u \notin takes
    BY <2>1 DEF SweptBy
  <2>3. n - 1 - 2 \in 0..Cap /\ v \in 0..Cap
    BY <1>1, <2>2
  <2>4. n - 2 \in 0..Cap /\ n - 1 \in 0..Cap /\ (n - 2) + 1 = n - 1
    BY <1>1, <1>3, <2>3
  <2>5. n - 2 \in Values /\ n - 1 \in Values
    BY <2>4 DEF Values
  <2>6. n - 2 \notin takes /\ n - 1 \notin takes
    BY <2>2, <2>4, <2>5
  <2>7. Gap(n - 2)
    BY <2>4, <2>5, <2>6 DEF Gap
  <2>8. Min(takes) < n - 2 /\ n - 2 < v
    <3>1. Min(takes) <= n - 1 - 2
      BY <2>2, LeastTaken
    <3> QED
      BY <1>1, <1>3, <2>3, <3>1
  <2> QED
    BY <2>5, <2>7, <2>8
<1>4. acc = {v \in takes : v < n}
  BY DEF SweptBy
<1> QED
  BY <1>2, <1>3, <1>4

\* Where a sweep without failures goes after value n.
LEMMA SweepGoesOn ==
  ASSUME Typed, kind = "numeric", pc \in Probing, NEW changed, RestoreIf(changed),
         zone' \in {"pre", "in", "post"}, rejections' \in 0..2, UNCHANGED <<takes, kind>>,
         SweptBy(accepted', zone', rejections', value + 1)
  PROVE  Sweeping' /\ RangeFound'
<1>1. value \in Nat /\ value <= Cap
  BY LeastTaken DEF Typed, TypeOK, Values
<1>2. CASE pc' = "restore" /\ value' = value /\ status' = status
  <2>1. Past' = value + 1 /\ status' = "none"
    BY <1>2 DEF Past, Typed
  <2>2. SweptBy(accepted, zone, rejections, Past)'
    BY <2>1 DEF SweptBy, Gap, Values
  <2> QED
    BY <1>2, <2>1, <2>2 DEF Sweeping, RangeFound
<1>3. CASE pc' = "write" /\ status' = status /\ value' = value + 1
  <2>1. Past' = value + 1 /\ status' = "none"
    BY <1>3 DEF Past, Typed
  <2>2. SweptBy(accepted, zone, rejections, Past)'
    BY <2>1 DEF SweptBy, Gap, Values
  <2> QED
    BY <1>3, <2>1, <2>2 DEF Sweeping, RangeFound
<1>4. CASE pc' = "probed" /\ (value = Cap \/ (zone' = "post" /\ Ended(rejections')))
  <2>1. value + 1 = Cap + 1 \/ (zone' = "post" /\ rejections' = 2)
    BY <1>4 DEF Ended
  <2>2. accepted' = {v \in takes : ~\E g \in Values : Min(takes) < g /\ g < v /\ Gap(g)}
    <3>1. ASSUME NEW acc, NEW z, NEW r \in 0..2, SweptBy(acc, z, r, value + 1),
                 value + 1 = Cap + 1 \/ (z = "post" /\ r = 2)
          PROVE  acc = {v \in takes : ~\E g \in Values : Min(takes) < g /\ g < v /\ Gap(g)}
      <4>1. value + 1 \in Nat /\ value + 1 <= Cap + 1
        BY <1>1, LeastTaken
      <4> HIDE <1>1
      <4> QED
        BY <3>1, <4>1, SweepEnds
    <3> QED
      BY <2>1, <3>1
  <2>3. RangeFound'
    BY <2>2 DEF RangeFound, Gap, Values
  <2> QED
    BY <1>4, <2>3 DEF Sweeping, Probing
<1>5. changed => pc' = "restore" /\ value' = value /\ status' = status
  BY DEF RestoreIf
<1>6. ~changed => Proceed
  BY DEF RestoreIf
<1> QED
  BY <1>2, <1>3, <1>4, <1>5, <1>6, ProceedOf

\* In tier 3.
LEMMA ProbeSweeps ==
  ASSUME Typed, Sweeping, RangeFound, Tier3
  PROVE  Sweeping' /\ RangeFound'
<1>1. /\ UNCHANGED <<kind, declared, takes, clamps, original>> /\ pc \in {"probe"} \cup Probing
  BY DEF Tier3, ProbeNext, ProbeStart, ProbeWrite, Readback, Restore, Check, deviceVars, Probing
<1>2. failures \in Nat /\ \A v : (ReadRaises \/ WriteRaises(v)) => failures' # 0
  BY DEF Typed, ReadRaises, WriteRaises, Raise
<1>3. failures' = 0 => failures = 0
  BY <1>2 DEF Tier3, ProbeNext, ProbeStart, ProbeWrite, Readback, Restore, Check, Write, Read
<1> SUFFICES ASSUME kind = "numeric", failures = 0, failures' = 0
             PROVE  Sweeping' /\ RangeFound'
  BY <1>1, <1>3 DEF Sweeping, RangeFound
<1>4. ~ReadRaises /\ \A v : ~WriteRaises(v)
  BY <1>2
<1>5. /\ zone \in {"pre", "in", "post"} /\ rejections \in 0..2 /\ (rejections > 0 <=> zone = "post")
      /\ value \in Values /\ value \in Nat /\ status = "none"
  BY <1>1, LeastTaken DEF Typed, TypeOK, Values
<1>6. CASE ProbeStart
  <2>1. pc = "probe" /\ pc' = "write" /\ value' = Min(Candidates) /\ status' = status /\ UNCHANGED zoneVars
    BY <1>6 DEF ProbeStart, Probe
  <2>2. Min(Candidates) = 0
    <3>1. Candidates \in SUBSET Nat /\ 0 \in Candidates
      BY CandidatesOf, LeastTaken
    <3>2. Min(Candidates) \in Candidates /\ Min(Candidates) <= 0
      BY <3>1, LeastIs
    <3>3. ASSUME NEW m \in Nat, m <= 0
          PROVE  m = 0
      BY <3>3
    <3>4. Min(Candidates) \in Nat
      BY <3>1, <3>2
    <3> QED
      BY <3>2, <3>3, <3>4
  <2>3. zone = "pre" /\ accepted = {}
    BY <2>1 DEF Typed
  <2>4. SweptBy(accepted, zone, rejections, 0)
    <3>1. \A u \in Values : u \in Nat
      BY LeastTaken
    <3> QED
      BY <2>3, <3>1, LeastTaken DEF SweptBy
  <2>5. SweptBy(accepted, zone, rejections, Past)'
    <3>1. Past' = 0 /\ accepted' = accepted /\ zone' = zone /\ rejections' = rejections
      BY <2>1, <2>2 DEF Past, zoneVars
    <3> QED
      BY <1>1, <2>4, <3>1 DEF SweptBy, Gap, Values
  <2> QED
    BY <1>5, <2>1, <2>5 DEF Sweeping, RangeFound
<1>7. CASE ProbeWrite
  <2>1. pc = "write" /\ Write(value) /\ pc' = "readback" /\ UNCHANGED sweepVars
    BY <1>4, <1>7 DEF ProbeWrite
  <2>2. SweptBy(accepted, zone, rejections, value)
    BY <2>1 DEF Sweeping, Probing, Past
  <2>3. SweptBy(accepted, zone, rejections, Past)'
    <3>1. Past' = value /\ accepted' = accepted /\ zone' = zone /\ rejections' = rejections
      BY <2>1 DEF Past, sweepVars, zoneVars
    <3> QED
      BY <1>1, <2>2, <3>1 DEF SweptBy, Gap, Values
  <2>4. value \in takes => reg' = value
    BY <2>1, MadeOf DEF Write
  <2> QED
    BY <1>1, <1>5, <2>1, <2>3, <2>4 DEF Sweeping, RangeFound, sweepVars
<1>8. CASE Readback
  <2>1. /\ pc = "readback" /\ SweptBy(accepted, zone, rejections, value) /\ rejections < 2
        /\ reg \in takes /\ (value \in takes => reg = value)
    BY <1>8 DEF Readback, Sweeping, Probing, Past, Typed, TypeOK
  <2>2. rejections \in 0..1
    BY <1>5, <2>1
  <2>3. CASE reg = value /\ Accept /\ RestoreIf(reg # original)
    <3>1. SweptBy(accepted', zone', rejections', value + 1)
      BY <2>1, <2>2, <2>3, AcceptSweeps DEF Accept
    <3>2. zone' \in {"pre", "in", "post"} /\ rejections' \in 0..2
      BY <1>5, <2>3 DEF Accept
    <3>3. RestoreIf(reg # original) /\ UNCHANGED <<takes, kind>> /\ pc \in Probing
      BY <1>1, <2>1, <2>3 DEF Probing
    <3> QED
      BY <3>1, <3>2, <3>3, SweepGoesOn
  <2>4. CASE reg # value /\ Reject /\ \E changed : RestoreIf(changed)
    <3>1. value \in Values \ takes
      BY <1>5, <2>1, <2>4
    <3>2. SweptBy(accepted', zone', rejections', value + 1)
      BY <1>5, <2>1, <2>2, <2>4, <3>1, RejectSweeps DEF Reject
    <3>3. zone' \in {"pre", "in", "post"} /\ rejections' \in 0..2
      BY <1>1, <2>1, <2>4, RejectOf DEF ZonesTyped
    <3> QED
      BY <1>1, <2>1, <2>4, <3>2, <3>3, SweepGoesOn DEF Probing
  <2> QED
    BY <1>4, <1>8, <2>3, <2>4 DEF Readback
<1>9. CASE Restore
  <2>1. /\ pc = "restore" /\ pc' = "check" /\ UNCHANGED zoneVars /\ value' = value /\ status' = status
    BY <1>4, <1>9 DEF Restore
  <2>2. SweptBy(accepted, zone, rejections, value + 1)
    BY <2>1 DEF Sweeping, Probing, Past
  <2>3. SweptBy(accepted, zone, rejections, Past)'
    <3>1. Past' = value + 1 /\ accepted' = accepted /\ zone' = zone /\ rejections' = rejections
      BY <2>1 DEF Past, zoneVars
    <3> QED
      BY <1>1, <2>2, <3>1 DEF SweptBy, Gap, Values
  <2> QED
    BY <1>5, <2>1, <2>3 DEF Sweeping, RangeFound
<1>10. CASE Check
  <2>1. pc = "check" /\ UNCHANGED zoneVars /\ SweptBy(accepted, zone, rejections, value + 1)
    BY <1>10 DEF Check, Sweeping, Probing, Past
  <2>2. accepted' = accepted /\ zone' = zone /\ rejections' = rejections
    BY <2>1 DEF zoneVars
  <2>3. CASE Proceed
    <3>1. RestoreIf(FALSE)
      BY <2>3 DEF RestoreIf
    <3> QED
      BY <1>1, <1>5, <2>1, <2>2, <3>1, SweepGoesOn DEF Probing
  <2>4. CASE Finish("fail")
    BY <2>4 DEF Finish, Sweeping, RangeFound, Probing
  <2> QED
    BY <1>10, <2>3, <2>4 DEF Check
<1> QED
  BY <1>6, <1>7, <1>8, <1>9, <1>10 DEF Tier3, ProbeNext

\* Outside tier 3 the sweep's result stands.
LEMMA OtherSweeps ==
  ASSUME IInv, Typed, Sweeping, RangeFound,
         \/ Tier1 \/ Handoff \/ Consent \/ IdentityWrite \/ IdentityRead
         \/ Tier3Ends \/ Actuate \/ Confirm \/ Undo \/ Audit \/ Interrupt
  PROVE  Sweeping' /\ RangeFound'
<1>1. UNCHANGED <<kind, takes, status, accepted>>
  BY DEF Tier1, Handoff, Consent, IdentityWrite, IdentityRead, Tier3Ends, Actuate, Confirm, Undo, Audit, Interrupt,
         deviceVars, sweepVars, zoneVars
<1>2. failures' = 0 => failures = 0
  BY DEF Tier1, Handoff, Consent, IdentityWrite, IdentityRead, Tier3Ends, Actuate, Confirm, Undo, Audit, Interrupt,
         Write, WriteRaises, Read, ReadRaises, Raise, Typed
<1>3. pc' \notin Probing
  BY OnwardEarly DEF Tier1, Handoff, Consent, IdentityWrite, IdentityRead, Tier3Ends, Actuate, Confirm, Undo, Audit,
                     Interrupt, Closing, Probing
<1>4. RangeFound'
  BY <1>1, <1>2 DEF RangeFound, Gap, Values
<1> QED
  BY <1>3, <1>4 DEF Sweeping, Probing

LEMMA NextSweeps ==
  ASSUME IInv, Typed, Sweeping, RangeFound, [Next]_vars
  PROVE  Sweeping' /\ RangeFound'
<1>1. CASE UNCHANGED vars
  BY <1>1 DEF vars, probeVars, runVars, deviceVars, sweepVars, zoneVars, Sweeping, SweptBy, Past, Gap, Values, RangeFound
<1>2. CASE Next
  BY <1>2, ProbeSweeps, OtherSweeps DEF Next
<1> QED
  BY <1>1, <1>2

\* Whatever values a device takes, clamps or ignores: a sweep in which no command
\* raises finds those up to the first gap of two, and no other.
THEOREM VerifyRangeFound == Spec => []RangeFound
<1>1. Init => IInv /\ Typed /\ Sweeping /\ RangeFound
  BY InitInv, InitTyped DEF Init, ProbeInit, Sweeping, RangeFound, Probing
<1>2. IInv /\ Typed /\ Sweeping /\ RangeFound /\ [Next]_vars => (IInv /\ Typed /\ Sweeping /\ RangeFound)'
  BY NextInv, NextTyped, NextSweeps
<1> QED
  BY <1>1, <1>2, PTL DEF Spec
=============================================================================
