------------------------------ MODULE Registers ------------------------------
(***************************************************************************)
(* How a block of registers becomes named values: DeviceStruct.parse takes *)
(* the fields that lie within the read, and the arrays (alarm words, phase *)
(* and string groups, versions) are then cut from the payload at fixed     *)
(* byte offsets, whatever register the read began at.  A value is its      *)
(* identity and the bytes it was taken from (byte 2r and 2r+1 are the      *)
(* halves of register r); numbers, units and names are left out.           *)
(***************************************************************************)
EXTENDS Integers, Sequences, FiniteSets

CONSTANTS Models,   \* the devices, one for each way of decoding
          Counts,   \* what a phase or string counter may hold
          Raised    \* the sets of bits that may be up in an alarm word

\* A counter holds a number, and an alarm word has sixteen bits.
CountsAssumption == Counts \subseteq Nat /\ Raised \subseteq SUBSET (0 .. 15)

\* Field kinds by what they take: registers, or one half of a register.
SizeOf == [word |-> 1, high |-> 1, low |-> 1, two |-> 2, four |-> 4, six |-> 6]

Fields(kind, registers) == {<<kind, r>> : r \in registers}

Home ==
  Fields("word", (100 .. 106) \cup {108, 124, 169, 170}) \cup Fields("high", {107})
  \cup Fields("low", {107, 120, 122, 125, 160, 161, 164}) \cup Fields("six", {110}) \cup Fields("four", {116})
  \cup Fields("two", {140, 142, 144, 146, 148, 150, 152, 154, 156, 158, 162, 165, 167})

InvBase ==
  Fields("low", {1100, 1111, 1112}) \cup Fields("six", {1101}) \cup Fields("four", {1107})
  \cup Fields("high", 1151 .. 1153) \cup Fields("word", 1161 .. 1169)

InvPv == Fields("two", {1200, 1202}) \cup Fields("high", {1209}) \cup Fields("low", {1209})

InvGrid == Fields("word", {1300}) \cup Fields("two", {1301, 1303}) \cup Fields("low", {1312})

InvLoad ==
  Fields("two", {1400, 1402, 1420, 1422}) \cup Fields("word", (1404 .. 1409) \cup {1412, 1413})
  \cup Fields("low", {1429})

InvInv == Fields("word", {1500}) \cup Fields("two", {1501}) \cup Fields("low", {1508})

PackMain == Fields("word", {6000, 6001, 6002, 6008}) \cup Fields("high", {6003}) \cup Fields("four", {6004})

RealData ==
  Fields("six", {10}) \cup Fields("word", {16} \cup (36 .. 40) \cup (43 .. 53) \cup {63, 64, 65, 67, 68})
  \cup Fields("four", {21}) \cup Fields("two", {41}) \cup Fields("high", {66}) \cup Fields("low", {66})

\* An alarm table is, for each word, the bits that have a name.
LowPowerWarn == <<0 .. 14, 0 .. 7>>

LowPowerFault == <<0 .. 15, 0 .. 11, 0 .. 13, 0 .. 7, 0 .. 14>>

HighPowerWarn == <<0 .. 13, {}, 0 .. 15, 0 .. 8>>

HighPowerFault == <<0 .. 15, 0 .. 15, 0 .. 15, 0 .. 15, 0 .. 15, 0 .. 4>>

MicroInvWarn == <<{0}>>

MicroInvFault == <<0 .. 15, 0 .. 15, 0 .. 13, (0 .. 14) \ {7}, (0 .. 15) \ {1, 2}>>

V1LowPowerWarn == <<0 .. 14, 0 .. 7>>

V1LowPowerFault == <<0 .. 15, 0 .. 11, 0 .. 13, 0 .. 7, 0 .. 14>>

ConnectConstantsAlarm == <<0 .. 8>>

ConnectConstantsFault == <<0 .. 15, 0 .. 13, 0 .. 13, 0 .. 15, 0 .. 12>>

\* The tables a device decodes its alarm words with.
Tables(m) ==
  CASE m = "EP600" -> <<HighPowerWarn, HighPowerFault>>
    [] m = "AC200L" -> <<V1LowPowerWarn, V1LowPowerFault>>
    [] m = "AC300" -> <<ConnectConstantsAlarm, ConnectConstantsFault>>
    [] m = "micro_inv" -> <<MicroInvWarn, MicroInvFault>> \* a profile no device of the tree has
    [] OTHER -> <<LowPowerWarn, LowPowerFault>>

V1(m) == m \in {"AC200L", "AC300"}

VARIABLES model, read, counts, raised, shown
vars == <<model, read, counts, raised, shown>>

At == read[1]
Length == 2 * read[2]

\* Mutant: the length of the payload is not looked at.
FitsAnyhow(end) == TRUE

\* A group that ends beyond the payload is not cut from it.
Fits(end) == end <= Length

\* The group i of an array that starts at a byte of the payload, a group every `step` bytes.
Group(name, start, step, need, i) ==
  [what |-> <<name, i>>, from |-> (2 * At + start + i * step) .. (2 * At + start + i * step + need - 1)]

Array(name, start, step, need, n) ==
  {Group(name, start, step, need, i) : i \in {j \in 0 .. n - 1 : Fits(start + j * step + need)}}

\* The bits of the words of an array that are up and have a name.
Alarms(name, start, n, table) ==
  UNION {{[what |-> <<name, i, b>>, from |-> Group(name, start, 2, 2, i).from] :
             b \in IF i + 1 \in DOMAIN table THEN raised \cap table[i + 1] ELSE {}} :
           i \in {j \in 0 .. n - 1 : Fits(start + 2 * j + 2)}}

BytesOf(f) ==
  CASE f[1] = "high" -> {2 * f[2]}
    [] f[1] = "low" -> {2 * f[2] + 1}
    [] OTHER -> (2 * f[2]) .. (2 * f[2] + 2 * SizeOf[f[1]] - 1)

\* The most a counter may hold before its field is dropped as out of range.
RangeOf(f) ==
  CASE f \in Fields("low", {1312, 1429, 1508}) -> 4
    [] f[2] = 1209 -> 16
    [] OTHER -> 255

\* The value of a counter; other fields are in range.
ValueOf(f) ==
  CASE f \in Fields("low", {1312, 1429, 1508}) -> counts.phases
    [] f = <<"high", 1209>> -> counts.ac
    [] f = <<"low", 1209>> -> counts.dc
    [] OTHER -> 0

Present(struct) ==
  {f \in struct : /\ f[2] >= At /\ 2 * (f[2] + SizeOf[f[1]] - At) <= Length
                  /\ ValueOf(f) <= RangeOf(f)}

Parse(struct) == {[what |-> f, from |-> BytesOf(f)] : f \in Present(struct)}

Least(a, b) == IF a < b THEN a ELSE b

\* Three phases unless the counter is present.
Phases(struct, f) == IF f \in Present(struct) THEN Least(ValueOf(f), 3) ELSE 3

\* Strings of both kinds, at most five; a dropped counter counts none.
Strings ==
  LET number(f) == IF f \in Present(InvPv) THEN ValueOf(f) ELSE 0 IN
  Least(number(<<"high", 1209>>) + number(<<"low", 1209>>), 5)

\* The module's facts about the IoT block: bytes taken, and the length they need.
Iot ==
  LET part(start, size, need) ==
        IF Fits(need) THEN {[what |-> <<"iot", start>>, from |-> (2 * At + start) .. (2 * At + start + size - 1)]}
        ELSE {}
  IN UNION {part(0, 12, 36), part(12, 8, 36), part(28, 4, 36), part(32, 4, 36), part(36, 2, 38),
            part(40, 4, 56), part(44, 4, 56), part(48, 4, 56), part(53, 1, 70), part(54, 6, 70),
            part(60, 6, 70), part(69, 1, 140)}

V2Parse ==
  CASE At \in 100 .. 1099 -> Parse(Home) \cup Alarms("alarm", 52, 4, Tables(model)[1])
                                         \cup Alarms("fault", 66, 6, Tables(model)[2])
    [] At \in 1100 .. 1199 -> Parse(InvBase) \cup Array("version", 26, 6, 6, 6)
    [] At \in 1200 .. 1299 -> Parse(InvPv) \cup Array("pv", 20, 16, 10, Strings)
    [] At \in 1300 .. 1399 -> Parse(InvGrid) \cup Array("gridPhase", 26, 12, 10, Phases(InvGrid, <<"low", 1312>>))
    [] At \in 1400 .. 1499 -> Parse(InvLoad) \cup Array("acPhase", 60, 12, 8, Phases(InvLoad, <<"low", 1429>>))
    [] At \in 1500 .. 1999 -> Parse(InvInv) \cup Array("invPhase", 18, 12, 8, Phases(InvInv, <<"low", 1508>>))
    [] At \in 11000 .. 11099 -> Iot
    [] OTHER -> {}

\* Offsets of the V1 arrays are those of registers 23, 54 and 58 in a block read from 10.
V1Parse ==
  IF At \notin 10 .. 99 THEN {}
  ELSE Parse(RealData) \cup Array("version", 26, 4, 4, 6)
       \cup Alarms("alarm", 88, 4, Tables(model)[1]) \cup Alarms("fault", 96, 7, Tables(model)[2])

PackParse == IF At \in 6000 .. 6099 THEN Parse(PackMain) ELSE {}

\* The reads the program decodes as telemetry: the polled blocks, and the load test's own.
PolledReads(m) ==
  CASE V1(m) -> {<<10, 110>>}
    [] m = "HB500S" -> {<<6000, 32>>}
    [] OTHER -> {<<100, 62>>, <<1100, 51>>, <<1200, 70>>, <<1300, 31>>, <<1400, 48>>, <<1500, 30>>}
                \cup IF m = "EL100V2" THEN {<<11000, 70>>} ELSE {}

LoadReads == {<<100, 6>>, <<140, 10>>, <<150, 9>>, <<1151, 2>>}

Init ==
  /\ model \in Models
  /\ read \in PolledReads(model) \cup LoadReads
  /\ LET held(starts) == IF At \in starts THEN Counts ELSE {0} IN
     counts \in [phases : held({1300, 1400, 1500}), ac : held({1200}), dc : held({1200})]
  /\ raised \in IF At \in {10, 100, 140} THEN Raised ELSE {{}}
  /\ shown = {}

Decode ==
  /\ shown = {}
  /\ shown' = CASE V1(model) -> V1Parse
                [] model = "HB500S" -> PackParse
                [] OTHER -> V2Parse
  /\ UNCHANGED <<model, read, counts, raised>>

Next == Decode

-----------------------------------------------------------------------------
\* The register where a group lies, as the protocol's documents give it.
RegisterOf(what) ==
  CASE what[1] = "alarm" -> (IF V1(model) THEN 54 ELSE 126) + what[2]
    [] what[1] = "fault" -> (IF V1(model) THEN 58 ELSE 133) + what[2]
    [] what[1] = "version" -> IF V1(model) THEN 23 + 2 * what[2] ELSE 1113 + 3 * what[2]
    [] what[1] = "pv" -> 1210 + 8 * what[2]
    [] what[1] = "gridPhase" -> 1313 + 6 * what[2]
    [] what[1] = "acPhase" -> 1430 + 6 * what[2]
    [] what[1] = "invPhase" -> 1509 + 6 * what[2]
    [] what[1] = "iot" -> 11000 + what[2] \div 2
    [] OTHER -> what[2]

\* What a polled block must show: every phase and string the device declares, up to
\* three and five, and every raised bit that has a name.
Declared ==
  LET first(n, name) == {<<name, i>> : i \in 0 .. n - 1}
      bits(name, table) == UNION {{<<name, w - 1, b>> : b \in raised \cap table[w]} : w \in DOMAIN table}
      phases == IF counts.phases <= 4 THEN Least(counts.phases, 3) ELSE 3
      strings(n) == IF n <= 16 THEN n ELSE 0
      alarms == bits("alarm", Tables(model)[1]) \cup bits("fault", Tables(model)[2])
  IN CASE read = <<100, 62>> -> alarms
       [] read = <<10, 110>> -> alarms \cup first(6, "version")
       [] read = <<1100, 51>> -> first(6, "version")
       [] read = <<1200, 70>> -> first(Least(strings(counts.ac) + strings(counts.dc), 5), "pv")
       [] read = <<1300, 31>> -> first(phases, "gridPhase")
       [] read = <<1400, 48>> -> first(phases, "acPhase")
       [] read = <<1500, 30>> -> first(phases, "invPhase")
       [] OTHER -> {}

Groups == {"alarm", "fault", "version", "pv", "gridPhase", "acPhase", "invPhase"}

\* The serial number and the first version of a V1 device overlap.
Known(e, f) == V1(model) /\ {e.what, f.what} = {<<"four", 21>>, <<"version", 0>>}

\* Whatever block is read, and wherever the read begins: every value shown was
\* taken from registers of the payload, from the register that holds it; no byte
\* is shown as two values (but the bits of one alarm word); and a polled block
\* shows exactly the phases, strings, versions and alarms it declares, so that the
\* block lengths, chosen by hand, cut none off.  One overlap is known: the V1
\* serial number is taken from registers 21 to 24, the last two of which are also
\* the first version.
ShowsWhatIsThere ==
  shown # {} =>
    /\ \A e \in shown :
         /\ e.from \subseteq (2 * At) .. (2 * At + Length - 1)
         /\ \E b \in e.from : b \div 2 = RegisterOf(e.what)
         /\ \A b \in e.from : b \div 2 >= RegisterOf(e.what)
    /\ \A e, f \in shown : e.what # f.what /\ e.from \cap f.from # {} =>
         Known(e, f) \/ (e.from = f.from /\ Len(e.what) = 3)
    /\ {e.what : e \in shown} \cap {w \in {e.what : e \in shown} : w[1] \in Groups} = Declared
=============================================================================
