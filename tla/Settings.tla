------------------------------- MODULE Settings -------------------------------
(***************************************************************************)
(* Writable settings: a device's control registers, the word that          *)
(* build_setter_command makes of a value, and what the registers show when *)
(* they are read again.  A register stands for its field; a value is its   *)
(* form (a number, a text naming the number, a number with the field's     *)
(* unit, a text naming nothing) and the number.  system_time is left out: *)
(* seconds since 1970 fit no register, and its setter raises.              *)
(***************************************************************************)
EXTENDS Integers

CONSTANTS Devices,
          Numbers    \* numbers a user may give besides those at the edges of a range

NumbersAssumption == Numbers \subseteq Int

None == -1

\* WorkingMode, InvFrequency, LedColor and the other enumerations.
WorkingMode == {1, 2, 3, 4, 5, 11}
ChargingMode == {0, 1, 2}
El100ChargingMode == {0, 1, 2, 4}
InvFrequency == {0, 1}
InverterFrequency == {50, 60}
LedColor == {0, 1, 2, 3}
PvType == {0, 3}
Pv2Type == {0, 3, 4}
EmsCtrlMode == {0, 3, 4, 5, 8}
SystemPowerOff == 0 .. 4

\* Ranges of numbers: what a register holds, and percents.
Word == <<0, 65535>>
Percent == <<0, 100>>
Within(n, range) == range[1] <= n /\ n <= range[2]

\* For a device: its BoolFields, EnumFields, UintFields (with their ranges),
\* DecimalFields (tenths), and those of the UintFields that have a unit.
Control(bools, enums, uints, tenths, units) ==
  [bools |-> bools, enums |-> enums, uints |-> uints, tenths |-> tenths, units |-> units]

On(registers, range) == [r \in registers |-> range]
Both(f, g) == [r \in DOMAIN f \cup DOMAIN g |-> IF r \in DOMAIN f THEN f[r] ELSE g[r]]

Modes(charging, more) == Both(On({2005}, WorkingMode), Both(On({2020}, charging), Both(On({2210}, InvFrequency), more)))

Switches == {2007, 2011, 2012, 2014, 2066, 2206}
Feeding == {2207, 2208}
EcoUnits == {2015, 2016, 2018, 2019}
Limits == {2211, 2212, 2214, 2216}
Nothing == On({}, {})

AC2A ==
  Control(Switches \cup Feeding \cup {2013, 2017, 2021, 2086},
          Modes(ChargingMode, Both(Both(On({2060}, PvType), On({2061}, Pv2Type)), Both(On({2078}, LedColor), On({2241}, EmsCtrlMode)))),
          Both(Both(On({2022, 2023, 2075, 2083}, Percent), On({2067}, <<0, 255>>)),
               On({2004, 2084, 2209, 2213, 2215} \cup EcoUnits, Word)),
          Limits, EcoUnits)

EL30V2 ==
  Control(Switches \cup Feeding \cup {2013, 2017, 2021, 3035},
          Modes(ChargingMode, On({2078}, LedColor)),
          Both(On({2022, 2023, 2075, 2083}, Percent), On({2004, 2067, 2209, 2213, 2215} \cup EcoUnits, Word)),
          Limits, EcoUnits)

EL400 ==
  Control(Switches \cup Feeding \cup {2017, 2021, 3035},
          Modes(ChargingMode, Both(On({2013}, SystemPowerOff), On({2078}, LedColor))),
          Both(On({2022, 2023, 2074, 2075, 2083}, Percent),
               On({2004, 2067, 2079, 2209, 2213, 2215} \cup EcoUnits, Word)),
          Limits, EcoUnits)

EL100V2 ==
  Control(Switches \cup Feeding \cup {2013, 2017},
          Modes(El100ChargingMode, Nothing),
          Both(Both(Both(On({2015, 2018}, <<1, 4>>), On({2016}, <<5, 20>>)), Both(On({2019}, <<10, 40>>), On({2214}, <<0, 15>>))),
               Both(On({2075, 2083}, Percent), On({2004, 2067, 2209, 2213, 2215}, Word))),
          Limits \ {2214}, EcoUnits \cup {2214})

EL10V2 ==
  Control(Switches \cup {2013, 2017, 2021, 2072, 3035},
          Modes(ChargingMode, On({2078}, LedColor)),
          Both(Both(On({2022, 2023, 2075, 2083}, Percent), On({2076}, <<1, 2>>)), On({2004, 2067} \cup EcoUnits, Word)),
          {}, EcoUnits)

AC180 ==
  Control(Switches \cup {2013, 2017, 2021, 2072},
          Modes(ChargingMode, Nothing),
          Both(Both(On({2022, 2023}, Percent), On({2076}, <<1, 2>>)), On({2004, 2067} \cup EcoUnits, Word)),
          {}, EcoUnits)

AC60 ==
  Control(Switches \cup {2013, 2021},
          Modes(ChargingMode, Nothing),
          Both(On({2022, 2023, 2075, 2083}, Percent), On({2004, 2015, 2016, 2067, 2209}, Word)),
          {}, {2015, 2016})

Ups == Control({3035}, Nothing, Nothing, {}, {})

AC300 ==
  Control({3002, 3007, 3008, 3009, 3010, 3011, 3035, 3060, 3062, 3063, 3066, 3067, 3090},
          Both(On({3001}, WorkingMode), On({3065}, ChargingMode)),
          On({3004, 3005, 3014, 3015, 3016, 3018, 3019, 3039, 3057, 3058, 3064, 3069, 3070, 3079}, Word),
          {}, {3064, 3069, 3070})

AC200L == [AC300 EXCEPT !.enums = Both(@, On({3003}, InverterFrequency))]

AC500 == [AC300 EXCEPT !.enums = Both(@, On({3003}, InverterFrequency))]

AC200M == Control({3007, 3008, 3034, 3035, 3060, 3062, 3063}, On({3001}, WorkingMode), Nothing, {}, {})

EB3A == Control({3007, 3008, 3034, 3060, 3062, 3063}, Nothing, Nothing, {}, {})

ControlOf ==
  [AC2A |-> AC2A, EL30V2 |-> EL30V2, EL400 |-> EL400, EL100V2 |-> EL100V2, EL10V2 |-> EL10V2,
   AC180 |-> AC180, AC60 |-> AC60, EP600 |-> Ups, AC200L |-> AC200L, AC300 |-> AC300, AC500 |-> AC500,
   AC200M |-> AC200M, EB3A |-> EB3A, EP500 |-> Ups]

\* What the status and verify commands read of the control registers.
ControlReads(d) ==
  CASE d \in {"AC2A"} -> (2000 .. 2023) \cup (2060 .. 2086) \cup (2200 .. 2217) \cup {2241}
    [] d \in {"EL30V2", "EL400"} -> (2000 .. 2023) \cup (2060 .. 2086) \cup (2200 .. 2217) \cup {3035}
    [] d = "EL10V2" -> (2000 .. 2023) \cup (2060 .. 2086) \cup (2200 .. 2211) \cup {3035}
    [] d \in {"AC180", "AC60"} -> (2000 .. 2023) \cup (2060 .. 2086) \cup (2200 .. 2211)
    [] d = "EL100V2" -> (2000 .. 2066) \cup (2200 .. 2217)
    [] d = "EP600" -> {3035}
    [] d = "EP500" -> 3000 .. 3035
    [] OTHER -> 3000 .. 3099

VARIABLES device, field, value, sent, seen, stage
vars == <<device, field, value, sent, seen, stage>>

C == ControlOf[device]
V1 == device \in {"AC200L", "AC300", "AC500", "AC200M", "EB3A", "EP500"}
Settable == C.bools \cup DOMAIN C.enums \cup DOMAIN C.uints \cup C.tenths

\* Values at the edges of what a field takes.
Inputs(f) ==
  LET numbers == CASE f \in DOMAIN C.enums -> C.enums[f] \cup {7, 70} \cup Numbers
                   [] f \in DOMAIN C.uints ->
                        UNION {{n - 1, n, n + 1} : n \in {C.uints[f][1], C.uints[f][2]}} \cup Numbers
                   [] f \in C.tenths -> {0, 14, 144}
                   [] OTHER -> {0, 1}
  IN [form : {"number", "text", "unit"}, n : numbers] \cup [form : {"junk"}, n : {0}]

Init ==
  /\ device \in Devices
  /\ field \in Settable
  /\ value \in Inputs(field)
  /\ sent = None /\ seen = None /\ stage = "asked"

\* EL10V2 and AC180 send 0x20 and 0x10 for the child lock.
ChildLock(f) == f = 2072

\* Mutant: the range of a number is not checked.
EncodedUnchecked(f, v) ==
  IF ChildLock(f) THEN IF v.form # "junk" /\ v.form # "unit" /\ v.n # 0 THEN 32 ELSE 16
  ELSE IF f \in C.bools THEN IF v.form \in {"number", "text"} /\ v.n # 0 THEN 1 ELSE 0
  ELSE IF f \in DOMAIN C.enums THEN IF v.form \in {"number", "text"} /\ v.n \in C.enums[f] THEN v.n ELSE None
  ELSE IF v.form = "junk" \/ (v.form = "unit" /\ (V1 \/ f \notin C.units)) THEN None
  ELSE IF Within(v.n, Word) THEN v.n ELSE None

\* The word a field takes for a value, None when the value is refused: an
\* unknown enumeration member, a number out of range or out of a word, a text that
\* is no number.  A text that is not on, 1, true or yes turns a switch off.  Only
\* the V2 classes drop a unit, and only where the field has one.
Encoded(f, v) ==
  IF ChildLock(f) THEN IF v.form # "junk" /\ v.form # "unit" /\ v.n # 0 THEN 32 ELSE 16
  ELSE IF f \in C.bools THEN IF v.form \in {"number", "text"} /\ v.n # 0 THEN 1 ELSE 0
  ELSE IF f \in DOMAIN C.enums THEN IF v.form \in {"number", "text"} /\ v.n \in C.enums[f] THEN v.n ELSE None
  ELSE IF v.form = "junk" \/ (v.form = "unit" /\ (V1 \/ f \notin C.units)) THEN None
  ELSE IF f \in DOMAIN C.uints /\ ~Within(v.n, C.uints[f]) THEN None
  ELSE IF Within(v.n, Word) THEN v.n ELSE None

Build ==
  /\ stage = "asked"
  /\ sent' = Encoded(field, value)
  /\ stage' = IF sent' = None THEN "refused" ELSE "written"
  /\ UNCHANGED <<device, field, value, seen>>

\* A word a register holds, as it is shown: a number out of range is not, an
\* enumeration's unknown number is.  Decimals are in tenths.
Shown(f, word) ==
  CASE f \in C.bools -> IF word = 1 THEN 1 ELSE 0
    [] f \in DOMAIN C.uints /\ ~Within(word, C.uints[f]) -> None
    [] OTHER -> word

ReadBack ==
  /\ stage = "written"
  /\ seen' = IF field \in ControlReads(device) THEN Shown(field, sent) ELSE None
  /\ stage' = "read"
  /\ UNCHANGED <<device, field, value, sent>>

Next == Build \/ ReadBack

-----------------------------------------------------------------------------
\* EL100V2 reads its settings to 2066 only.
NotRead == {2067, 2075, 2083}

\* What a setter accepts, the next read of the settings shows as it was asked for:
\* the field is within the registers that are read, its range does not hide it, and
\* it decodes to the number meant.  Four things are not so in the code, and are
\* left out by name: a DecimalField is written unscaled (14 becomes 1.4), the child
\* lock is written as 0x20 or 0x10 and shown as a 1-or-not switch, a word that
\* means nothing turns a switch off, and three registers of EL100V2 are not read.
WriteReadsBack ==
  (/\ stage = "read"
   /\ field \notin C.tenths
   /\ ~ChildLock(field)
   /\ field \in C.bools => value.form \in {"number", "text"}
   /\ ~(device = "EL100V2" /\ field \in NotRead)) => seen = value.n
=============================================================================
