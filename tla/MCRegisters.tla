----------------------------- MODULE MCRegisters -----------------------------
(***************************************************************************)
(* Instances of the parts that turn bytes into values and values into      *)
(* bytes: the handshake's frames, those of a read, blocks of registers,    *)
(* settings, and the comparison of values with what an operator sees.  A   *)
(* behaviour is one of one part.                                           *)
(***************************************************************************)
EXTENDS Integers, Sequences

CONSTANTS Cuts, Splits,   \* where and how often a frame of the handshake is cut
          Payloads, Bursts, Sections, Most, Slaves,   \* as in Wire: the frames of a read
          Counts, Raised, \* what a counter may hold, and the bits that may be up in an alarm word
          Numbers,        \* numbers a setting may be set to
          Raws, Answers   \* words of the registers observed, and numbers an operator may enter

VARIABLES part,
  listening, place, queue, buf, peer, air, split, mishap,
  asked, awaited, session, response, heard, damage, result,
  model, read, counts, raised, shown,
  device, field, value, sent, seen, stage,
  id, word, scale, blocks, answer, item

Payload == {<<0, 0>>, <<255, 255>>, <<18, 52, 86, 120>>}

CutsOf == [challenge |-> {3, 6, 7, 8, 9}, ack |-> 1 .. 6, start |-> {1, 2, 18, 145}, conf |-> {1, 2, 17}]

\* Bursts of up to sixteen bits: pairs at every distance, and full ones.
Shapes == {{0, k} : k \in 0 .. 15} \cup {0 .. k : k \in 1 .. 15} \cup {{0, 1, 7, 15}, {0, 3, 8, 11, 14, 15}}

\* Sections of blocks the program asks for, shortened, and one at a high address.
Section == {<<100, 2>>, <<6000, 1>>, <<21000, 3>>}

RaisedBits == {{}, 0 .. 15, {1, 7, 14}, {13, 15}}

H == INSTANCE Handshake WITH stage <- place, device <- peer
W == INSTANCE Wire
R == INSTANCE Registers WITH Models <- {"AC2A", "EL100V2", "EP600", "AC200L", "AC300", "HB500S"}
T == INSTANCE Settings WITH Devices <- {"AC2A", "EL30V2", "EL400", "EL100V2", "EL10V2", "AC180", "AC60", "EP600",
                                        "AC200L", "AC300", "AC500", "AC200M", "EB3A", "EP500"}
O == INSTANCE Observations

ASSUME RegistersAssumption ==
  H!CutsAssumption /\ W!FramesAssumption /\ R!CountsAssumption /\ T!NumbersAssumption /\ O!ObservedAssumption

shaking == <<listening, place, queue, buf, peer, air, split, mishap>>
frames == <<asked, awaited, session, response, heard, damage, result>>
decoding == <<model, read, counts, raised, shown>>
settings == <<device, field, value, sent, seen, stage>>
observing == <<id, word, scale, blocks, answer, item>>
vars == <<part, shaking, frames, decoding, settings, observing>>

\* The other parts stand still at a value of their own.
NoFrame ==
  /\ asked = <<>> /\ awaited = 0 /\ session = FALSE /\ response = <<>>
  /\ heard = 0 /\ damage = "none" /\ result = <<>>
NoBlock ==
  /\ model = "AC2A" /\ read = <<100, 6>> /\ counts = [phases |-> 0, ac |-> 0, dc |-> 0]
  /\ raised = {} /\ shown = {}
NoSetting ==
  /\ device = "AC2A" /\ field = 2011 /\ value = [form |-> "number", n |-> 0]
  /\ sent = -1 /\ seen = -1 /\ stage = "asked"
NoItem ==
  /\ id = "soc" /\ word = [r \in {102} |-> 0] /\ scale = 1 /\ blocks = [b \in {100} |-> "pass"]
  /\ answer = [kind |-> "empty", low |-> -1, high |-> -1]
  /\ item = [status |-> "new", inferred |-> -1, ref |-> -1]

Init ==
  \/ part = "handshake" /\ H!Init /\ NoFrame /\ NoBlock /\ NoSetting /\ NoItem
  \/ part = "frames" /\ H!Init /\ W!Init /\ NoBlock /\ NoSetting /\ NoItem
  \/ part = "decoding" /\ H!Init /\ NoFrame /\ R!Init /\ NoSetting /\ NoItem
  \/ part = "settings" /\ H!Init /\ NoFrame /\ NoBlock /\ T!Init /\ NoItem
  \/ part = "observing" /\ H!Init /\ NoFrame /\ NoBlock /\ NoSetting /\ O!Init

Next ==
  /\ UNCHANGED part
  /\ \/ part = "handshake" /\ H!Next /\ UNCHANGED <<frames, decoding, settings, observing>>
     \/ part = "frames" /\ W!Next /\ UNCHANGED <<shaking, decoding, settings, observing>>
     \/ part = "decoding" /\ R!Next /\ UNCHANGED <<shaking, frames, settings, observing>>
     \/ part = "settings" /\ T!Next /\ UNCHANGED <<shaking, frames, decoding, observing>>
     \/ part = "observing" /\ O!Next /\ UNCHANGED <<shaking, frames, decoding, settings>>

Spec == Init /\ [][Next]_vars

\* The properties of the parts, stated where they are defined.
EndsAsMeant == part = "handshake" => H!EndsAsMeant

ResponseSound == part = "frames" => W!ResponseSound

ShowsWhatIsThere == part = "decoding" => R!ShowsWhatIsThere

WriteReadsBack == part = "settings" => T!WriteReadsBack

ObservationSound == part = "observing" => O!ObservationSound
=============================================================================
