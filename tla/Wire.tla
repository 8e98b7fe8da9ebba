--------------------------------- MODULE Wire ---------------------------------
(***************************************************************************)
(* The bytes of a read: the request and its CRC, the plain response and    *)
(* the check it must pass, the bundle of blocks (TLV) and its parser, and  *)
(* the number of bytes the client waits for, in clear and encrypted.  The  *)
(* device answers what it was asked, a bundle in the form the parser and   *)
(* docs/source/protocol/polling-strategy.md:57 give it.  A plain response  *)
(* in clear may be hit by a burst of flipped bits (no burst is tried on a  *)
(* bundle, whose CRCs the parser skips); the end of any may be lost.       *)
(***************************************************************************)
EXTENDS Integers, Sequences

CONSTANTS Payloads,   \* register bytes a plain response may carry
          Bursts,     \* the shapes of a burst, as sets of offsets that hold 0
          Sections,   \* the sections a bundle may ask for, <<register, count>>
          Most,       \* how many sections it asks for at most
          Slaves      \* slave addresses

\* What fits the bytes of a frame; the length of a bundle's request is one byte.
FramesAssumption ==
  /\ \A p \in Payloads : p \in Seq(0 .. 255) /\ Len(p) <= 255
  /\ \A shape \in Bursts : shape \subseteq 0 .. 15 /\ shape # {}
  /\ Sections \subseteq (0 .. 256 * 256 - 1) \X (0 .. 128 * 256 - 1)
  /\ Most \in 1 .. 41 /\ Slaves \subseteq 0 .. 255

None == -1

Weight == <<1, 2, 4, 8, 16, 32, 64, 128>>

Bits(byte) == {k \in 0 .. 7 : (byte \div Weight[k + 1]) % 2 = 1}

Number(bits) ==
  LET one(k) == IF k \in bits THEN Weight[k + 1] ELSE 0
  IN one(0) + one(1) + one(2) + one(3) + one(4) + one(5) + one(6) + one(7)

Xor(a, b) == (a \ b) \cup (b \ a)

\* One bit of CRC16-Modbus, its register as the set of its bits; 0xA001 is 15, 13 and 0.
CrcBit(crc) == Xor({k - 1 : k \in crc \ {0}}, IF 0 \in crc THEN {15, 13, 0} ELSE {})

CrcByte(crc) ==
  LET bit == [c \in SUBSET (0 .. 15) |-> CrcBit(c)] IN bit[bit[bit[bit[bit[bit[bit[bit[crc]]]]]]]]

\* The register after each of the bytes.
Crc(data) ==
  LET crc[i \in 0 .. Len(data)] == IF i = 0 THEN 0 .. 15 ELSE CrcByte(Xor(crc[i - 1], Bits(data[i])))
  IN crc

\* The two bytes of the CRC of a sequence of bytes, the low byte first.
crc16_modbus(data) ==
  LET end == Crc(data)[Len(data)]
  IN <<Number(end \cap (0 .. 7)), Number({k - 8 : k \in end \cap (8 .. 15)})>>

Framed(data) == data \o crc16_modbus(data)

Half(n) == <<n \div 256, n % 256>>

Joined(hi, lo) == 256 * hi + lo

Upto(s) == LET upto[i \in 0 .. Len(s)] == IF i = 0 THEN <<>> ELSE upto[i - 1] \o s[i] IN upto

Flatten(s) == Upto(s)[Len(s)]

\* A bundle's request: the register count of a section goes out as bytes, and the
\* lengths of the sections in words and in bytes.
build_tlv_read_payload(sections, slave) ==
  LET inner == <<156, 69, 1, 1>>
               \o Flatten([i \in DOMAIN sections |->
                             <<0, slave>> \o Half(sections[i][1]) \o Half(2 * sections[i][2])])
  IN Framed(<<0, 16, 82, 8>> \o Half(Len(inner) \div 2) \o <<Len(inner)>> \o inner)

\* What a bundle's request asks for, read by the device from its bytes.
Asked(request) ==
  LET bytes == request[7]
      at(i) == 11 + 6 * (i - 1)
  IN [i \in 1 .. (bytes - 4) \div 6 |->
        [slave |-> request[at(i) + 2], reg |-> Joined(request[at(i) + 3], request[at(i) + 4]),
         length |-> Joined(request[at(i) + 5], request[at(i) + 6])]]

\* The device's answer: for each section its value, here its bytes numbered, and a CRC.
Value(item) == [k \in 1 .. item.length |-> (item.reg + k) % 256]

Bundle(items) ==
  <<64, 0, 4>> \o Flatten([i \in DOMAIN items |->
    Framed(<<items[i].slave>> \o Half(items[i].reg) \o Half(items[i].length) \o Value(items[i]))])

\* Mutant: the second byte of the CRC is not compared.
is_valid_responseLow(response) ==
  /\ Len(response) >= 3
  /\ response[Len(response) - 1] = crc16_modbus(SubSeq(response, 1, Len(response) - 2))[1]

\* A plain response: it must be whole and end in the CRC of what is before.
is_valid_response(response) ==
  /\ Len(response) >= 3
  /\ SubSeq(response, Len(response) - 1, Len(response)) = crc16_modbus(SubSeq(response, 1, Len(response) - 2))

parse_response(response) == SubSeq(response, 4, Len(response) - 2)

\* A bundle is valid by its first bytes, or by a CRC; the CRCs of the items are skipped.
TlvIsValid(response) == Len(response) >= 5 /\ (SubSeq(response, 1, 3) = <<64, 0, 4>> \/ is_valid_response(response))

ParseError == [slave |-> None, reg |-> None, length |-> None, value |-> <<>>]

\* One turn of the parser's loop: an item that does not fit its declared length ends
\* the parse with an error; what is too short to be an item is left.
Turn(data, s) ==
  LET length == Joined(data[s.pos + 4], data[s.pos + 5])
      next == s.pos + 5 + length + 2
  IN IF s.pos + 6 > Len(data) THEN s
     ELSE IF next > Len(data) THEN [pos |-> Len(data), items |-> <<ParseError>>]
     ELSE [pos |-> next,
           items |-> Append(s.items,
             [slave |-> data[s.pos + 1], reg |-> Joined(data[s.pos + 2], data[s.pos + 3]), length |-> length,
              value |-> SubSeq(data, s.pos + 6, s.pos + 5 + length)])]

\* The parser after each of its turns; it takes no more turns than there are bytes.
Turns(data) ==
  LET after[k \in 0 .. Len(data)] == IF k = 0 THEN [pos |-> 3, items |-> <<>>] ELSE Turn(data, after[k - 1])
  IN after

Parsed(data) ==
  IF Len(data) < 3 \/ SubSeq(data, 1, 3) # <<64, 0, 4>> THEN <<>> ELSE Turns(data)[Len(data)].items

\* response_size of a bundle: the bytes of its values, and 32.
SizeOfBundle(items) == Len(Flatten([i \in DOMAIN items |-> Value(items[i])])) + 32

\* What a frame of n bytes takes when it is encrypted: padded, with its length and seed.
Enciphered(n) == 6 + 16 * ((n + 15) \div 16)

VARIABLES asked,      \* the sections of a bundle, <<>> for a plain read
          awaited,    \* response_size of the command
          session,    \* whether the link is encrypted
          response,   \* what the device sent, before its encryption
          heard,      \* bytes of it that have come, as they are in the air
          damage, result

vars == <<asked, awaited, session, response, heard, damage, result>>

Airborne(n) == IF session THEN Enciphered(n) ELSE n

Init ==
  /\ session \in BOOLEAN
  /\ \/ /\ asked = <<>>
        /\ \E p \in Payloads, s \in Slaves :
             response = Framed(<<s, 3, Len(p)>> \o p) /\ awaited = Len(p) + 5
     \/ \E n \in 1 .. Most, s \in Slaves : \E sections \in [1 .. n -> Sections] :
          /\ asked = Asked(build_tlv_read_payload(sections, s))
          /\ response = Bundle(asked) /\ awaited = SizeOfBundle(asked)
  /\ heard = Airborne(Len(response))
  /\ damage = "none" /\ result = <<>>

Plain == asked = <<>>

\* The bits of a frame in the order of the CRC: a byte's low bit first.
Flipped(frame, bits) ==
  [i \in DOMAIN frame |-> Number(Xor(Bits(frame[i]), {b - 8 * (i - 1) : b \in bits \cap ((8 * (i - 1)) .. (8 * i - 1))}))]

Burst ==
  /\ damage = "none" /\ Plain /\ ~session /\ result = <<>>
  /\ \E shape \in Bursts : \E start \in 0 .. 8 * Len(response) - 1 :
       LET bits == {start + k : k \in shape} IN
       /\ \A b \in bits : b < 8 * Len(response)
       /\ response' = Flipped(response, bits)
  /\ damage' = "burst"
  /\ UNCHANGED <<asked, awaited, session, heard, result>>

Cut ==
  /\ damage = "none" /\ result = <<>>
  /\ heard' \in 0 .. heard - 1
  /\ damage' = "cut"
  /\ UNCHANGED <<asked, awaited, session, response, result>>

\* decode_frame raises when what it was given is too short for the length in it.
Decodes == session => Enciphered(Len(response)) <= Enciphered(awaited)

\* What the command gets to check: encrypted, the frame decoded; in clear, cut to its size.
Got == IF session THEN response ELSE SubSeq(response, 1, awaited)

IsValid(data) == IF Plain THEN is_valid_response(data) ELSE TlvIsValid(data)

\* Nothing is completed before the bytes awaited are there: short of them the command
\* times out.  Then what it gets is checked, and parsed when it is valid.
Receive ==
  /\ result = <<>>
  /\ result' = IF heard < Airborne(awaited) THEN <<"waits", <<>>>>
               ELSE IF ~Decodes \/ ~IsValid(Got) THEN <<"refused", <<>>>>
               ELSE <<"taken", IF Plain THEN parse_response(Got) ELSE Parsed(Got)>>
  /\ UNCHANGED <<asked, awaited, session, response, heard, damage>>

Next == Burst \/ Cut \/ Receive

-----------------------------------------------------------------------------
\* The items that were asked for, with their bytes.
Whole == [i \in DOMAIN asked |->
            [slave |-> asked[i].slave, reg |-> asked[i].reg, length |-> asked[i].length, value |-> Value(asked[i])]]

\* A plain response hit by a burst of at most sixteen bits, or short of its end, is
\* never taken, and one that is not always is.  Of a bundle that is taken in clear the
\* parser returns an error or the first of the sections that were asked for, each whole:
\* it never takes a cut item for a value.  One taken encrypted gives all of them.
ResponseSound ==
  result # <<>> =>
    IF Plain THEN (result[1] = "taken") = (damage = "none")
    ELSE result[1] = "taken" =>
           IF session THEN result[2] = Whole
           ELSE \/ result[2] = <<ParseError>>
                \/ result[2] = SubSeq(Whole, 1, Len(result[2]))
=============================================================================
