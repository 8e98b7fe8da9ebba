--------------------------- MODULE RegistersProofs ---------------------------
(***************************************************************************)
(* Proofs of EndsAsMeant, for any cuts of the handshake's frames into any  *)
(* number of pieces, of ResponseSound, for any payloads and bundles and    *)
(* any bursts of up to sixteen bits, of ShowsWhatIsThere, for any counters *)
(* and alarm words in a block, of WriteReadsBack, for any numbers a user   *)
(* may give, and of ObservationSound, for any words in the registers       *)
(* observed and any numbers an operator may enter.                         *)
(***************************************************************************)
EXTENDS MCRegisters, SequenceTheorems, WellFoundedInduction, TLAPS

\* Cuts are inside a frame.
LEMMA CutsHere == H!CutsAssumption
BY RegistersAssumption DEF RegistersAssumption

\* Payloads are bytes, a burst is of sixteen bits, and a bundle's request fits its frame.
LEMMA FramesHere == W!FramesAssumption
BY RegistersAssumption DEF RegistersAssumption

\* Counters hold numbers, and alarm words have sixteen bits.
LEMMA CountsHere == R!CountsAssumption
BY RegistersAssumption DEF RegistersAssumption

\* Registers hold numbers, and so do answers.
LEMMA ObservedHere == O!ObservedAssumption
BY RegistersAssumption DEF RegistersAssumption

\* A step is one of one part, and leaves the others as they are.
LEMMA OneOfTheParts ==
  ASSUME [Next]_vars
  PROVE  /\ [H!Next]_H!vars /\ [W!Next]_W!vars /\ [R!Next]_R!vars /\ [T!Next]_T!vars /\ [O!Next]_O!vars
         /\ UNCHANGED part
<1>1. [H!Next]_H!vars
  BY DEF Next, vars, shaking, frames, decoding, settings, observing, H!vars
<1>2. [O!Next]_O!vars
  BY DEF Next, vars, shaking, frames, decoding, settings, observing, O!vars
<1>3. [T!Next]_T!vars
  BY DEF Next, vars, shaking, frames, decoding, settings, observing, T!vars
<1>4. [R!Next]_R!vars
  BY DEF Next, vars, shaking, frames, decoding, settings, observing, R!vars
<1>5. [W!Next]_W!vars
  BY DEF Next, vars, shaking, frames, decoding, settings, observing, W!vars
<1>6. UNCHANGED part
  BY DEF Next, vars
<1> QED
  BY <1>1, <1>2, <1>3, <1>4, <1>5, <1>6

-----------------------------------------------------------------------------
(* Handshake.                                                              *)

\* Places run waits for a notification.
Waiting == {"challenge", "ack", "start", "conf"}

\* The notifications that run has still to read.
Stream == queue \o air

\* The variables keep their types, and nothing is queued before connect listens.
ShakingTyped ==
  /\ listening \in BOOLEAN /\ split \in BOOLEAN /\ mishap \in BOOLEAN
  /\ place \in Waiting \cup {"session", "failed"}
  /\ peer \in {"idle", "challenged", "replied", "misled", "acked", "refused", "rejected", "started", "keyed", "accepted", "gone"}
  /\ queue \in Seq(H!Piece) /\ air \in Seq(H!Piece)
  /\ buf \in [of : H!Frames \cup {"none", "mixed"}, size : Int]
  /\ ~listening => place = "challenge" /\ queue = <<>> /\ buf = H!Empty

\* Places run and the peer can be at one time.
Places ==
  /\ place = "challenge" => peer \in {"idle", "challenged", "gone"}
  /\ place = "ack" => peer \in {"replied", "misled", "acked", "refused", "rejected", "started", "gone"}
  /\ place = "start" => peer \in {"acked", "started", "gone"}
  /\ place = "conf" => peer \in {"keyed", "accepted", "refused", "gone"}
  /\ place = "session" => peer = "accepted"
  /\ peer \in {"keyed", "accepted"} => ~split
  /\ peer = "gone" => mishap
  /\ peer \in {"misled", "rejected"} => split
  /\ place = "failed" => peer = "refused" \/ mishap \/ split

\* The pieces s are the rest of a frame after n bytes of it.
Rest(s, frame, n) ==
  /\ s # <<>> /\ s[Len(s)].to = H!Size[frame]
  /\ \A i \in 1..Len(s) :
       /\ s[i].of = frame /\ s[i].status = 0
       /\ s[i].from = (IF i = 1 THEN n ELSE s[i - 1].to) + 1 /\ s[i].from <= s[i].to
       /\ i < Len(s) => s[i].to < H!Size[frame]

\* So far run has the beginning of a frame, and the rest is coming.
Partial(b, s, frame) == b.size < H!Size[frame] /\ (b = H!Empty \/ b.of = frame) /\ Rest(s, frame, b.size)

\* The beginning of the challenge was missed.
Headless(b, s) ==
  /\ b = H!Empty \/ b.of = "mixed"
  /\ \A i \in 1..Len(s) : s[i].of = "challenge" /\ s[i].from # 1

\* What the next read finds of a frame that was cut: the end of the challenge, the two
\* parts of the status-ack, and what is no beginning of the peer's key.
Stray(s) == s # <<>> /\ s[1].of = "challenge"
HalfAck(s) == Len(s) >= 2 /\ s[1].of = "ack" /\ s[2].of = "ack"
WholeAck == [of |-> "ack", from |-> 1, to |-> H!Size.ack, status |-> 0]
Spoilt(b, s) == IF b = H!Empty THEN s # <<>> /\ s[1].of # "start" ELSE b.of # "start"

\* For each place of both sides, what run has collected and has still to read.
Coming(b, s) ==
  /\ place = "challenge" /\ peer = "idle" => s = <<>> /\ b = H!Empty /\ ~split
  /\ place = "challenge" /\ peer = "challenged" =>
       \/ /\ b.size < 7 /\ Partial(b, s, "challenge")
          /\ split <=> \E i \in 1..Len(s) : i < Len(s) /\ s[i].to >= 7
       \/ mishap /\ Headless(b, s)
  /\ place = "ack" => b = H!Empty
  /\ place = "ack" /\ peer = "replied" => IF split THEN Stray(s) ELSE s = <<>>
  /\ place = "ack" /\ peer \in {"acked", "started"} =>
       IF split THEN Stray(s) \/ HalfAck(s)
       ELSE s # <<>> /\ s[1] = WholeAck /\ IF peer = "acked" THEN Len(s) = 1 ELSE Rest(Tail(s), "start", 0)
  /\ place = "start" /\ peer \in {"acked", "started"} =>
       IF split THEN Spoilt(b, s)
       ELSE IF peer = "acked" THEN s = <<>> /\ b = H!Empty ELSE Partial(b, s, "start")
  /\ place = "conf" /\ peer = "keyed" => s = <<>> /\ b = H!Empty
  /\ place = "conf" /\ peer = "accepted" => mishap \/ Partial(b, s, "conf")

\* A good status is on its way only when the peer has given it.
Statuses(s) ==
  /\ place \in Waiting => \A i \in 1..Len(s) : s[i].of = "conf" /\ s[i].status = 0 => peer = "accepted"
  /\ place = "ack" => \A i \in 1..Len(s) : s[i].of = "ack" /\ s[i].status = 0 => peer \in {"acked", "started", "gone"}

\* The invariant of a handshake.
ShakingInv == ShakingTyped /\ Places /\ Coming(buf, Stream) /\ Statuses(Stream)

\* The bytes of the frames.
LEMMA Sizes ==
  /\ H!Frames = {"challenge", "ack", "start", "conf"}
  /\ H!Size.challenge = 10 /\ H!Size.ack = 7 /\ H!Size.start = 146 /\ H!Size.conf = 18
  /\ H!Encrypted(H!Plaintext.start) = 146 /\ H!Encrypted(H!Plaintext.conf) = 18
  /\ \A frame \in H!Frames : H!Size[frame] \in Nat \ {0}
<1>1. H!Encrypted(134) = 146 /\ H!Encrypted(7) = 18
  BY DEF H!Encrypted
<1> QED
  BY <1>1 DEF H!Frames, H!Size, H!Plaintext

\* What is on its way is delivered, the head is read, and more is sent.
LEMMA Streams ==
  ASSUME NEW q \in Seq(H!Piece), NEW a \in Seq(H!Piece)
  PROVE  /\ a # <<>> => Append(q, Head(a)) \o Tail(a) = q \o a
         /\ q # <<>> => q \o a # <<>> /\ Head(q) = (q \o a)[1] /\ Tail(q) \o a = Tail(q \o a)
         /\ q \o a \in Seq(H!Piece)
         /\ \A p \in Seq(H!Piece) : q \o (a \o p) = (q \o a) \o p
<1>1. ASSUME a # <<>> PROVE Append(q, Head(a)) \o Tail(a) = q \o a
  BY <1>1
<1>2. ASSUME q # <<>> PROVE q \o a # <<>> /\ Head(q) = (q \o a)[1] /\ Tail(q) \o a = Tail(q \o a)
  BY <1>2
<1>3. \A p \in Seq(H!Piece) : q \o (a \o p) = (q \o a) \o p
  OBVIOUS
<1>4. q \o a \in Seq(H!Piece)
  OBVIOUS
<1> QED
  BY <1>1, <1>2, <1>3, <1>4, Zenon

\* The pieces of a frame that is sent.
Cutting(p, frame, status) ==
  /\ p \in Seq(H!Piece) /\ p # <<>>
  /\ \A i \in 1..Len(p) : p[i].of = frame /\ p[i].status = status
  /\ status = 0 => Rest(p, frame, 0)
  /\ frame = "challenge" => split' = (split \/ \E i \in 1..Len(p) : i < Len(p) /\ p[i].to >= 7)
  /\ frame = "ack" => split' = (split \/ Len(p) > 1)
  /\ frame \in {"start", "conf"} => split' = split

\* A frame is sent in pieces that follow each other.
LEMMA SendsPieces ==
  ASSUME split \in BOOLEAN, NEW frame \in H!Frames, NEW status \in {0, 1}, H!Sends(frame, status)
  PROVE  \E p : Cutting(p, frame, status) /\ air' = air \o p
<1>0. PICK n \in 0..Splits : \E cut \in [1..n -> Cuts[frame]] :
        /\ \A i \in 1..(n - 1) : cut[i] < cut[i + 1]
        /\ air' = air \o H!Pieces(frame, cut, status)
        /\ split' = (split \/ (frame = "challenge" /\ \E i \in 1..n : cut[i] >= 7) \/ (frame = "ack" /\ n > 0))
  BY DEF H!Sends
<1>1. PICK cut \in [1..n -> Cuts[frame]] :
        /\ \A i \in 1..(n - 1) : cut[i] < cut[i + 1]
        /\ air' = air \o H!Pieces(frame, cut, status)
        /\ split' = (split \/ (frame = "challenge" /\ \E i \in 1..n : cut[i] >= 7) \/ (frame = "ack" /\ n > 0))
  BY <1>0
<1> DEFINE p == H!Pieces(frame, cut, status)
<1>2. n \in Nat /\ H!Size[frame] \in Nat \ {0} /\ \A i \in 1..n : cut[i] \in Nat /\ 1 <= cut[i] /\ cut[i] < H!Size[frame]
  BY <1>1, CutsHere, Sizes DEF H!CutsAssumption
<1>3. Len(cut) = n
  BY <1>1, <1>2
<1>4. p = [i \in 1..(n + 1) |-> [of |-> frame, from |-> IF i = 1 THEN 1 ELSE cut[i - 1] + 1,
                                to |-> IF i = n + 1 THEN H!Size[frame] ELSE cut[i], status |-> status]]
  BY <1>3 DEF H!Pieces
<1> HIDE DEF p
<1>5. \A i \in 1..(n + 1) :
        /\ p[i] \in H!Piece /\ p[i].of = frame /\ p[i].status = status
        /\ p[i].from = IF i = 1 THEN 1 ELSE cut[i - 1] + 1
        /\ p[i].to = IF i = n + 1 THEN H!Size[frame] ELSE cut[i]
  <2> SUFFICES ASSUME NEW i \in 1..(n + 1)
               PROVE  /\ p[i] \in H!Piece /\ p[i].of = frame /\ p[i].status = status
                      /\ p[i].from = IF i = 1 THEN 1 ELSE cut[i - 1] + 1
                      /\ p[i].to = IF i = n + 1 THEN H!Size[frame] ELSE cut[i]
    OBVIOUS
  <2>1. p[i] = [of |-> frame, from |-> IF i = 1 THEN 1 ELSE cut[i - 1] + 1,
                to |-> IF i = n + 1 THEN H!Size[frame] ELSE cut[i], status |-> status]
    BY <1>4
  <2>2. (IF i = 1 THEN 1 ELSE cut[i - 1] + 1) \in Nat /\ (IF i = n + 1 THEN H!Size[frame] ELSE cut[i]) \in Nat
    BY <1>2
  <2> QED
    BY <2>1, <2>2 DEF H!Piece
<1>6. p \in Seq(H!Piece) /\ Len(p) = n + 1 /\ p # <<>>
  <2>1. p \in [1..(n + 1) -> H!Piece] /\ n + 1 \in Nat
    <3>1. p = [i \in 1..(n + 1) |-> p[i]]
      BY <1>4
    <3>2. \A i \in 1..(n + 1) : p[i] \in H!Piece
      BY <1>5
    <3> QED
      BY <1>2, <3>1, <3>2
  <2>2. p \in Seq(H!Piece) /\ Len(p) = n + 1
    BY <2>1
  <2> QED
    BY <1>2, <2>2
<1>7. Rest(p, frame, 0) \/ status = 1
  <2>1. p[Len(p)].to = H!Size[frame]
    BY <1>2, <1>5, <1>6
  <2>2. ASSUME NEW i \in 1..Len(p), status = 0
        PROVE  /\ p[i].of = frame /\ p[i].status = 0
               /\ p[i].from = (IF i = 1 THEN 0 ELSE p[i - 1].to) + 1 /\ p[i].from <= p[i].to
               /\ i < Len(p) => p[i].to < H!Size[frame]
    <3>1. i \in 1..(n + 1) /\ (i # 1 => i - 1 \in 1..n) /\ (i # n + 1 => i \in 1..n)
      BY <1>2, <1>6
    <3>2. i # 1 /\ i # n + 1 => cut[i - 1] < cut[i]
      <4>1. i # 1 /\ i # n + 1 => i - 1 \in 1..(n - 1) /\ (i - 1) + 1 = i
        BY <1>2, <3>1
      <4> QED
        BY <1>1, <4>1
    <3>3. /\ p[i].of = frame /\ p[i].status = status
          /\ p[i].from = IF i = 1 THEN 1 ELSE cut[i - 1] + 1
          /\ p[i].to = IF i = n + 1 THEN H!Size[frame] ELSE cut[i]
      BY <1>5, <3>1
    <3>4. i # 1 => p[i - 1].to = cut[i - 1]
      <4>1. i # 1 => i - 1 \in 1..(n + 1) /\ i - 1 # n + 1
        BY <1>2, <3>1
      <4> QED
        BY <1>5, <4>1
    <3>5. /\ p[i].from = (IF i = 1 THEN 0 ELSE p[i - 1].to) + 1
      BY <3>3, <3>4
    <3>6. p[i].from <= p[i].to
      BY <1>2, <3>1, <3>2, <3>3
    <3>7. i < Len(p) => p[i].to < H!Size[frame]
      BY <1>2, <1>6, <3>1, <3>3
    <3> QED
      BY <2>2, <3>3, <3>5, <3>6, <3>7
  <2> QED
    BY <1>6, <2>1, <2>2 DEF Rest
<1>8. (\E i \in 1..n : cut[i] >= 7) <=> \E i \in 1..Len(p) : i < Len(p) /\ p[i].to >= 7
  <2>1. ASSUME NEW i \in 1..n
        PROVE  i \in 1..Len(p) /\ i < Len(p) /\ p[i].to = cut[i]
    <3>1. i \in 1..(n + 1) /\ i # n + 1 /\ i < n + 1
      BY <1>2
    <3>2. p[i].to = cut[i]
      BY <1>5, <3>1
    <3> QED
      BY <1>6, <3>1, <3>2
  <2>2. \A i \in 1..Len(p) : i < Len(p) => i \in 1..n
    <3>1. n \in Nat /\ Len(p) = n + 1
      BY <1>2, <1>6
    <3> QED
      BY <3>1
  <2> QED
    BY <2>1, <2>2
<1>9. n > 0 <=> Len(p) > 1
  BY <1>2, <1>6
<1>10. Cutting(p, frame, status)
  <2>1. \A i \in 1..Len(p) : p[i].of = frame /\ p[i].status = status
    BY <1>5, <1>6
  <2>2. status = 0 => Rest(p, frame, 0)
    BY <1>7
  <2>3. frame = "challenge" => split' = (split \/ \E i \in 1..Len(p) : i < Len(p) /\ p[i].to >= 7)
    BY <1>1, <1>8, Zenon
  <2>4. frame = "ack" => split' = (split \/ Len(p) > 1)
    BY <1>1, <1>9, Zenon
  <2>5. frame \in {"start", "conf"} => split' = split
    BY <1>1, Zenon
  <2> QED
    BY <1>6, <2>1, <2>2, <2>3, <2>4, <2>5, Zenon DEF Cutting
<1> QED
  BY <1>1, <1>10 DEF p

\* More pieces at the end.
LEMMA Appended ==
  ASSUME NEW s \in Seq(H!Piece), NEW p \in Seq(H!Piece), p # <<>>
  PROVE  /\ s = <<>> => s \o p = p
         /\ s # <<>> => s \o p # <<>> /\ (s \o p)[1] = s[1] /\ (Len(s) = 1 => Tail(s \o p) = p)
         /\ Stray(s) => Stray(s \o p)
         /\ HalfAck(s) => HalfAck(s \o p)
         /\ \A b : Spoilt(b, s) => Spoilt(b, s \o p)
         /\ \A i \in 1..Len(s \o p) : \/ \E j \in 1..Len(s) : (s \o p)[i] = s[j]
                                      \/ \E j \in 1..Len(p) : (s \o p)[i] = p[j]
<1>1. s = <<>> => s \o p = p
  OBVIOUS
<1>2. s # <<>> => s \o p # <<>> /\ (s \o p)[1] = s[1]
  OBVIOUS
<1>3. /\ Len(s) \in Nat /\ Len(p) \in Nat /\ Len(s \o p) = Len(s) + Len(p) /\ s \o p \in Seq(H!Piece)
      /\ \A i \in 1..Len(s) : (s \o p)[i] = s[i]
      /\ \A i \in 1..(Len(s) + Len(p)) : i > Len(s) => i - Len(s) \in 1..Len(p) /\ (s \o p)[i] = p[i - Len(s)]
  OBVIOUS
<1>4. ASSUME Len(s) = 1 PROVE Tail(s \o p) = p
  <2>1. s \o p # <<>>
    BY <1>4, <1>3
  <2>2. /\ Tail(s \o p) \in Seq(H!Piece) /\ Len(Tail(s \o p)) = Len(p)
        /\ \A i \in 1..Len(p) : Tail(s \o p)[i] = (s \o p)[i + 1]
    BY <1>4, <1>3, <2>1, HeadTailProperties
  <2>3. \A i \in 1..Len(p) : (s \o p)[i + 1] = p[i]
    BY <1>4, <1>3
  <2> QED
    BY <2>2, <2>3, SeqEqual
<1>5. HalfAck(s) => HalfAck(s \o p)
  BY <1>3 DEF HalfAck
<1>6. \A i \in 1..Len(s \o p) : \/ \E j \in 1..Len(s) : (s \o p)[i] = s[j]
                                \/ \E j \in 1..Len(p) : (s \o p)[i] = p[j]
  BY <1>3
<1>7. Stray(s) => Stray(s \o p)
  BY <1>2 DEF Stray
<1>8. \A b : Spoilt(b, s) => Spoilt(b, s \o p)
  BY <1>2 DEF Spoilt
<1> QED
  BY <1>1, <1>2, <1>4, <1>5, <1>6, <1>7, <1>8, Zenon

\* What a sent frame leaves as it is, and what it adds to the stream.
LEMMA Sending ==
  ASSUME ShakingTyped, UNCHANGED <<listening, place, queue, buf, mishap>>,
         NEW frame \in H!Frames, NEW status \in {0, 1}, H!Sends(frame, status),
         peer' \in {"challenged", "acked", "refused", "rejected", "started", "accepted"}
  PROVE  /\ ShakingTyped' /\ buf' = buf /\ Stream \in Seq(H!Piece)
         /\ \E p : Cutting(p, frame, status) /\ Stream' = Stream \o p
<1>1. split \in BOOLEAN /\ queue \in Seq(H!Piece) /\ air \in Seq(H!Piece)
  BY DEF ShakingTyped
<1>2. PICK p : Cutting(p, frame, status) /\ air' = air \o p
  BY <1>1, SendsPieces
<1>3. p \in Seq(H!Piece)
  BY <1>2 DEF Cutting
<1>4. Stream' = Stream \o p /\ Stream \in Seq(H!Piece)
  BY <1>1, <1>2, <1>3, Streams DEF Stream
<1>5. air' \in Seq(H!Piece)
  BY <1>1, <1>2, <1>3
<1>6. split' \in BOOLEAN
  <2>1. PICK n \in 0..Splits : \E cut \in [1..n -> Cuts[frame]] :
        split' = (split \/ (frame = "challenge" /\ \E i \in 1..n : cut[i] >= 7) \/ (frame = "ack" /\ n > 0))
    BY DEF H!Sends
  <2> QED
    BY <2>1, Zenon
<1>7. ShakingTyped'
  BY <1>5, <1>6 DEF ShakingTyped
<1> QED
  BY <1>2, <1>4, <1>7

\* The device sends its challenge.
LEMMA ChallengeKeeps ==
  ASSUME ShakingInv, H!Challenge
  PROVE  ShakingInv'
<1>1. /\ peer = "idle" /\ peer' = "challenged" /\ H!Sends("challenge", 0)
      /\ UNCHANGED <<listening, place, queue, buf, mishap>>
  BY DEF H!Challenge
<1>2. ShakingTyped /\ Places /\ Coming(buf, Stream) /\ Statuses(Stream)
  BY DEF ShakingInv
<1>3. /\ ShakingTyped' /\ buf' = buf /\ Stream \in Seq(H!Piece)
      /\ \E p : Cutting(p, "challenge", 0) /\ Stream' = Stream \o p
  BY <1>1, <1>2, Sending, Sizes
<1>4. PICK p : Cutting(p, "challenge", 0) /\ Stream' = Stream \o p
  BY <1>3
<1>5. /\ p \in Seq(H!Piece) /\ p # <<>> /\ \A i \in 1..Len(p) : p[i].of = "challenge"
      /\ Rest(p, "challenge", 0)
      /\ split' = (split \/ \E i \in 1..Len(p) : i < Len(p) /\ p[i].to >= 7)
  BY <1>4 DEF Cutting
<1>6. place \in {"challenge", "failed"} /\ place' = place
  BY <1>1, <1>2 DEF ShakingTyped, Places, Waiting
<1>7. Places'
  BY <1>1, <1>2, <1>5, <1>6, Zenon DEF Places
<1>8. CASE place = "failed"
  <2>1. Coming(buf, Stream)' /\ Statuses(Stream)'
    BY <1>6, <1>8 DEF Coming, Statuses, Waiting
  <2> QED
    BY <1>3, <1>7, <2>1 DEF ShakingInv
<1>9. CASE place = "challenge"
  <2>1. Stream = <<>> /\ buf = H!Empty /\ split = FALSE
    BY <1>1, <1>2, <1>9 DEF Coming, ShakingTyped
  <2>2. Stream' = p
    BY <1>4, <1>5, <2>1, Appended
  <2>3. Statuses(Stream)'
    BY <1>5, <1>6, <1>9, <2>2 DEF Statuses
  <2>4. split' <=> \E i \in 1..Len(p) : i < Len(p) /\ p[i].to >= 7
    BY <1>5, <2>1, Zenon
  <2>5. buf'.size < 7 /\ Partial(buf', Stream', "challenge")
    BY <1>3, <1>5, <2>1, <2>2, Sizes DEF Partial, H!Empty
  <2>6. Coming(buf, Stream)'
    BY <1>1, <1>6, <1>9, <2>2, <2>4, <2>5, Zenon DEF Coming
  <2> QED
    BY <1>3, <1>7, <2>3, <2>6 DEF ShakingInv
<1> QED
  BY <1>6, <1>8, <1>9

\* The device acknowledges the reply, or does not.
LEMMA AckKeeps ==
  ASSUME ShakingInv, H!Ack
  PROVE  ShakingInv'
<1>1. UNCHANGED <<listening, place, queue, buf, mishap>>
  BY DEF H!Ack
<1>2. ShakingTyped /\ Places /\ Coming(buf, Stream) /\ Statuses(Stream) /\ "ack" \in H!Frames
  BY Sizes DEF ShakingInv
<1>3. PICK status \in {0, 1} :
        /\ H!Sends("ack", status)
        /\ \/ peer = "replied" /\ peer' = "acked" /\ status = 0
           \/ peer = "replied" /\ peer' = "refused" /\ status = 1
           \/ peer = "misled" /\ peer' = "rejected" /\ status = 1
  BY DEF H!Ack
<1>4. /\ ShakingTyped' /\ buf' = buf /\ Stream \in Seq(H!Piece)
      /\ \E p : Cutting(p, "ack", status) /\ Stream' = Stream \o p
  BY <1>1, <1>2, <1>3, Sending
<1>5. PICK p : Cutting(p, "ack", status) /\ Stream' = Stream \o p
  BY <1>4
<1>6. /\ p \in Seq(H!Piece) /\ p # <<>> /\ \A i \in 1..Len(p) : p[i].of = "ack" /\ p[i].status = status
      /\ status = 0 => Rest(p, "ack", 0)
      /\ split' = (split \/ Len(p) > 1)
  BY <1>5 DEF Cutting
<1>7. place \in {"ack", "failed"} /\ place' = place
  BY <1>1, <1>2, <1>3 DEF ShakingTyped, Places, Waiting
<1>8. Places'
  BY <1>1, <1>2, <1>3, <1>6, <1>7, Zenon DEF Places
<1>9. CASE place = "failed"
  <2>1. Coming(buf, Stream)' /\ Statuses(Stream)'
    BY <1>7, <1>9 DEF Coming, Statuses, Waiting
  <2> QED
    BY <1>4, <1>8, <2>1 DEF ShakingInv
<1>10. CASE place = "ack"
  <2>1. buf = H!Empty
    BY <1>2, <1>10 DEF Coming
  <2>2. \A i \in 1..Len(Stream') : \/ \E j \in 1..Len(Stream) : Stream'[i] = Stream[j]
                                   \/ \E j \in 1..Len(p) : Stream'[i] = p[j]
    BY <1>4, <1>5, <1>6, Appended
  <2>3. \A j \in 1..Len(Stream) : ~(Stream[j].of \in {"ack", "conf"} /\ Stream[j].status = 0)
    BY <1>2, <1>3, <1>10 DEF Statuses, Waiting
  <2>4. Statuses(Stream)'
    BY <1>3, <1>6, <1>7, <1>10, <2>2, <2>3 DEF Statuses
  <2>5. ASSUME peer' = "acked"
        PROVE  IF split' THEN Stray(Stream') \/ HalfAck(Stream')
               ELSE Stream' # <<>> /\ Stream'[1] = WholeAck /\ Len(Stream') = 1
    <3>1. peer = "replied" /\ status = 0
      BY <1>3, <2>5
    <3>2. CASE split
      <4>1. Stray(Stream')
        BY <1>2, <1>4, <1>5, <1>6, <1>10, <3>1, <3>2, Appended DEF Coming
      <4>2. split'
        BY <1>6, <3>2, Zenon
      <4> QED
        BY <4>1, <4>2, Zenon
    <3>3. CASE ~split
      <4>1. Stream' = p
        BY <1>2, <1>4, <1>5, <1>6, <1>10, <3>1, <3>3, Appended DEF Coming
      <4>2. split' <=> Len(p) > 1
        BY <1>6, <3>3, Zenon
      <4>3. Len(p) > 1 => HalfAck(p)
        BY <1>6 DEF HalfAck
      <4>4. ~(Len(p) > 1) => Len(p) = 1
        <5>1. PICK n \in Nat : n = Len(p)
          BY <1>6
        <5>2. n # 0
          BY <1>6, <5>1
        <5> QED
          BY <5>1, <5>2
      <4>5. Len(p) = 1 => p[1] = WholeAck
        <5>1. Len(p) = 1 => p[1].of = "ack" /\ p[1].status = 0 /\ p[1].from = 1 /\ p[1].to = H!Size.ack
          BY <1>6, <3>1, Sizes DEF Rest
        <5>2. Len(p) = 1 => p[1] \in H!Piece
          BY <1>6
        <5> QED
          BY <5>1, <5>2 DEF H!Piece, WholeAck
      <4> QED
        BY <1>6, <4>1, <4>2, <4>3, <4>4, <4>5, Zenon
    <3> QED
      BY <3>2, <3>3
  <2>6. Coming(buf, Stream)'
    BY <1>3, <1>4, <1>7, <1>10, <2>1, <2>5, Zenon DEF Coming
  <2> QED
    BY <1>4, <1>8, <2>4, <2>6 DEF ShakingInv
<1> QED
  BY <1>7, <1>9, <1>10

\* The device sends its key.
LEMMA StartKeyKeeps ==
  ASSUME ShakingInv, H!StartKey
  PROVE  ShakingInv'
<1>1. /\ peer = "acked" /\ peer' = "started" /\ H!Sends("start", 0)
      /\ UNCHANGED <<listening, place, queue, buf, mishap>>
  BY DEF H!StartKey
<1>2. ShakingTyped /\ Places /\ Coming(buf, Stream) /\ Statuses(Stream)
  BY DEF ShakingInv
<1>3. /\ ShakingTyped' /\ buf' = buf /\ Stream \in Seq(H!Piece)
      /\ \E p : Cutting(p, "start", 0) /\ Stream' = Stream \o p
  BY <1>1, <1>2, Sending, Sizes
<1>4. PICK p : Cutting(p, "start", 0) /\ Stream' = Stream \o p
  BY <1>3
<1>5. /\ p \in Seq(H!Piece) /\ p # <<>> /\ \A i \in 1..Len(p) : p[i].of = "start"
      /\ Rest(p, "start", 0) /\ split' = split
  BY <1>4 DEF Cutting
<1>6. place \in {"ack", "start", "failed"} /\ place' = place
  BY <1>1, <1>2 DEF ShakingTyped, Places, Waiting
<1>7. Places'
  BY <1>1, <1>2, <1>5, <1>6, Zenon DEF Places
<1>8. Statuses(Stream)'
  <2>1. \A i \in 1..Len(Stream') : \/ \E j \in 1..Len(Stream) : Stream'[i] = Stream[j]
                                   \/ \E j \in 1..Len(p) : Stream'[i] = p[j]
    BY <1>3, <1>4, <1>5, Appended
  <2> QED
    BY <1>1, <1>2, <1>5, <1>6, <2>1 DEF Statuses
<1>9. CASE place = "failed"
  <2>1. Coming(buf, Stream)'
    BY <1>6, <1>9 DEF Coming
  <2> QED
    BY <1>3, <1>7, <1>8, <2>1 DEF ShakingInv
<1>10. CASE place = "ack"
  <2>1. /\ buf = H!Empty
        /\ IF split THEN Stray(Stream) \/ HalfAck(Stream) ELSE Stream # <<>> /\ Stream[1] = WholeAck /\ Len(Stream) = 1
    BY <1>1, <1>2, <1>10, Zenon DEF Coming
  <2>2. IF split' THEN Stray(Stream') \/ HalfAck(Stream')
        ELSE Stream' # <<>> /\ Stream'[1] = WholeAck /\ Rest(Tail(Stream'), "start", 0)
    BY <1>3, <1>4, <1>5, <2>1, Appended, Zenon
  <2>3. Coming(buf, Stream)'
    BY <1>1, <1>3, <1>6, <1>10, <2>1, <2>2, Zenon DEF Coming
  <2> QED
    BY <1>3, <1>7, <1>8, <2>3 DEF ShakingInv
<1>11. CASE place = "start"
  <2>1. IF split THEN Spoilt(buf, Stream) ELSE Stream = <<>> /\ buf = H!Empty
    BY <1>1, <1>2, <1>11, Zenon DEF Coming
  <2>2. Partial(H!Empty, p, "start")
    BY <1>5, Sizes DEF Partial, H!Empty
  <2>3. IF split' THEN Spoilt(buf', Stream') ELSE Partial(buf', Stream', "start")
    BY <1>3, <1>4, <1>5, <2>1, <2>2, Appended, Zenon
  <2>4. Coming(buf, Stream)'
    BY <1>1, <1>3, <1>6, <1>11, <2>3, Zenon DEF Coming
  <2> QED
    BY <1>3, <1>7, <1>8, <2>4 DEF ShakingInv
<1> QED
  BY <1>6, <1>9, <1>10, <1>11

\* The device accepts the app's key, or does not.
LEMMA ConfirmKeeps ==
  ASSUME ShakingInv, H!Confirm
  PROVE  ShakingInv'
<1>1. peer = "keyed" /\ UNCHANGED <<listening, place, queue, buf, mishap>>
  BY DEF H!Confirm
<1>2. ShakingTyped /\ Places /\ Coming(buf, Stream) /\ Statuses(Stream) /\ "conf" \in H!Frames
  BY Sizes DEF ShakingInv
<1>3. PICK status \in {0, 1} :
        /\ H!Sends("conf", status)
        /\ \/ peer' = "accepted" /\ status = 0
           \/ peer' = "refused" /\ status = 1
  BY DEF H!Confirm
<1>4. /\ ShakingTyped' /\ buf' = buf /\ Stream \in Seq(H!Piece)
      /\ \E p : Cutting(p, "conf", status) /\ Stream' = Stream \o p
  BY <1>1, <1>2, <1>3, Sending
<1>5. PICK p : Cutting(p, "conf", status) /\ Stream' = Stream \o p
  BY <1>4
<1>6. /\ p \in Seq(H!Piece) /\ p # <<>> /\ \A i \in 1..Len(p) : p[i].of = "conf" /\ p[i].status = status
      /\ status = 0 => Rest(p, "conf", 0)
      /\ split' = split
  BY <1>5 DEF Cutting
<1>7. place \in {"conf", "failed"} /\ place' = place
  BY <1>1, <1>2 DEF ShakingTyped, Places, Waiting
<1>8. Places'
  BY <1>1, <1>2, <1>3, <1>6, <1>7, Zenon DEF Places
<1>9. CASE place = "failed"
  <2>1. Coming(buf, Stream)' /\ Statuses(Stream)'
    BY <1>7, <1>9 DEF Coming, Statuses, Waiting
  <2> QED
    BY <1>4, <1>8, <2>1 DEF ShakingInv
<1>10. CASE place = "conf"
  <2>1. Stream = <<>> /\ buf = H!Empty
    BY <1>1, <1>2, <1>10 DEF Coming
  <2>2. Stream' = p
    BY <1>5, <1>6, <2>1, <1>4, Appended
  <2>3. Statuses(Stream)'
    BY <1>3, <1>6, <1>7, <1>10, <2>2 DEF Statuses
  <2>4. status = 0 => Partial(H!Empty, p, "conf")
    BY <1>6, Sizes DEF Partial, H!Empty
  <2>5. Coming(buf, Stream)'
    BY <1>3, <1>4, <1>7, <1>10, <2>1, <2>2, <2>4, Zenon DEF Coming
  <2> QED
    BY <1>4, <1>8, <2>3, <2>5 DEF ShakingInv
<1> QED
  BY <1>7, <1>9, <1>10

\* The link drops.
LEMMA DropKeeps ==
  ASSUME ShakingInv, H!Drop
  PROVE  ShakingInv'
<1>1. /\ peer' = IF peer = "accepted" THEN peer ELSE "gone"
      /\ air' = <<>> /\ mishap' = TRUE /\ UNCHANGED <<listening, place, queue, buf, split>>
  BY DEF H!Drop
<1>2. ShakingTyped /\ Places /\ Coming(buf, Stream) /\ Statuses(Stream)
  BY DEF ShakingInv
<1>3. ShakingTyped'
  BY <1>1, <1>2 DEF ShakingTyped
<1>4. \/ peer' = "accepted" /\ peer = "accepted"
      \/ peer' = "gone" /\ peer # "accepted"
  BY <1>1
<1>5. Places'
  BY <1>1, <1>2, <1>4, Zenon DEF Places
<1>6. Coming(buf, Stream)'
  BY <1>1, <1>2, <1>4 DEF Coming
<1>7. \A i \in 1..Len(Stream') : \E j \in 1..Len(Stream) : Stream'[i] = Stream[j]
  <2>1. queue \in Seq(H!Piece) /\ air \in Seq(H!Piece) /\ Stream' = queue
    BY <1>1, <1>2 DEF ShakingTyped, Stream
  <2>2. \A i \in 1..Len(queue) : i \in 1..Len(Stream) /\ Stream[i] = queue[i]
    BY <2>1 DEF Stream
  <2> QED
    BY <2>1, <2>2
<1>8. Statuses(Stream)'
  BY <1>1, <1>2, <1>4, <1>7 DEF Statuses, Places
<1> QED
  BY <1>3, <1>5, <1>6, <1>8 DEF ShakingInv

\* connect has set the flag.
LEMMA SubscribedKeeps ==
  ASSUME ShakingInv, H!Subscribed
  PROVE  ShakingInv'
<1>1. listening' = TRUE /\ UNCHANGED <<place, queue, buf, peer, air, split, mishap>>
  BY DEF H!Subscribed
<1>2. ShakingTyped /\ Places /\ Coming(buf, Stream) /\ Statuses(Stream)
  BY DEF ShakingInv
<1>3. ShakingTyped'
  BY <1>1, <1>2 DEF ShakingTyped
<1>4. Places' /\ Coming(buf, Stream)' /\ Statuses(Stream)'
  BY <1>1, <1>2 DEF Places, Coming, Statuses, Stream
<1> QED
  BY <1>3, <1>4 DEF ShakingInv

\* No pieces.
LEMMA NoPieces ==
  ASSUME NEW s \in Seq(H!Piece)
  PROVE  Len(s) = 0 <=> s = <<>>
OBVIOUS

\* The rest of a frame after its next piece.
LEMMA RestTail ==
  ASSUME NEW s \in Seq(H!Piece), NEW frame \in H!Frames, NEW n, Rest(s, frame, n)
  PROVE  /\ s # <<>> /\ s[1] \in H!Piece /\ s[1].of = frame /\ s[1].status = 0 /\ s[1].from = n + 1
         /\ s[1].from <= s[1].to /\ s[1].to <= H!Size[frame] /\ Tail(s) \in Seq(H!Piece)
         /\ s[1].to = H!Size[frame] => Tail(s) = <<>>
         /\ s[1].to < H!Size[frame] => Rest(Tail(s), frame, s[1].to)
<1>1. PICK m \in Nat : m = Len(s)
  OBVIOUS
<1>2. m # 0 /\ s # <<>> /\ s[m].to = H!Size[frame]
  BY <1>1 DEF Rest
<1>3. \A i \in 1..m :
        /\ s[i] \in H!Piece /\ s[i].of = frame /\ s[i].status = 0
        /\ s[i].from = (IF i = 1 THEN n ELSE s[i - 1].to) + 1 /\ s[i].from <= s[i].to
        /\ i < m => s[i].to < H!Size[frame]
  BY <1>1 DEF Rest
<1>4. H!Size[frame] \in Nat /\ 1 \in 1..m
  BY <1>2, Sizes
<1>5. s[1].to \in Nat /\ s[1].from \in Nat
  BY <1>3, <1>4 DEF H!Piece
<1>6. s[1].to <= H!Size[frame]
  BY <1>1, <1>2, <1>3, <1>4, <1>5
<1>7. /\ Tail(s) \in Seq(H!Piece) /\ Len(Tail(s)) = m - 1
      /\ \A i \in 1..(m - 1) : Tail(s)[i] = s[i + 1]
  BY <1>1, <1>2, HeadTailProperties
<1>8. ASSUME s[1].to = H!Size[frame] PROVE Tail(s) = <<>>
  <2>1. m = 1
    BY <1>2, <1>3, <1>4, <1>5, <1>8
  <2> QED
    <3>1. Len(Tail(s)) = 0
      BY <1>7, <2>1
    <3> QED
      BY <1>7, <3>1, NoPieces, Zenon
<1>9. ASSUME s[1].to < H!Size[frame] PROVE Rest(Tail(s), frame, s[1].to)
  <2>1. m > 1
    BY <1>2, <1>4, <1>5, <1>9
  <2>2. Tail(s) # <<>> /\ Tail(s)[m - 1].to = H!Size[frame]
    BY <1>2, <1>7, <2>1
  <2>3. ASSUME NEW i \in 1..(m - 1)
        PROVE  /\ Tail(s)[i].of = frame /\ Tail(s)[i].status = 0
               /\ Tail(s)[i].from = (IF i = 1 THEN s[1].to ELSE Tail(s)[i - 1].to) + 1
               /\ Tail(s)[i].from <= Tail(s)[i].to
               /\ i < m - 1 => Tail(s)[i].to < H!Size[frame]
    <3>1. i + 1 \in 1..m /\ i + 1 # 1 /\ (i + 1) - 1 = i /\ (i < m - 1 => i + 1 < m) /\ (i # 1 => i - 1 \in 1..(m - 1) /\ (i - 1) + 1 = i)
      BY <2>1
    <3>2. Tail(s)[i] = s[i + 1] /\ (i # 1 => Tail(s)[i - 1] = s[i])
      BY <1>7, <3>1
    <3>3. /\ s[i + 1].of = frame /\ s[i + 1].status = 0
          /\ s[i + 1].from = s[i].to + 1 /\ s[i + 1].from <= s[i + 1].to
          /\ i + 1 < m => s[i + 1].to < H!Size[frame]
      BY <1>3, <3>1
    <3>4. i = 1 => s[i].to = s[1].to
      OBVIOUS
    <3> QED
      BY <3>1, <3>2, <3>3, <3>4
  <2> QED
    BY <1>7, <2>2, <2>3 DEF Rest
<1> QED
  BY <1>2, <1>3, <1>4, <1>6, <1>7, <1>8, <1>9

\* A notification arrives.
LEMMA ArriveKeeps ==
  ASSUME ShakingInv, H!Arrive
  PROVE  ShakingInv'
<1>1. /\ air # <<>> /\ air' = Tail(air) /\ UNCHANGED <<listening, place, buf, peer, split>>
      /\ queue' = IF H!Running THEN Append(queue, Head(air)) ELSE queue
      /\ mishap' = (mishap \/ ~listening)
  BY DEF H!Arrive
<1>2. ShakingTyped /\ Places /\ Coming(buf, Stream) /\ Statuses(Stream) /\ queue \in Seq(H!Piece) /\ air \in Seq(H!Piece)
  BY DEF ShakingInv, ShakingTyped
<1>3. Head(air) \in H!Piece /\ air' \in Seq(H!Piece) /\ queue' \in Seq(H!Piece)
  BY <1>1, <1>2, HeadTailProperties
<1>4. mishap' \in BOOLEAN
  BY <1>1, Zenon
<1>5. ShakingTyped'
  BY <1>1, <1>2, <1>3, <1>4 DEF ShakingTyped, H!Running
<1>6. Places'
  BY <1>1, <1>2, Zenon DEF Places
<1>7. CASE H!Running
  <2>1. Stream' = Stream
    BY <1>1, <1>2, <1>7, Streams DEF Stream
  <2>2. mishap' = mishap
    <3>1. mishap \in BOOLEAN /\ listening
      BY <1>2, <1>7 DEF ShakingTyped, H!Running
    <3> QED
      BY <1>1, <3>1, Zenon
  <2>3. Coming(buf, Stream)' /\ Statuses(Stream)'
    BY <1>1, <1>2, <2>1, <2>2 DEF Coming, Statuses
  <2> QED
    BY <1>5, <1>6, <2>3 DEF ShakingInv
<1>8. CASE ~H!Running /\ listening
  <2>1. place' \in {"session", "failed"}
    BY <1>1, <1>2, <1>8 DEF H!Running, ShakingTyped, Waiting
  <2>2. Coming(buf, Stream)' /\ Statuses(Stream)'
    BY <2>1 DEF Coming, Statuses, Waiting
  <2> QED
    BY <1>5, <1>6, <2>2 DEF ShakingInv
<1>9. CASE ~listening
  <2>1. /\ place = "challenge" /\ queue = <<>> /\ buf = H!Empty /\ ~H!Running
        /\ peer \in {"idle", "challenged", "gone"} /\ mishap'
    BY <1>1, <1>2, <1>9 DEF ShakingTyped, Places, H!Running
  <2>2. Stream = air /\ Stream' = Tail(air)
    BY <1>1, <1>2, <1>3, <2>1 DEF Stream
  <2>3. PICK m \in Nat : m = Len(air)
    BY <1>2
  <2>4. m # 0 /\ Len(Tail(air)) = m - 1 /\ \A i \in 1..(m - 1) : Tail(air)[i] = air[i + 1]
    BY <1>1, <1>2, <2>3, HeadTailProperties
  <2>5. \A i \in 1..(m - 1) : i + 1 \in 1..m /\ i + 1 # 1 /\ (i + 1) - 1 = i /\ i \in 1..m
    OBVIOUS
  <2>6. Statuses(Stream)'
    BY <1>1, <1>2, <2>1, <2>2, <2>3, <2>4, <2>5 DEF Statuses, Waiting
  <2>7. peer = "challenged" => Headless(buf', Stream')
    <3> SUFFICES ASSUME peer = "challenged"
                 PROVE  \A i \in 1..(m - 1) : Tail(air)[i].of = "challenge" /\ Tail(air)[i].from # 1
      BY <1>1, <2>1, <2>2, <2>4 DEF Headless
    <3>1. \/ Rest(air, "challenge", 0)
          \/ Headless(buf, air)
      BY <1>2, <2>1, <2>2 DEF Coming, Partial, H!Empty
    <3>2. CASE Headless(buf, air)
      BY <2>3, <2>4, <2>5, <3>2 DEF Headless
    <3>3. CASE Rest(air, "challenge", 0)
      <4>1. \A i \in 1..m : /\ air[i] \in H!Piece /\ air[i].of = "challenge" /\ air[i].from <= air[i].to
                            /\ air[i].from = (IF i = 1 THEN 0 ELSE air[i - 1].to) + 1
        BY <1>2, <2>3, <3>3 DEF Rest
      <4>2. \A i \in 1..m : air[i].from \in Nat /\ air[i].to \in Nat
        BY <4>1 DEF H!Piece
      <4>3. \A i \in 1..m : air[i].to # 0
        <5> SUFFICES ASSUME NEW i \in 1..m, air[i].to = 0 PROVE FALSE
          OBVIOUS
        <5>1. air[i].from = 0
          BY <4>1, <4>2
        <5>2. i # 1 => i - 1 \in 1..m
          OBVIOUS
        <5> QED
          BY <4>1, <4>2, <5>1, <5>2
      <4>4. \A i \in 1..(m - 1) : air[i + 1].of = "challenge" /\ air[i + 1].from = air[i].to + 1
        BY <2>5, <4>1
      <4>5. \A i \in 1..(m - 1) : air[i].to \in Nat /\ air[i].to # 0
        BY <2>5, <4>2, <4>3
      <4>6. \A i \in 1..(m - 1) : air[i + 1].of = "challenge" /\ air[i + 1].from # 1
        <5> SUFFICES ASSUME NEW i \in 1..(m - 1) PROVE air[i + 1].of = "challenge" /\ air[i + 1].from # 1
          OBVIOUS
        <5>1. air[i].to \in Nat /\ air[i].to # 0
          BY <4>5
        <5>2. air[i].to + 1 # 1
          BY <5>1
        <5> QED
          BY <4>4, <5>2
      <4> QED
        BY <2>4, <4>6, Zenon
    <3> QED
      BY <3>1, <3>2, <3>3
  <2>8. peer # "idle"
    BY <1>1, <1>2, <2>1, <2>2 DEF Coming
  <2>9. Coming(buf, Stream)'
    BY <1>1, <2>1, <2>7, <2>8, Zenon DEF Coming
  <2> QED
    BY <1>5, <1>6, <2>6, <2>9 DEF ShakingInv
<1> QED
  BY <1>7, <1>8, <1>9

\* Five seconds without a notification.
LEMMA TimeoutKeeps ==
  ASSUME ShakingInv, H!Timeout
  PROVE  ShakingInv'
<1>1. /\ H!Running /\ queue = <<>> /\ place' = "failed" /\ buf' = H!Empty
      /\ mishap' = (mishap \/ air # <<>> \/ peer \in {"idle", "replied", "misled", "acked", "keyed"})
      /\ UNCHANGED <<listening, queue, peer, air, split>>
  BY DEF H!Timeout, H!Ends
<1>2. ShakingTyped /\ Places /\ Coming(buf, Stream) /\ Statuses(Stream)
  BY DEF ShakingInv
<1>3. mishap' \in BOOLEAN
  BY <1>1, Zenon
<1>4. ShakingTyped'
  BY <1>1, <1>2, <1>3 DEF ShakingTyped, H!Running, H!Empty
<1>5. Coming(buf, Stream)' /\ Statuses(Stream)'
  BY <1>1 DEF Coming, Statuses, Waiting
<1>6. peer = "refused" \/ mishap' \/ split
  <2> SUFFICES ASSUME peer # "refused", ~mishap, ~split, air = <<>>,
                      peer \notin {"idle", "replied", "misled", "acked", "keyed"}
               PROVE  FALSE
    BY <1>1, Zenon
  <2>1. Stream = <<>>
    BY <1>1 DEF Stream
  <2>2. peer \in {"challenged", "started", "accepted"}
    BY <1>2 DEF ShakingTyped, Places
  <2>3. place \in Waiting
    BY <1>1 DEF H!Running, Waiting
  <2> QED
    BY <1>2, <2>1, <2>2, <2>3 DEF Coming, Partial, Rest, Places, Waiting
<1>7. Places'
  BY <1>1, <1>2, <1>6, Zenon DEF Places
<1> QED
  BY <1>4, <1>5, <1>7 DEF ShakingInv

\* run takes the next notification.
LEMMA Reading ==
  ASSUME ShakingTyped, queue # <<>>, queue' = Tail(queue), UNCHANGED air
  PROVE  /\ Stream # <<>> /\ Stream \in Seq(H!Piece) /\ Head(queue) = Stream[1] /\ Stream[1] \in H!Piece
         /\ Stream' = Tail(Stream) /\ queue' \in Seq(H!Piece)
         /\ Len(Tail(Stream)) = Len(Stream) - 1
         /\ \A i \in 1..Len(Tail(Stream)) : i + 1 \in 1..Len(Stream) /\ Tail(Stream)[i] = Stream[i + 1]
<1>1. queue \in Seq(H!Piece) /\ air \in Seq(H!Piece)
  BY DEF ShakingTyped
<1>2. Stream # <<>> /\ Stream \in Seq(H!Piece) /\ Head(queue) = Stream[1] /\ Stream' = Tail(Stream)
  BY <1>1, Streams DEF Stream
<1>3. queue' \in Seq(H!Piece) /\ Stream[1] \in H!Piece
  BY <1>1, <1>2, HeadTailProperties
<1>4. /\ Len(Tail(Stream)) = Len(Stream) - 1
      /\ \A i \in 1..Len(Tail(Stream)) : i + 1 \in 1..Len(Stream) /\ Tail(Stream)[i] = Stream[i + 1]
  <2>1. PICK s \in Seq(H!Piece) : s = Stream
    BY <1>2
  <2>2. s # <<>> /\ Len(s) \in Nat
    BY <1>2, <2>1
  <2>3. Len(Tail(s)) = Len(s) - 1 /\ \A i \in 1..Len(Tail(s)) : i + 1 \in 1..Len(s) /\ Tail(s)[i] = s[i + 1]
    BY <2>2, HeadTailProperties
  <2> QED
    BY <2>1, <2>3
<1> QED
  BY <1>2, <1>3, <1>4

\* What run has with the next notification, when it has the beginning of a frame.
LEMMA PartialExtended ==
  ASSUME NEW frame \in H!Frames, ShakingTyped, queue # <<>>, Head(queue) = Stream[1], Stream \in Seq(H!Piece),
         Partial(buf, Stream, frame)
  PROVE  /\ H!Extended = [of |-> frame, size |-> Stream[1].to] /\ Stream[1].to \in Nat
         /\ Stream[1].to <= H!Size[frame] /\ Stream[1].status = 0
         /\ Stream[1].to = H!Size[frame] => Tail(Stream) = <<>>
         /\ Stream[1].to < H!Size[frame] => Partial(H!Extended, Tail(Stream), frame)
<1>1. Rest(Stream, frame, buf.size) /\ (buf = H!Empty \/ buf.of = frame)
  BY DEF Partial
<1>2. /\ Stream[1] \in H!Piece /\ Stream[1].of = frame /\ Stream[1].status = 0 /\ Stream[1].from = buf.size + 1
      /\ Stream[1].from <= Stream[1].to /\ Stream[1].to <= H!Size[frame]
      /\ Stream[1].to = H!Size[frame] => Tail(Stream) = <<>>
      /\ Stream[1].to < H!Size[frame] => Rest(Tail(Stream), frame, Stream[1].to)
  BY <1>1, RestTail
<1>3. Stream[1].to \in Nat /\ Stream[1].from \in Nat /\ buf.size \in Int
  BY <1>2 DEF H!Piece, ShakingTyped
<1>4. H!Extended = [of |-> frame, size |-> Stream[1].to]
  <2>1. buf.size + (Stream[1].to - Stream[1].from) + 1 = Stream[1].to
    BY <1>2, <1>3
  <2>2. buf = H!Empty \/ buf.of = Stream[1].of
    BY <1>1, <1>2
  <2> QED
    BY <1>2, <2>1, <2>2 DEF H!Extended
<1>5. Stream[1].to < H!Size[frame] => Partial(H!Extended, Tail(Stream), frame)
  BY <1>2, <1>3, <1>4 DEF Partial
<1> QED
  BY <1>2, <1>3, <1>4, <1>5

\* Whatever is collected is typed.
LEMMA ExtendedTyped ==
  ASSUME ShakingTyped, Head(queue) \in H!Piece
  PROVE  H!Extended \in [of : H!Frames \cup {"none", "mixed"}, size : Int] /\ H!Extended.of \in {Head(queue).of, "mixed"}
         /\ H!Extended # H!Empty
<1>1. Head(queue).of \in H!Frames /\ Head(queue).from \in Int /\ Head(queue).to \in Int /\ buf.size \in Int
  BY DEF H!Piece, ShakingTyped
<1>2. buf.size + (Head(queue).to - Head(queue).from) + 1 \in Int
  BY <1>1
<1>3. H!Extended \in [of : H!Frames \cup {"none", "mixed"}, size : Int] /\ H!Extended.of \in {Head(queue).of, "mixed"}
  BY <1>1, <1>2 DEF H!Extended
<1>4. H!Extended.of # "none"
  BY <1>1, <1>3, Sizes
<1> QED
  BY <1>3, <1>4 DEF H!Empty

\* run reads a notification while it waits for the challenge.
LEMMA ReadChallengeKeeps ==
  ASSUME ShakingInv, H!ReadChallenge
  PROVE  ShakingInv'
<1>1. /\ listening /\ place = "challenge" /\ queue # <<>> /\ queue' = Tail(queue)
      /\ UNCHANGED <<listening, air, split, mishap>>
  BY DEF H!ReadChallenge, H!Waits
<1>2. ShakingTyped /\ Places /\ Coming(buf, Stream) /\ Statuses(Stream)
  BY DEF ShakingInv
<1>3. /\ Stream # <<>> /\ Stream \in Seq(H!Piece) /\ Head(queue) = Stream[1] /\ Stream[1] \in H!Piece
      /\ Stream' = Tail(Stream) /\ queue' \in Seq(H!Piece) /\ Len(Tail(Stream)) = Len(Stream) - 1
      /\ \A i \in 1..Len(Tail(Stream)) : i + 1 \in 1..Len(Stream) /\ Tail(Stream)[i] = Stream[i + 1]
  BY <1>1, <1>2, Reading
<1>4. /\ H!Extended \in [of : H!Frames \cup {"none", "mixed"}, size : Int]
      /\ H!Extended.of \in {Stream[1].of, "mixed"} /\ H!Extended # H!Empty
  BY <1>2, <1>3, ExtendedTyped
<1>5. peer \in {"challenged", "gone"}
  BY <1>1, <1>2, <1>3 DEF Places, Coming
<1>6. \A i \in 1..Len(Stream') : \E j \in 1..Len(Stream) : Stream'[i] = Stream[j]
  BY <1>3
<1> DEFINE whole == /\ buf.size < 7 /\ Partial(buf, Stream, "challenge")
                    /\ split <=> \E i \in 1..Len(Stream) : i < Len(Stream) /\ Stream[i].to >= 7
<1>7. peer = "challenged" => whole \/ (mishap /\ Headless(buf, Stream))
  BY <1>1, <1>2 DEF Coming
<1>8. Headless(buf, Stream) => H!Extended.of = "mixed" /\ Headless(H!Extended, Tail(Stream))
  <2> SUFFICES ASSUME Headless(buf, Stream)
               PROVE  H!Extended.of = "mixed" /\ Headless(H!Extended, Tail(Stream))
    OBVIOUS
  <2>1. Stream[1].of = "challenge" /\ Stream[1].from # 1
    BY <1>3 DEF Headless
  <2>2. H!Extended.of = "mixed"
    BY <1>3, <2>1 DEF Headless, H!Extended, H!Empty
  <2> QED
    BY <1>3, <2>2 DEF Headless
<1>9. whole => /\ H!Extended = [of |-> "challenge", size |-> Stream[1].to] /\ Stream[1].to \in Nat /\ Stream[1].to <= 10
               /\ Stream[1].to = 10 => Tail(Stream) = <<>>
               /\ Stream[1].to < 10 => Partial(H!Extended, Tail(Stream), "challenge")
  BY <1>1, <1>2, <1>3, PartialExtended, Sizes
<1>10. whole => \A i \in 1..Len(Stream) : Stream[i].of = "challenge"
  BY DEF Partial, Rest
<1>11. CASE H!Extended.size < 7 /\ H!Collects
  <2>1. buf' = H!Extended /\ UNCHANGED <<place, peer>>
    BY <1>11 DEF H!Collects
  <2>2. ShakingTyped' /\ Places' /\ Statuses(Stream)'
    <3>1. ShakingTyped'
      BY <1>1, <1>2, <1>3, <1>4, <2>1 DEF ShakingTyped
    <3>2. Places'
      BY <1>1, <1>2, <2>1 DEF Places
    <3>3. Statuses(Stream)'
      BY <1>1, <1>2, <1>6, <2>1 DEF Statuses
    <3> QED
      BY <3>1, <3>2, <3>3
  <2>3. ASSUME whole
        PROVE  /\ buf'.size < 7 /\ Partial(buf', Stream', "challenge")
               /\ split' <=> \E i \in 1..Len(Stream') : i < Len(Stream') /\ Stream'[i].to >= 7
    <3>1. Stream[1].to < 7 /\ Partial(buf', Stream', "challenge")
      BY <1>3, <1>9, <1>11, <2>1, <2>3
    <3>0. Len(Stream) \in Nat
      BY <1>3
    <3>2. PICK m \in Nat : m = Len(Stream)
      BY <3>0
    <3>3. Len(Stream') = m - 1 /\ \A i \in 1..(m - 1) : Stream'[i] = Stream[i + 1]
      BY <1>3, <3>2
    <3>4. (\E i \in 1..m : i < m /\ Stream[i].to >= 7) <=> \E i \in 1..(m - 1) : i < m - 1 /\ Stream'[i].to >= 7
      <4>1. ASSUME NEW i \in 1..m, i < m, Stream[i].to >= 7
            PROVE  \E k \in 1..(m - 1) : k < m - 1 /\ Stream'[k].to >= 7
        <5>1. i # 1
          BY <1>9, <2>3, <3>1, <4>1
        <5>2. i - 1 \in 1..(m - 1) /\ i - 1 < m - 1 /\ Stream'[i - 1] = Stream[i]
          BY <3>3, <4>1, <5>1
        <5> QED
          BY <4>1, <5>2
      <4>2. ASSUME NEW i \in 1..(m - 1), i < m - 1, Stream'[i].to >= 7
            PROVE  \E k \in 1..m : k < m /\ Stream[k].to >= 7
        <5>1. i + 1 \in 1..m /\ i + 1 < m /\ Stream'[i] = Stream[i + 1]
          BY <3>3, <4>2
        <5> QED
          BY <4>2, <5>1
      <4> QED
        BY <4>1, <4>2
    <3>5. split' = split /\ (split <=> \E i \in 1..m : i < m /\ Stream[i].to >= 7)
      BY <1>1, <2>3, <3>2
    <3>6. H!Extended.size < 7
      BY <1>11
    <3> QED
      BY <2>1, <3>1, <3>3, <3>4, <3>5, <3>6
  <2>4. Coming(buf, Stream)'
    <3>1. peer = "challenged" =>
            \/ /\ buf'.size < 7 /\ Partial(buf', Stream', "challenge")
               /\ split' <=> \E i \in 1..Len(Stream') : i < Len(Stream') /\ Stream'[i].to >= 7
            \/ mishap' /\ Headless(buf', Stream')
      BY <1>1, <1>3, <1>7, <1>8, <2>1, <2>3
    <3> QED
      BY <1>1, <1>5, <2>1, <3>1 DEF Coming
  <2> QED
    BY <2>2, <2>4 DEF ShakingInv
<1>12. CASE H!Extended.size >= 7 /\ H!Extended.of = "challenge" /\ H!Ends("ack")
            /\ H!Sent(IF H!Extended.size >= 8 THEN "replied" ELSE "misled")
  <2>1. /\ place' = "ack" /\ buf' = H!Empty
        /\ peer' = IF peer = "gone" THEN peer ELSE IF H!Extended.size >= 8 THEN "replied" ELSE "misled"
    BY <1>12 DEF H!Ends, H!Sent
  <2>2. ShakingTyped'
    BY <1>1, <1>2, <1>3, <1>5, <2>1 DEF ShakingTyped, H!Empty, Waiting
  <2>3. CASE peer = "gone"
    <3>1. peer' = "gone"
      BY <2>1, <2>3
    <3>2. Places' /\ Coming(buf, Stream)'
      BY <1>1, <1>2, <2>1, <2>3, <3>1 DEF Places, Coming
    <3>3. Statuses(Stream)'
      BY <1>1, <1>2, <1>6, <2>1, <2>3, <3>1 DEF Statuses, Waiting
    <3> QED
      BY <2>2, <3>2, <3>3 DEF ShakingInv
  <2>4. CASE peer = "challenged"
    <3>1. whole
      BY <1>7, <1>8, <1>12, <2>4
    <3> HIDE DEF whole
    <3>2. Stream[1].to >= 7 /\ H!Extended.size = Stream[1].to /\ Stream[1].to \in Nat /\ Stream[1].to <= 10
      BY <1>9, <1>12, <3>1
    <3>3. Stream[1].to < 10 => split /\ Stray(Stream')
      <4> SUFFICES ASSUME Stream[1].to < 10 PROVE split /\ Stray(Stream')
        OBVIOUS
      <4>1. Rest(Tail(Stream), "challenge", H!Extended.size)
        BY <1>9, <3>1 DEF Partial
      <4>2. Tail(Stream) # <<>> /\ Tail(Stream) \in Seq(H!Piece) /\ Tail(Stream)[1].of = "challenge"
        BY <1>3, <4>1, RestTail, HeadTailProperties, Sizes
      <4>3. Len(Stream) \in Nat /\ Len(Tail(Stream)) \in Nat /\ Len(Tail(Stream)) # 0
        BY <1>3, <4>2
      <4>4. 1 \in 1..Len(Stream) /\ 1 < Len(Stream)
        BY <1>3, <4>3
      <4>5. split
        BY <3>1, <3>2, <4>4 DEF whole
      <4> QED
        BY <1>3, <4>2, <4>5 DEF Stray
    <3>4. Stream[1].to = 10 => ~split /\ Stream' = <<>>
      <4> SUFFICES ASSUME Stream[1].to = 10 PROVE ~split /\ Stream' = <<>>
        OBVIOUS
      <4>1. Stream' = <<>> /\ Len(Stream) = 1
        <5>1. Tail(Stream) = <<>>
          BY <1>9, <3>1
        <5>2. Len(Tail(Stream)) = 0
          <6>1. Tail(Stream) \in Seq(H!Piece)
            BY <1>3, HeadTailProperties
          <6> QED
            BY <5>1, <6>1, NoPieces
        <5>3. Len(Stream) \in Nat /\ Len(Tail(Stream)) = Len(Stream) - 1
          BY <1>3, HeadTailProperties
        <5> QED
          BY <1>3, <5>1, <5>2, <5>3
      <4> QED
        BY <3>1, <4>1 DEF whole
    <3>5. peer' = "replied" \/ (peer' = "misled" /\ Stream[1].to < 10)
      BY <2>1, <2>4, <3>2
    <3>6. split' = split /\ mishap' = mishap
      BY <1>1
    <3>7. Places'
      BY <1>2, <2>1, <3>3, <3>5, <3>6, Zenon DEF Places
    <3>8. peer' = "replied" => IF split' THEN Stray(Stream') ELSE Stream' = <<>>
      <4>1. Stream[1].to < 10 \/ Stream[1].to = 10
        BY <3>2
      <4> QED
        BY <3>3, <3>4, <3>6, <4>1, Zenon
    <3>9. Coming(buf, Stream)'
      BY <2>1, <3>5, <3>8, Zenon DEF Coming
    <3>10. Statuses(Stream)'
      BY <1>6, <1>10, <3>1 DEF Statuses
    <3> QED
      BY <2>2, <3>7, <3>9, <3>10 DEF ShakingInv
  <2> QED
    BY <1>5, <2>3, <2>4
<1>13. CASE H!Extended.size >= 7 /\ H!Extended.of # "challenge" /\ H!Ends("failed") /\ UNCHANGED peer
  <2>1. place' = "failed" /\ buf' = H!Empty /\ UNCHANGED peer
    BY <1>13 DEF H!Ends
  <2>2. ShakingTyped'
    BY <1>1, <1>2, <1>3, <2>1 DEF ShakingTyped, H!Empty
  <2>3. mishap
    BY <1>2, <1>5, <1>7, <1>9, <1>13 DEF Places
  <2>4. Places'
    BY <1>1, <1>2, <2>1, <2>3, Zenon DEF Places
  <2>5. Coming(buf, Stream)' /\ Statuses(Stream)'
    BY <2>1 DEF Coming, Statuses, Waiting
  <2> QED
    BY <2>2, <2>4, <2>5 DEF ShakingInv
<1> QED
  BY <1>11, <1>12, <1>13 DEF H!ReadChallenge

\* run reads a notification while it waits for the status-ack.
LEMMA ReadAckKeeps ==
  ASSUME ShakingInv, H!ReadAck
  PROVE  ShakingInv'
<1>1. /\ listening /\ place = "ack" /\ queue # <<>> /\ queue' = Tail(queue)
      /\ UNCHANGED <<listening, peer, air, split, mishap>> /\ buf' = H!Empty
      /\ place' = IF /\ Head(queue).of = "ack" /\ Head(queue).from = 1
                     /\ Head(queue).to >= 5 /\ Head(queue).status = 0
                  THEN "start" ELSE "failed"
  BY DEF H!ReadAck, H!Waits, H!Ends
<1>2. ShakingTyped /\ Places /\ Coming(buf, Stream) /\ Statuses(Stream)
  BY DEF ShakingInv
<1>3. /\ Stream # <<>> /\ Stream \in Seq(H!Piece) /\ Head(queue) = Stream[1] /\ Stream[1] \in H!Piece
      /\ Stream' = Tail(Stream) /\ queue' \in Seq(H!Piece) /\ Len(Tail(Stream)) = Len(Stream) - 1
      /\ \A i \in 1..Len(Tail(Stream)) : i + 1 \in 1..Len(Stream) /\ Tail(Stream)[i] = Stream[i + 1]
  BY <1>1, <1>2, Reading
<1>4. \A i \in 1..Len(Stream') : \E j \in 1..Len(Stream) : Stream'[i] = Stream[j]
  BY <1>3
<1>5. ShakingTyped'
  BY <1>1, <1>2, <1>3 DEF ShakingTyped, H!Empty, Waiting
<1>6. peer \in {"acked", "started"} =>
        IF split THEN Stray(Stream) \/ HalfAck(Stream)
        ELSE Stream[1] = WholeAck /\ IF peer = "acked" THEN Len(Stream) = 1 ELSE Rest(Tail(Stream), "start", 0)
  BY <1>1, <1>2, Zenon DEF Coming
<1>7. CASE place' = "start"
  <2>1. Stream[1].of = "ack" /\ Stream[1].status = 0
    BY <1>1, <1>3, <1>7
  <2>2. peer \in {"acked", "started", "gone"}
    <3>1. 1 \in 1..Len(Stream)
      BY <1>3
    <3> QED
      BY <1>1, <1>2, <2>1, <3>1 DEF Statuses
  <2>3. Places'
    BY <1>1, <1>2, <1>7, <2>2 DEF Places
  <2>4. Statuses(Stream)'
    BY <1>1, <1>2, <1>4, <1>7 DEF Statuses, Waiting
  <2>5. ASSUME peer \in {"acked", "started"}, split
        PROVE  Spoilt(H!Empty, Tail(Stream))
    <3>1. HalfAck(Stream)
      BY <1>6, <2>1, <2>5 DEF Stray
    <3>2. Len(Tail(Stream)) >= 1 /\ Len(Stream) \in Nat
      BY <1>3, <3>1 DEF HalfAck
    <3>3. Tail(Stream) # <<>> /\ Tail(Stream)[1] = Stream[2]
      <4>1. Len(Tail(Stream)) # 0 /\ Tail(Stream) \in Seq(H!Piece) /\ 1 \in 1..Len(Tail(Stream)) /\ 1 + 1 = 2
        BY <1>3, <3>2, HeadTailProperties
      <4> QED
        BY <1>3, <4>1, NoPieces
    <3> QED
      BY <3>1, <3>3 DEF HalfAck, Spoilt
  <2>6. ASSUME peer = "acked", ~split
        PROVE  Tail(Stream) = <<>>
    <3>1. Len(Stream) = 1
      BY <1>6, <2>6
    <3>2. Len(Tail(Stream)) = 0 /\ Tail(Stream) \in Seq(H!Piece)
      BY <1>3, <3>1, HeadTailProperties
    <3> QED
      BY <3>2, NoPieces, Zenon
  <2>7. ASSUME peer = "started", ~split
        PROVE  Partial(H!Empty, Tail(Stream), "start")
    <3>1. Rest(Tail(Stream), "start", 0)
      BY <1>6, <2>7
    <3> QED
      BY <3>1, Sizes DEF Partial, H!Empty
  <2>8. Coming(buf, Stream)'
    BY <1>1, <1>3, <1>7, <2>2, <2>5, <2>6, <2>7 DEF Coming
  <2> QED
    BY <1>5, <2>3, <2>4, <2>8 DEF ShakingInv
<1>8. CASE place' = "failed"
  <2>1. Coming(buf, Stream)' /\ Statuses(Stream)'
    BY <1>8 DEF Coming, Statuses, Waiting
  <2>2. ~(/\ Stream[1].of = "ack" /\ Stream[1].from = 1
          /\ Stream[1].to >= 5 /\ Stream[1].status = 0)
    BY <1>1, <1>3, <1>8
  <2>3. Stream[1] # WholeAck
    BY <2>2, Sizes DEF WholeAck
  <2>4. peer \in {"acked", "started", "replied"} => split
    BY <1>1, <1>2, <1>3, <1>6, <2>3 DEF Coming
  <2>5. peer \in {"replied", "misled", "acked", "refused", "rejected", "started", "gone"}
    BY <1>1, <1>2 DEF Places
  <2>6. peer = "refused" \/ mishap \/ split
    BY <1>2, <2>4, <2>5 DEF Places
  <2>7. Places'
    BY <1>1, <1>2, <1>8, <2>6, Zenon DEF Places
  <2> QED
    BY <1>5, <2>1, <2>7 DEF ShakingInv
<1> QED
  BY <1>1, <1>7, <1>8

\* The encrypted frames.
LEMMA ReadFrameKeeps ==
  ASSUME ShakingInv, NEW frame \in {"start", "conf"}, H!ReadFrame(frame)
  PROVE  ShakingInv'
<1>1. /\ listening /\ place = frame /\ queue # <<>> /\ queue' = Tail(queue)
      /\ UNCHANGED <<listening, air, split, mishap>>
  BY DEF H!ReadFrame, H!Waits
<1>2. ShakingTyped /\ Places /\ Coming(buf, Stream) /\ Statuses(Stream)
  BY DEF ShakingInv
<1>3. /\ Stream # <<>> /\ Stream \in Seq(H!Piece) /\ Head(queue) = Stream[1] /\ Stream[1] \in H!Piece
      /\ Stream' = Tail(Stream) /\ queue' \in Seq(H!Piece) /\ Len(Tail(Stream)) = Len(Stream) - 1
      /\ \A i \in 1..Len(Tail(Stream)) : i + 1 \in 1..Len(Stream) /\ Tail(Stream)[i] = Stream[i + 1]
  BY <1>1, <1>2, Reading
<1>4. /\ H!Extended \in [of : H!Frames \cup {"none", "mixed"}, size : Int]
      /\ H!Extended.of \in {Stream[1].of, "mixed"} /\ H!Extended # H!Empty
  BY <1>2, <1>3, ExtendedTyped
<1>5. \A i \in 1..Len(Stream') : \E j \in 1..Len(Stream) : Stream'[i] = Stream[j]
  BY <1>3
<1>6. frame \in H!Frames /\ H!Encrypted(H!Plaintext[frame]) = H!Size[frame] /\ H!Size[frame] \in Nat
  BY Sizes
<1>7. Partial(buf, Stream, frame) =>
        /\ H!Extended = [of |-> frame, size |-> Stream[1].to] /\ Stream[1].to \in Nat
        /\ Stream[1].to <= H!Size[frame] /\ Stream[1].status = 0
        /\ Stream[1].to = H!Size[frame] => Tail(Stream) = <<>>
        /\ Stream[1].to < H!Size[frame] => Partial(H!Extended, Tail(Stream), frame)
  BY <1>1, <1>2, <1>3, <1>6, PartialExtended
<1>8. H!Enough(frame) <=> H!Decodes(frame) \/ (H!Extended.size >= H!Size[frame] /\ H!Extended.of # frame)
  BY <1>6 DEF H!Enough, H!Decodes
<1>9. /\ frame = "start" => peer \in {"acked", "started", "gone"}
      /\ frame = "conf" => peer \in {"accepted", "refused", "gone"}
      /\ frame = "start" /\ peer \in {"acked", "started"} =>
           IF split THEN Spoilt(buf, Stream) ELSE peer = "started" /\ Partial(buf, Stream, "start")
      /\ frame = "conf" /\ peer = "accepted" => mishap \/ Partial(buf, Stream, "conf")
  BY <1>1, <1>2, <1>3 DEF Places, Coming
<1>10. Spoilt(buf, Stream) => H!Extended.of # "start"
  BY <1>3 DEF Spoilt, H!Extended
<1>11. \A i \in 1..Len(Stream) : Stream[i].of = "conf" /\ Stream[i].status = 0 => peer = "accepted"
  BY <1>1, <1>2 DEF Statuses, Waiting
<1>12. CASE (H!Extended.of # frame \/ ~H!Enough(frame)) /\ H!Collects
  <2>1. buf' = H!Extended /\ UNCHANGED <<place, peer>>
    BY <1>12 DEF H!Collects
  <2>2. ShakingTyped' /\ Places' /\ Statuses(Stream)'
    <3>1. ShakingTyped'
      BY <1>1, <1>2, <1>3, <1>4, <2>1 DEF ShakingTyped
    <3>2. Places'
      BY <1>1, <1>2, <2>1 DEF Places
    <3>3. Statuses(Stream)'
      BY <1>1, <1>2, <1>5, <2>1 DEF Statuses
    <3> QED
      BY <3>1, <3>2, <3>3
  <2>3. Partial(buf, Stream, frame) => Partial(buf', Stream', frame)
    <3> SUFFICES ASSUME Partial(buf, Stream, frame) PROVE Partial(buf', Stream', frame)
      OBVIOUS
    <3>1. Stream[1].to < H!Size[frame]
      BY <1>6, <1>7, <1>12 DEF H!Enough
    <3> QED
      BY <1>3, <1>7, <2>1, <3>1
  <2>4. Spoilt(buf, Stream) => Spoilt(buf', Stream')
    BY <1>4, <1>10, <2>1 DEF Spoilt
  <2>5. Coming(buf, Stream)'
    BY <1>1, <1>9, <2>1, <2>3, <2>4 DEF Coming
  <2> QED
    BY <2>2, <2>5 DEF ShakingInv
<1>13. CASE (H!Extended.of # frame \/ (H!Enough(frame) /\ ~H!Decodes(frame))) /\ H!Ends("failed") /\ UNCHANGED peer
  <2>1. place' = "failed" /\ buf' = H!Empty /\ UNCHANGED peer
    BY <1>13 DEF H!Ends
  <2>2. ShakingTyped'
    BY <1>1, <1>2, <1>3, <2>1 DEF ShakingTyped, H!Empty
  <2>3. ~Partial(buf, Stream, frame)
    BY <1>7, <1>8, <1>13
  <2>4. peer = "refused" \/ mishap \/ split
    BY <1>2, <1>9, <2>3 DEF Places
  <2>5. Places'
    BY <1>1, <1>2, <2>1, <2>4, Zenon DEF Places
  <2>6. Coming(buf, Stream)' /\ Statuses(Stream)'
    BY <2>1 DEF Coming, Statuses, Waiting
  <2> QED
    BY <2>2, <2>5, <2>6 DEF ShakingInv
<1>14. CASE frame = "start" /\ H!Enough(frame) /\ H!Decodes(frame) /\ H!Sent("keyed") /\ H!Ends("conf")
  <2>1. /\ place' = "conf" /\ buf' = H!Empty /\ peer' = (IF peer = "gone" THEN peer ELSE "keyed")
        /\ H!Extended.of = "start" /\ H!Extended.size >= H!Size.start
    BY <1>14 DEF H!Ends, H!Sent, H!Decodes
  <2>2. ShakingTyped'
    BY <1>1, <1>2, <1>3, <2>1 DEF ShakingTyped, H!Empty, Waiting
  <2>3. peer # "accepted" /\ (peer = "gone" \/ peer' = "keyed")
    BY <1>9, <1>14, <2>1
  <2>4. Statuses(Stream)'
    BY <1>5, <1>11, <2>1, <2>3 DEF Statuses
  <2>5. peer # "gone" => ~split /\ Stream' = <<>>
    <3> SUFFICES ASSUME peer # "gone" PROVE ~split /\ Stream' = <<>>
      OBVIOUS
    <3>1. ~split /\ Partial(buf, Stream, "start")
      BY <1>9, <1>10, <1>14, <2>1
    <3>2. Stream[1].to = H!Size.start
      BY <1>6, <1>7, <1>14, <2>1, <3>1
    <3> QED
      BY <1>3, <1>7, <1>14, <3>1, <3>2
  <2>6. Places'
    <3>1. peer = "gone" => mishap
      BY <1>2 DEF Places
    <3> QED
      BY <1>1, <2>1, <2>3, <2>5, <3>1 DEF Places
  <2>7. Coming(buf, Stream)'
    BY <2>1, <2>3, <2>5 DEF Coming
  <2> QED
    BY <2>2, <2>4, <2>6, <2>7 DEF ShakingInv
<1>15. CASE /\ frame = "conf" /\ H!Enough(frame) /\ H!Decodes(frame)
            /\ H!Ends(IF Head(queue).status = 0 THEN "session" ELSE "failed") /\ UNCHANGED peer
  <2>1. /\ place' = (IF Stream[1].status = 0 THEN "session" ELSE "failed") /\ buf' = H!Empty /\ UNCHANGED peer
        /\ H!Extended.of = "conf"
    BY <1>3, <1>15 DEF H!Ends, H!Decodes
  <2>2. ShakingTyped'
    BY <1>1, <1>2, <1>3, <2>1 DEF ShakingTyped, H!Empty
  <2>3. place' \in {"session", "failed"}
    BY <2>1
  <2>4. Coming(buf, Stream)' /\ Statuses(Stream)'
    BY <2>3 DEF Coming, Statuses, Waiting
  <2>5. place' = "session" => peer = "accepted"
    <3>1. 1 \in 1..Len(Stream) /\ Stream[1].of = "conf"
      BY <1>3, <1>4, <2>1
    <3> QED
      BY <1>11, <2>1, <3>1
  <2>6. place' = "failed" => peer = "refused" \/ mishap \/ split
    <3> SUFFICES ASSUME place' = "failed" PROVE peer = "refused" \/ mishap \/ split
      OBVIOUS
    <3>1. ~Partial(buf, Stream, frame)
      BY <1>7, <2>1
    <3> QED
      BY <1>2, <1>9, <1>15, <3>1 DEF Places
  <2>7. Places'
    <3>1. /\ peer' \in {"keyed", "accepted"} => ~split'
          /\ peer' = "gone" => mishap'
          /\ peer' \in {"misled", "rejected"} => split'
      BY <1>1, <1>2, <2>1 DEF Places
    <3> QED
      BY <1>1, <2>1, <2>3, <2>5, <2>6, <3>1 DEF Places
  <2> QED
    BY <2>2, <2>4, <2>7 DEF ShakingInv
<1> QED
  BY <1>12, <1>13, <1>14, <1>15 DEF H!ReadFrame

\* Nothing has been sent.
LEMMA ShakingInit == H!Init => ShakingInv
<1> SUFFICES ASSUME H!Init PROVE ShakingInv
  OBVIOUS
<1>1. Stream = <<>> /\ Len(Stream) = 0
  BY DEF H!Init, Stream
<1>2. ShakingTyped
  <2>1. queue \in Seq(H!Piece) /\ air \in Seq(H!Piece)
    BY DEF H!Init
  <2>2. split \in BOOLEAN /\ mishap \in BOOLEAN /\ listening \in BOOLEAN
    BY DEF H!Init
  <2> QED
    BY <2>1, <2>2 DEF H!Init, ShakingTyped, H!Empty, Waiting
<1>3. Places /\ Coming(buf, Stream) /\ Statuses(Stream)
  BY <1>1 DEF H!Init, Places, Coming, Statuses
<1> QED
  BY <1>2, <1>3 DEF ShakingInv

\* A step of the device, the link or run, or none.
LEMMA ShakingStep == ShakingInv /\ [H!Next]_H!vars => ShakingInv'
<1> SUFFICES ASSUME ShakingInv, [H!Next]_H!vars PROVE ShakingInv'
  OBVIOUS
<1>1. CASE UNCHANGED H!vars
  BY <1>1 DEF H!vars, ShakingInv, ShakingTyped, Places, Coming, Statuses, Stream
<1> QED
  BY <1>1, ChallengeKeeps, AckKeeps, StartKeyKeeps, ConfirmKeeps, DropKeeps, SubscribedKeeps, ArriveKeeps,
     ReadChallengeKeeps, ReadAckKeeps, TimeoutKeeps, ReadFrameKeeps DEF H!Next

\* Where a handshake has ended, it is said why it may.
LEMMA ShakingEnds == ShakingInv => H!EndsAsMeant
BY DEF ShakingInv, Places, H!EndsAsMeant

\* A session means that the device has accepted the app's key, and a handshake fails
\* only for a refusal, a missed or late notification, or a frame cut where run takes a
\* notification for the whole of it: HandshakeSession.run with _collect_encrypted_frame.
THEOREM RegistersEndsAsMeant == Spec => []EndsAsMeant
<1>1. Init => ShakingInv
  BY ShakingInit DEF Init
<1>2. ShakingInv /\ [H!Next]_H!vars => ShakingInv'
  BY ShakingStep
<1>3. [Next]_vars => [H!Next]_H!vars
  BY OneOfTheParts
<1>4. ShakingInv => EndsAsMeant
  BY ShakingEnds DEF EndsAsMeant
<1> QED
  BY <1>1, <1>2, <1>3, <1>4, PTL DEF Spec

-----------------------------------------------------------------------------
(* Settings.                                                               *)

\* A field is of one kind.
KindsApart ==
  /\ T!C.bools \cap (DOMAIN T!C.enums \cup DOMAIN T!C.uints \cup T!C.tenths) = {}
  /\ DOMAIN T!C.enums \cap (DOMAIN T!C.uints \cup T!C.tenths) = {}
  /\ DOMAIN T!C.uints \cap T!C.tenths = {}

\* Every control register that can be written is read, but for the exceptions.
AllRead ==
  \A f \in T!C.bools \cup DOMAIN T!C.enums \cup DOMAIN T!C.uints :
    f = 2072 \/ (device = "EL100V2" /\ f \in T!NotRead) \/ f \in T!ControlReads(device)

\* The control registers of AC2A.
LEMMA ForAC2A ==
  ASSUME device = "AC2A"
  PROVE  KindsApart /\ AllRead
<1>1. T!C = T!AC2A
  BY DEF T!C, T!ControlOf
<1>2. T!C.bools = {2007, 2011, 2012, 2014, 2066, 2206, 2207, 2208, 2013, 2017, 2021, 2086} /\ T!C.tenths = {2211, 2212, 2214, 2216}
  BY <1>1 DEF T!AC2A, T!Control, T!Switches, T!Feeding, T!Limits
<1>3. DOMAIN T!C.enums = {2005, 2020, 2210, 2060, 2061, 2078, 2241}
  BY <1>1 DEF T!AC2A, T!Control, T!Modes, T!Both, T!On, T!Nothing
<1>4. DOMAIN T!C.uints = {2022, 2023, 2075, 2083, 2067, 2004, 2084, 2209, 2213, 2215, 2015, 2016, 2018, 2019}
  BY <1>1 DEF T!AC2A, T!Control, T!Both, T!On, T!Nothing, T!EcoUnits
<1>5. T!ControlReads(device) = (2000 .. 2023) \cup (2060 .. 2086) \cup (2200 .. 2217) \cup {2241}
  BY DEF T!ControlReads
<1> QED
  BY <1>2, <1>3, <1>4, <1>5 DEF KindsApart, AllRead

\* The control registers of EL30V2.
LEMMA ForEL30V2 ==
  ASSUME device = "EL30V2"
  PROVE  KindsApart /\ AllRead
<1>1. T!C = T!EL30V2
  BY DEF T!C, T!ControlOf
<1>2. T!C.bools = {2007, 2011, 2012, 2014, 2066, 2206, 2207, 2208, 2013, 2017, 2021, 3035} /\ T!C.tenths = {2211, 2212, 2214, 2216}
  BY <1>1 DEF T!EL30V2, T!Control, T!Switches, T!Feeding, T!Limits
<1>3. DOMAIN T!C.enums = {2005, 2020, 2210, 2078}
  BY <1>1 DEF T!EL30V2, T!Control, T!Modes, T!Both, T!On, T!Nothing
<1>4. DOMAIN T!C.uints = {2022, 2023, 2075, 2083, 2004, 2067, 2209, 2213, 2215, 2015, 2016, 2018, 2019}
  BY <1>1 DEF T!EL30V2, T!Control, T!Both, T!On, T!Nothing, T!EcoUnits
<1>5. T!ControlReads(device) = (2000 .. 2023) \cup (2060 .. 2086) \cup (2200 .. 2217) \cup {3035}
  BY DEF T!ControlReads
<1> QED
  BY <1>2, <1>3, <1>4, <1>5 DEF KindsApart, AllRead

\* The control registers of EL400.
LEMMA ForEL400 ==
  ASSUME device = "EL400"
  PROVE  KindsApart /\ AllRead
<1>1. T!C = T!EL400
  BY DEF T!C, T!ControlOf
<1>2. T!C.bools = {2007, 2011, 2012, 2014, 2066, 2206, 2207, 2208, 2017, 2021, 3035} /\ T!C.tenths = {2211, 2212, 2214, 2216}
  BY <1>1 DEF T!EL400, T!Control, T!Switches, T!Feeding, T!Limits
<1>3. DOMAIN T!C.enums = {2005, 2020, 2210, 2013, 2078}
  BY <1>1 DEF T!EL400, T!Control, T!Modes, T!Both, T!On, T!Nothing
<1>4. DOMAIN T!C.uints = {2022, 2023, 2074, 2075, 2083, 2004, 2067, 2079, 2209, 2213, 2215, 2015, 2016, 2018, 2019}
  BY <1>1 DEF T!EL400, T!Control, T!Both, T!On, T!Nothing, T!EcoUnits
<1>5. T!ControlReads(device) = (2000 .. 2023) \cup (2060 .. 2086) \cup (2200 .. 2217) \cup {3035}
  BY DEF T!ControlReads
<1> QED
  BY <1>2, <1>3, <1>4, <1>5 DEF KindsApart, AllRead

\* The control registers of EL100V2.
LEMMA ForEL100V2 ==
  ASSUME device = "EL100V2"
  PROVE  KindsApart /\ AllRead
<1>1. T!C = T!EL100V2
  BY DEF T!C, T!ControlOf
<1>2. T!C.bools = {2007, 2011, 2012, 2014, 2066, 2206, 2207, 2208, 2013, 2017} /\ T!C.tenths = {2211, 2212, 2216}
  BY <1>1 DEF T!EL100V2, T!Control, T!Switches, T!Feeding, T!Limits
<1>3. DOMAIN T!C.enums = {2005, 2020, 2210}
  BY <1>1 DEF T!EL100V2, T!Control, T!Modes, T!Both, T!On, T!Nothing
<1>4. DOMAIN T!C.uints = {2015, 2018, 2016, 2019, 2214, 2075, 2083, 2004, 2067, 2209, 2213, 2215}
  BY <1>1 DEF T!EL100V2, T!Control, T!Both, T!On, T!Nothing, T!EcoUnits
<1>5. T!ControlReads(device) = (2000 .. 2066) \cup (2200 .. 2217)
  BY DEF T!ControlReads
<1> QED
  BY <1>2, <1>3, <1>4, <1>5 DEF KindsApart, AllRead, T!NotRead

\* The control registers of EL10V2.
LEMMA ForEL10V2 ==
  ASSUME device = "EL10V2"
  PROVE  KindsApart /\ AllRead
<1>1. T!C = T!EL10V2
  BY DEF T!C, T!ControlOf
<1>2. T!C.bools = {2007, 2011, 2012, 2014, 2066, 2206, 2013, 2017, 2021, 2072, 3035} /\ T!C.tenths = {}
  BY <1>1 DEF T!EL10V2, T!Control, T!Switches, T!Limits
<1>3. DOMAIN T!C.enums = {2005, 2020, 2210, 2078}
  BY <1>1 DEF T!EL10V2, T!Control, T!Modes, T!Both, T!On, T!Nothing
<1>4. DOMAIN T!C.uints = {2022, 2023, 2075, 2083, 2076, 2004, 2067, 2015, 2016, 2018, 2019}
  BY <1>1 DEF T!EL10V2, T!Control, T!Both, T!On, T!Nothing, T!EcoUnits
<1>5. T!ControlReads(device) = (2000 .. 2023) \cup (2060 .. 2086) \cup (2200 .. 2211) \cup {3035}
  BY DEF T!ControlReads
<1> QED
  BY <1>2, <1>3, <1>4, <1>5 DEF KindsApart, AllRead

\* The control registers of AC180.
LEMMA ForAC180 ==
  ASSUME device = "AC180"
  PROVE  KindsApart /\ AllRead
<1>1. T!C = T!AC180
  BY DEF T!C, T!ControlOf
<1>2. T!C.bools = {2007, 2011, 2012, 2014, 2066, 2206, 2013, 2017, 2021, 2072} /\ T!C.tenths = {}
  BY <1>1 DEF T!AC180, T!Control, T!Switches, T!Limits
<1>3. DOMAIN T!C.enums = {2005, 2020, 2210}
  BY <1>1 DEF T!AC180, T!Control, T!Modes, T!Both, T!On, T!Nothing
<1>4. DOMAIN T!C.uints = {2022, 2023, 2076, 2004, 2067, 2015, 2016, 2018, 2019}
  BY <1>1 DEF T!AC180, T!Control, T!Both, T!On, T!Nothing, T!EcoUnits
<1>5. T!ControlReads(device) = (2000 .. 2023) \cup (2060 .. 2086) \cup (2200 .. 2211)
  BY DEF T!ControlReads
<1> QED
  BY <1>2, <1>3, <1>4, <1>5 DEF KindsApart, AllRead

\* The control registers of AC60.
LEMMA ForAC60 ==
  ASSUME device = "AC60"
  PROVE  KindsApart /\ AllRead
<1>1. T!C = T!AC60
  BY DEF T!C, T!ControlOf
<1>2. T!C.bools = {2007, 2011, 2012, 2014, 2066, 2206, 2013, 2021} /\ T!C.tenths = {}
  BY <1>1 DEF T!AC60, T!Control, T!Switches, T!Limits
<1>3. DOMAIN T!C.enums = {2005, 2020, 2210}
  BY <1>1 DEF T!AC60, T!Control, T!Modes, T!Both, T!On, T!Nothing
<1>4. DOMAIN T!C.uints = {2022, 2023, 2075, 2083, 2004, 2015, 2016, 2067, 2209}
  BY <1>1 DEF T!AC60, T!Control, T!Both, T!On, T!Nothing, T!EcoUnits
<1>5. T!ControlReads(device) = (2000 .. 2023) \cup (2060 .. 2086) \cup (2200 .. 2211)
  BY DEF T!ControlReads
<1> QED
  BY <1>2, <1>3, <1>4, <1>5 DEF KindsApart, AllRead

\* The control registers of EP600.
LEMMA ForEP600 ==
  ASSUME device = "EP600"
  PROVE  KindsApart /\ AllRead
<1>1. T!C = T!Ups
  BY DEF T!C, T!ControlOf
<1>2. T!C.bools = {3035} /\ T!C.tenths = {}
  BY <1>1 DEF T!Ups, T!Control, T!Limits
<1>3. DOMAIN T!C.enums = {}
  BY <1>1 DEF T!Ups, T!Control, T!Modes, T!Both, T!On, T!Nothing
<1>4. DOMAIN T!C.uints = {}
  BY <1>1 DEF T!Ups, T!Control, T!Both, T!On, T!Nothing, T!EcoUnits
<1>5. T!ControlReads(device) = {3035}
  BY DEF T!ControlReads
<1> QED
  BY <1>2, <1>3, <1>4, <1>5 DEF KindsApart, AllRead

\* The control registers of EP500.
LEMMA ForEP500 ==
  ASSUME device = "EP500"
  PROVE  KindsApart /\ AllRead
<1>1. T!C = T!Ups
  BY DEF T!C, T!ControlOf
<1>2. T!C.bools = {3035} /\ T!C.tenths = {}
  BY <1>1 DEF T!Ups, T!Control, T!Limits
<1>3. DOMAIN T!C.enums = {}
  BY <1>1 DEF T!Ups, T!Control, T!Modes, T!Both, T!On, T!Nothing
<1>4. DOMAIN T!C.uints = {}
  BY <1>1 DEF T!Ups, T!Control, T!Both, T!On, T!Nothing, T!EcoUnits
<1>5. T!ControlReads(device) = 3000 .. 3035
  BY DEF T!ControlReads
<1> QED
  BY <1>2, <1>3, <1>4, <1>5 DEF KindsApart, AllRead

\* The control registers of AC300.
LEMMA ForAC300 ==
  ASSUME device = "AC300"
  PROVE  KindsApart /\ AllRead
<1>1. T!C = T!AC300
  BY DEF T!C, T!ControlOf
<1>2. T!C.bools = {3002, 3007, 3008, 3009, 3010, 3011, 3035, 3060, 3062, 3063, 3066, 3067, 3090} /\ T!C.tenths = {}
  BY <1>1 DEF T!AC300, T!Control, T!Limits
<1>3. DOMAIN T!C.enums = {3001, 3065}
  BY <1>1 DEF T!AC300, T!Control, T!Modes, T!Both, T!On, T!Nothing
<1>4. DOMAIN T!C.uints = {3004, 3005, 3014, 3015, 3016, 3018, 3019, 3039, 3057, 3058, 3064, 3069, 3070, 3079}
  BY <1>1 DEF T!AC300, T!Control, T!Both, T!On, T!Nothing, T!EcoUnits
<1>5. T!ControlReads(device) = 3000 .. 3099
  BY DEF T!ControlReads
<1> QED
  BY <1>2, <1>3, <1>4, <1>5 DEF KindsApart, AllRead

\* The control registers of AC200L.
LEMMA ForAC200L ==
  ASSUME device = "AC200L"
  PROVE  KindsApart /\ AllRead
<1>1. T!C = T!AC200L
  BY DEF T!C, T!ControlOf
<1>2. T!C.bools = {3002, 3007, 3008, 3009, 3010, 3011, 3035, 3060, 3062, 3063, 3066, 3067, 3090} /\ T!C.tenths = {}
  BY <1>1 DEF T!AC300, T!AC200L, T!Control, T!Limits
<1>3. DOMAIN T!C.enums = {3001, 3065, 3003}
  BY <1>1 DEF T!AC300, T!AC200L, T!Control, T!Modes, T!Both, T!On, T!Nothing
<1>4. DOMAIN T!C.uints = {3004, 3005, 3014, 3015, 3016, 3018, 3019, 3039, 3057, 3058, 3064, 3069, 3070, 3079}
  BY <1>1 DEF T!AC300, T!AC200L, T!Control, T!Both, T!On, T!Nothing, T!EcoUnits
<1>5. T!ControlReads(device) = 3000 .. 3099
  BY DEF T!ControlReads
<1> QED
  BY <1>2, <1>3, <1>4, <1>5 DEF KindsApart, AllRead

\* The control registers of AC500.
LEMMA ForAC500 ==
  ASSUME device = "AC500"
  PROVE  KindsApart /\ AllRead
<1>1. T!C = T!AC500
  BY DEF T!C, T!ControlOf
<1>2. T!C.bools = {3002, 3007, 3008, 3009, 3010, 3011, 3035, 3060, 3062, 3063, 3066, 3067, 3090} /\ T!C.tenths = {}
  BY <1>1 DEF T!AC300, T!AC500, T!Control, T!Limits
<1>3. DOMAIN T!C.enums = {3001, 3065, 3003}
  BY <1>1 DEF T!AC300, T!AC500, T!Control, T!Modes, T!Both, T!On, T!Nothing
<1>4. DOMAIN T!C.uints = {3004, 3005, 3014, 3015, 3016, 3018, 3019, 3039, 3057, 3058, 3064, 3069, 3070, 3079}
  BY <1>1 DEF T!AC300, T!AC500, T!Control, T!Both, T!On, T!Nothing, T!EcoUnits
<1>5. T!ControlReads(device) = 3000 .. 3099
  BY DEF T!ControlReads
<1> QED
  BY <1>2, <1>3, <1>4, <1>5 DEF KindsApart, AllRead

\* The control registers of AC200M.
LEMMA ForAC200M ==
  ASSUME device = "AC200M"
  PROVE  KindsApart /\ AllRead
<1>1. T!C = T!AC200M
  BY DEF T!C, T!ControlOf
<1>2. T!C.bools = {3007, 3008, 3034, 3035, 3060, 3062, 3063} /\ T!C.tenths = {}
  BY <1>1 DEF T!AC200M, T!Control, T!Limits
<1>3. DOMAIN T!C.enums = {3001}
  BY <1>1 DEF T!AC200M, T!Control, T!Modes, T!Both, T!On, T!Nothing
<1>4. DOMAIN T!C.uints = {}
  BY <1>1 DEF T!AC200M, T!Control, T!Both, T!On, T!Nothing, T!EcoUnits
<1>5. T!ControlReads(device) = 3000 .. 3099
  BY DEF T!ControlReads
<1> QED
  BY <1>2, <1>3, <1>4, <1>5 DEF KindsApart, AllRead

\* The control registers of EB3A.
LEMMA ForEB3A ==
  ASSUME device = "EB3A"
  PROVE  KindsApart /\ AllRead
<1>1. T!C = T!EB3A
  BY DEF T!C, T!ControlOf
<1>2. T!C.bools = {3007, 3008, 3034, 3060, 3062, 3063} /\ T!C.tenths = {}
  BY <1>1 DEF T!EB3A, T!Control, T!Limits
<1>3. DOMAIN T!C.enums = {}
  BY <1>1 DEF T!EB3A, T!Control, T!Modes, T!Both, T!On, T!Nothing
<1>4. DOMAIN T!C.uints = {}
  BY <1>1 DEF T!EB3A, T!Control, T!Both, T!On, T!Nothing, T!EcoUnits
<1>5. T!ControlReads(device) = 3000 .. 3099
  BY DEF T!ControlReads
<1> QED
  BY <1>2, <1>3, <1>4, <1>5 DEF KindsApart, AllRead

\* The models.
KnownModels == {"AC2A", "EL30V2", "EL400", "EL100V2", "EL10V2", "AC180", "AC60", "EP600",
          "AC200L", "AC300", "AC500", "AC200M", "EB3A", "EP500"}

\* A field has one kind, and the program reads every control register it can write, but
\* for the exceptions.
LEMMA ModelsRead ==
  ASSUME device \in KnownModels
  PROVE  KindsApart /\ AllRead
BY ForAC2A, ForEL30V2, ForEL400, ForEL100V2, ForEL10V2, ForAC180, ForAC60, ForEP600, ForAC200L, ForAC300, ForAC500,
   ForAC200M, ForEB3A, ForEP500 DEF KnownModels

\* What a user may give.
LEMMA GivenValue ==
  ASSUME KindsApart, field \in T!Settable, value \in T!Inputs(field)
  PROVE  /\ value.form \in {"number", "text", "unit", "junk"}
         /\ field \in T!C.bools /\ value.form # "junk" => value.n \in {0, 1}
<1> DEFINE numbers == CASE field \in DOMAIN T!C.enums -> T!C.enums[field] \cup {7, 70} \cup Numbers
                        [] field \in DOMAIN T!C.uints ->
                             UNION {{n - 1, n, n + 1} : n \in {T!C.uints[field][1], T!C.uints[field][2]}} \cup Numbers
                        [] field \in T!C.tenths -> {0, 14, 144}
                        [] OTHER -> {0, 1}
<1>1. value \in [form : {"number", "text", "unit"}, n : numbers] \cup [form : {"junk"}, n : {0}]
  BY DEF T!Inputs
<1>2. field \in T!C.bools => numbers = {0, 1}
  <2>1. field \in T!C.bools => field \notin DOMAIN T!C.enums /\ field \notin DOMAIN T!C.uints /\ field \notin T!C.tenths
    BY DEF KindsApart
  <2> QED
    BY <2>1
<1> HIDE DEF numbers
<1> QED
  BY <1>1, <1>2

\* The word that is accepted for a value shows the value.
LEMMA AcceptedShows ==
  ASSUME KindsApart, field \in T!Settable, field \notin T!C.tenths, ~T!ChildLock(field), value \in T!Inputs(field),
         field \in T!C.bools => value.form \in {"number", "text"},
         T!Encoded(field, value) # T!None
  PROVE  T!Shown(field, T!Encoded(field, value)) = value.n
<1>1. CASE field \in T!C.bools
  <2>1. value.n \in {0, 1} /\ value.form \in {"number", "text"}
    BY <1>1, GivenValue
  <2>2. T!Encoded(field, value) = IF value.n # 0 THEN 1 ELSE 0
    BY <1>1, <2>1 DEF T!Encoded
  <2>3. field \notin DOMAIN T!C.uints
    BY <1>1 DEF KindsApart
  <2>4. T!Shown(field, T!Encoded(field, value)) = IF T!Encoded(field, value) = 1 THEN 1 ELSE 0
    BY <1>1, <2>3 DEF T!Shown
  <2> QED
    BY <2>1, <2>2, <2>4
<1>2. CASE field \in DOMAIN T!C.enums
  <2>1. field \notin T!C.bools /\ field \notin DOMAIN T!C.uints
    BY <1>2 DEF KindsApart
  <2>2. T!Encoded(field, value) = value.n
    BY <1>2, <2>1 DEF T!Encoded
  <2> QED
    BY <2>1, <2>2 DEF T!Shown
<1>3. CASE field \in DOMAIN T!C.uints
  <2>1. field \notin T!C.bools /\ field \notin DOMAIN T!C.enums
    BY <1>3 DEF KindsApart
  <2>2. T!Encoded(field, value) = value.n /\ T!Within(value.n, T!C.uints[field])
    BY <1>3, <2>1 DEF T!Encoded
  <2> QED
    BY <1>3, <2>1, <2>2 DEF T!Shown
<1> QED
  BY <1>1, <1>2, <1>3 DEF T!Settable

\* A setting on its way, with the word that was accepted for it.
SettingInv ==
  /\ device \in KnownModels /\ field \in T!Settable /\ value \in T!Inputs(field)
  /\ stage = "written" => sent = T!Encoded(field, value) /\ sent # T!None
  /\ T!WriteReadsBack

\* Nothing has been written.
LEMMA SettingInit == T!Init /\ device \in KnownModels => SettingInv
BY DEF T!Init, SettingInv, T!WriteReadsBack

\* A setting is built, and read back.
LEMMA SettingStep == SettingInv /\ [T!Next]_T!vars => SettingInv'
<1> SUFFICES ASSUME SettingInv, [T!Next]_T!vars PROVE SettingInv'
  OBVIOUS
<1>1. UNCHANGED <<device, field, value>>
  BY DEF T!Next, T!Build, T!ReadBack, T!vars
<1>2. device' \in KnownModels /\ (field \in T!Settable)' /\ (value \in T!Inputs(field))'
  BY <1>1 DEF SettingInv, T!Settable, T!Inputs, T!C
<1>3. /\ T!C' = T!C /\ (T!ChildLock(field))' = T!ChildLock(field)
      /\ T!Encoded(field, value)' = T!Encoded(field, value)
  BY <1>1 DEF T!C, T!ChildLock, T!Encoded, T!V1
<1>4. CASE T!Build
  <2>1. sent' = T!Encoded(field, value) /\ stage' \in {"refused", "written"} /\ (stage' = "written" => sent' # T!None)
    BY <1>4 DEF T!Build
  <2> QED
    BY <1>2, <1>3, <2>1 DEF SettingInv, T!WriteReadsBack
<1>5. CASE T!ReadBack
  <2>1. /\ sent = T!Encoded(field, value) /\ sent # T!None /\ stage' = "read"
        /\ seen' = IF field \in T!ControlReads(device) THEN T!Shown(field, sent) ELSE T!None
    BY <1>5 DEF T!ReadBack, SettingInv
  <2>2. KindsApart /\ AllRead
    BY ModelsRead DEF SettingInv
  <2>3. ASSUME field \notin T!C.tenths, ~T!ChildLock(field), field \in T!C.bools => value.form \in {"number", "text"},
               ~(device = "EL100V2" /\ field \in T!NotRead)
        PROVE  seen' = value.n
    <3>1. field \in T!ControlReads(device)
      BY <2>2, <2>3 DEF AllRead, T!ChildLock, SettingInv, T!Settable
    <3> QED
      BY <2>1, <2>2, <2>3, <3>1, AcceptedShows DEF SettingInv
  <2>4. T!WriteReadsBack'
    BY <1>1, <1>3, <2>3 DEF T!WriteReadsBack
  <2> QED
    BY <1>2, <2>1, <2>4 DEF SettingInv
<1>6. CASE UNCHANGED T!vars
  <2>1. UNCHANGED <<sent, seen, stage>>
    BY <1>6 DEF T!vars
  <2> QED
    BY <1>1, <1>2, <1>3, <2>1 DEF SettingInv, T!WriteReadsBack
<1> QED
  BY <1>4, <1>5, <1>6 DEF T!Next

\* A value that a setter accepts is shown by the next read of the settings, for every
\* field of every model and whatever number the user gave, but for what WriteReadsBack
\* names: V2Base.build_setter_command, write and status.
THEOREM RegistersWriteReadsBack == Spec => []WriteReadsBack
<1> DEFINE Inv == part = "settings" => SettingInv
<1>1. Init => Inv
  <2>1. T!Init => device \in KnownModels
    BY DEF T!Init, KnownModels
  <2> QED
    BY <2>1, SettingInit DEF Init
<1>2. Inv /\ [T!Next]_T!vars /\ UNCHANGED part => Inv'
  BY SettingStep
<1>3. [Next]_vars => [T!Next]_T!vars /\ UNCHANGED part
  BY OneOfTheParts
<1>4. Inv => WriteReadsBack
  BY DEF WriteReadsBack, SettingInv
<1> QED
  BY <1>1, <1>2, <1>3, <1>4, PTL DEF Spec

-----------------------------------------------------------------------------
(* Frames.                                                                 *)

\* A set that has 0, and with each number the next, has them all.
LEMMA FromZeroOn ==
  ASSUME NEW S, 0 \in S, \A n \in Nat : n \in S => n + 1 \in S
  PROVE  \A n \in Nat : n \in S
<1> DEFINE lacks == {n \in Nat : n \notin S}
           less == OpToRel(<, Nat)
<1>1. ASSUME lacks # {}
      PROVE  FALSE
  <2>1. PICK x \in lacks : \A y \in lacks : ~(<<y, x>> \in less)
    <3>1. IsWellFoundedOn(less, Nat)
      BY NatLessThanWellFounded
    <3>2. lacks \subseteq Nat
      OBVIOUS
    <3> HIDE DEF less, lacks
    <3> QED
      BY <1>1, <3>1, <3>2, WFMin
  <2>2. \A y \in lacks : ~(y < x)
    BY <2>1 DEF OpToRel
  <2>3. x # 0 /\ x - 1 \in Nat
    OBVIOUS
  <2>4. x - 1 \in S
    BY <2>2, <2>3
  <2>5. (x - 1) + 1 = x
    OBVIOUS
  <2> QED
    BY <2>3, <2>4, <2>5
<1> QED
  BY <1>1

\* The results of n steps, from the base on.
Steps(X, base, n, g, f) == f \in [0 .. n -> X] /\ f[0] = base /\ \A i \in 1 .. n : f[i] = g[i][f[i - 1]]

\* A recursive function of a number of steps exists when each step has a result.
LEMMA StepsExist ==
  ASSUME NEW X, NEW base \in X, NEW n \in Nat, NEW g \in [1 .. n -> [X -> X]]
  PROVE  \E f : Steps(X, base, n, g, f)
<1> DEFINE S == {m \in Nat : m <= n =>
                   \E f \in [0 .. m -> X] : f[0] = base /\ \A i \in 1 .. m : f[i] = g[i][f[i - 1]]}
<1>1. 0 \in S
  <2> DEFINE f == [i \in 0 .. 0 |-> base]
  <2>1. f \in [0 .. 0 -> X] /\ f[0] = base /\ \A i \in 1 .. 0 : f[i] = g[i][f[i - 1]]
    OBVIOUS
  <2> QED
    BY <2>1
<1>2. ASSUME NEW m \in Nat, m \in S
      PROVE  m + 1 \in S
  <2> SUFFICES ASSUME m + 1 <= n
               PROVE  \E f \in [0 .. m + 1 -> X] : f[0] = base /\ \A i \in 1 .. m + 1 : f[i] = g[i][f[i - 1]]
    OBVIOUS
  <2>1. m <= n
    OBVIOUS
  <2>2. PICK f \in [0 .. m -> X] : f[0] = base /\ \A i \in 1 .. m : f[i] = g[i][f[i - 1]]
    BY <1>2, <2>1
  <2> DEFINE h == [i \in 0 .. m + 1 |-> IF i = m + 1 THEN g[m + 1][f[m]] ELSE f[i]]
  <2>3. g[m + 1] \in [X -> X] /\ f[m] \in X
    OBVIOUS
  <2>4. h \in [0 .. m + 1 -> X]
    BY <2>3
  <2>5. h[0] = base
    BY <2>2
  <2>6. ASSUME NEW i \in 1 .. m + 1
        PROVE  h[i] = g[i][h[i - 1]]
    <3>1. CASE i = m + 1
      <4>1. i - 1 = m /\ m # m + 1 /\ m \in 0 .. m + 1
        BY <3>1
      <4> QED
        BY <3>1, <4>1
    <3>2. CASE i # m + 1
      <4>1. i \in 1 .. m /\ i - 1 \in 0 .. m /\ i - 1 # m + 1
        BY <3>2
      <4>2. f[i] = g[i][f[i - 1]]
        BY <2>2, <4>1
      <4> QED
        BY <3>2, <4>1, <4>2
    <3> QED
      BY <3>1, <3>2
  <2> HIDE DEF h
  <2> QED
    BY <2>4, <2>5, <2>6
<1> HIDE DEF S
<1>3. n \in S
  BY <1>1, <1>2, FromZeroOn
<1> QED
  BY <1>3 DEF S, Steps

\* The number of some bits has those bits.
LEMMA BitsOfNumber ==
  ASSUME NEW S, S \subseteq 0 .. 7
  PROVE  W!Bits(W!Number(S)) = S
<1> DEFINE one(k) == IF k \in S THEN W!Weight[k + 1] ELSE 0
<1>1. W!Weight[1] = 1 /\ W!Weight[2] = 2 /\ W!Weight[3] = 4 /\ W!Weight[4] = 8
      /\ W!Weight[5] = 16 /\ W!Weight[6] = 32 /\ W!Weight[7] = 64 /\ W!Weight[8] = 128
  BY DEF W!Weight
<1>2. PICK a \in 0 .. 1, b \in 0 .. 1, c \in 0 .. 1, d \in 0 .. 1, e \in 0 .. 1, f \in 0 .. 1, g \in 0 .. 1, h \in 0 .. 1 :
        /\ a = (IF 0 \in S THEN 1 ELSE 0) /\ b = (IF 1 \in S THEN 1 ELSE 0)
        /\ c = (IF 2 \in S THEN 1 ELSE 0) /\ d = (IF 3 \in S THEN 1 ELSE 0)
        /\ e = (IF 4 \in S THEN 1 ELSE 0) /\ f = (IF 5 \in S THEN 1 ELSE 0)
        /\ g = (IF 6 \in S THEN 1 ELSE 0) /\ h = (IF 7 \in S THEN 1 ELSE 0)
  OBVIOUS
<1>3. W!Number(S) = a + 2 * b + 4 * c + 8 * d + 16 * e + 32 * f + 64 * g + 128 * h
  BY <1>1, <1>2 DEF W!Number
<1> DEFINE N == a + 2 * b + 4 * c + 8 * d + 16 * e + 32 * f + 64 * g + 128 * h
<1>4. /\ (N \div 1) % 2 = a /\ (N \div 2) % 2 = b /\ (N \div 4) % 2 = c /\ (N \div 8) % 2 = d
      /\ (N \div 16) % 2 = e /\ (N \div 32) % 2 = f /\ (N \div 64) % 2 = g /\ (N \div 128) % 2 = h
  OBVIOUS
<1> HIDE DEF N
<1>5. \A k \in 0 .. 7 : (N \div W!Weight[k + 1]) % 2 = 1 <=> k \in S
  BY <1>1, <1>2, <1>4
<1>6. W!Bits(W!Number(S)) = {k \in 0 .. 7 : (N \div W!Weight[k + 1]) % 2 = 1}
  BY <1>3 DEF N, W!Bits
<1> QED
  BY <1>5, <1>6

\* Bits that are some places further up.
Up(bits, n) == {k + n : k \in bits}

\* Bits no places further up are where they were.
LEMMA UpZero ==
  ASSUME NEW bits \in SUBSET Nat
  PROVE  Up(bits, 0) = bits
<1>1. \A k \in bits : k + 0 = k
  OBVIOUS
<1>2. \A k \in bits : k \in Up(bits, 0)
  BY <1>1 DEF Up
<1>3. \A k \in Up(bits, 0) : k \in bits
  BY <1>1 DEF Up
<1> QED
  BY <1>2, <1>3

\* The bits of the register after one bit: each moves down, and the polynomial is added when the lowest was up.
LEMMA BitMembers ==
  ASSUME NEW c \in SUBSET Nat
  PROVE  /\ W!CrcBit(c) \in SUBSET Nat
         /\ \A k \in Nat : k \in W!CrcBit(c) <=> ~((k + 1 \in c) <=> (0 \in c /\ k \in {15, 13, 0}))
<1> DEFINE shifted == {k - 1 : k \in c \ {0}}
<1>1. \A k \in Nat : k \in shifted <=> k + 1 \in c
  <2>1. ASSUME NEW k \in Nat, k + 1 \in c
        PROVE  k \in shifted
    <3>1. k + 1 \in c \ {0} /\ (k + 1) - 1 = k
      BY <2>1
    <3> QED
      BY <3>1
  <2>2. ASSUME NEW k \in Nat, k \in shifted
        PROVE  k + 1 \in c
    <3>1. PICK m \in c \ {0} : k = m - 1
      BY <2>2
    <3>2. k + 1 = m
      BY <3>1
    <3> QED
      BY <3>2
  <2> QED
    BY <2>1, <2>2
<1>2. shifted \in SUBSET Nat
  OBVIOUS
<1> HIDE DEF shifted
<1>3. W!CrcBit(c) = W!Xor(shifted, IF 0 \in c THEN {15, 13, 0} ELSE {})
  BY DEF W!CrcBit, shifted
<1> QED
  BY <1>1, <1>2, <1>3 DEF W!Xor

\* The register is linear: a difference in the bytes is one of the register.
LEMMA BitLinear ==
  ASSUME NEW a \in SUBSET Nat, NEW b \in SUBSET Nat
  PROVE  W!Xor(a, b) \in SUBSET Nat /\ W!CrcBit(W!Xor(a, b)) = W!Xor(W!CrcBit(a), W!CrcBit(b))
<1>1. W!Xor(a, b) \in SUBSET Nat /\ \A k : k \in W!Xor(a, b) <=> ~(k \in a <=> k \in b)
  BY DEF W!Xor
<1>2. \A k \in Nat : k \in W!CrcBit(W!Xor(a, b)) <=> ~(k \in W!CrcBit(a) <=> k \in W!CrcBit(b))
  BY <1>1, BitMembers
<1>3. W!CrcBit(W!Xor(a, b)) \in SUBSET Nat /\ W!CrcBit(a) \in SUBSET Nat /\ W!CrcBit(b) \in SUBSET Nat
  BY <1>1, BitMembers
<1>4. \A k : k \in W!CrcBit(W!Xor(a, b)) <=> k \in W!Xor(W!CrcBit(a), W!CrcBit(b))
  BY <1>2, <1>3 DEF W!Xor
<1> QED
  BY <1>1, <1>4

\* Bits above the lowest move down.
LEMMA BitShifts ==
  ASSUME NEW bits \in SUBSET Nat, NEW n \in Nat
  PROVE  Up(bits, n) \in SUBSET Nat /\ W!CrcBit(Up(bits, n + 1)) = Up(bits, n)
<1>1. \A k \in Nat : (k + 1 \in Up(bits, n + 1) <=> k \in Up(bits, n)) /\ 0 \notin Up(bits, n + 1)
  BY DEF Up
<1>2. Up(bits, n) \in SUBSET Nat /\ Up(bits, n + 1) \in SUBSET Nat
  BY DEF Up
<1>3. W!CrcBit(Up(bits, n + 1)) \in SUBSET Nat
      /\ \A k \in Nat : k \in W!CrcBit(Up(bits, n + 1)) <=> k \in Up(bits, n)
  BY <1>1, <1>2, BitMembers
<1> QED
  BY <1>2, <1>3

\* Eight bits, of a register of any width.
Eight(c) == W!CrcBit(W!CrcBit(W!CrcBit(W!CrcBit(W!CrcBit(W!CrcBit(W!CrcBit(W!CrcBit(c))))))))

\* The register keeps its sixteen bits, and does not become empty.
LEMMA BitInside ==
  ASSUME NEW c \in SUBSET (0 .. 15)
  PROVE  W!CrcBit(c) \in SUBSET (0 .. 15) /\ (c # {} => W!CrcBit(c) # {})
<1>1. c \in SUBSET Nat
  OBVIOUS
<1>2. W!CrcBit(c) \in SUBSET Nat
      /\ \A k \in Nat : k \in W!CrcBit(c) <=> ~((k + 1 \in c) <=> (0 \in c /\ k \in {15, 13, 0}))
  BY <1>1, BitMembers
<1>3. W!CrcBit(c) \in SUBSET (0 .. 15)
  <2>1. \A k \in Nat : k > 15 => k + 1 \notin c /\ k \notin {15, 13, 0}
    OBVIOUS
  <2> QED
    BY <1>2, <2>1
<1>4. ASSUME c # {}
      PROVE  W!CrcBit(c) # {}
  <2>1. CASE 0 \in c
    <3>1. 15 \in W!CrcBit(c)
      BY <1>2, <2>1
    <3> QED
      BY <3>1
  <2>2. CASE 0 \notin c
    <3>1. PICK k \in c : TRUE
      BY <1>4
    <3>2. k - 1 \in Nat /\ (k - 1) + 1 = k
      BY <2>2
    <3>3. k - 1 \in W!CrcBit(c)
      BY <1>2, <2>2, <3>2
    <3> QED
      BY <3>3
  <2> QED
    BY <2>1, <2>2
<1> QED
  BY <1>3, <1>4

\* A byte is eight bits.
LEMMA ByteIsEight ==
  ASSUME NEW c \in SUBSET (0 .. 15)
  PROVE  W!CrcByte(c) = Eight(c) /\ W!CrcByte(c) \in SUBSET (0 .. 15)
<1> DEFINE bit == [b \in SUBSET (0 .. 15) |-> W!CrcBit(b)]
<1>1. \A b \in SUBSET (0 .. 15) : bit[b] = W!CrcBit(b) /\ W!CrcBit(b) \in SUBSET (0 .. 15)
  BY BitInside
<1>2. W!CrcByte(c) = bit[bit[bit[bit[bit[bit[bit[bit[c]]]]]]]]
  BY Zenon DEF W!CrcByte
<1> DEFINE c1 == W!CrcBit(c)
           c2 == W!CrcBit(c1)
           c3 == W!CrcBit(c2)
           c4 == W!CrcBit(c3)
           c5 == W!CrcBit(c4)
           c6 == W!CrcBit(c5)
           c7 == W!CrcBit(c6)
           c8 == W!CrcBit(c7)
<1>3. Eight(c) = c8
  BY DEF Eight
<1>4. c1 \in SUBSET (0 .. 15) /\ c2 \in SUBSET (0 .. 15) /\ c3 \in SUBSET (0 .. 15) /\ c4 \in SUBSET (0 .. 15)
      /\ c5 \in SUBSET (0 .. 15) /\ c6 \in SUBSET (0 .. 15) /\ c7 \in SUBSET (0 .. 15) /\ c8 \in SUBSET (0 .. 15)
  BY <1>1, Zenon
<1>5. bit[c] = c1 /\ bit[c1] = c2 /\ bit[c2] = c3 /\ bit[c3] = c4
      /\ bit[c4] = c5 /\ bit[c5] = c6 /\ bit[c6] = c7 /\ bit[c7] = c8
  <2> HIDE DEF bit
  <2> QED
    BY <1>1, <1>4, Zenon
<1> HIDE DEF bit, c1, c2, c3, c4, c5, c6, c7, c8
<1> QED
  BY <1>2, <1>3, <1>4, <1>5

\* Eight bits are linear too.
LEMMA EightLinear ==
  ASSUME NEW a \in SUBSET Nat, NEW b \in SUBSET Nat
  PROVE  Eight(W!Xor(a, b)) = W!Xor(Eight(a), Eight(b))
<1>1. \A x, y \in SUBSET Nat : W!CrcBit(W!Xor(x, y)) = W!Xor(W!CrcBit(x), W!CrcBit(y)) /\ W!CrcBit(x) \in SUBSET Nat
  BY BitLinear, BitMembers
<1> QED
  BY <1>1, SMT DEF Eight

\* Eight bits bring what is eight places further up to its place.
LEMMA EightShifts ==
  ASSUME NEW bits \in SUBSET Nat
  PROVE  Up(bits, 8) \in SUBSET Nat /\ Eight(Up(bits, 8)) = bits
<1>1. \A m \in Nat \ {0} : W!CrcBit(Up(bits, m)) = Up(bits, m - 1)
  <2>1. ASSUME NEW m \in Nat \ {0}
        PROVE  W!CrcBit(Up(bits, m)) = Up(bits, m - 1)
    <3>1. m - 1 \in Nat /\ (m - 1) + 1 = m
      OBVIOUS
    <3>2. W!CrcBit(Up(bits, (m - 1) + 1)) = Up(bits, m - 1)
      BY <3>1, BitShifts
    <3> QED
      BY <3>1, <3>2
  <2> QED
    BY <2>1
<1>2. Up(bits, 0) = bits
  BY UpZero
<1>3. Up(bits, 8) \in SUBSET Nat
  BY BitShifts
<1> QED
  BY <1>1, <1>2, <1>3 DEF Eight

\* A burst that begins q bits from here is still to come, or has left a difference.
Hit(z, shape, q) == IF q >= 0 THEN z = Up(shape, q) ELSE z \in SUBSET (0 .. 15) /\ z # {}

\* One bit brings the burst a place nearer, or leaves its difference.
LEMMA HitBit ==
  ASSUME NEW shape \in SUBSET (0 .. 15), shape # {}, NEW q \in Int, NEW z, Hit(z, shape, q)
  PROVE  Hit(W!CrcBit(z), shape, q - 1)
<1>1. CASE q > 0
  <2>1. q - 1 \in Nat /\ (q - 1) + 1 = q /\ shape \in SUBSET Nat
    BY <1>1
  <2>2. W!CrcBit(Up(shape, q)) = Up(shape, q - 1)
    BY <2>1, BitShifts
  <2> QED
    BY <1>1, <2>1, <2>2 DEF Hit
<1>2. CASE q = 0
  <2>1. z = shape
    BY <1>2, UpZero DEF Hit
  <2> QED
    BY <1>2, <2>1, BitInside DEF Hit
<1>3. CASE q < 0
  <2>1. z \in SUBSET (0 .. 15) /\ z # {}
    BY <1>3 DEF Hit
  <2> QED
    BY <1>3, <2>1, BitInside DEF Hit
<1> QED
  BY <1>1, <1>2, <1>3

\* So do eight bits.
LEMMA HitEight ==
  ASSUME NEW shape \in SUBSET (0 .. 15), shape # {}, NEW q \in Int, NEW z, Hit(z, shape, q)
  PROVE  Hit(Eight(z), shape, q - 8)
<1>1. \A p \in Int : \A y : Hit(y, shape, p) => Hit(W!CrcBit(y), shape, p - 1)
  BY HitBit
<1> DEFINE c1 == W!CrcBit(z)
           c2 == W!CrcBit(c1)
           c3 == W!CrcBit(c2)
           c4 == W!CrcBit(c3)
           c5 == W!CrcBit(c4)
           c6 == W!CrcBit(c5)
           c7 == W!CrcBit(c6)
           c8 == W!CrcBit(c7)
<1>2. q - 1 \in Int /\ q - 2 = (q - 1) - 1 /\ q - 2 \in Int /\ q - 3 = (q - 2) - 1 /\ q - 3 \in Int
      /\ q - 4 = (q - 3) - 1 /\ q - 4 \in Int /\ q - 5 = (q - 4) - 1 /\ q - 5 \in Int
      /\ q - 6 = (q - 5) - 1 /\ q - 6 \in Int /\ q - 7 = (q - 6) - 1 /\ q - 7 \in Int /\ q - 8 = (q - 7) - 1
  OBVIOUS
<1>3. Eight(z) = c8
  BY DEF Eight
<1>4. Hit(c1, shape, q - 1)
  BY <1>1
<1>5. Hit(c2, shape, q - 2)
  <2> HIDE DEF c1
  <2> QED
    BY <1>1, <1>2, <1>4
<1>6. Hit(c3, shape, q - 3)
  <2> HIDE DEF c2
  <2> QED
    BY <1>1, <1>2, <1>5
<1>7. Hit(c4, shape, q - 4)
  <2> HIDE DEF c3
  <2> QED
    BY <1>1, <1>2, <1>6
<1>8. Hit(c5, shape, q - 5)
  <2> HIDE DEF c4
  <2> QED
    BY <1>1, <1>2, <1>7
<1>9. Hit(c6, shape, q - 6)
  <2> HIDE DEF c5
  <2> QED
    BY <1>1, <1>2, <1>8
<1>10. Hit(c7, shape, q - 7)
  <2> HIDE DEF c6
  <2> QED
    BY <1>1, <1>2, <1>9
<1>11. Hit(c8, shape, q - 8)
  <2> HIDE DEF c7
  <2> QED
    BY <1>1, <1>2, <1>10
<1> QED
  BY <1>3, <1>11

\* A byte has eight bits.
LEMMA BitsInside ==
  ASSUME NEW byte
  PROVE  W!Bits(byte) \in SUBSET (0 .. 7)
BY DEF W!Bits

\* The difference of two registers is one.
LEMMA XorInside ==
  ASSUME NEW a \in SUBSET (0 .. 15), NEW b \in SUBSET (0 .. 15)
  PROVE  W!Xor(a, b) \in SUBSET (0 .. 15)
BY DEF W!Xor

\* The register after each byte of the data.
LEMMA CrcIs ==
  ASSUME NEW data \in Seq(Nat)
  PROVE  /\ W!Crc(data) \in [0 .. Len(data) -> SUBSET (0 .. 15)]
         /\ W!Crc(data)[0] = 0 .. 15
         /\ \A i \in 1 .. Len(data) : W!Crc(data)[i] = W!CrcByte(W!Xor(W!Crc(data)[i - 1], W!Bits(data[i])))
<1> DEFINE n == Len(data)
           Is(f) == f = [i \in 0 .. n |-> IF i = 0 THEN 0 .. 15 ELSE W!CrcByte(W!Xor(f[i - 1], W!Bits(data[i])))]
           g == [i \in 1 .. n |-> [c \in SUBSET (0 .. 15) |-> W!CrcByte(W!Xor(c, W!Bits(data[i])))]]
<1>1. n \in Nat
  OBVIOUS
<1>2. \A c \in SUBSET (0 .. 15) : \A b : W!CrcByte(W!Xor(c, W!Bits(b))) \in SUBSET (0 .. 15)
  <2>1. ASSUME NEW c \in SUBSET (0 .. 15), NEW b
        PROVE  W!CrcByte(W!Xor(c, W!Bits(b))) \in SUBSET (0 .. 15)
    <3>1. W!Bits(b) \in SUBSET (0 .. 15)
      BY BitsInside
    <3>2. W!Xor(c, W!Bits(b)) \in SUBSET (0 .. 15)
      BY <3>1, XorInside
    <3> QED
      BY <3>2, ByteIsEight
  <2> QED
    BY <2>1
<1>3. g \in [1 .. n -> [SUBSET (0 .. 15) -> SUBSET (0 .. 15)]]
  BY <1>2
<1>4. (0 .. 15) \in SUBSET (0 .. 15)
  OBVIOUS
<1> HIDE DEF n
<1>5. PICK f \in [0 .. n -> SUBSET (0 .. 15)] : f[0] = 0 .. 15 /\ \A i \in 1 .. n : f[i] = g[i][f[i - 1]]
  <2> DEFINE X == SUBSET (0 .. 15)
             base == 0 .. 15
  <2>1. g \in [1 .. n -> [X -> X]] /\ base \in X
    BY <1>3, <1>4
  <2> HIDE DEF g, X, base, Is
  <2>2. \E f : Steps(X, base, n, g, f)
    BY <1>1, <2>1, StepsExist
  <2> QED
    BY <2>2 DEF X, base, Steps
<1>6. Is(f)
  <2>1. ASSUME NEW i \in 0 .. n
        PROVE  f[i] = IF i = 0 THEN 0 .. 15 ELSE W!CrcByte(W!Xor(f[i - 1], W!Bits(data[i])))
    <3>1. CASE i = 0
      BY <1>5, <3>1
    <3>2. CASE i # 0
      <4>1. i \in 1 .. n /\ i - 1 \in 0 .. n
        BY <1>1, <3>2
      <4>2. g[i][f[i - 1]] = W!CrcByte(W!Xor(f[i - 1], W!Bits(data[i])))
        BY <4>1
      <4>3. f[i] = g[i][f[i - 1]]
        BY <1>5, <4>1
      <4> QED
        BY <3>2, <4>2, <4>3
    <3> QED
      BY <3>1, <3>2
  <2> QED
    BY <1>5, <2>1
<1>7. Is(W!Crc(data))
  <2>1. W!Crc(data) = CHOOSE h : Is(h)
    BY DEF W!Crc, n
  <2> HIDE DEF Is
  <2> QED
    BY <1>6, <2>1, Zenon
<1> DEFINE crc == W!Crc(data)
<1>8. crc = [i \in 0 .. n |-> IF i = 0 THEN 0 .. 15 ELSE W!CrcByte(W!Xor(crc[i - 1], W!Bits(data[i])))]
  BY <1>7
<1> HIDE DEF crc, Is
<1>9. crc[0] = 0 .. 15 /\ \A i \in 1 .. n : crc[i] = W!CrcByte(W!Xor(crc[i - 1], W!Bits(data[i])))
  <2>1. 0 \in 0 .. n
    BY <1>1
  <2>2. crc[0] = 0 .. 15
    BY <1>8, <2>1
  <2>3. ASSUME NEW i \in 1 .. n
        PROVE  crc[i] = W!CrcByte(W!Xor(crc[i - 1], W!Bits(data[i])))
    <3>1. i \in 0 .. n /\ i # 0
      BY <1>1
    <3> QED
      BY <1>8, <3>1
  <2> QED
    BY <2>2, <2>3
<1>10. crc \in [0 .. n -> SUBSET (0 .. 15)]
  <2> DEFINE S == {m \in Nat : m <= n => crc[m] \in SUBSET (0 .. 15)}
  <2>1. 0 \in S
    BY <1>9
  <2>2. ASSUME NEW m \in Nat, m \in S
        PROVE  m + 1 \in S
    <3>1. CASE m + 1 <= n
      <4>1. m + 1 \in 1 .. n /\ (m + 1) - 1 = m /\ m <= n
        BY <1>1, <3>1
      <4>2. crc[m + 1] = W!CrcByte(W!Xor(crc[m], W!Bits(data[m + 1])))
        BY <1>9, <4>1
      <4>3. crc[m] \in SUBSET (0 .. 15)
        BY <2>2, <4>1
      <4>4. crc[m + 1] \in SUBSET (0 .. 15)
        BY <1>2, <4>2, <4>3
      <4> QED
        BY <4>4
    <3> QED
      BY <3>1
  <2> HIDE DEF S
  <2>3. \A m \in Nat : m \in S
    BY <2>1, <2>2, FromZeroOn
  <2>4. \A m \in 0 .. n : crc[m] \in SUBSET (0 .. 15)
    BY <1>1, <2>3 DEF S
  <2> QED
    BY <1>8, <2>4
<1> QED
  BY <1>9, <1>10 DEF crc, n

\* Bits are a number.
LEMMA NumberNat ==
  ASSUME NEW bits
  PROVE  W!Number(bits) \in Nat
BY DEF W!Number, W!Weight

\* The CRC of the data is the register, its low byte first.
LEMMA CrcBytes ==
  ASSUME NEW data \in Seq(Nat)
  PROVE  /\ W!crc16_modbus(data) \in Seq(Nat) /\ Len(W!crc16_modbus(data)) = 2
         /\ W!Bits(W!crc16_modbus(data)[1]) = W!Crc(data)[Len(data)] \cap (0 .. 7)
         /\ Up(W!Bits(W!crc16_modbus(data)[2]), 8) = W!Crc(data)[Len(data)] \cap (8 .. 15)
<1> DEFINE end == W!Crc(data)[Len(data)]
           low == end \cap (0 .. 7)
           high == {k - 8 : k \in end \cap (8 .. 15)}
<1>1. W!crc16_modbus(data) = <<W!Number(low), W!Number(high)>>
  BY DEF W!crc16_modbus
<1>2. low \subseteq 0 .. 7 /\ high \subseteq 0 .. 7
  OBVIOUS
<1>3. Up(high, 8) = end \cap (8 .. 15)
  <2>1. ASSUME NEW k \in end \cap (8 .. 15)
        PROVE  k \in Up(high, 8)
    <3>1. k - 8 \in high /\ (k - 8) + 8 = k
      OBVIOUS
    <3> HIDE DEF high
    <3> QED
      BY <3>1 DEF Up
  <2>2. ASSUME NEW k \in Up(high, 8)
        PROVE  k \in end \cap (8 .. 15)
    <3>1. PICK m \in end \cap (8 .. 15) : k = (m - 8) + 8
      BY DEF Up
    <3>2. k = m
      BY <3>1
    <3> QED
      BY <3>2
  <2> QED
    BY <2>1, <2>2
<1> HIDE DEF low, high
<1>4. W!Bits(W!Number(low)) = low /\ W!Bits(W!Number(high)) = high
  BY <1>2, BitsOfNumber
<1>5. W!Number(low) \in Nat /\ W!Number(high) \in Nat
  BY NumberNat
<1>6. W!crc16_modbus(data) \in Seq(Nat) /\ Len(W!crc16_modbus(data)) = 2
      /\ W!crc16_modbus(data)[1] = W!Number(low) /\ W!crc16_modbus(data)[2] = W!Number(high)
  BY <1>1, <1>5
<1>7. low = end \cap (0 .. 7)
  BY DEF low
<1> QED
  BY <1>3, <1>4, <1>6, <1>7

\* The bits of a burst in byte i, and those after the first n bytes.
InByte(bits, i) == {b - 8 * (i - 1) : b \in bits \cap ((8 * (i - 1)) .. (8 * i - 1))}
Later(bits, n) == {b - 8 * n : b \in {c \in bits : c >= 8 * n}}

\* The bits to come are those of the next byte and those after it.
LEMMA LaterSplits ==
  ASSUME NEW bits \in SUBSET Nat, NEW n \in Nat
  PROVE  /\ InByte(bits, n + 1) \in SUBSET (0 .. 7)
         /\ Later(bits, n) \in SUBSET Nat /\ Later(bits, n + 1) \in SUBSET Nat
         /\ Later(bits, n) = W!Xor(InByte(bits, n + 1), Up(Later(bits, n + 1), 8))
<1>1. 8 * (n + 1 - 1) = 8 * n /\ 8 * (n + 1) = 8 * n + 8
  OBVIOUS
<1>2. PICK m \in Nat : m = 8 * n
  OBVIOUS
<1>3. \A k : k \in InByte(bits, n + 1) <=> k \in 0 .. 7 /\ k + m \in bits
  <2>1. InByte(bits, n + 1) = {b - m : b \in bits \cap (m .. m + 7)}
    BY <1>1, <1>2 DEF InByte
  <2>2. ASSUME NEW k \in 0 .. 7, k + m \in bits
        PROVE  k \in InByte(bits, n + 1)
    <3>1. k + m \in bits \cap (m .. m + 7) /\ (k + m) - m = k
      BY <2>2
    <3> QED
      BY <2>1, <3>1
  <2>3. ASSUME NEW k \in InByte(bits, n + 1)
        PROVE  k \in 0 .. 7 /\ k + m \in bits
    <3>1. PICK b \in bits \cap (m .. m + 7) : k = b - m
      BY <2>1
    <3>2. b = k + m
      BY <3>1
    <3> QED
      BY <3>1, <3>2
  <2> QED
    BY <2>2, <2>3
<1>4. \A k : k \in Later(bits, n) <=> k \in Nat /\ k + m \in bits
  <2>1. Later(bits, n) = {b - m : b \in {c \in bits : c >= m}}
    BY <1>2 DEF Later
  <2>2. ASSUME NEW k \in Nat, k + m \in bits
        PROVE  k \in Later(bits, n)
    <3>1. k + m \in {c \in bits : c >= m} /\ (k + m) - m = k
      BY <2>2
    <3> QED
      BY <2>1, <3>1
  <2>3. ASSUME NEW k \in Later(bits, n)
        PROVE  k \in Nat /\ k + m \in bits
    <3>1. PICK b \in {c \in bits : c >= m} : k = b - m
      BY <2>1
    <3>2. b = k + m
      BY <3>1
    <3> QED
      BY <3>1, <3>2
  <2> QED
    BY <2>2, <2>3
<1>5. \A k : k \in Later(bits, n + 1) <=> k \in Nat /\ k + m + 8 \in bits
  <2>1. Later(bits, n + 1) = {b - (m + 8) : b \in {c \in bits : c >= m + 8}}
    BY <1>1, <1>2 DEF Later
  <2>2. ASSUME NEW k \in Nat, k + m + 8 \in bits
        PROVE  k \in Later(bits, n + 1)
    <3>1. k + m + 8 \in {c \in bits : c >= m + 8} /\ (k + m + 8) - (m + 8) = k
      BY <2>2
    <3> QED
      BY <2>1, <3>1
  <2>3. ASSUME NEW k \in Later(bits, n + 1)
        PROVE  k \in Nat /\ k + m + 8 \in bits
    <3>1. PICK b \in {c \in bits : c >= m + 8} : k = b - (m + 8)
      BY <2>1
    <3>2. b = k + m + 8
      BY <3>1
    <3> QED
      BY <3>1, <3>2
  <2> QED
    BY <2>2, <2>3
<1>6. \A k : k \in Up(Later(bits, n + 1), 8) <=> k \in Nat /\ k >= 8 /\ k + m \in bits
  <2>1. ASSUME NEW k \in Nat, k >= 8, k + m \in bits
        PROVE  k \in Up(Later(bits, n + 1), 8)
    <3>1. k - 8 \in Nat /\ (k - 8) + m + 8 = k + m /\ (k - 8) + 8 = k
      BY <2>1
    <3>2. k - 8 \in Later(bits, n + 1)
      BY <1>5, <2>1, <3>1
    <3> QED
      BY <3>1, <3>2 DEF Up
  <2>2. ASSUME NEW k \in Up(Later(bits, n + 1), 8)
        PROVE  k \in Nat /\ k >= 8 /\ k + m \in bits
    <3>1. PICK j \in Later(bits, n + 1) : k = j + 8
      BY DEF Up
    <3>2. j \in Nat /\ j + m + 8 \in bits /\ j + m + 8 = k + m
      BY <1>5, <3>1
    <3> QED
      BY <3>1, <3>2
  <2> QED
    BY <2>1, <2>2
<1>7. \A k : k \in Later(bits, n) <=> k \in W!Xor(InByte(bits, n + 1), Up(Later(bits, n + 1), 8))
  BY <1>3, <1>4, <1>6 DEF W!Xor
<1> QED
  BY <1>3, <1>4, <1>5, <1>7

\* Registers that differ by the bits to come still do after a byte, by those that are left.
LEMMA ByteDiffers ==
  ASSUME NEW c \in SUBSET (0 .. 15), NEW d \in SUBSET (0 .. 15), NEW a \in SUBSET (0 .. 7),
         NEW e \in SUBSET (0 .. 7), NEW more \in SUBSET Nat
  PROVE  W!Xor(W!Xor(W!CrcByte(W!Xor(c, a)), W!CrcByte(W!Xor(d, W!Xor(a, e)))), more)
           = Eight(W!Xor(W!Xor(c, d), W!Xor(e, Up(more, 8))))
<1> DEFINE f == W!Xor(c, a)
           g == W!Xor(d, W!Xor(a, e))
           u == Up(more, 8)
<1>1. f \in SUBSET (0 .. 15) /\ g \in SUBSET (0 .. 15)
  BY DEF W!Xor
<1>2. f \in SUBSET Nat /\ g \in SUBSET Nat /\ W!Xor(f, g) \in SUBSET Nat /\ u \in SUBSET Nat /\ Eight(u) = more
  <2>1. f \in SUBSET Nat /\ g \in SUBSET Nat
    BY <1>1
  <2>2. W!Xor(f, g) \in SUBSET Nat
    BY <2>1 DEF W!Xor
  <2> QED
    BY <2>1, <2>2, EightShifts
<1>3. W!CrcByte(f) = Eight(f) /\ W!CrcByte(g) = Eight(g)
  BY <1>1, ByteIsEight
<1>4. W!Xor(W!Xor(c, d), W!Xor(e, u)) = W!Xor(W!Xor(f, g), u)
  BY DEF W!Xor
<1> HIDE DEF f, g, u
<1>5. Eight(W!Xor(W!Xor(f, g), u)) = W!Xor(W!Xor(Eight(f), Eight(g)), Eight(u))
  BY <1>2, EightLinear
<1> QED
  BY <1>2, <1>3, <1>4, <1>5 DEF f, g, u

\* A part of a sequence.
LEMMA PartOf ==
  ASSUME NEW X, NEW s \in Seq(X), NEW m \in Nat, NEW n \in Nat, 1 <= m, m <= n + 1, n <= Len(s)
  PROVE  /\ SubSeq(s, m, n) \in Seq(X) /\ Len(SubSeq(s, m, n)) = n - m + 1
         /\ \A i \in 1 .. n - m + 1 : SubSeq(s, m, n)[i] = s[m + i - 1]
<1>1. \A i \in m .. n : s[i] \in X
  BY LenProperties
<1> QED
  BY <1>1, SubSeqProperties

\* A frame is its data with the CRC of it.
LEMMA FramedIs ==
  ASSUME NEW data \in Seq(Nat)
  PROVE  /\ W!Framed(data) \in Seq(Nat) /\ Len(W!Framed(data)) = Len(data) + 2
         /\ \A i \in 1 .. Len(data) : W!Framed(data)[i] = data[i]
         /\ W!Framed(data)[Len(data) + 1] = W!crc16_modbus(data)[1]
         /\ W!Framed(data)[Len(data) + 2] = W!crc16_modbus(data)[2]
<1>1. W!crc16_modbus(data) \in Seq(Nat) /\ Len(W!crc16_modbus(data)) = 2
  BY CrcBytes
<1> DEFINE crc == W!crc16_modbus(data)
           n == Len(data)
<1>2. n \in Nat
  OBVIOUS
<1>3. W!Framed(data) = data \o crc
  BY DEF W!Framed
<1>4. crc \in Seq(Nat) /\ Len(crc) = 2
  BY <1>1
<1> HIDE DEF crc
<1>5. /\ data \o crc \in Seq(Nat) /\ Len(data \o crc) = n + 2
      /\ \A i \in 1 .. n + 2 : (data \o crc)[i] = IF i <= n THEN data[i] ELSE crc[i - n]
  <2>1. /\ data \o crc \in Seq(Nat) /\ Len(data \o crc) = Len(data) + Len(crc)
        /\ \A i \in 1 .. Len(data) + Len(crc) :
             (data \o crc)[i] = IF i <= Len(data) THEN data[i] ELSE crc[i - Len(data)]
    BY <1>4, ConcatProperties
  <2> QED
    BY <1>4, <2>1
<1> HIDE DEF n
<1>6. (data \o crc)[n + 1] = crc[1] /\ (data \o crc)[n + 2] = crc[2] /\ \A i \in 1 .. n : (data \o crc)[i] = data[i]
  <2>1. n + 1 \in 1 .. n + 2 /\ n + 2 \in 1 .. n + 2 /\ (n + 1) - n = 1 /\ (n + 2) - n = 2
        /\ ~(n + 1 <= n) /\ ~(n + 2 <= n) /\ \A i \in 1 .. n : i \in 1 .. n + 2 /\ i <= n
    BY <1>2
  <2> QED
    BY <1>5, <2>1
<1> QED
  BY <1>3, <1>5, <1>6 DEF crc, n

\* A frame that was not hit is valid.
LEMMA FrameValid ==
  ASSUME NEW data \in Seq(Nat), data # <<>>
  PROVE  W!is_valid_response(W!Framed(data))
<1> DEFINE f == W!Framed(data)
           n == Len(data)
           crc == W!crc16_modbus(data)
<1>1. /\ f \in Seq(Nat) /\ Len(f) = n + 2 /\ n \in Nat /\ n > 0
      /\ \A i \in 1 .. n : f[i] = data[i]
      /\ f[n + 1] = crc[1] /\ f[n + 2] = crc[2]
      /\ crc \in Seq(Nat) /\ Len(crc) = 2
  <2>1. n \in Nat /\ n > 0
    OBVIOUS
  <2>2. crc \in Seq(Nat) /\ Len(crc) = 2
    BY CrcBytes
  <2>3. f \in Seq(Nat) /\ Len(f) = n + 2 /\ (\A i \in 1 .. n : f[i] = data[i]) /\ f[n + 1] = crc[1] /\ f[n + 2] = crc[2]
    BY FramedIs
  <2> QED
    BY <2>1, <2>2, <2>3
<1>2. SubSeq(f, 1, Len(f) - 2) = data
  <2> HIDE DEF f
  <2>1. Len(f) - 2 = n
    BY <1>1
  <2> DEFINE s == SubSeq(f, 1, n)
  <2>2. s \in Seq(Nat) /\ Len(s) = n /\ \A i \in 1 .. n : s[i] = data[i]
    <3> HIDE DEF n
    <3>1. s \in Seq(Nat) /\ Len(s) = n - 1 + 1 /\ \A i \in 1 .. n - 1 + 1 : s[i] = f[1 + i - 1]
      BY <1>1, PartOf
    <3>2. n - 1 + 1 = n /\ \A i \in 1 .. n : 1 + i - 1 = i
      BY <1>1
    <3> QED
      BY <1>1, <3>1, <3>2
  <2> HIDE DEF s
  <2>3. s = data
    BY <2>2, SeqEqual
  <2> QED
    BY <2>1, <2>3 DEF s
<1>3. SubSeq(f, Len(f) - 1, Len(f)) = crc
  <2> HIDE DEF f, n, crc
  <2>1. Len(f) - 1 = n + 1 /\ Len(f) = n + 2
    BY <1>1
  <2> DEFINE s == SubSeq(f, n + 1, n + 2)
  <2>2. s \in Seq(Nat) /\ Len(s) = 2 /\ s[1] = f[n + 1] /\ s[2] = f[n + 2]
    <3>1. s \in Seq(Nat) /\ Len(s) = (n + 2) - (n + 1) + 1
          /\ \A i \in 1 .. (n + 2) - (n + 1) + 1 : s[i] = f[(n + 1) + i - 1]
      BY <1>1, PartOf
    <3>2. (n + 2) - (n + 1) + 1 = 2 /\ (n + 1) + 1 - 1 = n + 1 /\ (n + 1) + 2 - 1 = n + 2
      BY <1>1
    <3> HIDE DEF s
    <3>3. Len(s) = 2 /\ \A i \in 1 .. 2 : s[i] = f[(n + 1) + i - 1]
      BY <3>1, <3>2
    <3>4. 1 \in 1 .. 2 /\ 2 \in 1 .. 2
      OBVIOUS
    <3> QED
      BY <3>1, <3>2, <3>3, <3>4
  <2> HIDE DEF s
  <2>3. \A i \in 1 .. 2 : s[i] = crc[i]
    BY <1>1, <2>2
  <2>4. s = crc
    BY <1>1, <2>2, <2>3, SeqEqual
  <2> QED
    BY <2>1, <2>4 DEF s
<1> HIDE DEF f
<1>4. Len(f) >= 3
  BY <1>1
<1> QED
  BY <1>2, <1>3, <1>4 DEF W!is_valid_response, f

\* The two bytes of a CRC that was hit give the difference of the registers.
Ends(c, d, low, high, p) ==
  /\ Up(p, 8) = c \cap (8 .. 15)
  /\ W!Xor(c \cap (0 .. 7), low) = d \cap (0 .. 7)
  /\ Up(W!Xor(p, high), 8) = d \cap (8 .. 15)

\* They differ as the two bytes do.
LEMMA EndsMeet ==
  ASSUME NEW c \in SUBSET (0 .. 15), NEW d \in SUBSET (0 .. 15), NEW low \in SUBSET (0 .. 7),
         NEW high \in SUBSET (0 .. 7), NEW p \in SUBSET (0 .. 7), Ends(c, d, low, high, p)
  PROVE  W!Xor(c, d) = W!Xor(low, Up(high, 8))
<1> DEFINE u == Up(high, 8)
           v == Up(p, 8)
<1>1. v = c \cap (8 .. 15) /\ W!Xor(c \cap (0 .. 7), low) = d \cap (0 .. 7) /\ Up(W!Xor(p, high), 8) = d \cap (8 .. 15)
  BY DEF Ends
<1>2. Up(W!Xor(p, high), 8) = W!Xor(v, u)
  <2>1. \A x, y \in 0 .. 7 : x + 8 = y + 8 => x = y
    OBVIOUS
  <2> QED
    BY <2>1 DEF Up, W!Xor
<1>3. u \subseteq 8 .. 15 /\ v \subseteq 8 .. 15
  BY DEF Up
<1> HIDE DEF u, v
<1>4. \A k \in 0 .. 7 : k \in d <=> ~(k \in c <=> k \in low)
  <2>1. \A k \in 0 .. 7 : k \in d <=> k \in W!Xor(c \cap (0 .. 7), low)
    BY <1>1
  <2> QED
    BY <2>1 DEF W!Xor
<1>5. \A k \in 8 .. 15 : k \in d <=> ~(k \in c <=> k \in u)
  <2>1. \A k \in 8 .. 15 : k \in d <=> k \in W!Xor(v, u)
    BY <1>2, <1>1
  <2>2. \A k \in 8 .. 15 : k \in c <=> k \in v
    BY <1>1
  <2> QED
    BY <2>1, <2>2 DEF W!Xor
<1>6. /\ \A k \in 0 .. 7 : k \notin u
      /\ \A k \in 8 .. 15 : k \notin low
      /\ \A k \in 0 .. 15 : k \in 0 .. 7 \/ k \in 8 .. 15
  BY <1>3
<1>7. \A k \in 0 .. 15 : k \in W!Xor(c, d) <=> k \in W!Xor(low, u)
  BY <1>4, <1>5, <1>6 DEF W!Xor
<1>8. W!Xor(c, d) \subseteq 0 .. 15 /\ W!Xor(low, u) \subseteq 0 .. 15
  BY <1>3 DEF W!Xor
<1>9. W!Xor(c, d) = W!Xor(low, u)
  BY <1>7, <1>8
<1> QED
  BY <1>9 DEF u

\* A frame that was hit by a burst of up to sixteen bits is not; it is as long as it was.
LEMMA FrameHit ==
  ASSUME NEW data \in Seq(Nat), NEW shape \in SUBSET (0 .. 15), shape # {}, NEW start \in Nat,
         NEW bits, bits = {start + k : k \in shape}, \A b \in bits : b < 8 * Len(W!Framed(data))
  PROVE  /\ ~W!is_valid_response(W!Flipped(W!Framed(data), bits))
         /\ W!Flipped(W!Framed(data), bits) \in Seq(Nat)
         /\ Len(W!Flipped(W!Framed(data), bits)) = Len(W!Framed(data))
<1> DEFINE f == W!Framed(data)
           n == Len(data)
           g == W!Flipped(f, bits)
           rest == SubSeq(g, 1, n)
           cf == W!Crc(data)
           cg == W!Crc(rest)
<1>1. n \in Nat /\ f \in Seq(Nat) /\ Len(f) = n + 2 /\ (\A i \in 1 .. n : f[i] = data[i])
      /\ f[n + 1] = W!crc16_modbus(data)[1] /\ f[n + 2] = W!crc16_modbus(data)[2]
  <2>1. n \in Nat
    OBVIOUS
  <2>2. f \in Seq(Nat) /\ Len(f) = n + 2 /\ (\A i \in 1 .. n : f[i] = data[i])
        /\ f[n + 1] = W!crc16_modbus(data)[1] /\ f[n + 2] = W!crc16_modbus(data)[2]
    BY FramedIs
  <2> QED
    BY <2>1, <2>2
<1>2. bits \in SUBSET Nat /\ bits = Up(shape, start)
  <2> HIDE DEF f, g, n, rest, cf, cg
  <2>1. \A k \in shape : start + k \in Nat /\ start + k = k + start
    OBVIOUS
  <2>2. \A b \in bits : b \in Nat /\ b \in Up(shape, start)
    BY <2>1 DEF Up
  <2>3. \A b \in Up(shape, start) : b \in bits
    BY <2>1 DEF Up
  <2> QED
    BY <2>2, <2>3
<1> HIDE DEF f
<1>3. \A i \in Nat : InByte(bits, i + 1) \in SUBSET (0 .. 7)
  BY <1>2, LaterSplits
<1>4. g \in Seq(Nat) /\ Len(g) = n + 2
      /\ \A i \in 1 .. n + 2 : W!Bits(g[i]) = W!Xor(W!Bits(f[i]), InByte(bits, i))
  <2>1. g = [i \in 1 .. n + 2 |-> W!Number(W!Xor(W!Bits(f[i]), InByte(bits, i)))]
    BY <1>1 DEF W!Flipped, InByte
  <2>2. g \in Seq(Nat) /\ Len(g) = n + 2
    <3>1. \A i \in 1 .. n + 2 : W!Number(W!Xor(W!Bits(f[i]), InByte(bits, i))) \in Nat
      BY NumberNat
    <3> HIDE DEF n, g
    <3>2. g \in [1 .. n + 2 -> Nat] /\ n + 2 \in Nat
      BY <1>1, <2>1, <3>1
    <3> QED
      BY <3>2
  <2>3. ASSUME NEW i \in 1 .. n + 2
        PROVE  W!Bits(g[i]) = W!Xor(W!Bits(f[i]), InByte(bits, i))
    <3>1. i - 1 \in Nat /\ (i - 1) + 1 = i
      OBVIOUS
    <3>2. InByte(bits, i) \in SUBSET (0 .. 7)
      BY <1>3, <3>1
    <3>3. W!Xor(W!Bits(f[i]), InByte(bits, i)) \subseteq 0 .. 7
      BY <3>2, BitsInside DEF W!Xor
    <3>4. g[i] = W!Number(W!Xor(W!Bits(f[i]), InByte(bits, i)))
      BY <2>1
    <3> QED
      BY <3>3, <3>4, BitsOfNumber
  <2> QED
    BY <2>2, <2>3
<1> HIDE DEF g
<1>5. rest \in Seq(Nat) /\ Len(rest) = n /\ \A i \in 1 .. n : rest[i] = g[i]
  <2> HIDE DEF n
  <2>1. rest \in Seq(Nat) /\ Len(rest) = n - 1 + 1 /\ \A i \in 1 .. n - 1 + 1 : rest[i] = g[1 + i - 1]
    BY <1>1, <1>4, PartOf
  <2>2. n - 1 + 1 = n /\ \A i \in 1 .. n : 1 + i - 1 = i
    BY <1>1
  <2> QED
    BY <2>1, <2>2
<1> HIDE DEF rest
<1>6. /\ cf \in [0 .. n -> SUBSET (0 .. 15)] /\ cf[0] = 0 .. 15
      /\ \A i \in 1 .. n : cf[i] = W!CrcByte(W!Xor(cf[i - 1], W!Bits(data[i])))
  BY CrcIs
<1>7. /\ cg \in [0 .. n -> SUBSET (0 .. 15)] /\ cg[0] = 0 .. 15
      /\ \A i \in 1 .. n : cg[i] = W!CrcByte(W!Xor(cg[i - 1], W!Bits(rest[i])))
  BY <1>5, CrcIs
<1> HIDE DEF cf, cg, n
<1> DEFINE Z(i) == W!Xor(W!Xor(cf[i], cg[i]), Later(bits, i))
<1>8. Z(0) = bits
  <2>1. Later(bits, 0) = bits
    <3>1. Later(bits, 0) = {b - 8 * 0 : b \in {c \in bits : c >= 8 * 0}}
      BY DEF Later
    <3>2. \A b \in bits : b - 8 * 0 = b /\ b >= 8 * 0
      BY <1>2
    <3>3. \A b \in bits : b \in Later(bits, 0)
      BY <3>1, <3>2
    <3>4. \A b \in Later(bits, 0) : b \in bits
      BY <3>1, <3>2
    <3> QED
      BY <3>3, <3>4
  <2> QED
    BY <1>6, <1>7, <2>1 DEF W!Xor
<1>9. \A i \in 1 .. n : Z(i) = Eight(Z(i - 1))
  <2>1. ASSUME NEW i \in 1 .. n
        PROVE  Z(i) = Eight(Z(i - 1))
    <3> DEFINE e == InByte(bits, i)
               a == W!Bits(data[i])
               c == cf[i - 1]
               d == cg[i - 1]
               more == Later(bits, i)
    <3>1. i - 1 \in Nat /\ (i - 1) + 1 = i /\ i - 1 \in 0 .. n
      BY <1>1
    <3>2. e \in SUBSET (0 .. 7) /\ more \in SUBSET Nat /\ Later(bits, i - 1) = W!Xor(e, Up(more, 8))
      BY <1>2, <3>1, LaterSplits
    <3>3. a \in SUBSET (0 .. 7)
      BY BitsInside
    <3>4. c \in SUBSET (0 .. 15) /\ d \in SUBSET (0 .. 15)
      BY <1>6, <1>7, <3>1
    <3>5. W!Bits(rest[i]) = W!Xor(a, e)
      <4>1. i \in 1 .. n + 2
        BY <1>1
      <4>2. rest[i] = g[i] /\ f[i] = data[i]
        BY <1>1, <1>5
      <4> HIDE DEF e, a
      <4>3. W!Bits(g[i]) = W!Xor(W!Bits(f[i]), InByte(bits, i))
        BY <1>4, <4>1
      <4> QED
        BY <4>2, <4>3 DEF e, a
    <3>6. cf[i] = W!CrcByte(W!Xor(c, a)) /\ cg[i] = W!CrcByte(W!Xor(d, W!Xor(a, e)))
      BY <1>6, <1>7, <3>5
    <3>7. Z(i) = W!Xor(W!Xor(W!CrcByte(W!Xor(c, a)), W!CrcByte(W!Xor(d, W!Xor(a, e)))), more)
      BY <3>6
    <3>8. Z(i - 1) = W!Xor(W!Xor(c, d), W!Xor(e, Up(more, 8)))
      BY <3>2
    <3> HIDE DEF e, a, c, d, more, Z
    <3> QED
      BY <3>2, <3>3, <3>4, <3>7, <3>8, ByteDiffers
  <2> QED
    BY <2>1
<1> HIDE DEF Z
<1>10. Hit(Z(n), shape, start - 8 * n)
  <2> DEFINE S == {m \in Nat : m <= n => Hit(Z(m), shape, start - 8 * m)}
  <2>1. 0 \in S
    <3>1. start - 8 * 0 = start /\ start >= 0
      OBVIOUS
    <3> QED
      BY <1>2, <1>8, <3>1 DEF Hit
  <2>2. ASSUME NEW m \in Nat, m \in S
        PROVE  m + 1 \in S
    <3> SUFFICES ASSUME m + 1 <= n
                 PROVE  Hit(Z(m + 1), shape, start - 8 * (m + 1))
      OBVIOUS
    <3> HIDE DEF S
    <3>1. m <= n /\ m + 1 \in 1 .. n /\ (m + 1) - 1 = m
      <4>1. n \in Nat
        BY <1>1
      <4> QED
        BY <4>1
    <3> DEFINE q == start - 8 * m
    <3>2. q \in Int /\ start - 8 * (m + 1) = q - 8
      OBVIOUS
    <3>3. Hit(Z(m), shape, q)
      BY <2>2, <3>1 DEF S
    <3>4. Z(m + 1) = Eight(Z(m))
      BY <1>9, <3>1
    <3> HIDE DEF q
    <3> QED
      BY <3>2, <3>3, <3>4, HitEight
  <2> HIDE DEF S
  <2>3. n \in S
    BY <1>1, <2>1, <2>2, FromZeroOn
  <2> QED
    BY <1>1, <2>3 DEF S
<1>11. Z(n) # {}
  <2>1. CASE start - 8 * n >= 0
    <3>1. PICK k \in shape : TRUE
      OBVIOUS
    <3>2. k + (start - 8 * n) \in Up(shape, start - 8 * n)
      BY DEF Up
    <3> QED
      BY <1>10, <2>1, <3>2 DEF Hit
  <2>2. CASE ~(start - 8 * n >= 0)
    BY <1>10, <2>2 DEF Hit
  <2> QED
    BY <2>1, <2>2
<1>12. Later(bits, n + 2) = {}
  <2>1. PICK m \in Nat : m = 8 * (n + 2)
    BY <1>1
  <2>2. \A b \in bits : b \in Nat /\ b < m
    BY <1>1, <1>2, <2>1 DEF f
  <2>3. \A b \in bits : ~(b >= m)
    BY <2>1, <2>2, \A b \in Nat, k \in Nat : b < k => ~(b >= k)
  <2>4. Later(bits, n + 2) = {b - m : b \in {b \in bits : b >= m}}
    BY <2>1 DEF Later
  <2> QED
    BY <2>3, <2>4
<1>13. ASSUME W!is_valid_response(g)
       PROVE  Z(n) = {}
  <2> DEFINE crc == W!crc16_modbus(rest)
             low == InByte(bits, n + 1)
             high == InByte(bits, n + 2)
             c == cf[n]
             d == cg[n]
  <2>1. g[n + 1] = crc[1] /\ g[n + 2] = crc[2]
    <3>1. SubSeq(g, n + 1, n + 2) = crc
      <4>1. Len(g) - 1 = n + 1 /\ Len(g) = n + 2 /\ Len(g) - 2 = n
        BY <1>1, <1>4
      <4> QED
        BY <1>13, <4>1 DEF W!is_valid_response, rest
    <3>2. SubSeq(g, n + 1, n + 2)[1] = g[n + 1] /\ SubSeq(g, n + 1, n + 2)[2] = g[n + 2]
      BY <1>1, <1>4
    <3> QED
      BY <3>1, <3>2
  <2>2. W!Bits(g[n + 1]) = d \cap (0 .. 7) /\ Up(W!Bits(g[n + 2]), 8) = d \cap (8 .. 15)
    BY <1>5, <2>1, CrcBytes DEF cg
  <2>3. W!Bits(f[n + 1]) = c \cap (0 .. 7) /\ Up(W!Bits(f[n + 2]), 8) = c \cap (8 .. 15)
    BY <1>1, CrcBytes DEF cf, n
  <2>4. W!Bits(g[n + 1]) = W!Xor(W!Bits(f[n + 1]), low) /\ W!Bits(g[n + 2]) = W!Xor(W!Bits(f[n + 2]), high)
    <3>1. n + 1 \in 1 .. n + 2 /\ n + 2 \in 1 .. n + 2
      BY <1>1
    <3> QED
      BY <1>4, <3>1
  <2>5. low \in SUBSET (0 .. 7) /\ high \in SUBSET (0 .. 7)
        /\ Later(bits, n) = W!Xor(low, Up(Later(bits, n + 1), 8))
        /\ Later(bits, n + 1) = W!Xor(high, Up(Later(bits, n + 2), 8))
    <3>1. n \in Nat /\ n + 1 \in Nat /\ (n + 1) + 1 = n + 2
      BY <1>1
    <3> QED
      BY <1>2, <3>1, LaterSplits
  <2>6. Later(bits, n + 1) = high
    <3>1. Up({}, 8) = {}
      BY DEF Up
    <3>2. Later(bits, n + 1) = W!Xor(high, {})
      BY <2>5, <1>12, <3>1
    <3> HIDE DEF high
    <3> QED
      BY <3>2 DEF W!Xor
  <2>7. c \in SUBSET (0 .. 15) /\ d \in SUBSET (0 .. 15)
    <3>1. n \in 0 .. n
      BY <1>1
    <3> QED
      BY <1>6, <1>7, <3>1
  <2> DEFINE p == W!Bits(f[n + 2])
  <2>8. p \in SUBSET (0 .. 7)
    BY BitsInside
  <2> HIDE DEF low, high, c, d, crc, p
  <2>9. W!Xor(c, d) = W!Xor(low, Up(high, 8))
    <3>1. Up(p, 8) = c \cap (8 .. 15)
      BY <2>3 DEF p
    <3>2. W!Xor(c \cap (0 .. 7), low) = d \cap (0 .. 7)
      BY <2>2, <2>3, <2>4
    <3>3. Up(W!Xor(p, high), 8) = d \cap (8 .. 15)
      BY <2>2, <2>4 DEF p
    <3>4. low \in SUBSET (0 .. 7) /\ high \in SUBSET (0 .. 7)
      BY <2>5
    <3>5. Ends(c, d, low, high, p)
      BY <3>1, <3>2, <3>3 DEF Ends
    <3> QED
      BY <2>7, <2>8, <3>4, <3>5, EndsMeet
  <2>10. Later(bits, n) = W!Xor(low, Up(high, 8))
    BY <2>5, <2>6
  <2> QED
    BY <2>9, <2>10 DEF Z, W!Xor, c, d
<1> QED
  BY <1>1, <1>4, <1>11, <1>13 DEF g, f

\* A function that takes the steps is within the set of their results.
LEMMA StepsInside ==
  ASSUME NEW X, NEW base \in X, NEW n \in Nat, NEW g \in [1 .. n -> [X -> X]], NEW h,
         h[0] = base, \A i \in 1 .. n : h[i - 1] \in X => h[i] = g[i][h[i - 1]]
  PROVE  \A i \in 0 .. n : h[i] \in X
<1> DEFINE S == {m \in Nat : m <= n => h[m] \in X}
<1>1. 0 \in S
  OBVIOUS
<1>2. ASSUME NEW m \in Nat, m \in S
      PROVE  m + 1 \in S
  <2> SUFFICES ASSUME m + 1 <= n
               PROVE  h[m + 1] \in X
    OBVIOUS
  <2>1. m + 1 \in 1 .. n /\ (m + 1) - 1 = m /\ m <= n
    OBVIOUS
  <2>2. h[m] \in X
    BY <1>2, <2>1
  <2>3. h[m + 1] = g[m + 1][h[m]]
    BY <2>1, <2>2
  <2>4. g[m + 1] \in [X -> X]
    BY <2>1
  <2> QED
    BY <2>2, <2>3, <2>4
<1> HIDE DEF S
<1>3. \A m \in Nat : m \in S
  BY <1>1, <1>2, FromZeroOn
<1> QED
  BY <1>3 DEF S

\* The pieces up to each of them.
LEMMA UptoIs ==
  ASSUME NEW s \in Seq(Seq(Nat))
  PROVE  /\ \A i \in 0 .. Len(s) : W!Upto(s)[i] \in Seq(Nat)
         /\ W!Upto(s)[0] = <<>>
         /\ \A i \in 1 .. Len(s) : W!Upto(s)[i] = W!Upto(s)[i - 1] \o s[i]
<1> DEFINE n == Len(s)
           X == Seq(Nat)
           Is(f) == f = [i \in 0 .. n |-> IF i = 0 THEN <<>> ELSE f[i - 1] \o s[i]]
           g == [i \in 1 .. n |-> [c \in X |-> c \o s[i]]]
           u == W!Upto(s)
<1>1. n \in Nat /\ \A i \in 1 .. n : s[i] \in X
  OBVIOUS
<1>2. \A c \in X, d \in X : c \o d \in X
  BY ConcatProperties
<1>3. <<>> \in X
  OBVIOUS
<1> HIDE DEF n, X
<1>4. g \in [1 .. n -> [X -> X]]
  BY <1>1, <1>2
<1> HIDE DEF Is
<1>5. PICK f : Steps(X, <<>>, n, g, f)
  <2> HIDE DEF g
  <2> QED
    BY <1>1, <1>3, <1>4, StepsExist
<1>6. Is(f)
  <2>1. ASSUME NEW i \in 0 .. n
        PROVE  f[i] = IF i = 0 THEN <<>> ELSE f[i - 1] \o s[i]
    <3>1. CASE i = 0
      BY <1>5, <3>1 DEF Steps
    <3>2. CASE i # 0
      <4>1. i \in 1 .. n /\ i - 1 \in 0 .. n
        BY <1>1, <3>2
      <4>2. f[i] = g[i][f[i - 1]] /\ f[i - 1] \in X
        BY <1>5, <4>1 DEF Steps
      <4>3. g[i][f[i - 1]] = f[i - 1] \o s[i]
        BY <4>1, <4>2
      <4> QED
        BY <3>2, <4>2, <4>3
    <3> QED
      BY <3>1, <3>2
  <2>2. f \in [0 .. n -> X]
    BY <1>5 DEF Steps
  <2> QED
    BY <2>1, <2>2 DEF Is
<1>7. Is(u)
  <2>1. u = CHOOSE h : Is(h)
    BY DEF W!Upto, n, Is
  <2> HIDE DEF u
  <2> QED
    BY <1>6, <2>1, Zenon
<1> HIDE DEF u
<1>8. u[0] = <<>> /\ \A i \in 1 .. n : u[i] = u[i - 1] \o s[i]
  <2>1. u = [i \in 0 .. n |-> IF i = 0 THEN <<>> ELSE u[i - 1] \o s[i]]
    BY <1>7 DEF Is
  <2>2. 0 \in 0 .. n
    BY <1>1
  <2>3. u[0] = <<>>
    BY <2>1, <2>2
  <2>4. ASSUME NEW i \in 1 .. n
        PROVE  u[i] = u[i - 1] \o s[i]
    <3>1. i \in 0 .. n /\ i # 0
      BY <1>1
    <3> QED
      BY <2>1, <3>1
  <2> QED
    BY <2>3, <2>4
<1>9. \A i \in 0 .. n : u[i] \in X
  <2>1. \A i \in 1 .. n : u[i - 1] \in X => u[i] = g[i][u[i - 1]]
    BY <1>8
  <2> HIDE DEF g
  <2> QED
    BY <1>1, <1>3, <1>4, <1>8, <2>1, StepsInside
<1> QED
  BY <1>8, <1>9 DEF u, n, X

\* Each piece stands whole in all of them together, after the ones before it.
LEMMA FlattenAt ==
  ASSUME NEW s \in Seq(Seq(Nat)), NEW n \in Nat, n = Len(s)
  PROVE  /\ \A i \in 1 .. n : Len(W!Upto(s)[i]) = Len(W!Upto(s)[i - 1]) + Len(s[i])
         /\ \A i \in 1 .. n : Len(W!Upto(s)[i]) <= Len(W!Flatten(s))
         /\ \A i \in 1 .. n : \A k \in 1 .. Len(s[i]) : W!Flatten(s)[Len(W!Upto(s)[i - 1]) + k] = s[i][k]
<1> DEFINE u == W!Upto(s)
           X == Seq(Nat)
<1>1. /\ \A i \in 0 .. n : u[i] \in X
      /\ u[0] = <<>>
      /\ \A i \in 1 .. n : u[i] = u[i - 1] \o s[i]
  BY UptoIs
<1>2. (\A i \in 1 .. n : s[i] \in X) /\ \A c \in X : Len(c) \in Nat
  BY LenProperties
<1> HIDE DEF u
<1>3. ASSUME NEW i \in 1 .. n
      PROVE  /\ u[i - 1] \in X /\ u[i] \in X /\ Len(u[i - 1]) \in Nat /\ Len(s[i]) \in Nat /\ Len(u[i]) \in Nat
             /\ Len(u[i]) = Len(u[i - 1]) + Len(s[i])
             /\ \A j \in 1 .. Len(u[i - 1]) + Len(s[i]) :
                  u[i][j] = IF j <= Len(u[i - 1]) THEN u[i - 1][j] ELSE s[i][j - Len(u[i - 1])]
  <2> DEFINE a == u[i - 1]
             b == s[i]
  <2>1. i - 1 \in 0 .. n /\ i \in 0 .. n
    OBVIOUS
  <2>2. a \in X /\ b \in X /\ u[i] \in X /\ u[i] = a \o b
    BY <1>1, <1>2, <2>1
  <2> HIDE DEF a, b
  <2>3. Len(a) \in Nat /\ Len(b) \in Nat /\ Len(u[i]) \in Nat
    BY <1>2, <2>2
  <2>4. Len(a \o b) = Len(a) + Len(b)
        /\ \A j \in 1 .. Len(a) + Len(b) : (a \o b)[j] = IF j <= Len(a) THEN a[j] ELSE b[j - Len(a)]
    BY <2>2, ConcatProperties
  <2> QED
    BY <2>2, <2>3, <2>4 DEF a, b
<1> HIDE DEF X
<1> DEFINE size(i) == Len(u[i])
           own(i) == Len(s[i])
<1>4. ASSUME NEW i \in 1 .. n
      PROVE  /\ size(i - 1) \in Nat /\ own(i) \in Nat /\ size(i) \in Nat /\ size(i) = size(i - 1) + own(i)
             /\ \A j \in 1 .. size(i - 1) + own(i) :
                  u[i][j] = IF j <= size(i - 1) THEN u[i - 1][j] ELSE s[i][j - size(i - 1)]
  BY <1>3
<1> HIDE DEF size, own
<1> DEFINE P(m) == \A i \in 1 .. m : /\ size(i) <= size(m)
                                     /\ \A k \in 1 .. own(i) : u[m][size(i - 1) + k] = s[i][k]
           S == {m \in Nat : m <= n => P(m)}
<1>5. 0 \in S
  OBVIOUS
<1>6. ASSUME NEW m \in Nat, m \in S
      PROVE  m + 1 \in S
  <2> SUFFICES ASSUME m + 1 <= n
               PROVE  P(m + 1)
    OBVIOUS
  <2>1. m + 1 \in 1 .. n /\ (m + 1) - 1 = m /\ m <= n
    OBVIOUS
  <2>2. P(m)
    BY <1>6, <2>1
  <2> HIDE DEF S, P
  <2>3. size(m) \in Nat /\ own(m + 1) \in Nat /\ size(m + 1) \in Nat /\ size(m + 1) = size(m) + own(m + 1)
    BY <1>4, <2>1
  <2>4. \A j \in 1 .. size(m) + own(m + 1) :
          u[m + 1][j] = IF j <= size(m) THEN u[m][j] ELSE s[m + 1][j - size(m)]
    BY <1>4, <2>1
  <2>5. ASSUME NEW i \in 1 .. m + 1
        PROVE  /\ size(i) <= size(m + 1)
               /\ \A k \in 1 .. own(i) : u[m + 1][size(i - 1) + k] = s[i][k]
    <3>1. CASE i = m + 1
      <4>1. ASSUME NEW k \in 1 .. own(m + 1)
            PROVE  u[m + 1][size(m) + k] = s[m + 1][k]
        <5>1. size(m) + k \in 1 .. size(m) + own(m + 1) /\ ~(size(m) + k <= size(m)) /\ (size(m) + k) - size(m) = k
          BY <2>3
        <5> QED
          BY <2>4, <5>1
      <4> QED
        BY <2>1, <2>3, <3>1, <4>1
    <3>2. CASE i # m + 1
      <4>1. i \in 1 .. m /\ i \in 1 .. n
        BY <2>1, <3>2
      <4>2. size(i) <= size(m) /\ \A k \in 1 .. own(i) : u[m][size(i - 1) + k] = s[i][k]
        BY <2>2, <4>1 DEF P
      <4>3. size(i - 1) \in Nat /\ own(i) \in Nat /\ size(i) \in Nat /\ size(i) = size(i - 1) + own(i)
        BY <1>4, <4>1
      <4>4. ASSUME NEW k \in 1 .. own(i)
            PROVE  u[m + 1][size(i - 1) + k] = s[i][k]
        <5>1. size(i) <= size(m)
          BY <4>2
        <5>2. size(i - 1) + k \in 1 .. size(m) + own(m + 1) /\ size(i - 1) + k <= size(m)
          BY <2>3, <4>3, <5>1
        <5>3. u[m + 1][size(i - 1) + k] = u[m][size(i - 1) + k]
          BY <2>4, <5>2
        <5> QED
          BY <4>2, <5>3
      <4>5. size(i) <= size(m + 1)
        BY <2>3, <4>2, <4>3
      <4> QED
        BY <4>4, <4>5
    <3> QED
      BY <3>1, <3>2
  <2> QED
    BY <2>5 DEF P
<1> HIDE DEF P, S
<1>7. n \in S
  BY <1>5, <1>6, FromZeroOn
<1>8. P(n)
  BY <1>7 DEF S
<1>9. W!Flatten(s) = u[n]
  BY DEF W!Flatten, u
<1> QED
  BY <1>4, <1>8, <1>9 DEF P, u, size, own

\* The items of a bundle, and the bytes of one.
Asks == [slave : Nat, reg : Nat, length : Nat]
Block(ask) == W!Framed(<<ask.slave>> \o W!Half(ask.reg) \o W!Half(ask.length) \o W!Value(ask))

\* An ask's head, and its value, after the first p bytes.
Heads(b, p, ask) ==
  /\ b[p + 1] = ask.slave
  /\ W!Joined(b[p + 2], b[p + 3]) = ask.reg
  /\ W!Joined(b[p + 4], b[p + 5]) = ask.length
Holds(b, p, ask) == \A k \in 1 .. ask.length : b[p + 5 + k] = W!Value(ask)[k]

\* One sequence after another: each keeps its elements.
Keeps(c, a, b, m, n) ==
  /\ c \in Seq(Nat) /\ Len(c) = m + n
  /\ \A i \in 1 .. m : c[i] = a[i]
  /\ \A i \in 1 .. n : c[m + i] = b[i]

\* One sequence after another is such a sequence.
LEMMA Joint ==
  ASSUME NEW a \in Seq(Nat), NEW b \in Seq(Nat), NEW m \in Nat, NEW n \in Nat, Len(a) = m, Len(b) = n
  PROVE  Keeps(a \o b, a, b, m, n)
<1>1. /\ a \o b \in Seq(Nat) /\ Len(a \o b) = Len(a) + Len(b)
      /\ \A i \in 1 .. Len(a) + Len(b) : (a \o b)[i] = IF i <= Len(a) THEN a[i] ELSE b[i - Len(a)]
  BY ConcatProperties
<1>2. \A i \in 1 .. m + n : (a \o b)[i] = IF i <= m THEN a[i] ELSE b[i - m]
  BY <1>1
<1>3. \A i \in 1 .. m : i \in 1 .. m + n /\ i <= m
  OBVIOUS
<1>4. \A i \in 1 .. n : m + i \in 1 .. m + n /\ ~(m + i <= m) /\ (m + i) - m = i
  OBVIOUS
<1>5. \A i \in 1 .. m : (a \o b)[i] = a[i]
  BY <1>2, <1>3
<1>6. \A i \in 1 .. n : (a \o b)[m + i] = b[i]
  BY <1>2, <1>4
<1> QED
  BY <1>1, <1>5, <1>6 DEF Keeps

\* The two halves of a word give it again.
Halves(h, n) ==
  /\ h \in Seq(Nat) /\ Len(h) = 2
  /\ h[1] = n \div 256 /\ h[2] = n % 256
  /\ W!Joined(n \div 256, n % 256) = n

\* A word's bytes are such.
LEMMA HalvesJoin ==
  ASSUME NEW n \in Nat
  PROVE  Halves(W!Half(n), n)
<1>1. n \div 256 \in Nat /\ n % 256 \in Nat /\ 256 * (n \div 256) + (n % 256) = n
  OBVIOUS
<1>2. W!Half(n) = <<n \div 256, n % 256>>
  BY DEF W!Half
<1>3. W!Joined(n \div 256, n % 256) = n
  BY <1>1 DEF W!Joined
<1> DEFINE hi == n \div 256
           lo == n % 256
           h == W!Half(n)
<1>4. hi \in Nat /\ lo \in Nat /\ h = <<hi, lo>>
  BY <1>1, <1>2
<1> HIDE DEF hi, lo, h
<1>5. h \in Seq(Nat) /\ Len(h) = 2 /\ h[1] = hi /\ h[2] = lo
  BY <1>4
<1> QED
  BY <1>3, <1>5 DEF Halves, hi, lo, h

\* One byte and two words after it are five bytes.
Five(e, a, x, y) ==
  /\ e \in Seq(Nat) /\ Len(e) = 5 /\ e[1] = a
  /\ e[2] = x \div 256 /\ e[3] = x % 256 /\ e[4] = y \div 256 /\ e[5] = y % 256

\* One byte and two words are five bytes.
LEMMA HeadIs ==
  ASSUME NEW a \in Nat, NEW x \in Nat, NEW y \in Nat
  PROVE  Five(<<a>> \o W!Half(x) \o W!Half(y), a, x, y)
<1> DEFINE h == W!Half(x)
           l == W!Half(y)
           s == <<a>> \o h
           t == s \o l
<1>1. h \in Seq(Nat) /\ l \in Seq(Nat) /\ Len(h) = 2 /\ Len(l) = 2 /\ h[1] = x \div 256 /\ h[2] = x % 256
      /\ l[1] = y \div 256 /\ l[2] = y % 256
  <2>1. Halves(h, x) /\ Halves(l, y)
    BY HalvesJoin
  <2> HIDE DEF h, l
  <2> QED
    BY <2>1 DEF Halves
<1> HIDE DEF h, l
<1>2. s \in Seq(Nat) /\ Len(s) = 3 /\ s[1] = a /\ s[2] = h[1] /\ s[3] = h[2]
  <2>1. <<a>> \in Seq(Nat) /\ Len(<<a>>) = 1 /\ <<a>>[1] = a
    OBVIOUS
  <2> DEFINE e == <<a>>
  <2> HIDE DEF e
  <2>2. Keeps(e \o h, e, h, 1, 2)
    BY <1>1, <2>1, Joint DEF e
  <2> QED
    BY <2>1, <2>2 DEF Keeps, e
<1> HIDE DEF s
<1>3. t \in Seq(Nat) /\ Len(t) = 5 /\ t[1] = s[1] /\ t[2] = s[2] /\ t[3] = s[3] /\ t[4] = l[1] /\ t[5] = l[2]
  <2>1. Keeps(t, s, l, 3, 2)
    BY <1>1, <1>2, Joint
  <2> HIDE DEF t
  <2> QED
    BY <2>1 DEF Keeps
<1> QED
  BY <1>1, <1>2, <1>3 DEF s, t, h, l, Five

\* A block is the head, the value and the CRC of them.
LEMMA BlockIs ==
  ASSUME NEW ask \in Asks
  PROVE  /\ Block(ask) \in Seq(Nat) /\ Len(Block(ask)) = ask.length + 7
         /\ Heads(Block(ask), 0, ask) /\ Holds(Block(ask), 0, ask)
<1> DEFINE n == ask.length
           v == W!Value(ask)
           h == <<ask.slave>> \o W!Half(ask.reg) \o W!Half(n)
           t == h \o v
           b == W!Framed(t)
<1>1. ask.slave \in Nat /\ ask.reg \in Nat /\ n \in Nat
  BY DEF Asks
<1>2. h \in Seq(Nat) /\ Len(h) = 5 /\ h[1] = ask.slave
      /\ h[2] = ask.reg \div 256 /\ h[3] = ask.reg % 256 /\ h[4] = n \div 256 /\ h[5] = n % 256
  <2> DEFINE a == ask.slave
             r == ask.reg
  <2>1. a \in Nat /\ r \in Nat /\ n \in Nat
    BY <1>1
  <2> HIDE DEF n, a, r
  <2>2. Five(<<a>> \o W!Half(r) \o W!Half(n), a, r, n)
    BY <2>1, HeadIs
  <2> QED
    BY <2>2 DEF a, r, Five
<1>3. v \in Seq(Nat) /\ Len(v) = n
  <2>1. \A k \in 1 .. n : (ask.reg + k) % 256 \in Nat
    BY <1>1
  <2>2. v = [k \in 1 .. n |-> (ask.reg + k) % 256]
    BY DEF W!Value
  <2> HIDE DEF v, n
  <2>3. v \in [1 .. n -> Nat]
    BY <2>1, <2>2
  <2> QED
    BY <1>1, <2>3
<1>4. W!Joined(h[2], h[3]) = ask.reg /\ W!Joined(h[4], h[5]) = n
  <2> HIDE DEF h, v, n
  <2>1. W!Joined(ask.reg \div 256, ask.reg % 256) = ask.reg /\ W!Joined(n \div 256, n % 256) = n
    BY <1>1, HalvesJoin DEF Halves
  <2> QED
    BY <1>2, <2>1, Zenon
<1> HIDE DEF h, v, n
<1>5. t \in Seq(Nat) /\ Len(t) = 5 + n /\ (\A i \in 1 .. 5 : t[i] = h[i]) /\ \A i \in 1 .. n : t[5 + i] = v[i]
  <2>1. Keeps(h \o v, h, v, 5, n)
    BY <1>1, <1>2, <1>3, Joint
  <2> QED
    BY <2>1 DEF Keeps
<1> HIDE DEF t
<1>6. b \in Seq(Nat) /\ Len(b) = n + 7 /\ \A i \in 1 .. 5 + n : b[i] = t[i]
  <2>1. b \in Seq(Nat) /\ Len(b) = Len(t) + 2 /\ \A i \in 1 .. Len(t) : b[i] = t[i]
    BY <1>5, FramedIs
  <2>2. (5 + n) + 2 = n + 7
    BY <1>1
  <2> HIDE DEF b
  <2> QED
    BY <1>5, <2>1, <2>2
<1> HIDE DEF b
<1>7. b[1] = h[1] /\ b[2] = h[2] /\ b[3] = h[3] /\ b[4] = h[4] /\ b[5] = h[5]
  <2>1. \A i \in 1 .. 5 : i \in 1 .. 5 + n
    BY <1>1
  <2>2. \A i \in 1 .. 5 : b[i] = h[i]
    BY <1>5, <1>6, <2>1
  <2> QED
    BY <2>2
<1>8. \A k \in 1 .. n : b[5 + k] = v[k]
  <2>1. \A k \in 1 .. n : 5 + k \in 1 .. 5 + n
    BY <1>1
  <2> QED
    BY <1>5, <1>6, <2>1
<1>9. Block(ask) = b
  BY DEF Block, b, t, h, v, n
<1>10. 0 + 1 = 1 /\ 0 + 2 = 2 /\ 0 + 3 = 3 /\ 0 + 4 = 4 /\ 0 + 5 = 5
  OBVIOUS
<1>11. Heads(b, 0, ask)
  BY <1>2, <1>4, <1>7, <1>10 DEF Heads, n
<1>12. Holds(b, 0, ask)
  BY <1>8, <1>10 DEF Holds, n, v
<1> QED
  BY <1>6, <1>9, <1>11, <1>12 DEF n

\* The blocks of a bundle, and where each ends.
Blocks(items) == [i \in 1 .. Len(items) |-> Block(items[i])]
EndOf(items, i) == 3 + Len(W!Upto(Blocks(items))[i])

\* A bundle is three bytes and the blocks, each with its ask at its place.
LEMMA BundleIs ==
  ASSUME NEW items \in Seq(Asks), NEW n \in Nat, n = Len(items)
  PROVE  /\ W!Bundle(items) \in Seq(Nat)
         /\ W!Bundle(items)[1] = 64 /\ W!Bundle(items)[2] = 0 /\ W!Bundle(items)[3] = 4
         /\ EndOf(items, 0) = 3 /\ EndOf(items, n) = Len(W!Bundle(items))
         /\ \A i \in 0 .. n : EndOf(items, i) \in Nat /\ EndOf(items, i) <= Len(W!Bundle(items))
         /\ \A i \in 1 .. n : /\ EndOf(items, i) = EndOf(items, i - 1) + items[i].length + 7
                              /\ Heads(W!Bundle(items), EndOf(items, i - 1), items[i])
                              /\ Holds(W!Bundle(items), EndOf(items, i - 1), items[i])
<1> DEFINE s == Blocks(items)
           f == W!Flatten(s)
           m == <<64, 0, 4>>
           b == m \o f
           size(i) == Len(W!Upto(s)[i])
<1>1. \A i \in 1 .. n : items[i] \in Asks
  OBVIOUS
<1>2. s \in Seq(Seq(Nat)) /\ Len(s) = n /\ \A i \in 1 .. n : s[i] = Block(items[i])
  <2>1. s = [i \in 1 .. n |-> Block(items[i])]
    BY DEF Blocks
  <2>2. \A i \in 1 .. n : Block(items[i]) \in Seq(Nat)
    BY <1>1, BlockIs
  <2> HIDE DEF s
  <2>3. s \in [1 .. n -> Seq(Nat)]
    BY <2>1, <2>2
  <2> QED
    BY <2>1, <2>3
<1>3. W!Bundle(items) = b
  <2>1. DOMAIN items = 1 .. Len(items)
    OBVIOUS
  <2> QED
    BY <2>1, Zenon DEF W!Bundle, Blocks, Block
<1> HIDE DEF s
<1>4. \A i \in 0 .. n : W!Upto(s)[i] \in Seq(Nat)
  BY <1>2, UptoIs
<1>5. f \in Seq(Nat) /\ size(0) = 0 /\ size(n) = Len(f) /\ \A i \in 0 .. n : size(i) \in Nat
  <2>1. W!Upto(s)[0] = <<>>
    BY <1>2, UptoIs
  <2>2. n \in 0 .. n
    OBVIOUS
  <2>3. f = W!Upto(s)[n]
    BY <1>2 DEF W!Flatten
  <2>4. \A i \in 0 .. n : size(i) \in Nat
    BY <1>4, LenProperties
  <2> QED
    BY <1>4, <2>1, <2>2, <2>3, <2>4
<1>6. \A i \in 1 .. n : /\ size(i) = size(i - 1) + Len(s[i]) /\ size(i) <= Len(f)
                        /\ \A k \in 1 .. Len(s[i]) : f[size(i - 1) + k] = s[i][k]
  BY <1>2, FlattenAt
<1>7. Len(f) \in Nat
  BY <1>5
<1> HIDE DEF f, size
<1>8. b \in Seq(Nat) /\ Len(b) = 3 + Len(f) /\ (\A j \in 1 .. 3 : b[j] = m[j]) /\ \A j \in 1 .. Len(f) : b[3 + j] = f[j]
  <2>1. m \in Seq(Nat) /\ Len(m) = 3
    OBVIOUS
  <2> HIDE DEF m
  <2>2. Keeps(m \o f, m, f, 3, Len(f))
    BY <1>5, <1>7, <2>1, Joint
  <2> QED
    BY <2>2 DEF Keeps
<1>9. b[1] = 64 /\ b[2] = 0 /\ b[3] = 4
  <2> HIDE DEF b
  <2> QED
    BY <1>8
<1> HIDE DEF b, m
<1>10. \A j \in 1 .. Len(f) : b[3 + j] = f[j]
  BY <1>8
<1>11. ASSUME NEW i \in 1 .. n
       PROVE  /\ size(i) = size(i - 1) + (items[i].length + 7)
              /\ Heads(b, 3 + size(i - 1), items[i]) /\ Holds(b, 3 + size(i - 1), items[i])
  <2> DEFINE c == s[i]
             p == size(i - 1)
             l == items[i].length
             ask == items[i]
  <2>1. c = Block(ask) /\ Len(c) = l + 7 /\ Heads(c, 0, ask) /\ Holds(c, 0, ask) /\ l \in Nat
    <3>1. ask \in Asks /\ l \in Nat
      BY <1>1 DEF Asks
    <3> QED
      BY <1>2, <3>1, BlockIs
  <2>2. p \in Nat /\ size(i) = p + (l + 7) /\ size(i) <= Len(f)
    <3>1. i - 1 \in 0 .. n
      OBVIOUS
    <3> QED
      BY <1>5, <1>6, <2>1, <3>1
  <2>3. \A k \in 1 .. l + 7 : f[p + k] = c[k]
    BY <1>6, <2>1
  <2> HIDE DEF c, p, l, ask
  <2>4. \A k \in 1 .. l + 7 : b[3 + p + k] = c[k]
    <3>1. \A k \in 1 .. l + 7 : p + k \in 1 .. Len(f) /\ 3 + (p + k) = 3 + p + k
      BY <1>7, <2>1, <2>2
    <3> QED
      BY <1>10, <2>3, <3>1
  <2>5. b[3 + p + 1] = c[0 + 1] /\ b[3 + p + 2] = c[0 + 2] /\ b[3 + p + 3] = c[0 + 3]
        /\ b[3 + p + 4] = c[0 + 4] /\ b[3 + p + 5] = c[0 + 5]
    <3>1. 1 \in 1 .. l + 7 /\ 2 \in 1 .. l + 7 /\ 3 \in 1 .. l + 7 /\ 4 \in 1 .. l + 7 /\ 5 \in 1 .. l + 7
      BY <2>1
    <3>2. 0 + 1 = 1 /\ 0 + 2 = 2 /\ 0 + 3 = 3 /\ 0 + 4 = 4 /\ 0 + 5 = 5
      OBVIOUS
    <3> QED
      BY <2>4, <3>1, <3>2
  <2>6. Heads(b, 3 + p, ask)
    BY <2>1, <2>5 DEF Heads
  <2>7. Holds(b, 3 + p, ask)
    <3>1. \A k \in 1 .. l : 5 + k \in 1 .. l + 7 /\ 3 + p + (5 + k) = 3 + p + 5 + k /\ 0 + 5 + k = 5 + k
      BY <2>1, <2>2
    <3>2. \A k \in 1 .. l : b[3 + p + 5 + k] = c[0 + 5 + k]
      BY <2>4, <3>1
    <3> QED
      BY <2>1, <3>2 DEF Holds, l, ask
  <2> QED
    BY <2>2, <2>6, <2>7 DEF p, l, ask
<1>12. \A i \in 0 .. n : size(i) <= Len(f)
  <2>1. \A i \in 0 .. n : i = 0 \/ i \in 1 .. n
    OBVIOUS
  <2> QED
    BY <1>5, <1>6, <1>7, <2>1
<1>13. \A i : EndOf(items, i) = 3 + size(i)
  BY DEF EndOf, size, s
<1>14. EndOf(items, 0) = 3 /\ EndOf(items, n) = Len(b)
       /\ \A i \in 0 .. n : EndOf(items, i) \in Nat /\ EndOf(items, i) <= Len(b)
  BY <1>5, <1>7, <1>8, <1>12, <1>13
<1>15. ASSUME NEW i \in 1 .. n
       PROVE  /\ EndOf(items, i) = EndOf(items, i - 1) + items[i].length + 7
              /\ Heads(b, EndOf(items, i - 1), items[i]) /\ Holds(b, EndOf(items, i - 1), items[i])
  <2>1. i - 1 \in 0 .. n /\ items[i].length \in Nat
    BY <1>1 DEF Asks
  <2>2. size(i - 1) \in Nat
    BY <1>5, <2>1
  <2>3. size(i) = size(i - 1) + (items[i].length + 7)
    BY <1>11
  <2>4. 3 + size(i) = 3 + size(i - 1) + items[i].length + 7
    BY <2>1, <2>2, <2>3
  <2> QED
    BY <1>11, <1>13, <2>4
<1> QED
  BY <1>3, <1>8, <1>9, <1>14, <1>15

\* What the parser has, after a turn of it.
Takes == [slave : Int, reg : Int, length : Int, value : Seq(Nat)]
States == [pos : Nat, items : Seq(Takes)]
Opened == [pos |-> 3, items |-> <<>>]
Failed(data) == [pos |-> Len(data), items |-> <<W!ParseError>>]

\* A turn is one of three.
LEMMA TurnIs ==
  ASSUME NEW data, NEW s
  PROVE  LET length == W!Joined(data[s.pos + 4], data[s.pos + 5])
         IN W!Turn(data, s) =
              IF s.pos + 6 > Len(data) THEN s
              ELSE IF s.pos + 5 + length + 2 > Len(data) THEN Failed(data)
              ELSE [pos |-> s.pos + 5 + length + 2,
                    items |-> Append(s.items,
                      [slave |-> data[s.pos + 1], reg |-> W!Joined(data[s.pos + 2], data[s.pos + 3]), length |-> length,
                       value |-> SubSeq(data, s.pos + 6, s.pos + 5 + length)])]
BY Zenon DEF W!Turn, Failed

\* An error is a state of the parser.
LEMMA FailedIs ==
  ASSUME NEW data \in Seq(Nat)
  PROVE  Failed(data) \in States /\ Failed(data).pos = Len(data)
<1>1. Len(data) \in Nat
  OBVIOUS
<1>2. W!ParseError \in Takes
  BY DEF W!ParseError, W!None, Takes
<1>3. <<W!ParseError>> \in Seq(Takes)
  BY <1>2
<1> QED
  BY <1>1, <1>3 DEF Failed, States

\* A turn leads from state to state.
LEMMA TurnInside ==
  ASSUME NEW data \in Seq(Nat), NEW s \in States
  PROVE  W!Turn(data, s) \in States
<1> DEFINE p == s.pos
           n == Len(data)
           length == W!Joined(data[p + 4], data[p + 5])
           ask == [slave |-> data[p + 1], reg |-> W!Joined(data[p + 2], data[p + 3]), length |-> length,
                    value |-> SubSeq(data, p + 6, p + 5 + length)]
           ahead == [pos |-> p + 5 + length + 2, items |-> Append(s.items, ask)]
<1>1. p \in Nat /\ s.items \in Seq(Takes) /\ n \in Nat
  BY DEF States
<1>2. W!Turn(data, s) = IF p + 6 > n THEN s ELSE IF p + 5 + length + 2 > n THEN Failed(data) ELSE ahead
  BY TurnIs, Zenon
<1>3. ASSUME p + 6 <= n, p + 5 + length + 2 <= n
      PROVE  ahead \in States
  <2>1. data[p + 1] \in Nat /\ data[p + 2] \in Nat /\ data[p + 3] \in Nat /\ data[p + 4] \in Nat /\ data[p + 5] \in Nat
    <3>1. \A j \in 1 .. n : data[j] \in Nat
      OBVIOUS
    <3> HIDE DEF p, n
    <3>2. p + 1 \in 1 .. n /\ p + 2 \in 1 .. n /\ p + 3 \in 1 .. n /\ p + 4 \in 1 .. n /\ p + 5 \in 1 .. n
      BY <1>1, <1>3
    <3> QED
      BY <3>1, <3>2
  <2>2. \A x, y \in Nat : W!Joined(x, y) \in Nat
    BY DEF W!Joined
  <2>3. length \in Nat /\ W!Joined(data[p + 2], data[p + 3]) \in Nat
    BY <2>1, <2>2
  <2> HIDE DEF p, n, length
  <2>4. p + 5 + length \in Nat /\ p + 6 \in Nat /\ 1 <= p + 6 /\ p + 6 <= p + 5 + length + 1 /\ p + 5 + length <= n
    BY <1>1, <1>3, <2>3
  <2>5. SubSeq(data, p + 6, p + 5 + length) \in Seq(Nat)
    BY <2>4, PartOf DEF n
  <2>6. ask \in Takes
    <3> DEFINE a == data[p + 1]
               b == W!Joined(data[p + 2], data[p + 3])
               c == SubSeq(data, p + 6, p + 5 + length)
    <3> HIDE DEF a, b, c
    <3>1. a \in Int /\ b \in Int /\ length \in Int /\ c \in Seq(Nat)
      <4>1. a \in Nat /\ b \in Nat /\ length \in Nat
        BY <2>1, <2>3 DEF a, b
      <4>2. c \in Seq(Nat)
        BY <2>5 DEF c
      <4> QED
        BY <4>1, <4>2
    <3>2. [slave |-> a, reg |-> b, length |-> length, value |-> c] \in Takes
      BY <3>1 DEF Takes
    <3> QED
      BY <3>2 DEF a, b, c
  <2> HIDE DEF ask
  <2>7. Append(s.items, ask) \in Seq(Takes)
    BY <1>1, <2>6, AppendProperties
  <2>8. p + 5 + length + 2 \in Nat
    BY <1>1, <2>3
  <2> QED
    BY <2>7, <2>8 DEF States
<1>4. Failed(data) \in States
  BY FailedIs
<1> HIDE DEF ahead
<1> QED
  <2> DEFINE next == p + 5 + length + 2
  <2>1. CASE p + 6 > n
    BY <1>2, <2>1
  <2>2. CASE ~(p + 6 > n) /\ next > n
    BY <1>2, <1>4, <2>2
  <2>3. CASE ~(p + 6 > n) /\ ~(next > n)
    <3>1. W!Turn(data, s) = ahead
      BY <1>2, <2>3
    <3>2. p + 6 <= n
      <4> HIDE DEF p, n
      <4> QED
        BY <1>1, <2>3
    <3>3. length \in Int
      <4>1. \A j \in 1 .. n : data[j] \in Nat
        OBVIOUS
      <4> HIDE DEF p, n
      <4>2. p + 4 \in 1 .. n /\ p + 5 \in 1 .. n
        BY <1>1, <3>2
      <4> QED
        BY <4>1, <4>2 DEF W!Joined
    <3>4. next <= n
      <4> HIDE DEF p, n, length
      <4> QED
        BY <1>1, <2>3, <3>3
    <3> QED
      BY <1>3, <3>1, <3>2, <3>4
  <2> QED
    BY <2>1, <2>2, <2>3

\* The parser after each of its turns.
LEMMA TurnsAre ==
  ASSUME NEW data \in Seq(Nat), NEW n \in Nat, n = Len(data)
  PROVE  /\ \A k \in 0 .. n : W!Turns(data)[k] \in States
         /\ W!Turns(data)[0] = Opened
         /\ \A k \in 1 .. n : W!Turns(data)[k] = W!Turn(data, W!Turns(data)[k - 1])
<1> DEFINE Is(f) == f = [k \in 0 .. n |-> IF k = 0 THEN Opened ELSE W!Turn(data, f[k - 1])]
           g == [k \in 1 .. n |-> [c \in States |-> W!Turn(data, c)]]
           u == W!Turns(data)
<1>1. \A c \in States : W!Turn(data, c) \in States
  BY TurnInside
<1>2. Opened \in States
  BY DEF Opened, States
<1>3. g \in [1 .. n -> [States -> States]]
  BY <1>1
<1> HIDE DEF Is
<1>4. PICK f : Steps(States, Opened, n, g, f)
  <2> HIDE DEF g
  <2> QED
    BY <1>2, <1>3, StepsExist
<1>5. Is(f)
  <2>1. ASSUME NEW k \in 0 .. n
        PROVE  f[k] = IF k = 0 THEN Opened ELSE W!Turn(data, f[k - 1])
    <3>1. CASE k = 0
      BY <1>4, <3>1 DEF Steps
    <3>2. CASE k # 0
      <4>1. k \in 1 .. n /\ k - 1 \in 0 .. n
        BY <3>2
      <4>2. f[k] = g[k][f[k - 1]] /\ f[k - 1] \in States
        BY <1>4, <4>1 DEF Steps
      <4>3. g[k][f[k - 1]] = W!Turn(data, f[k - 1])
        BY <4>1, <4>2
      <4> QED
        BY <3>2, <4>2, <4>3
    <3> QED
      BY <3>1, <3>2
  <2>2. f \in [0 .. n -> States]
    BY <1>4 DEF Steps
  <2> QED
    BY <2>1, <2>2 DEF Is
<1>6. Is(u)
  <2>1. u = CHOOSE h : Is(h)
    BY Zenon DEF W!Turns, Is, Opened
  <2> HIDE DEF u
  <2> QED
    BY <1>5, <2>1, Zenon
<1> HIDE DEF u
<1>7. u[0] = Opened /\ \A k \in 1 .. n : u[k] = W!Turn(data, u[k - 1])
  <2>1. u = [k \in 0 .. n |-> IF k = 0 THEN Opened ELSE W!Turn(data, u[k - 1])]
    BY <1>6 DEF Is
  <2>2. u[0] = Opened
    BY <2>1
  <2>3. ASSUME NEW k \in 1 .. n
        PROVE  u[k] = W!Turn(data, u[k - 1])
    <3>1. k \in 0 .. n /\ k # 0
      OBVIOUS
    <3> QED
      BY <2>1, <3>1
  <2> QED
    BY <2>2, <2>3
<1>8. \A k \in 0 .. n : u[k] \in States
  <2>1. \A k \in 1 .. n : u[k - 1] \in States => u[k] = g[k][u[k - 1]]
    BY <1>7
  <2> HIDE DEF g
  <2> QED
    BY <1>2, <1>3, <1>7, <2>1, StepsInside
<1> QED
  BY <1>7, <1>8 DEF u

\* The items with their values, and the parser after the first i of them.
Values(items) ==
  [i \in 1 .. Len(items) |->
     [slave |-> items[i].slave, reg |-> items[i].reg, length |-> items[i].length, value |-> W!Value(items[i])]]
At(items, i) == [pos |-> EndOf(items, i), items |-> SubSeq(Values(items), 1, i)]

\* Data that are a bundle's bytes, as far as they go.
Begins(data, b) == Len(data) <= Len(b) /\ \A j \in 1 .. Len(data) : data[j] = b[j]

\* The first items, and one more.
LEMMA OneMore ==
  ASSUME NEW X, NEW s \in Seq(X), NEW i \in 1 .. Len(s)
  PROVE  Append(SubSeq(s, 1, i - 1), s[i]) = SubSeq(s, 1, i)
<1> DEFINE a == SubSeq(s, 1, i - 1)
           b == SubSeq(s, 1, i)
           c == Append(a, s[i])
           m == i - 1
<1>1. Len(s) \in Nat /\ m \in Nat /\ i \in Nat /\ 1 <= i /\ i <= Len(s) /\ i = m + 1 /\ m <= Len(s)
      /\ s[i] \in X /\ m - 1 + 1 = m /\ i - 1 + 1 = i
  OBVIOUS
<1>2. a \in Seq(X) /\ Len(a) = m /\ \A j \in 1 .. m : a[j] = s[j]
  <2> HIDE DEF m
  <2>1. SubSeq(s, 1, m) \in Seq(X) /\ Len(SubSeq(s, 1, m)) = m - 1 + 1
        /\ \A j \in 1 .. m - 1 + 1 : SubSeq(s, 1, m)[j] = s[1 + j - 1]
    BY <1>1, PartOf
  <2>2. \A j \in 1 .. m : 1 + j - 1 = j
    OBVIOUS
  <2> QED
    BY <1>1, <2>1, <2>2 DEF m
<1>3. b \in Seq(X) /\ Len(b) = i /\ \A j \in 1 .. i : b[j] = s[j]
  <2>1. SubSeq(s, 1, i) \in Seq(X) /\ Len(SubSeq(s, 1, i)) = i - 1 + 1
        /\ \A j \in 1 .. i - 1 + 1 : SubSeq(s, 1, i)[j] = s[1 + j - 1]
    BY <1>1, PartOf
  <2>2. \A j \in 1 .. i : 1 + j - 1 = j
    OBVIOUS
  <2> QED
    BY <1>1, <2>1, <2>2
<1> HIDE DEF a, b
<1>4. c \in Seq(X) /\ Len(c) = m + 1 /\ (\A j \in 1 .. m : c[j] = a[j]) /\ c[m + 1] = s[i]
  <2>1. c \in Seq(X) /\ Len(c) = Len(a) + 1 /\ (\A j \in 1 .. Len(a) : c[j] = a[j]) /\ c[Len(a) + 1] = s[i]
    BY <1>1, <1>2, AppendProperties
  <2> QED
    BY <1>2, <2>1
<1> HIDE DEF c, m
<1>5. \A j \in 1 .. i : c[j] = b[j]
  <2>1. \A j \in 1 .. i : j \in 1 .. m \/ j = i
    BY <1>1
  <2> QED
    BY <1>1, <1>2, <1>3, <1>4, <2>1
<1>6. Len(c) = Len(b) /\ Len(c) = i
  BY <1>1, <1>3, <1>4
<1>7. c = b
  BY <1>3, <1>4, <1>5, <1>6, SeqEqual
<1> QED
  BY <1>7 DEF a, b, c, m

\* The items of a bundle with their values.
LEMMA ValuesAre ==
  ASSUME NEW items \in Seq(Asks), NEW n \in Nat, n = Len(items)
  PROVE  /\ Values(items) \in Seq(Takes) /\ Len(Values(items)) = n
         /\ \A i \in 1 .. n : /\ items[i] \in Asks /\ items[i].length \in Nat
                              /\ W!Value(items[i]) \in Seq(Nat) /\ Len(W!Value(items[i])) = items[i].length
<1>1. ASSUME NEW ask \in Asks
      PROVE  ask.length \in Nat /\ W!Value(ask) \in Seq(Nat) /\ Len(W!Value(ask)) = ask.length
             /\ [slave |-> ask.slave, reg |-> ask.reg, length |-> ask.length, value |-> W!Value(ask)] \in Takes
  <2> DEFINE l == ask.length
             v == W!Value(ask)
  <2>1. ask.slave \in Nat /\ ask.reg \in Nat /\ l \in Nat
    BY DEF Asks
  <2>2. v = [k \in 1 .. l |-> (ask.reg + k) % 256]
    BY DEF W!Value
  <2>3. \A k \in 1 .. l : (ask.reg + k) % 256 \in Nat
    BY <2>1
  <2> HIDE DEF v, l
  <2>4. v \in [1 .. l -> Nat]
    BY <2>2, <2>3
  <2>5. v \in Seq(Nat) /\ Len(v) = l
    BY <2>1, <2>4
  <2>6. [slave |-> ask.slave, reg |-> ask.reg, length |-> l, value |-> v] \in Takes
    BY <2>1, <2>5 DEF Takes
  <2> QED
    BY <2>1, <2>5, <2>6 DEF l, v
<1>2. \A i \in 1 .. n : items[i] \in Asks
  OBVIOUS
<1> DEFINE one(ask) == [slave |-> ask.slave, reg |-> ask.reg, length |-> ask.length, value |-> W!Value(ask)]
           w == Values(items)
<1>3. w = [i \in 1 .. n |-> one(items[i])]
  BY DEF Values
<1>4. \A i \in 1 .. n : one(items[i]) \in Takes
  BY <1>1, <1>2
<1> HIDE DEF one, w
<1>5. w \in [1 .. n -> Takes]
  BY <1>3, <1>4
<1>6. w \in Seq(Takes) /\ Len(w) = n
  BY <1>5
<1> QED
  BY <1>1, <1>2, <1>6 DEF w

\* At the place of an ask the parser takes it, stops before it, or fails in it.
LEMMA TurnAt ==
  ASSUME NEW items \in Seq(Asks), NEW data \in Seq(Nat), Begins(data, W!Bundle(items)),
         NEW i \in 1 .. Len(items)
  PROVE  W!Turn(data, At(items, i - 1)) =
           IF EndOf(items, i - 1) + 6 > Len(data) THEN At(items, i - 1)
           ELSE IF EndOf(items, i) > Len(data) THEN Failed(data) ELSE At(items, i)
<1> DEFINE p == EndOf(items, i - 1)
           n == Len(data)
           b == W!Bundle(items)
           ask == items[i]
           l == ask.length
           w == Values(items)
           s == At(items, i - 1)
           length == W!Joined(data[p + 4], data[p + 5])
           v == SubSeq(data, p + 6, p + 5 + length)
           taken == [slave |-> data[p + 1], reg |-> W!Joined(data[p + 2], data[p + 3]), length |-> length, value |-> v]
           next == p + 5 + length + 2
<1>1. s.pos = p /\ s.items = SubSeq(w, 1, i - 1)
  BY DEF At
<1>2. W!Turn(data, s) = IF p + 6 > n THEN s ELSE IF next > n THEN Failed(data)
                        ELSE [pos |-> next, items |-> Append(SubSeq(w, 1, i - 1), taken)]
  <2> HIDE DEF s
  <2> QED
    BY <1>1, TurnIs, Zenon
<1>3. Len(items) \in Nat /\ i - 1 \in 0 .. Len(items) /\ n \in Nat
  OBVIOUS
<1>4. p \in Nat /\ Heads(b, p, ask) /\ Holds(b, p, ask) /\ EndOf(items, i) = p + l + 7 /\ Len(b) \in Nat
  <2>1. b \in Seq(Nat) /\ p \in Nat
    BY <1>3, BundleIs
  <2>2. Heads(b, p, ask) /\ Holds(b, p, ask) /\ EndOf(items, i) = p + l + 7
    BY <1>3, BundleIs
  <2> QED
    BY <2>1, <2>2
<1>5. n <= Len(b) /\ \A j \in 1 .. n : data[j] = b[j]
  BY DEF Begins
<1>6. l \in Nat /\ W!Value(ask) \in Seq(Nat) /\ Len(W!Value(ask)) = l /\ w \in Seq(Takes) /\ Len(w) = Len(items)
  BY <1>3, ValuesAre
<1> HIDE DEF p, n, b, l, s
<1>7. ASSUME ~(p + 6 > n)
      PROVE  length = l /\ data[p + 1] = ask.slave /\ W!Joined(data[p + 2], data[p + 3]) = ask.reg
  <2>1. p + 1 \in 1 .. n /\ p + 2 \in 1 .. n /\ p + 3 \in 1 .. n /\ p + 4 \in 1 .. n /\ p + 5 \in 1 .. n
    BY <1>3, <1>4, <1>7
  <2>2. data[p + 1] = b[p + 1] /\ data[p + 2] = b[p + 2] /\ data[p + 3] = b[p + 3]
        /\ data[p + 4] = b[p + 4] /\ data[p + 5] = b[p + 5]
    BY <1>5, <2>1
  <2> QED
    BY <1>4, <2>2 DEF Heads, l
<1>8. ASSUME ~(p + 6 > n), ~(next > n)
      PROVE  v = W!Value(ask)
  <2>1. length = l
    BY <1>7, <1>8
  <2>2. p + 6 \in Nat /\ p + 5 + l \in Nat /\ 1 <= p + 6 /\ p + 6 <= (p + 5 + l) + 1 /\ p + 5 + l <= n
        /\ (p + 5 + l) - (p + 6) + 1 = l
    BY <1>3, <1>4, <1>6, <1>8, <2>1
  <2>3. v = SubSeq(data, p + 6, p + 5 + l)
    BY <2>1
  <2> HIDE DEF v, length, ask
  <2>4. v \in Seq(Nat) /\ Len(v) = (p + 5 + l) - (p + 6) + 1
        /\ \A k \in 1 .. (p + 5 + l) - (p + 6) + 1 : v[k] = data[(p + 6) + k - 1]
    BY <2>2, <2>3, PartOf DEF n
  <2>5. \A k \in 1 .. l : (p + 6) + k - 1 = p + 5 + k /\ p + 5 + k \in 1 .. n
    <3>1. p \in Nat /\ l \in Nat /\ n \in Nat /\ p + 5 + l <= n
      BY <1>3, <1>4, <1>6, <2>2 DEF n
    <3> HIDE DEF taken, next, w
    <3> QED
      BY <3>1
  <2>6. \A k \in 1 .. l : v[k] = b[p + 5 + k]
    BY <1>5, <2>2, <2>4, <2>5
  <2>7. \A k \in 1 .. l : b[p + 5 + k] = W!Value(ask)[k]
    BY <1>4 DEF Holds, l
  <2>8. Len(v) = Len(W!Value(ask)) /\ Len(v) = l
    BY <1>6, <2>2, <2>4
  <2>9. \A k \in 1 .. l : v[k] = W!Value(ask)[k]
    BY <2>6, <2>7
  <2> QED
    BY <1>6, <2>4, <2>8, <2>9, SeqEqual
<1>9. CASE p + 6 > n
  BY <1>2, <1>9 DEF p, n, s
<1>10. CASE ~(p + 6 > n) /\ next > n
  <2>1. length = l
    BY <1>7, <1>10
  <2>2. next = EndOf(items, i)
    BY <1>4, <1>6, <2>1
  <2> HIDE DEF next
  <2> QED
    BY <1>2, <1>10, <2>2 DEF p, n, s
<1>11. CASE ~(p + 6 > n) /\ ~(next > n)
  <2>1. length = l
    BY <1>7, <1>11
  <2>2. next = EndOf(items, i)
    BY <1>4, <1>6, <2>1
  <2>3. taken = w[i]
    <3>1. w[i] = [slave |-> ask.slave, reg |-> ask.reg, length |-> ask.length, value |-> W!Value(ask)]
      BY <1>3 DEF Values
    <3>2. data[p + 1] = ask.slave /\ W!Joined(data[p + 2], data[p + 3]) = ask.reg /\ v = W!Value(ask)
      BY <1>7, <1>8, <1>11
    <3> HIDE DEF v, length, ask, w
    <3> QED
      BY <2>1, <3>1, <3>2 DEF l
  <2> HIDE DEF next, taken, w
  <2>4. Append(SubSeq(w, 1, i - 1), w[i]) = SubSeq(w, 1, i)
    <3>1. i \in 1 .. Len(w)
      BY <1>6
    <3> QED
      BY <1>6, <3>1, OneMore
  <2>5. W!Turn(data, s) = [pos |-> EndOf(items, i), items |-> SubSeq(w, 1, i)]
    BY <1>2, <1>11, <2>2, <2>3, <2>4
  <2>6. W!Turn(data, s) = At(items, i)
    BY <2>5 DEF At, w
  <2> QED
    BY <1>11, <2>2, <2>6 DEF p, n, s
<1> QED
  BY <1>9, <1>10, <1>11

\* What is too short to be an ask is left.
LEMMA Stuck ==
  ASSUME NEW data, NEW s, s.pos + 6 > Len(data)
  PROVE  W!Turn(data, s) = s
BY Zenon DEF W!Turn

\* A bundle's first bytes, also of what it is cut to.
LEMMA Opens ==
  ASSUME NEW data \in Seq(Nat), Len(data) >= 3, data[1] = 64, data[2] = 0, data[3] = 4
  PROVE  SubSeq(data, 1, 3) = <<64, 0, 4>>
<1> DEFINE a == SubSeq(data, 1, 3)
           c == <<64, 0, 4>>
<1>1. a \in Seq(Nat) /\ Len(a) = 3 - 1 + 1 /\ \A i \in 1 .. 3 - 1 + 1 : a[i] = data[1 + i - 1]
  BY PartOf
<1>2. c \in Seq(Nat) /\ Len(c) = 3 /\ c[1] = 64 /\ c[2] = 0 /\ c[3] = 4
  OBVIOUS
<1> HIDE DEF a, c
<1>3. Len(a) = 3 /\ \A i \in 1 .. 3 : a[i] = c[i]
  BY <1>1, <1>2
<1>4. a = c
  BY <1>1, <1>2, <1>3, SeqEqual
<1> QED
  BY <1>4 DEF a, c

\* The parser of a bundle that is not cut has its items one by one, all of them in the end.
LEMMA ParsedWhole ==
  ASSUME NEW items \in Seq(Asks), items # <<>>
  PROVE  W!TlvIsValid(W!Bundle(items)) /\ W!Parsed(W!Bundle(items)) = Values(items)
<1> DEFINE b == W!Bundle(items)
           m == Len(items)
           n == Len(b)
           u == W!Turns(b)
           w == Values(items)
<1>1. m \in Nat
  OBVIOUS
<1>2. /\ b \in Seq(Nat) /\ b[1] = 64 /\ b[2] = 0 /\ b[3] = 4
      /\ EndOf(items, 0) = 3 /\ EndOf(items, m) = n
      /\ \A i \in 0 .. m : EndOf(items, i) \in Nat /\ EndOf(items, i) <= n
      /\ \A i \in 1 .. m : EndOf(items, i) = EndOf(items, i - 1) + items[i].length + 7
  BY <1>1, BundleIs
<1>3. n \in Nat /\ n >= 3
  <2>1. 0 \in 0 .. m
    BY <1>1
  <2> QED
    BY <1>2, <2>1
<1>4. w \in Seq(Takes) /\ Len(w) = m /\ \A i \in 1 .. m : items[i].length \in Nat
  BY <1>1, ValuesAre
<1>5. /\ \A k \in 0 .. n : u[k] \in States
      /\ u[0] = Opened
      /\ \A k \in 1 .. n : u[k] = W!Turn(b, u[k - 1])
  BY <1>2, <1>3, TurnsAre
<1>6. \A i \in 1 .. m : W!Turn(b, At(items, i - 1)) =
           IF EndOf(items, i - 1) + 6 > n THEN At(items, i - 1)
           ELSE IF EndOf(items, i) > n THEN Failed(b) ELSE At(items, i)
  <2>1. Begins(b, b)
    BY <1>3 DEF Begins
  <2> QED
    BY <1>2, <2>1, TurnAt
<1>7. At(items, 0) = Opened
  <2>1. SubSeq(w, 1, 0) = <<>>
    BY <1>4
  <2> QED
    BY <1>2, <2>1 DEF At, Opened
<1>8. W!Turn(b, At(items, m)) = At(items, m)
  <2> DEFINE s == At(items, m)
  <2>1. s.pos = n
    BY <1>2 DEF At
  <2>2. s.pos + 6 > Len(b)
    BY <1>3, <2>1
  <2> HIDE DEF s
  <2>3. W!Turn(b, s) = s
    BY <2>2, Stuck
  <2> QED
    BY <2>3 DEF s
<1> HIDE DEF b, m, n, u, w
<1>9. \A i \in 0 .. m : i <= EndOf(items, i)
  <2> DEFINE S == {i \in Nat : i <= m => i <= EndOf(items, i)}
  <2>1. 0 \in S
    BY <1>2
  <2>2. ASSUME NEW i \in Nat, i \in S
        PROVE  i + 1 \in S
    <3> SUFFICES ASSUME i + 1 <= m
                 PROVE  i + 1 <= EndOf(items, i + 1)
      OBVIOUS
    <3>1. i + 1 \in 1 .. m /\ (i + 1) - 1 = i /\ i \in 0 .. m /\ i <= m
      BY <1>1
    <3>2. EndOf(items, i + 1) = EndOf(items, i) + items[i + 1].length + 7 /\ EndOf(items, i) \in Nat
          /\ items[i + 1].length \in Nat
      BY <1>2, <1>4, <3>1
    <3>3. i <= EndOf(items, i)
      BY <2>2, <3>1
    <3> QED
      BY <3>2, <3>3
  <2> HIDE DEF S
  <2>3. \A i \in Nat : i \in S
    BY <2>1, <2>2, FromZeroOn
  <2> QED
    BY <1>1, <2>3 DEF S
<1>10. ASSUME NEW i \in 1 .. m
       PROVE  W!Turn(b, At(items, i - 1)) = At(items, i)
  <2>1. i - 1 \in 0 .. m /\ i \in 0 .. m
    BY <1>1
  <2>2. EndOf(items, i) <= n /\ EndOf(items, i) \in Nat /\ EndOf(items, i - 1) \in Nat /\ items[i].length \in Nat
        /\ EndOf(items, i) = EndOf(items, i - 1) + items[i].length + 7
    BY <1>2, <1>4, <2>1
  <2>3. ~(EndOf(items, i - 1) + 6 > n) /\ ~(EndOf(items, i) > n)
    BY <1>3, <2>2
  <2> QED
    BY <1>6, <2>3
<1> DEFINE least(k) == IF k <= m THEN k ELSE m
           S == {k \in Nat : k <= n => u[k] = At(items, least(k))}
<1>11. 0 \in S
  BY <1>1, <1>5, <1>7
<1>12. ASSUME NEW k \in Nat, k \in S
       PROVE  k + 1 \in S
  <2> SUFFICES ASSUME k + 1 <= n
               PROVE  u[k + 1] = At(items, least(k + 1))
    OBVIOUS
  <2>1. k + 1 \in 1 .. n /\ (k + 1) - 1 = k /\ k <= n
    BY <1>3
  <2>2. u[k + 1] = W!Turn(b, At(items, least(k)))
    BY <1>5, <1>12, <2>1
  <2>3. CASE k + 1 <= m
    <3>1. k + 1 \in 1 .. m /\ least(k) = k /\ least(k + 1) = k + 1
      BY <1>1, <2>3
    <3> QED
      BY <1>10, <2>1, <2>2, <3>1
  <2>4. CASE ~(k + 1 <= m)
    <3>1. least(k) = m /\ least(k + 1) = m
      BY <1>1, <2>4
    <3> QED
      BY <1>8, <2>2, <3>1
  <2> QED
    BY <2>3, <2>4
<1> HIDE DEF S
<1>13. n \in S
  BY <1>3, <1>11, <1>12, FromZeroOn
<1>14. u[n] = At(items, m)
  <2>1. m \in 0 .. m
    BY <1>1
  <2>2. m <= n
    BY <1>1, <1>2, <1>3, <1>9, <2>1
  <2>3. least(n) = m
    BY <1>1, <1>3, <2>2
  <2> QED
    BY <1>3, <1>13, <2>3 DEF S
<1>15. SubSeq(w, 1, m) = w
  <2> DEFINE a == SubSeq(w, 1, m)
  <2>1. a \in Seq(Takes) /\ Len(a) = m - 1 + 1 /\ \A i \in 1 .. m - 1 + 1 : a[i] = w[1 + i - 1]
    BY <1>1, <1>4, PartOf
  <2>2. m - 1 + 1 = m /\ \A i \in 1 .. m : 1 + i - 1 = i
    BY <1>1
  <2> HIDE DEF a
  <2>3. Len(a) = m /\ \A i \in 1 .. m : a[i] = w[i]
    BY <2>1, <2>2
  <2>4. a = w
    BY <1>4, <2>1, <2>3, SeqEqual
  <2> QED
    BY <2>4 DEF a
<1>16. SubSeq(b, 1, 3) = <<64, 0, 4>>
  BY <1>2, <1>3, Opens DEF n
<1>17. W!Parsed(b) = u[n].items
  BY <1>3, <1>16 DEF W!Parsed, u, n
<1>18. u[n].items = w
  BY <1>14, <1>15 DEF At, w
<1>19. W!TlvIsValid(b)
  <2>1. m >= 1
    BY <1>1 DEF m
  <2>2. 1 \in 1 .. m /\ 1 \in 0 .. m /\ 1 - 1 = 0
    BY <1>1, <2>1
  <2>3. EndOf(items, 1) = EndOf(items, 0) + items[1].length + 7 /\ EndOf(items, 1) <= n /\ items[1].length \in Nat
    BY <1>2, <1>4, <2>2
  <2>4. n >= 5
    BY <1>2, <1>3, <2>3
  <2> QED
    BY <1>16, <2>4 DEF W!TlvIsValid, n
<1> QED
  BY <1>17, <1>18, <1>19 DEF b, w

\* The parser of a bundle that is cut has some first items of it, or an error.
LEMMA ParsedCut ==
  ASSUME NEW items \in Seq(Asks), NEW data \in Seq(Nat), Begins(data, W!Bundle(items))
  PROVE  \/ W!Parsed(data) = <<>> \/ W!Parsed(data) = <<W!ParseError>>
         \/ W!Parsed(data) = SubSeq(Values(items), 1, Len(W!Parsed(data)))
<1> DEFINE b == W!Bundle(items)
           m == Len(items)
           n == Len(data)
           u == W!Turns(data)
           w == Values(items)
<1>1. m \in Nat /\ n \in Nat
  OBVIOUS
<1>2. /\ EndOf(items, 0) = 3 /\ EndOf(items, m) = Len(b)
      /\ \A i \in 0 .. m : EndOf(items, i) \in Nat
  BY <1>1, BundleIs
<1>3. n <= Len(b)
  BY DEF Begins
<1>4. w \in Seq(Takes) /\ Len(w) = m
  BY <1>1, ValuesAre
<1>5. u[0] = Opened /\ \A k \in 1 .. n : u[k] = W!Turn(data, u[k - 1])
  BY <1>1, TurnsAre
<1>6. \A i \in 1 .. m : W!Turn(data, At(items, i - 1)) =
           IF EndOf(items, i - 1) + 6 > n THEN At(items, i - 1)
           ELSE IF EndOf(items, i) > n THEN Failed(data) ELSE At(items, i)
  BY TurnAt
<1>7. At(items, 0) = Opened
  <2>1. SubSeq(w, 1, 0) = <<>>
    BY <1>4
  <2> QED
    BY <1>2, <2>1 DEF At, Opened
<1>8. W!Turn(data, At(items, m)) = At(items, m)
  <2> DEFINE s == At(items, m)
  <2>1. s.pos = Len(b)
    BY <1>2 DEF At
  <2>2. Len(b) \in Nat
    <3>1. m \in 0 .. m
      BY <1>1
    <3> QED
      BY <1>2, <3>1
  <2>3. s.pos + 6 > Len(data)
    <3> HIDE DEF s, b
    <3> QED
      BY <1>1, <1>3, <2>1, <2>2
  <2> HIDE DEF s
  <2>4. W!Turn(data, s) = s
    BY <2>3, Stuck
  <2> QED
    BY <2>4 DEF s
<1>9. W!Turn(data, Failed(data)) = Failed(data)
  <2> DEFINE s == Failed(data)
  <2>1. s.pos = n
    BY FailedIs
  <2>2. s.pos + 6 > Len(data)
    BY <1>1, <2>1
  <2> HIDE DEF s
  <2>3. W!Turn(data, s) = s
    BY <2>2, Stuck
  <2> QED
    BY <2>3 DEF s
<1> HIDE DEF b, m, n, u, w
<1> DEFINE Good(s) == s = Failed(data) \/ \E i \in 0 .. m : s = At(items, i)
           S == {k \in Nat : k <= n => Good(u[k])}
<1>10. 0 \in S
  <2>1. 0 \in 0 .. m
    BY <1>1
  <2> QED
    BY <1>5, <1>7, <2>1
<1>11. ASSUME NEW s, Good(s)
       PROVE  Good(W!Turn(data, s))
  <2>1. CASE s = Failed(data)
    BY <1>9, <2>1
  <2>2. ASSUME NEW i \in 0 .. m, s = At(items, i)
        PROVE  Good(W!Turn(data, s))
    <3>1. CASE i = m
      BY <1>8, <2>2, <3>1
    <3>2. CASE i # m
      <4>1. i + 1 \in 1 .. m /\ i + 1 \in 0 .. m /\ (i + 1) - 1 = i
        BY <1>1, <3>2
      <4>2. W!Turn(data, s) \in {At(items, i), Failed(data), At(items, i + 1)}
        BY <1>6, <2>2, <4>1
      <4> QED
        BY <4>1, <4>2
    <3> QED
      BY <3>1, <3>2
  <2> QED
    BY <1>11, <2>1, <2>2
<1>12. ASSUME NEW k \in Nat, k \in S
       PROVE  k + 1 \in S
  <2> SUFFICES ASSUME k + 1 <= n
               PROVE  Good(u[k + 1])
    OBVIOUS
  <2>1. k + 1 \in 1 .. n /\ (k + 1) - 1 = k /\ k <= n
    BY <1>1
  <2>2. u[k + 1] = W!Turn(data, u[k])
    BY <1>5, <2>1
  <2>3. Good(u[k])
    BY <1>12, <2>1
  <2> HIDE DEF Good
  <2> QED
    BY <1>11, <2>2, <2>3
<1> HIDE DEF S
<1>13. n \in S
  BY <1>1, <1>10, <1>12, FromZeroOn
<1>14. Good(u[n])
  BY <1>1, <1>13 DEF S
<1>15. W!Parsed(data) = <<>> \/ W!Parsed(data) = u[n].items
  BY DEF W!Parsed, u, n
<1>16. CASE u[n] = Failed(data)
  <2>1. u[n].items = <<W!ParseError>>
    BY <1>16 DEF Failed
  <2> QED
    BY <1>15, <2>1
<1>17. ASSUME NEW i \in 0 .. m, u[n] = At(items, i)
       PROVE  W!Parsed(data) = <<>> \/ W!Parsed(data) = SubSeq(w, 1, Len(W!Parsed(data)))
  <2> DEFINE a == SubSeq(w, 1, i)
  <2>1. u[n].items = a
    BY <1>17 DEF At, w
  <2>2. Len(a) = i
    <3>1. i \in Nat /\ 1 <= i + 1 /\ i <= Len(w) /\ i - 1 + 1 = i
      BY <1>1, <1>4
    <3>2. Len(a) = i - 1 + 1
      BY <1>4, <3>1, PartOf
    <3> QED
      BY <3>1, <3>2
  <2>3. a = SubSeq(w, 1, Len(a))
    BY <2>2, Zenon
  <2> HIDE DEF a
  <2> QED
    BY <1>15, <2>1, <2>3
<1> QED
  BY <1>14, <1>16, <1>17 DEF w

\* The bytes of a section in a request.
SectionBytes(section, slave) == <<0, slave>> \o W!Half(section[1]) \o W!Half(2 * section[2])

\* Six bytes: the slave, and the section's two words.
Six(e, a, x, y) ==
  /\ e \in Seq(Nat) /\ Len(e) = 6 /\ e[2] = a
  /\ W!Joined(e[3], e[4]) = x /\ W!Joined(e[5], e[6]) = y

\* The bytes of a section are such six.
LEMMA SectionIs ==
  ASSUME NEW section \in Nat \X Nat, NEW slave \in Nat
  PROVE  Six(SectionBytes(section, slave), slave, section[1], 2 * section[2])
<1> DEFINE x == section[1]
           y == 2 * section[2]
           a == <<0, slave>>
           h == W!Half(x)
           l == W!Half(y)
           s == a \o h
           t == s \o l
<1>1. x \in Nat /\ y \in Nat
  OBVIOUS
<1>2. a \in Seq(Nat) /\ Len(a) = 2 /\ a[2] = slave
  OBVIOUS
<1> HIDE DEF x, y
<1>3. h \in Seq(Nat) /\ l \in Seq(Nat) /\ Len(h) = 2 /\ Len(l) = 2 /\ h[1] = x \div 256 /\ h[2] = x % 256
      /\ l[1] = y \div 256 /\ l[2] = y % 256
      /\ W!Joined(x \div 256, x % 256) = x /\ W!Joined(y \div 256, y % 256) = y
  <2>1. Halves(h, x) /\ Halves(l, y)
    BY <1>1, HalvesJoin
  <2> HIDE DEF h, l
  <2> QED
    BY <2>1 DEF Halves
<1> HIDE DEF a, h, l
<1>4. Keeps(s, a, h, 2, 2)
  BY <1>2, <1>3, Joint
<1> HIDE DEF s
<1>5. s \in Seq(Nat) /\ Len(s) = 4 /\ s[2] = slave /\ s[3] = h[1] /\ s[4] = h[2]
  BY <1>2, <1>4 DEF Keeps
<1>6. Keeps(t, s, l, 4, 2)
  BY <1>3, <1>5, Joint
<1> HIDE DEF t
<1>7. t \in Seq(Nat) /\ Len(t) = 6 /\ t[2] = s[2] /\ t[3] = s[3] /\ t[4] = s[4] /\ t[5] = l[1] /\ t[6] = l[2]
  BY <1>6 DEF Keeps
<1>8. Six(t, slave, x, y)
  BY <1>3, <1>5, <1>7 DEF Six
<1>9. SectionBytes(section, slave) = t
  BY DEF SectionBytes, t, s, a, h, l, x, y
<1> QED
  BY <1>8, <1>9 DEF x, y

\* A request whose seventh byte is the length of what follows.
Leads(request, n, inner) == request[7] = n /\ \A k \in 1 .. n : request[7 + k] = inner[k]

\* The head of a request, the seventh byte of it the length of what follows.
LEMMA RequestHead ==
  ASSUME NEW inner \in Seq(Nat), NEW n \in Nat, Len(inner) = n
  PROVE  Leads(W!Framed(<<0, 16, 82, 8>> \o W!Half(n \div 2) \o <<n>> \o inner), n, inner)
<1> DEFINE m == <<0, 16, 82, 8>>
           h == W!Half(n \div 2)
           a == m \o h
           e == <<n>>
           c == a \o e
           d == c \o inner
<1>1. m \in Seq(Nat) /\ Len(m) = 4 /\ e \in Seq(Nat) /\ Len(e) = 1 /\ e[1] = n
  OBVIOUS
<1>2. h \in Seq(Nat) /\ Len(h) = 2
  <2>1. n \div 2 \in Nat
    OBVIOUS
  <2>2. Halves(h, n \div 2)
    BY <2>1, HalvesJoin
  <2> QED
    BY <2>2 DEF Halves
<1> HIDE DEF m, h, e
<1>3. Keeps(a, m, h, 4, 2)
  BY <1>1, <1>2, Joint
<1> HIDE DEF a
<1>4. a \in Seq(Nat) /\ Len(a) = 6
  BY <1>3 DEF Keeps
<1>5. Keeps(c, a, e, 6, 1)
  BY <1>1, <1>4, Joint
<1> HIDE DEF c
<1>6. c \in Seq(Nat) /\ Len(c) = 7 /\ c[7] = n
  BY <1>1, <1>5 DEF Keeps
<1>7. Keeps(d, c, inner, 7, n)
  BY <1>6, Joint
<1> HIDE DEF d
<1>8. d \in Seq(Nat) /\ Len(d) = 7 + n /\ d[7] = n /\ \A k \in 1 .. n : d[7 + k] = inner[k]
  BY <1>6, <1>7 DEF Keeps
<1>9. \A i \in 1 .. 7 + n : W!Framed(d)[i] = d[i]
  BY <1>8, FramedIs
<1>10. 7 \in 1 .. 7 + n /\ \A k \in 1 .. n : 7 + k \in 1 .. 7 + n
  OBVIOUS
<1>11. Leads(W!Framed(d), n, inner)
  BY <1>8, <1>9, <1>10 DEF Leads
<1> QED
  BY <1>11 DEF d, c, a, m, h, e

\* The device reads from a request the sections that were put in it, in bytes.
LEMMA AskedIs ==
  ASSUME NEW n \in Nat, NEW slave \in Nat, NEW sections \in [1 .. n -> Nat \X Nat]
  PROVE  W!Asked(W!build_tlv_read_payload(sections, slave)) =
           [i \in 1 .. n |-> [slave |-> slave, reg |-> sections[i][1], length |-> 2 * sections[i][2]]]
<1> DEFINE s == [i \in 1 .. n |-> SectionBytes(sections[i], slave)]
           f == W!Flatten(s)
           m == <<156, 69, 1, 1>>
           inner == m \o f
           size(i) == Len(W!Upto(s)[i])
           request == W!build_tlv_read_payload(sections, slave)
<1>1. \A i \in 1 .. n : Six(s[i], slave, sections[i][1], 2 * sections[i][2])
  <2>1. \A i \in 1 .. n : sections[i] \in Nat \X Nat
    OBVIOUS
  <2> QED
    BY <2>1, SectionIs
<1>2. s \in Seq(Seq(Nat)) /\ Len(s) = n /\ \A i \in 1 .. n : Len(s[i]) = 6
  <2>1. \A i \in 1 .. n : s[i] \in Seq(Nat) /\ Len(s[i]) = 6
    BY <1>1 DEF Six
  <2>2. s \in [1 .. n -> Seq(Nat)]
    BY <2>1
  <2> HIDE DEF s
  <2> QED
    BY <2>1, <2>2
<1>3. request = W!Framed(<<0, 16, 82, 8>> \o W!Half(Len(inner) \div 2) \o <<Len(inner)>> \o inner)
  <2>1. DOMAIN sections = 1 .. n
    OBVIOUS
  <2> QED
    BY <2>1, Zenon DEF W!build_tlv_read_payload, SectionBytes
<1> HIDE DEF s, request
<1>4. \A i \in 0 .. n : W!Upto(s)[i] \in Seq(Nat)
  BY <1>2, UptoIs
<1>5. f \in Seq(Nat) /\ size(0) = 0 /\ size(n) = Len(f) /\ \A i \in 0 .. n : size(i) \in Nat
  <2>1. W!Upto(s)[0] = <<>>
    BY <1>2, UptoIs
  <2>2. n \in 0 .. n
    OBVIOUS
  <2>3. f = W!Upto(s)[n]
    BY <1>2 DEF W!Flatten
  <2>4. \A i \in 0 .. n : size(i) \in Nat
    BY <1>4, LenProperties
  <2> QED
    BY <1>4, <2>1, <2>2, <2>3, <2>4
<1>6. \A i \in 1 .. n : size(i) = size(i - 1) + 6 /\ \A k \in 1 .. 6 : f[size(i - 1) + k] = s[i][k]
  <2>1. \A i \in 1 .. n : size(i) = size(i - 1) + Len(s[i]) /\ \A k \in 1 .. Len(s[i]) : f[size(i - 1) + k] = s[i][k]
    BY <1>2, FlattenAt
  <2> HIDE DEF f, size
  <2> QED
    BY <1>2, <2>1
<1> HIDE DEF f, size
<1>7. \A i \in 0 .. n : size(i) = 6 * i
  <2> DEFINE S == {i \in Nat : i <= n => size(i) = 6 * i}
  <2>1. 0 \in S
    BY <1>5
  <2>2. ASSUME NEW i \in Nat, i \in S
        PROVE  i + 1 \in S
    <3> SUFFICES ASSUME i + 1 <= n
                 PROVE  size(i + 1) = 6 * (i + 1)
      OBVIOUS
    <3>1. i + 1 \in 1 .. n /\ (i + 1) - 1 = i /\ i <= n
      OBVIOUS
    <3>2. size(i + 1) = size(i) + 6 /\ size(i) = 6 * i
      BY <1>6, <2>2, <3>1
    <3> QED
      BY <3>2
  <2> HIDE DEF S
  <2>3. \A i \in Nat : i \in S
    BY <2>1, <2>2, FromZeroOn
  <2> QED
    BY <2>3 DEF S
<1>8. Len(f) = 6 * n
  BY <1>5, <1>7
<1>9. inner \in Seq(Nat) /\ Len(inner) = 4 + 6 * n /\ \A k \in 1 .. 6 * n : inner[4 + k] = f[k]
  <2>1. m \in Seq(Nat) /\ Len(m) = 4
    OBVIOUS
  <2> HIDE DEF m
  <2>2. PICK q \in Nat : q = 6 * n
    OBVIOUS
  <2>3. Keeps(m \o f, m, f, 4, q)
    BY <1>5, <1>8, <2>1, <2>2, Joint
  <2> QED
    BY <2>2, <2>3 DEF Keeps
<1> HIDE DEF inner, m
<1>10. request[7] = 4 + 6 * n /\ \A k \in 1 .. 4 + 6 * n : request[7 + k] = inner[k]
  <2> DEFINE q == Len(inner)
  <2>1. q \in Nat /\ q = 4 + 6 * n
    BY <1>9
  <2> HIDE DEF q
  <2>2. request = W!Framed(<<0, 16, 82, 8>> \o W!Half(q \div 2) \o <<q>> \o inner)
    BY <1>3 DEF q
  <2>3. inner \in Seq(Nat) /\ Len(inner) = q
    BY <1>9 DEF q
  <2>4. Leads(request, q, inner)
    BY <2>1, <2>2, <2>3, RequestHead
  <2> QED
    BY <2>1, <2>4 DEF Leads
<1>11. ASSUME NEW i \in 1 .. n
       PROVE  [slave |-> request[11 + 6 * (i - 1) + 2],
               reg |-> W!Joined(request[11 + 6 * (i - 1) + 3], request[11 + 6 * (i - 1) + 4]),
               length |-> W!Joined(request[11 + 6 * (i - 1) + 5], request[11 + 6 * (i - 1) + 6])]
              = [slave |-> slave, reg |-> sections[i][1], length |-> 2 * sections[i][2]]
  <2>1. PICK p \in Nat : p = 6 * (i - 1)
    OBVIOUS
  <2>2. p + 6 <= 6 * n /\ i - 1 \in 0 .. n
    BY <2>1
  <2>3. size(i - 1) = p
    BY <1>7, <2>1, <2>2
  <2>4. ASSUME NEW k \in 1 .. 6
        PROVE  request[11 + p + k] = s[i][k]
    <3>1. 4 + (p + k) \in 1 .. 4 + 6 * n /\ p + k \in 1 .. 6 * n /\ 7 + (4 + (p + k)) = 11 + p + k
      BY <2>2
    <3>2. request[7 + (4 + (p + k))] = inner[4 + (p + k)]
      BY <1>10, <3>1
    <3>3. inner[4 + (p + k)] = f[p + k]
      BY <1>9, <3>1
    <3>4. f[p + k] = s[i][k]
      BY <1>6, <2>3
    <3> QED
      BY <3>1, <3>2, <3>3, <3>4
  <2>5. request[11 + p + 2] = s[i][2] /\ request[11 + p + 3] = s[i][3] /\ request[11 + p + 4] = s[i][4]
        /\ request[11 + p + 5] = s[i][5] /\ request[11 + p + 6] = s[i][6]
    <3>1. 2 \in 1 .. 6 /\ 3 \in 1 .. 6 /\ 4 \in 1 .. 6 /\ 5 \in 1 .. 6 /\ 6 \in 1 .. 6
      OBVIOUS
    <3> QED
      BY <2>4, <3>1
  <2>6. Six(s[i], slave, sections[i][1], 2 * sections[i][2])
    BY <1>1
  <2>7. request[11 + p + 2] = slave /\ W!Joined(request[11 + p + 3], request[11 + p + 4]) = sections[i][1]
        /\ W!Joined(request[11 + p + 5], request[11 + p + 6]) = 2 * sections[i][2]
    BY <2>5, <2>6 DEF Six
  <2> QED
    BY <2>1, <2>7
<1>12. ((4 + 6 * n) - 4) \div 6 = n
  OBVIOUS
<1> QED
  BY <1>10, <1>11, <1>12 DEF W!Asked, request

\* A response is a frame, whole or hit by a burst, or a bundle.
Hurt(data) ==
  \E shape \in SUBSET (0 .. 15), start \in Nat :
    /\ shape # {}
    /\ \A b \in {start + k : k \in shape} : b < 8 * Len(W!Framed(data))
    /\ response = W!Flipped(W!Framed(data), {start + k : k \in shape})

\* All of a response has come, unless its end was lost.
Came ==
  \/ damage \in {"none", "burst"} /\ heard = W!Airborne(Len(response))
  \/ damage = "cut" /\ heard < W!Airborne(Len(response))

\* The answer to a plain read: the size that is awaited, and a frame, or one that was hit.
AnsweredPlain ==
  /\ response \in Seq(Nat) /\ awaited = Len(response)
  /\ \E data \in Seq(Nat) : /\ data # <<>>
                            /\ \/ damage # "burst" /\ response = W!Framed(data)
                               \/ damage = "burst" /\ ~session /\ Hurt(data)

\* The answer to a bundle.
AnsweredBundle == asked \in Seq(Asks) /\ response = W!Bundle(asked) /\ damage # "burst"

\* The invariant: a response is what was asked for, whole, damaged or short of its end.
Answered ==
  /\ awaited \in Nat /\ session \in BOOLEAN /\ heard \in Nat /\ Came
  /\ IF W!Plain THEN AnsweredPlain ELSE AnsweredBundle

\* The bytes of a frame in the air are a number.
LEMMA AirborneNat ==
  ASSUME NEW n \in Nat, session \in BOOLEAN
  PROVE  W!Airborne(n) \in Nat /\ W!Enciphered(n) \in Nat
<1>1. PICK k \in Nat : k = (n + 15) \div 16
  OBVIOUS
<1>2. W!Enciphered(n) = 6 + 16 * k
  BY <1>1 DEF W!Enciphered
<1> QED
  BY <1>1, <1>2 DEF W!Airborne

\* The first bytes of a response begin it; all of them are it.
LEMMA FirstBytes ==
  ASSUME NEW r \in Seq(Nat), NEW n \in Nat, n <= Len(r)
  PROVE  /\ SubSeq(r, 1, n) \in Seq(Nat) /\ Begins(SubSeq(r, 1, n), r)
         /\ n = Len(r) => SubSeq(r, 1, n) = r
<1> DEFINE s == SubSeq(r, 1, n)
<1>1. Len(r) \in Nat
  OBVIOUS
<1>2. 1 <= n + 1 /\ n - 1 + 1 = n /\ \A i \in 1 .. n : 1 + i - 1 = i
  BY <1>1
<1>3. s \in Seq(Nat) /\ Len(s) = n - 1 + 1 /\ \A i \in 1 .. n - 1 + 1 : s[i] = r[1 + i - 1]
  BY <1>2, PartOf
<1>4. s \in Seq(Nat) /\ Len(s) = n /\ \A i \in 1 .. n : s[i] = r[i]
  BY <1>2, <1>3
<1> HIDE DEF s
<1>5. s \in Seq(Nat) /\ Begins(s, r)
  BY <1>4 DEF Begins
<1>6. ASSUME n = Len(r)
      PROVE  s = r
  BY <1>4, <1>6
<1> QED
  BY <1>5, <1>6 DEF s

\* What the constants hold, as numbers.
LEMMA FramesAre ==
  /\ \A p \in Payloads : p \in Seq(Nat) /\ Len(p) \in Nat
  /\ \A shape \in Bursts : shape \in SUBSET (0 .. 15) /\ shape # {}
  /\ Sections \subseteq Nat \X Nat /\ Most \in Nat /\ Slaves \subseteq Nat
<1>1. /\ \A p \in Payloads : p \in Seq(0 .. 255)
      /\ \A shape \in Bursts : shape \subseteq 0 .. 15 /\ shape # {}
      /\ Sections \subseteq (0 .. 256 * 256 - 1) \X (0 .. 128 * 256 - 1)
      /\ Most \in 1 .. 41 /\ Slaves \subseteq 0 .. 255
  BY FramesHere, Zenon DEF W!FramesAssumption
<1>2. ASSUME NEW p \in Payloads
      PROVE  p \in Seq(Nat) /\ Len(p) \in Nat
  <2>1. p \in Seq(0 .. 255)
    BY <1>1, Zenon
  <2> DEFINE byte == 0 .. 255
  <2>2. p \in Seq(byte) /\ byte \subseteq Nat
    BY <2>1
  <2> HIDE DEF byte
  <2>3. Len(p) \in Nat /\ p \in [1 .. Len(p) -> byte]
    BY <2>2, LenProperties
  <2>4. p \in [1 .. Len(p) -> Nat]
    BY <2>2, <2>3
  <2> QED
    BY <2>3, <2>4
<1>3. Sections \subseteq Nat \X Nat
  <2> DEFINE A == 0 .. 256 * 256 - 1
             B == 0 .. 128 * 256 - 1
  <2>1. A \subseteq Nat /\ B \subseteq Nat
    OBVIOUS
  <2>2. Sections \subseteq A \X B
    BY <1>1, Zenon
  <2> HIDE DEF A, B
  <2> QED
    BY <2>1, <2>2
<1>4. Most \in Nat /\ Slaves \subseteq Nat
  <2>1. Most \in 1 .. 41 /\ Slaves \subseteq 0 .. 255
    BY <1>1, Zenon
  <2> QED
    BY <2>1
<1>5. \A shape \in Bursts : shape \in SUBSET (0 .. 15) /\ shape # {}
  BY <1>1, Zenon
<1> QED
  BY <1>2, <1>3, <1>4, <1>5, Zenon

\* The size awaited of a bundle is a number.
LEMMA SizeNat ==
  ASSUME NEW items \in Seq(Asks)
  PROVE  W!SizeOfBundle(items) \in Nat
<1> DEFINE n == Len(items)
           s == [i \in 1 .. n |-> W!Value(items[i])]
<1>1. n \in Nat /\ DOMAIN items = 1 .. n
  OBVIOUS
<1>2. \A i \in 1 .. n : W!Value(items[i]) \in Seq(Nat)
  BY <1>1, ValuesAre
<1> HIDE DEF n
<1>3. s \in [1 .. n -> Seq(Nat)]
  BY <1>2
<1>4. s \in Seq(Seq(Nat)) /\ Len(s) = n
  BY <1>1, <1>3
<1>5. W!SizeOfBundle(items) = Len(W!Flatten(s)) + 32
  BY <1>1, Zenon DEF W!SizeOfBundle
<1> HIDE DEF s
<1>6. W!Flatten(s) \in Seq(Nat)
  <2>1. n \in 0 .. n
    BY <1>1
  <2> QED
    BY <1>4, <2>1, UptoIs DEF W!Flatten
<1>7. Len(W!Flatten(s)) \in Nat
  BY <1>6, LenProperties
<1> QED
  BY <1>5, <1>7

\* A response is a frame or a bundle, nothing is taken.
LEMMA WireInit ==
  ASSUME W!Init
  PROVE  Answered /\ W!ResponseSound
<1>1. result = <<>> /\ damage = "none" /\ session \in BOOLEAN /\ heard = W!Airborne(Len(response))
  BY DEF W!Init
<1>2. W!ResponseSound
  BY <1>1 DEF W!ResponseSound
<1>3. Slaves \subseteq Nat
  BY FramesAre
<1>4. ASSUME response \in Seq(Nat), awaited \in Nat
      PROVE  Came /\ heard \in Nat
  <2>1. Len(response) \in Nat
    BY <1>4, LenProperties
  <2> QED
    BY <1>1, <2>1, AirborneNat DEF Came
<1>5. ASSUME asked = <<>>, NEW p \in Payloads, NEW s \in Slaves,
             response = W!Framed(<<s, 3, Len(p)>> \o p), awaited = Len(p) + 5
      PROVE  Answered
  <2>2. p \in Seq(Nat) /\ Len(p) \in Nat
    BY FramesAre
  <2> DEFINE h == <<s, 3, Len(p)>>
             n == Len(p)
             data == h \o p
  <2>3. h \in Seq(Nat) /\ Len(h) = 3
    BY <1>3, <2>2
  <2> HIDE DEF h
  <2>4. Keeps(data, h, p, 3, n)
    BY <2>2, <2>3, Joint
  <2>5. n \in Nat
    BY <2>2
  <2>6. response = W!Framed(data) /\ awaited = n + 5
    BY <1>5 DEF h
  <2> HIDE DEF data, n
  <2>7. data \in Seq(Nat) /\ data # <<>> /\ Len(data) = 3 + n
    BY <2>4, <2>5 DEF Keeps
  <2>8. response \in Seq(Nat) /\ Len(response) = Len(data) + 2
    BY <2>6, <2>7, FramedIs
  <2>9. awaited \in Nat /\ awaited = Len(response)
    BY <2>5, <2>6, <2>7, <2>8
  <2>10. AnsweredPlain
    BY <1>1, <2>6, <2>7, <2>8, <2>9 DEF AnsweredPlain
  <2>11. W!Plain
    BY <1>5 DEF W!Plain
  <2> QED
    BY <1>1, <1>4, <2>8, <2>9, <2>10, <2>11 DEF Answered
<1>6. ASSUME NEW n \in 1 .. Most, NEW s \in Slaves, NEW sections \in [1 .. n -> Sections],
             asked = W!Asked(W!build_tlv_read_payload(sections, s)), response = W!Bundle(asked),
             awaited = W!SizeOfBundle(asked)
      PROVE  Answered
  <2>1. n \in Nat /\ n >= 1
    BY FramesAre
  <2>2. sections \in [1 .. n -> Nat \X Nat] /\ s \in Nat
    <3>1. Sections \subseteq Nat \X Nat
      BY FramesAre
    <3> QED
      BY <1>3, <3>1
  <2> DEFINE ask(i) == [slave |-> s, reg |-> sections[i][1], length |-> 2 * sections[i][2]]
  <2>3. asked = [i \in 1 .. n |-> ask(i)]
    BY <1>6, <2>1, <2>2, AskedIs
  <2>4. \A i \in 1 .. n : ask(i) \in Asks
    <3>1. \A i \in 1 .. n : sections[i][1] \in Nat /\ sections[i][2] \in Nat
      BY <2>2
    <3>2. \A i \in 1 .. n : 2 * sections[i][2] \in Nat
      BY <3>1
    <3> QED
      BY <2>2, <3>1, <3>2 DEF Asks
  <2> HIDE DEF ask
  <2>5. asked \in [1 .. n -> Asks]
    BY <2>3, <2>4
  <2>6. asked \in Seq(Asks) /\ Len(asked) = n
    BY <2>1, <2>5
  <2>7. ~W!Plain
    BY <2>1, <2>6 DEF W!Plain
  <2>8. response \in Seq(Nat)
    BY <1>6, <2>1, <2>6, BundleIs
  <2>9. awaited \in Nat
    BY <1>6, <2>6, SizeNat
  <2>10. AnsweredBundle
    BY <1>1, <1>6, <2>6 DEF AnsweredBundle
  <2> QED
    BY <1>1, <1>4, <2>7, <2>8, <2>9, <2>10 DEF Answered
<1> QED
  BY <1>2, <1>5, <1>6 DEF W!Init

\* A burst hits the frame.
LEMMA WireBurst ==
  ASSUME Answered, W!ResponseSound, W!Burst
  PROVE  Answered' /\ W!ResponseSound'
<1>1. /\ asked' = asked /\ awaited' = awaited /\ session' = session /\ heard' = heard
      /\ result' = result /\ result = <<>> /\ damage = "none" /\ damage' = "burst" /\ W!Plain /\ ~session
  BY DEF W!Burst
<1>2. AnsweredPlain
  BY <1>1 DEF Answered
<1>3. PICK data \in Seq(Nat) : data # <<>> /\ response = W!Framed(data)
  BY <1>1, <1>2 DEF AnsweredPlain
<1> DEFINE f == W!Framed(data)
<1>4. PICK shape \in Bursts, start \in 0 .. 8 * Len(response) - 1 :
        /\ \A b \in {start + k : k \in shape} : b < 8 * Len(response)
        /\ response' = W!Flipped(response, {start + k : k \in shape})
  BY DEF W!Burst
<1>5. shape \in SUBSET (0 .. 15) /\ shape # {} /\ start \in Nat
  <2>1. shape \in SUBSET (0 .. 15) /\ shape # {}
    BY FramesAre
  <2> QED
    BY <2>1
<1>6. /\ \A b \in {start + k : k \in shape} : b < 8 * Len(f)
      /\ response' = W!Flipped(f, {start + k : k \in shape})
  BY <1>3, <1>4, Zenon
<1>7. Hurt(data)'
  BY <1>5, <1>6 DEF Hurt
<1>8. response' \in Seq(Nat) /\ Len(response') = Len(response)
  <2> DEFINE bits == {start + k : k \in shape}
  <2>1. bits = {start + k : k \in shape}
    OBVIOUS
  <2>2. (\A b \in bits : b < 8 * Len(W!Framed(data))) /\ response' = W!Flipped(W!Framed(data), bits)
    BY <1>6
  <2> HIDE DEF bits
  <2>3. W!Flipped(W!Framed(data), bits) \in Seq(Nat) /\ Len(W!Flipped(W!Framed(data), bits)) = Len(W!Framed(data))
    BY <1>3, <1>5, <2>1, <2>2, FrameHit
  <2> QED
    BY <1>3, <2>2, <2>3
<1>9. AnsweredPlain'
  <2>1. awaited' = Len(response') /\ response' \in Seq(Nat)
    BY <1>1, <1>2, <1>8 DEF AnsweredPlain
  <2> QED
    BY <1>1, <1>3, <1>7, <2>1 DEF AnsweredPlain
<1>10. Came'
  <2>1. heard = W!Airborne(Len(response))
    BY <1>1 DEF Answered, Came
  <2>2. W!Airborne(Len(response))' = W!Airborne(Len(response))
    BY <1>1, <1>8 DEF W!Airborne
  <2> QED
    BY <1>1, <2>1, <2>2 DEF Came
<1>11. W!Plain' /\ W!ResponseSound'
  BY <1>1 DEF W!Plain, W!ResponseSound
<1>12. awaited' \in Nat /\ session' \in BOOLEAN /\ heard' \in Nat
  BY <1>1 DEF Answered
<1> QED
  BY <1>9, <1>10, <1>11, <1>12 DEF Answered

\* The end of a response is lost.
LEMMA WireCut ==
  ASSUME Answered, W!ResponseSound, W!Cut
  PROVE  Answered' /\ W!ResponseSound'
<1>1. /\ asked' = asked /\ awaited' = awaited /\ session' = session /\ response' = response
      /\ result' = result /\ result = <<>> /\ damage = "none" /\ damage' = "cut"
  BY DEF W!Cut
<1>2. heard \in Nat /\ heard = W!Airborne(Len(response))
  BY <1>1 DEF Answered, Came
<1>3. heard' \in 0 .. heard - 1
  BY DEF W!Cut
<1>4. heard' \in Nat /\ heard' < heard
  BY <1>2, <1>3
<1>5. Came'
  <2>1. W!Airborne(Len(response))' = W!Airborne(Len(response))
    BY <1>1 DEF W!Airborne
  <2> QED
    BY <1>1, <1>2, <1>4, <2>1 DEF Came
<1>6. (W!Plain' <=> W!Plain) /\ W!ResponseSound'
  BY <1>1 DEF W!Plain, W!ResponseSound
<1>7. CASE W!Plain
  <2>1. AnsweredPlain
    BY <1>7 DEF Answered
  <2>2. AnsweredPlain'
    BY <1>1, <2>1 DEF AnsweredPlain
  <2> QED
    BY <1>1, <1>4, <1>5, <1>6, <1>7, <2>2 DEF Answered
<1>8. CASE ~W!Plain
  <2>1. AnsweredBundle
    BY <1>8 DEF Answered
  <2>2. AnsweredBundle'
    BY <1>1, <2>1 DEF AnsweredBundle
  <2> QED
    BY <1>1, <1>4, <1>5, <1>6, <1>8, <2>2 DEF Answered
<1> QED
  BY <1>7, <1>8

\* What the client makes of the answer to a plain read.
LEMMA PlainTaken ==
  ASSUME Answered, W!Plain, W!Receive
  PROVE  (result'[1] = "taken") <=> (damage = "none")
<1>1. AnsweredPlain /\ Came /\ awaited \in Nat /\ session \in BOOLEAN /\ heard \in Nat
  BY DEF Answered
<1>2. response \in Seq(Nat) /\ awaited = Len(response)
  BY <1>1 DEF AnsweredPlain
<1>3. W!Airborne(awaited) \in Nat /\ W!Enciphered(awaited) \in Nat
  BY <1>1, AirborneNat
<1>4. W!Decodes
  BY <1>2, <1>3 DEF W!Decodes
<1>5. W!Got = response
  <2>1. SubSeq(response, 1, awaited) = response
    BY <1>1, <1>2, FirstBytes
  <2> QED
    BY <2>1 DEF W!Got
<1>6. W!IsValid(W!Got) <=> W!is_valid_response(response)
  BY <1>5 DEF W!IsValid
<1>7. CASE damage = "none"
  <2>1. PICK data \in Seq(Nat) : data # <<>> /\ response = W!Framed(data)
    BY <1>1, <1>7 DEF AnsweredPlain
  <2>2. W!is_valid_response(response)
    BY <2>1, FrameValid
  <2>3. ~(heard < W!Airborne(awaited))
    BY <1>1, <1>2, <1>3, <1>7 DEF Came
  <2>4. result' = <<"taken", W!parse_response(W!Got)>>
    BY <1>4, <1>6, <2>2, <2>3 DEF W!Receive
  <2> QED
    BY <1>7, <2>4
<1>8. CASE damage = "burst"
  <2>1. PICK data \in Seq(Nat) : data # <<>> /\ Hurt(data)
    BY <1>1, <1>8 DEF AnsweredPlain
  <2>2. PICK shape \in SUBSET (0 .. 15), start \in Nat :
          /\ shape # {}
          /\ \A b \in {start + k : k \in shape} : b < 8 * Len(W!Framed(data))
          /\ response = W!Flipped(W!Framed(data), {start + k : k \in shape})
    BY <2>1 DEF Hurt
  <2> DEFINE bits == {start + k : k \in shape}
  <2>3. bits = {start + k : k \in shape}
    OBVIOUS
  <2>4. (\A b \in bits : b < 8 * Len(W!Framed(data))) /\ response = W!Flipped(W!Framed(data), bits)
    BY <2>2
  <2> HIDE DEF bits
  <2>5. ~W!is_valid_response(W!Flipped(W!Framed(data), bits))
    BY <2>1, <2>2, <2>3, <2>4, FrameHit
  <2>6. ~W!is_valid_response(response)
    BY <2>4, <2>5, Zenon
  <2>7. result' = <<"waits", <<>>>> \/ result' = <<"refused", <<>>>>
    BY <1>6, <2>6 DEF W!Receive
  <2> QED
    BY <1>8, <2>7
<1>9. CASE damage = "cut"
  <2>1. heard < W!Airborne(awaited)
    BY <1>1, <1>2, <1>9 DEF Came
  <2>2. result' = <<"waits", <<>>>>
    BY <2>1 DEF W!Receive
  <2> QED
    BY <1>9, <2>2
<1> QED
  BY <1>1, <1>7, <1>8, <1>9 DEF Came

\* What the parser makes of a bundle that is taken.
LEMMA BundleTaken ==
  ASSUME Answered, ~W!Plain, W!Receive, result'[1] = "taken"
  PROVE  IF session THEN result'[2] = W!Whole
         ELSE \/ result'[2] = <<W!ParseError>>
              \/ result'[2] = SubSeq(W!Whole, 1, Len(result'[2]))
<1>1. AnsweredBundle /\ Came /\ awaited \in Nat /\ session \in BOOLEAN /\ heard \in Nat
  BY DEF Answered
<1>2. asked \in Seq(Asks) /\ asked # <<>> /\ response = W!Bundle(asked)
  BY <1>1 DEF AnsweredBundle, W!Plain
<1>3. W!Whole = Values(asked)
  <2>1. DOMAIN asked = 1 .. Len(asked)
    BY <1>2
  <2> QED
    BY <2>1, Zenon DEF W!Whole, Values
<1>4. ~(heard < W!Airborne(awaited)) /\ result' = <<"taken", W!Parsed(W!Got)>>
  BY DEF W!Receive
<1>5. result'[2] = W!Parsed(W!Got)
  BY <1>4
<1>6. CASE session
  <2>1. W!Got = W!Bundle(asked)
    BY <1>2, <1>6 DEF W!Got
  <2>2. W!Parsed(W!Bundle(asked)) = Values(asked)
    BY <1>2, ParsedWhole
  <2> QED
    BY <1>3, <1>5, <1>6, <2>1, <2>2
<1>7. CASE ~session
  <2>1. response \in Seq(Nat)
    <3>1. Len(asked) \in Nat
      BY <1>2
    <3> QED
      BY <1>2, <3>1, BundleIs
  <2>2. Len(response) \in Nat
    BY <2>1, LenProperties
  <2>3. heard <= Len(response) /\ ~(heard < awaited)
    BY <1>1, <1>4, <1>7, <2>2 DEF Came, W!Airborne
  <2>4. awaited <= Len(response)
    BY <1>1, <2>2, <2>3
  <2>5. W!Got = SubSeq(response, 1, awaited)
    BY <1>7 DEF W!Got
  <2>6. W!Got \in Seq(Nat) /\ Begins(W!Got, W!Bundle(asked))
    BY <1>1, <1>2, <2>1, <2>4, <2>5, FirstBytes
  <2>7. \/ W!Parsed(W!Got) = <<>> \/ W!Parsed(W!Got) = <<W!ParseError>>
        \/ W!Parsed(W!Got) = SubSeq(Values(asked), 1, Len(W!Parsed(W!Got)))
    BY <1>2, <2>6, ParsedCut
  <2>8. SubSeq(Values(asked), 1, 0) = <<>> /\ Len(<<>>) = 0
    <3>1. Len(asked) \in Nat
      BY <1>2
    <3>2. Values(asked) \in Seq(Takes)
      BY <1>2, <3>1, ValuesAre
    <3> QED
      BY <3>2
  <2> QED
    BY <1>3, <1>5, <1>7, <2>7, <2>8
<1> QED
  BY <1>1, <1>6, <1>7

\* The response is checked and parsed.
LEMMA WireReceive ==
  ASSUME Answered, W!Receive
  PROVE  Answered' /\ W!ResponseSound'
<1>1. /\ asked' = asked /\ awaited' = awaited /\ session' = session /\ response' = response
      /\ heard' = heard /\ damage' = damage
  BY DEF W!Receive
<1>2. Answered'
  BY <1>1 DEF Answered, AnsweredPlain, AnsweredBundle, Came, W!Airborne, W!Plain, Hurt
<1>3. (W!Plain' <=> W!Plain) /\ W!Whole' = W!Whole
  BY <1>1 DEF W!Plain, W!Whole
<1>4. CASE W!Plain
  <2>1. (result'[1] = "taken") = (damage' = "none")
    BY <1>1, <1>4, PlainTaken
  <2> QED
    BY <1>2, <1>3, <1>4, <2>1 DEF W!ResponseSound
<1>5. CASE ~W!Plain
  <2>1. result'[1] = "taken" =>
          IF session' THEN result'[2] = W!Whole'
          ELSE result'[2] = <<W!ParseError>> \/ result'[2] = SubSeq(W!Whole', 1, Len(result'[2]))
    BY <1>1, <1>3, <1>5, BundleTaken
  <2> QED
    BY <1>2, <1>3, <1>5, <2>1 DEF W!ResponseSound
<1> QED
  BY <1>4, <1>5

\* The invariant is kept.
LEMMA WireStep ==
  ASSUME Answered, W!ResponseSound, [W!Next]_W!vars
  PROVE  Answered' /\ W!ResponseSound'
<1>1. CASE W!Burst
  BY <1>1, WireBurst
<1>2. CASE W!Cut
  BY <1>2, WireCut
<1>3. CASE W!Receive
  BY <1>3, WireReceive
<1>4. CASE UNCHANGED W!vars
  BY <1>4 DEF W!vars, Answered, AnsweredPlain, AnsweredBundle, Came, W!Airborne, W!Plain, Hurt, W!Whole, W!ResponseSound
<1> QED
  BY <1>1, <1>2, <1>3, <1>4 DEF W!Next

\* A plain response is taken if and only if it is whole and no burst hit it: the CRC of
\* is_valid_response finds every burst of up to sixteen bits, and an answer short of
\* response_size completes nothing.  Of a bundle that was cut to response_size, the parser
\* gives an error or the first of the blocks asked for, each whole; of one that was
\* decrypted, all of them.
THEOREM RegistersResponseSound == Spec => []ResponseSound
<1> DEFINE Inv == part = "frames" => Answered /\ W!ResponseSound
<1>1. Init => Inv
  BY WireInit DEF Init
<1>2. Inv /\ [W!Next]_W!vars /\ UNCHANGED part => Inv'
  BY WireStep
<1>3. [Next]_vars => [W!Next]_W!vars /\ UNCHANGED part
  BY OneOfTheParts
<1>4. Inv => ResponseSound
  BY DEF ResponseSound
<1> QED
  BY <1>1, <1>2, <1>3, <1>4, PTL DEF Spec

-----------------------------------------------------------------------------
(* Registers.                                                              *)

\* Every field there may be.
AnyField == {"word", "high", "low", "two", "four", "six"} \X Nat

\* A block is of such fields.
FieldsOf(struct) == struct \subseteq AnyField

\* What is shown of the fields of a block lies within the payload.
Inside(e) ==
  /\ e.from \subseteq (2 * R!At) .. (2 * R!At + R!Length - 1)
  /\ \E b \in e.from : b \div 2 = R!RegisterOf(e.what)
  /\ \A b \in e.from : b \div 2 >= R!RegisterOf(e.what)

\* A read is of registers, and the counters hold numbers.
Placed == read \in Nat \X Nat /\ counts \in [phases : Nat, ac : Nat, dc : Nat] /\ raised \subseteq 0 .. 15

\* The bytes of a field.
LEMMA FieldBytes ==
  ASSUME NEW k \in {"word", "high", "low", "two", "four", "six"}, NEW r \in Nat
  PROVE  /\ R!SizeOf[k] \in 1 .. 6
         /\ R!BytesOf(<<k, r>>) \subseteq (2 * r) .. (2 * r + 2 * R!SizeOf[k] - 1)
         /\ k = "high" => R!BytesOf(<<k, r>>) = {2 * r}
         /\ k = "low" => R!BytesOf(<<k, r>>) = {2 * r + 1}
         /\ 2 * r \in R!BytesOf(<<k, r>>) \/ 2 * r + 1 \in R!BytesOf(<<k, r>>)
<1>1. R!SizeOf[k] \in 1 .. 6 /\ (k \in {"high", "low"} => R!SizeOf[k] = 1)
  BY DEF R!SizeOf
<1>2. CASE k = "high"
  BY <1>1, <1>2 DEF R!BytesOf
<1>3. CASE k = "low"
  BY <1>1, <1>3 DEF R!BytesOf
<1>4. CASE k \notin {"high", "low"}
  <2>1. R!BytesOf(<<k, r>>) = (2 * r) .. (2 * r + 2 * R!SizeOf[k] - 1)
    BY <1>4 DEF R!BytesOf
  <2> QED
    BY <1>1, <1>4, <2>1
<1> QED
  BY <1>2, <1>3, <1>4

\* What DeviceStruct.parse takes lies within the payload.
LEMMA ParseInside ==
  ASSUME Placed, NEW struct, FieldsOf(struct), NEW e \in R!Parse(struct)
  PROVE  Inside(e)
<1>1. PICK f \in struct : e = [what |-> f, from |-> R!BytesOf(f)] /\ f[2] >= R!At /\ 2 * (f[2] + R!SizeOf[f[1]] - R!At) <= R!Length
  BY DEF R!Parse, R!Present
<1>2. f \in AnyField /\ R!At \in Nat /\ R!Length \in Nat /\ read[2] \in Nat /\ R!Length = 2 * read[2]
  BY DEF FieldsOf, Placed, R!At, R!Length
<1>3. PICK kind \in {"word", "high", "low", "two", "four", "six"}, r \in Nat : f = <<kind, r>>
  BY <1>2 DEF AnyField
<1>4. R!RegisterOf(e.what) = r
  BY <1>1, <1>3 DEF R!RegisterOf
<1>7. r >= R!At /\ 2 * (r + R!SizeOf[kind] - R!At) <= R!Length
  BY <1>1, <1>3
<1> DEFINE size == R!SizeOf[kind]
<1>8. PICK a \in Nat, n \in Nat : R!At = a /\ R!Length = 2 * n
  BY <1>2
<1>11. /\ size \in 1 .. 6
       /\ e.from \subseteq (2 * r) .. (2 * r + 2 * size - 1)
       /\ 2 * r \in e.from \/ 2 * r + 1 \in e.from
  BY <1>1, <1>3, FieldBytes
<1>9. size \in Nat \ {0} /\ r >= a /\ r + size <= a + n
  <2>1. size \in 1 .. 6 /\ r >= a /\ 2 * (r + size - a) <= 2 * n
    BY <1>7, <1>8, <1>11
  <2> HIDE DEF size
  <2> QED
    BY <2>1
<1> HIDE DEF size
<1>12. \A b \in e.from : b \div 2 >= r
  BY <1>9, <1>11
<1>13. \E b \in e.from : b \div 2 = r
  <2>1. (2 * r) \div 2 = r /\ (2 * r + 1) \div 2 = r
    OBVIOUS
  <2> QED
    BY <2>1, <1>11
<1>14. e.from \subseteq (2 * a) .. (2 * a + 2 * n - 1)
  BY <1>9, <1>11
<1> QED
  BY <1>4, <1>8, <1>12, <1>13, <1>14 DEF Inside

\* The fields of a block lie one after the other.
Spaced(struct) ==
  \A f, g \in struct : f # g =>
    \/ f[2] + R!SizeOf[f[1]] <= g[2]
    \/ g[2] + R!SizeOf[g[1]] <= f[2]
    \/ f[2] = g[2] /\ {f[1], g[1]} = {"high", "low"}

\* The fields of the home block.
LEMMA HomeSpaced == Spaced(R!Home) /\ FieldsOf(R!Home)
BY DEF Spaced, R!Home, R!Fields, R!SizeOf, FieldsOf, AnyField

\* Those of the inverter's base data.
LEMMA InvBaseSpaced == Spaced(R!InvBase) /\ FieldsOf(R!InvBase)
BY DEF Spaced, R!InvBase, R!Fields, R!SizeOf, FieldsOf, AnyField

\* Those of the panels.
LEMMA InvPvSpaced == Spaced(R!InvPv) /\ FieldsOf(R!InvPv)
BY DEF Spaced, R!InvPv, R!Fields, R!SizeOf, FieldsOf, AnyField

\* Those of the grid.
LEMMA InvGridSpaced == Spaced(R!InvGrid) /\ FieldsOf(R!InvGrid)
BY DEF Spaced, R!InvGrid, R!Fields, R!SizeOf, FieldsOf, AnyField

\* Those of the load.
LEMMA InvLoadSpaced == Spaced(R!InvLoad) /\ FieldsOf(R!InvLoad)
BY DEF Spaced, R!InvLoad, R!Fields, R!SizeOf, FieldsOf, AnyField

\* Those of the inverter.
LEMMA InvInvSpaced == Spaced(R!InvInv) /\ FieldsOf(R!InvInv)
BY DEF Spaced, R!InvInv, R!Fields, R!SizeOf, FieldsOf, AnyField

\* Those of a pack.
LEMMA PackMainSpaced == Spaced(R!PackMain) /\ FieldsOf(R!PackMain)
BY DEF Spaced, R!PackMain, R!Fields, R!SizeOf, FieldsOf, AnyField

\* Those of the block of a V1 device.
LEMMA RealDataSpaced == Spaced(R!RealData) /\ FieldsOf(R!RealData)
BY DEF Spaced, R!RealData, R!Fields, R!SizeOf, FieldsOf, AnyField

\* Parts of one block share no byte.
Apart(X) == \A e, f \in X : e.what # f.what => e.from \cap f.from = {}

\* The fields that parse takes of such a block share no byte.
LEMMA ParseApart ==
  ASSUME NEW struct, FieldsOf(struct), Spaced(struct)
  PROVE  Apart(R!Parse(struct)) /\ \A e \in R!Parse(struct) : e.what \in struct
<1>1. \A e \in R!Parse(struct) : e.what \in struct
  BY DEF R!Parse, R!Present
<1>2. ASSUME NEW e \in R!Parse(struct), NEW f \in R!Parse(struct), e.what # f.what
      PROVE  e.from \cap f.from = {}
  <2>1. PICK g \in struct : e = [what |-> g, from |-> R!BytesOf(g)]
    BY DEF R!Parse, R!Present
  <2>2. PICK h \in struct : f = [what |-> h, from |-> R!BytesOf(h)]
    BY DEF R!Parse, R!Present
  <2>3. PICK k \in {"word", "high", "low", "two", "four", "six"}, r \in Nat : g = <<k, r>>
    BY DEF FieldsOf, AnyField
  <2>4. PICK l \in {"word", "high", "low", "two", "four", "six"}, s \in Nat : h = <<l, s>>
    BY DEF FieldsOf, AnyField
  <2>5. \/ r + R!SizeOf[k] <= s
        \/ s + R!SizeOf[l] <= r
        \/ r = s /\ {k, l} = {"high", "low"}
    BY <1>2, <2>1, <2>2, <2>3, <2>4 DEF Spaced
  <2>9. /\ R!SizeOf[k] \in 1 .. 6 /\ e.from \subseteq (2 * r) .. (2 * r + 2 * R!SizeOf[k] - 1)
        /\ k = "high" => e.from = {2 * r}
        /\ k = "low" => e.from = {2 * r + 1}
    BY <2>1, <2>3, FieldBytes
  <2>10. /\ R!SizeOf[l] \in 1 .. 6 /\ f.from \subseteq (2 * s) .. (2 * s + 2 * R!SizeOf[l] - 1)
         /\ l = "high" => f.from = {2 * s}
         /\ l = "low" => f.from = {2 * s + 1}
    BY <2>2, <2>4, FieldBytes
  <2>11. CASE r = s /\ {k, l} = {"high", "low"}
    <3>1. (k = "high" /\ l = "low") \/ (k = "low" /\ l = "high")
      BY <2>11
    <3>2. CASE k = "high" /\ l = "low"
      BY <2>9, <2>10, <2>11, <3>2
    <3>3. CASE k = "low" /\ l = "high"
      BY <2>9, <2>10, <2>11, <3>3
    <3> QED
      BY <3>1, <3>2, <3>3
  <2>12. CASE r + R!SizeOf[k] <= s
    BY <2>9, <2>10, <2>12
  <2>13. CASE s + R!SizeOf[l] <= r
    BY <2>9, <2>10, <2>13
  <2> QED
    BY <2>5, <2>11, <2>12, <2>13
<1> QED
  BY <1>1, <1>2 DEF Apart

\* What the parts of a block, its fields and its groups, must be.
Right(S) ==
  /\ \A e \in S : Inside(e)
  /\ \A e, f \in S : e.what # f.what /\ e.from \cap f.from # {} =>
       R!Known(e, f) \/ (e.from = f.from /\ Len(e.what) = 3)
  /\ {e.what : e \in S} \cap {w \in {e.what : e \in S} : w[1] \in R!Groups} = R!Declared

\* Of a block's parts, the groups are those of the arrays.
LEMMA Whats ==
  ASSUME NEW struct, FieldsOf(struct), Spaced(struct), NEW G, \A w \in {e.what : e \in G} : w[1] \in R!Groups
  PROVE  LET S == R!Parse(struct) \cup G IN
         {e.what : e \in S} \cap {w \in {e.what : e \in S} : w[1] \in R!Groups} = {e.what : e \in G}
<1>1. \A e \in R!Parse(struct) : e.what[1] \notin R!Groups
  <2>1. \A e \in R!Parse(struct) : e.what \in AnyField
    BY ParseApart DEF FieldsOf
  <2> QED
    BY <2>1 DEF AnyField, R!Groups
<1> QED
  BY <1>1

\* No field of a block takes a register of the given ones.
FreeOf(struct, a, b) == \A f \in struct : f[2] + R!SizeOf[f[1]] <= a \/ f[2] >= b

\* Such fields share no byte with groups that lie in the given registers.
LEMMA GroupsApart ==
  ASSUME NEW struct, FieldsOf(struct), NEW a \in Nat, NEW b \in Nat, FreeOf(struct, a, b),
         NEW G, \A e \in G : e.from \subseteq (2 * a) .. (2 * b - 1)
  PROVE  \A e \in R!Parse(struct), g \in G : e.from \cap g.from = {}
<1>1. ASSUME NEW e \in R!Parse(struct), NEW g \in G
      PROVE  e.from \cap g.from = {}
  <2>1. PICK f \in struct : e = [what |-> f, from |-> R!BytesOf(f)]
    BY DEF R!Parse, R!Present
  <2>2. PICK k \in {"word", "high", "low", "two", "four", "six"}, r \in Nat : f = <<k, r>>
    BY DEF FieldsOf, AnyField
  <2>3. r + R!SizeOf[k] <= a \/ r >= b
    BY <2>2 DEF FreeOf
  <2>4. R!SizeOf[k] \in 1 .. 6 /\ e.from \subseteq (2 * r) .. (2 * r + 2 * R!SizeOf[k] - 1)
    BY <2>1, <2>2, FieldBytes
  <2>5. g.from \subseteq (2 * a) .. (2 * b - 1)
    OBVIOUS
  <2> QED
    BY <2>3, <2>4, <2>5
<1> QED
  BY <1>1

\* The parts of a block that is polled.
LEMMA PartsRight ==
  ASSUME Placed, NEW struct, FieldsOf(struct), Spaced(struct), NEW G,
         \A e \in G : Inside(e), \A w \in {e.what : e \in G} : w[1] \in R!Groups, R!Declared = {e.what : e \in G},
         \A e, f \in G : e.what # f.what /\ e.from \cap f.from # {} => e.from = f.from /\ Len(e.what) = 3,
         \A e \in R!Parse(struct), g \in G : e.from \cap g.from # {} => R!Known(e, g)
  PROVE  Right(R!Parse(struct) \cup G)
<1> DEFINE S == R!Parse(struct) \cup G
<1>1. \A e \in S : Inside(e)
  BY ParseInside
<1>2. ASSUME NEW e \in S, NEW f \in S, e.what # f.what, e.from \cap f.from # {}
      PROVE  R!Known(e, f) \/ (e.from = f.from /\ Len(e.what) = 3)
  <2>1. Apart(R!Parse(struct))
    BY ParseApart
  <2>2. CASE e \in R!Parse(struct) /\ f \in R!Parse(struct)
    BY <1>2, <2>1, <2>2 DEF Apart
  <2>3. CASE e \in R!Parse(struct) /\ f \in G
    BY <1>2, <2>3
  <2>4. CASE e \in G /\ f \in R!Parse(struct)
    <3>1. R!Known(f, e)
      BY <1>2, <2>4
    <3> QED
      BY <3>1 DEF R!Known
  <2>5. CASE e \in G /\ f \in G
    BY <1>2, <2>5
  <2> QED
    BY <2>2, <2>3, <2>4, <2>5
<1>3. {e.what : e \in S} \cap {w \in {e.what : e \in S} : w[1] \in R!Groups} = R!Declared
  BY Whats
<1> QED
  BY <1>1, <1>2, <1>3 DEF Right

\* A group of an array that is whole.
LEMMA ArrayOf ==
  ASSUME NEW name, NEW start, NEW step, NEW need, NEW n, \A i \in 0 .. n - 1 : R!Fits(start + i * step + need)
  PROVE  /\ {e.what : e \in R!Array(name, start, step, need, n)} = {<<name, i>> : i \in 0 .. n - 1}
         /\ \A e \in R!Array(name, start, step, need, n) : \E i \in 0 .. n - 1 : e = R!Group(name, start, step, need, i)
<1>1. {j \in 0 .. n - 1 : R!Fits(start + j * step + need)} = 0 .. n - 1
  OBVIOUS
<1>2. R!Array(name, start, step, need, n) = {R!Group(name, start, step, need, i) : i \in 0 .. n - 1}
  BY <1>1 DEF R!Array
<1>3. \A i : R!Group(name, start, step, need, i).what = <<name, i>>
  BY DEF R!Group
<1> QED
  BY <1>2, <1>3, Zenon

\* What is taken from a register on, and fits.
LEMMA TakenInside ==
  ASSUME R!At \in Nat, R!Length \in Nat, NEW e, NEW reg \in Nat, NEW first \in {2 * reg, 2 * reg + 1}, NEW last \in Nat,
         e.from = first .. last, first <= last, R!RegisterOf(e.what) = reg, reg >= R!At, last <= 2 * R!At + R!Length - 1
  PROVE  Inside(e)
<1>1. \A b \in e.from : b \div 2 >= reg
  OBVIOUS
<1>2. first \in e.from /\ first \div 2 = reg
  OBVIOUS
<1>3. e.from \subseteq (2 * R!At) .. (2 * R!At + R!Length - 1)
  OBVIOUS
<1> QED
  BY <1>1, <1>2, <1>3 DEF Inside

\* A block of fields and an array of n groups, one every s registers from register a on.
Layout(struct, name, n, a, s, start, step, need) ==
  /\ FieldsOf(struct) /\ Spaced(struct) /\ FreeOf(struct, a, a + n * s)
  /\ name \in R!Groups /\ n \in Nat /\ a \in Nat /\ s \in {3, 6, 8} /\ need \in 1 .. 12
  /\ a >= R!At /\ start = 2 * (a - R!At) /\ step = 2 * s /\ need <= step
  /\ \A i \in 0 .. n - 1 : start + step * i + need <= R!Length
  /\ \A i \in 0 .. n - 1 : R!RegisterOf(<<name, i>>) = a + s * i
  /\ R!Declared = {<<name, i>> : i \in 0 .. n - 1}

\* The parts of such a block.
LEMMA ArrayRight ==
  ASSUME Placed, NEW struct, NEW name, NEW n, NEW a, NEW s, NEW start, NEW step, NEW need,
         Layout(struct, name, n, a, s, start, step, need)
  PROVE  Right(R!Parse(struct) \cup R!Array(name, start, step, need, n))
<1> USE DEF Layout
<1> DEFINE G == R!Array(name, start, step, need, n)
<1>1. R!At \in Nat /\ R!Length \in Nat
  BY DEF R!At, R!Length, Placed
<1>2. \A i \in 0 .. n - 1 : R!Fits(start + i * step + need)
  <2>1. ASSUME NEW i \in 0 .. n - 1
        PROVE  step * i = i * step
    OBVIOUS
  <2>2. \A i \in 0 .. n - 1 : start + step * i + need <= R!Length
    OBVIOUS
  <2> HIDE DEF Layout
  <2> QED
    BY <2>1, <2>2 DEF R!Fits
<1>3. /\ {e.what : e \in G} = {<<name, i>> : i \in 0 .. n - 1}
      /\ \A e \in G : \E i \in 0 .. n - 1 : e = R!Group(name, start, step, need, i)
  <2> HIDE DEF Layout
  <2> QED
    BY <1>2, ArrayOf
<1>4. ASSUME NEW e \in G
      PROVE  \E i \in 0 .. n - 1 : /\ e.what = <<name, i>>
                                  /\ e.from = (2 * (a + s * i)) .. (2 * (a + s * i) + need - 1)
                                  /\ a + s * i \in Nat
                                  /\ 2 * (a + s * i) + need - 1 <= 2 * R!At + R!Length - 1
                                  /\ a + s * i >= R!At /\ a + s * i >= a /\ a + s * i + s <= a + n * s
  <2>1. PICK i \in 0 .. n - 1 : e = R!Group(name, start, step, need, i)
    BY <1>3
  <2>2. e.what = <<name, i>> /\ e.from = (2 * R!At + start + i * step) .. (2 * R!At + start + i * step + need - 1)
    BY <2>1 DEF R!Group
  <2>3. CASE s = 3
    BY <1>1, <2>2, <2>3
  <2>4. CASE s = 6
    BY <1>1, <2>2, <2>4
  <2>5. CASE s = 8
    BY <1>1, <2>2, <2>5
  <2> QED
    BY <2>3, <2>4, <2>5
<1> HIDE DEF G
<1>5. ASSUME NEW e \in G
      PROVE  Inside(e)
  <2>1. PICK i \in 0 .. n - 1 : /\ e.what = <<name, i>>
                                /\ e.from = (2 * (a + s * i)) .. (2 * (a + s * i) + need - 1)
                                /\ a + s * i \in Nat
                                /\ 2 * (a + s * i) + need - 1 <= 2 * R!At + R!Length - 1
                                /\ a + s * i >= R!At
    BY <1>4
  <2> DEFINE reg == a + s * i
  <2>2. R!RegisterOf(e.what) = reg
    BY <2>1
  <2> HIDE DEF reg
  <2>3. reg \in Nat /\ e.from = (2 * reg) .. (2 * reg + need - 1) /\ reg >= R!At /\ 2 * reg + need - 1 <= 2 * R!At + R!Length - 1
    BY <2>1 DEF reg
  <2>4. 2 * reg + need - 1 \in Nat /\ 2 * reg <= 2 * reg + need - 1 /\ 2 * reg \in {2 * reg, 2 * reg + 1}
    <3>1. need \in 1 .. 12
      OBVIOUS
    <3> HIDE DEF Layout
    <3> QED
      BY <2>3, <3>1
  <2> QED
    BY <1>1, <2>2, <2>3, <2>4, TakenInside
<1>6. ASSUME NEW e \in G, NEW f \in G, e.what # f.what
      PROVE  e.from \cap f.from = {}
  <2>1. PICK i \in 0 .. n - 1 : e.what = <<name, i>> /\ e.from = (2 * (a + s * i)) .. (2 * (a + s * i) + need - 1)
    BY <1>4
  <2>2. PICK j \in 0 .. n - 1 : f.what = <<name, j>> /\ f.from = (2 * (a + s * j)) .. (2 * (a + s * j) + need - 1)
    BY <1>4
  <2>3. i < j \/ j < i
    BY <1>6, <2>1, <2>2
  <2>4. CASE s = 3
    BY <2>1, <2>2, <2>3, <2>4
  <2>5. CASE s = 6
    BY <2>1, <2>2, <2>3, <2>5
  <2>6. CASE s = 8
    BY <2>1, <2>2, <2>3, <2>6
  <2> QED
    BY <2>4, <2>5, <2>6
<1>7. \A e \in R!Parse(struct), g \in G : e.from \cap g.from = {}
  <2> DEFINE b == a + n * s
  <2>1. b \in Nat
    OBVIOUS
  <2>2. ASSUME NEW e \in G
        PROVE  e.from \subseteq (2 * a) .. (2 * b - 1)
    <3>1. PICK i \in 0 .. n - 1 : /\ e.from = (2 * (a + s * i)) .. (2 * (a + s * i) + need - 1)
                                  /\ a + s * i \in Nat /\ a + s * i >= a /\ a + s * i + s <= a + n * s
      BY <1>4
    <3> DEFINE reg == a + s * i
    <3>2. e.from = (2 * reg) .. (2 * reg + need - 1) /\ reg \in Nat /\ reg >= a /\ reg + s <= b
      BY <3>1
    <3> HIDE DEF reg, b
    <3> QED
      BY <2>1, <3>2
  <2>3. FreeOf(struct, a, b)
    OBVIOUS
  <2> HIDE DEF b
  <2> QED
    BY <2>1, <2>2, <2>3, GroupsApart
<1>8. \A w \in {e.what : e \in G} : w[1] \in R!Groups
  BY <1>3
<1>9. Right(R!Parse(struct) \cup G)
  BY <1>3, <1>5, <1>6, <1>7, <1>8, PartsRight
<1> QED
  BY <1>9 DEF G

\* The inverter's base data: its versions.
LEMMA InvBaseRight ==
  ASSUME Placed, read = <<1100, 51>>, ~R!V1(model)
  PROVE  Right(R!V2Parse)
<1>1. R!At = 1100 /\ R!Length = 102
  BY DEF R!At, R!Length
<1>2. R!V2Parse = R!Parse(R!InvBase) \cup R!Array("version", 26, 6, 6, 6)
  BY <1>1 DEF R!V2Parse
<1>3. R!Declared = {<<"version", i>> : i \in 0 .. 6 - 1}
  BY DEF R!Declared
<1>4. FreeOf(R!InvBase, 1113, 1113 + 6 * 3)
  BY DEF FreeOf, R!InvBase, R!Fields, R!SizeOf
<1>5. \A i \in 0 .. 6 - 1 : R!RegisterOf(<<"version", i>>) = 1113 + 3 * i
  BY DEF R!RegisterOf
<1>6. "version" \in R!Groups /\ 1113 >= R!At /\ 26 = 2 * (1113 - R!At) /\ 6 = 2 * 3 /\ 3 \in {3, 6, 8}
      /\ \A i \in 0 .. 6 - 1 : 26 + 6 * i + 6 <= R!Length
  BY <1>1 DEF R!Groups
<1>7. 6 <= 6 /\ 6 \in 1 .. 12 /\ 6 \in Nat /\ 1113 \in Nat
  OBVIOUS
<1>8. Layout(R!InvBase, "version", 6, 1113, 3, 26, 6, 6)
  BY <1>3, <1>4, <1>5, <1>6, <1>7, InvBaseSpaced DEF Layout
<1>9. Right(R!Parse(R!InvBase) \cup R!Array("version", 26, 6, 6, 6))
  BY <1>8, ArrayRight
<1> QED
  BY <1>2, <1>9

\* A counter's group is shown up to the number that the block has room for.
LEMMA PvRight ==
  ASSUME Placed, read = <<1200, 70>>, ~R!V1(model)
  PROVE  Right(R!V2Parse)
<1>1. R!At = 1200 /\ R!Length = 140
  BY DEF R!At, R!Length
<1>2. R!V2Parse = R!Parse(R!InvPv) \cup R!Array("pv", 20, 16, 10, R!Strings)
  BY <1>1 DEF R!V2Parse
<1>3. PICK ac \in Nat, dc \in Nat : ac = counts.ac /\ dc = counts.dc
  BY DEF Placed
<1>4. /\ (<<"high", 1209>> \in R!Present(R!InvPv)) = (ac <= 16)
      /\ (<<"low", 1209>> \in R!Present(R!InvPv)) = (dc <= 16)
  BY <1>1, <1>3 DEF R!Present, R!InvPv, R!Fields, R!SizeOf, R!ValueOf, R!RangeOf
<1>5. R!ValueOf(<<"high", 1209>>) = ac /\ R!ValueOf(<<"low", 1209>>) = dc
  BY <1>3 DEF R!ValueOf, R!Fields
<1>6. R!Strings = R!Least((IF ac <= 16 THEN ac ELSE 0) + (IF dc <= 16 THEN dc ELSE 0), 5)
  BY <1>4, <1>5 DEF R!Strings
<1>7. R!Strings \in 0 .. 5
  BY <1>6 DEF R!Least
<1>8. R!Declared = {<<"pv", i>> : i \in 0 .. R!Strings - 1}
  BY <1>3, <1>6 DEF R!Declared
<1>9. FreeOf(R!InvPv, 1210, 1210 + R!Strings * 8)
  BY DEF FreeOf, R!InvPv, R!Fields, R!SizeOf
<1>10. \A i \in 0 .. R!Strings - 1 : R!RegisterOf(<<"pv", i>>) = 1210 + 8 * i
  BY DEF R!RegisterOf
<1>11. "pv" \in R!Groups /\ 1210 >= R!At /\ 20 = 2 * (1210 - R!At) /\ 16 = 2 * 8 /\ 8 \in {3, 6, 8}
       /\ \A i \in 0 .. R!Strings - 1 : 20 + 16 * i + 10 <= R!Length
  BY <1>1, <1>7 DEF R!Groups
<1>12. 10 <= 16 /\ 10 \in 1 .. 12 /\ R!Strings \in Nat /\ 1210 \in Nat
  BY <1>7
<1>13. Layout(R!InvPv, "pv", R!Strings, 1210, 8, 20, 16, 10)
  BY <1>8, <1>9, <1>10, <1>11, <1>12, InvPvSpaced DEF Layout
<1>14. Right(R!Parse(R!InvPv) \cup R!Array("pv", 20, 16, 10, R!Strings))
  BY <1>13, ArrayRight
<1> QED
  BY <1>2, <1>14

\* The grid: its phases.
LEMMA GridRight ==
  ASSUME Placed, read = <<1300, 31>>, ~R!V1(model)
  PROVE  Right(R!V2Parse)
<1> DEFINE n == R!Phases(R!InvGrid, <<"low", 1312>>)
<1>1. R!At = 1300 /\ R!Length = 62
  BY DEF R!At, R!Length
<1>2. R!V2Parse = R!Parse(R!InvGrid) \cup R!Array("gridPhase", 26, 12, 10, n)
  BY <1>1 DEF R!V2Parse
<1>3. PICK phases \in Nat : phases = counts.phases
  BY DEF Placed
<1>4. (<<"low", 1312>> \in R!Present(R!InvGrid)) = (phases <= 4)
  BY <1>1, <1>3 DEF R!Present, R!InvGrid, R!Fields, R!SizeOf, R!ValueOf, R!RangeOf
<1>5. R!ValueOf(<<"low", 1312>>) = phases
  BY <1>3 DEF R!ValueOf, R!Fields
<1>6. n = IF phases <= 4 THEN R!Least(phases, 3) ELSE 3
  BY <1>4, <1>5 DEF R!Phases
<1>7. n \in 0 .. 3
  BY <1>6 DEF R!Least
<1>8. R!Declared = {<<"gridPhase", i>> : i \in 0 .. n - 1}
  BY <1>3, <1>6 DEF R!Declared
<1> HIDE DEF n
<1>9. FreeOf(R!InvGrid, 1313, 1313 + n * 6)
  BY DEF FreeOf, R!InvGrid, R!Fields, R!SizeOf
<1>10. \A i \in 0 .. n - 1 : R!RegisterOf(<<"gridPhase", i>>) = 1313 + 6 * i
  BY DEF R!RegisterOf
<1>11. "gridPhase" \in R!Groups /\ 1313 >= R!At /\ 26 = 2 * (1313 - R!At) /\ 12 = 2 * 6 /\ 6 \in {3, 6, 8}
       /\ \A i \in 0 .. n - 1 : 26 + 12 * i + 10 <= R!Length
  BY <1>1, <1>7 DEF R!Groups
<1>12. 10 <= 12 /\ 10 \in 1 .. 12 /\ n \in Nat /\ 1313 \in Nat
  BY <1>7
<1>13. Layout(R!InvGrid, "gridPhase", n, 1313, 6, 26, 12, 10)
  BY <1>8, <1>9, <1>10, <1>11, <1>12, InvGridSpaced DEF Layout
<1>14. Right(R!Parse(R!InvGrid) \cup R!Array("gridPhase", 26, 12, 10, n))
  BY <1>13, ArrayRight
<1> QED
  BY <1>2, <1>14

\* The load: its phases.
LEMMA LoadRight ==
  ASSUME Placed, read = <<1400, 48>>, ~R!V1(model)
  PROVE  Right(R!V2Parse)
<1> DEFINE n == R!Phases(R!InvLoad, <<"low", 1429>>)
<1>1. R!At = 1400 /\ R!Length = 96
  BY DEF R!At, R!Length
<1>2. R!V2Parse = R!Parse(R!InvLoad) \cup R!Array("acPhase", 60, 12, 8, n)
  BY <1>1 DEF R!V2Parse
<1>3. PICK phases \in Nat : phases = counts.phases
  BY DEF Placed
<1>4. (<<"low", 1429>> \in R!Present(R!InvLoad)) = (phases <= 4)
  BY <1>1, <1>3 DEF R!Present, R!InvLoad, R!Fields, R!SizeOf, R!ValueOf, R!RangeOf
<1>5. R!ValueOf(<<"low", 1429>>) = phases
  BY <1>3 DEF R!ValueOf, R!Fields
<1>6. n = IF phases <= 4 THEN R!Least(phases, 3) ELSE 3
  BY <1>4, <1>5 DEF R!Phases
<1>7. n \in 0 .. 3
  BY <1>6 DEF R!Least
<1>8. R!Declared = {<<"acPhase", i>> : i \in 0 .. n - 1}
  BY <1>3, <1>6 DEF R!Declared
<1> HIDE DEF n
<1>9. FreeOf(R!InvLoad, 1430, 1430 + n * 6)
  BY DEF FreeOf, R!InvLoad, R!Fields, R!SizeOf
<1>10. \A i \in 0 .. n - 1 : R!RegisterOf(<<"acPhase", i>>) = 1430 + 6 * i
  BY DEF R!RegisterOf
<1>11. "acPhase" \in R!Groups /\ 1430 >= R!At /\ 60 = 2 * (1430 - R!At) /\ 12 = 2 * 6 /\ 6 \in {3, 6, 8}
       /\ \A i \in 0 .. n - 1 : 60 + 12 * i + 8 <= R!Length
  BY <1>1, <1>7 DEF R!Groups
<1>12. 8 <= 12 /\ 8 \in 1 .. 12 /\ n \in Nat /\ 1430 \in Nat
  BY <1>7
<1>13. Layout(R!InvLoad, "acPhase", n, 1430, 6, 60, 12, 8)
  BY <1>8, <1>9, <1>10, <1>11, <1>12, InvLoadSpaced DEF Layout
<1>14. Right(R!Parse(R!InvLoad) \cup R!Array("acPhase", 60, 12, 8, n))
  BY <1>13, ArrayRight
<1> QED
  BY <1>2, <1>14

\* The inverter: its phases.
LEMMA InvRight ==
  ASSUME Placed, read = <<1500, 30>>, ~R!V1(model)
  PROVE  Right(R!V2Parse)
<1> DEFINE n == R!Phases(R!InvInv, <<"low", 1508>>)
<1>1. R!At = 1500 /\ R!Length = 60
  BY DEF R!At, R!Length
<1>2. R!V2Parse = R!Parse(R!InvInv) \cup R!Array("invPhase", 18, 12, 8, n)
  BY <1>1 DEF R!V2Parse
<1>3. PICK phases \in Nat : phases = counts.phases
  BY DEF Placed
<1>4. (<<"low", 1508>> \in R!Present(R!InvInv)) = (phases <= 4)
  BY <1>1, <1>3 DEF R!Present, R!InvInv, R!Fields, R!SizeOf, R!ValueOf, R!RangeOf
<1>5. R!ValueOf(<<"low", 1508>>) = phases
  BY <1>3 DEF R!ValueOf, R!Fields
<1>6. n = IF phases <= 4 THEN R!Least(phases, 3) ELSE 3
  BY <1>4, <1>5 DEF R!Phases
<1>7. n \in 0 .. 3
  BY <1>6 DEF R!Least
<1>8. R!Declared = {<<"invPhase", i>> : i \in 0 .. n - 1}
  BY <1>3, <1>6 DEF R!Declared
<1> HIDE DEF n
<1>9. FreeOf(R!InvInv, 1509, 1509 + n * 6)
  BY DEF FreeOf, R!InvInv, R!Fields, R!SizeOf
<1>10. \A i \in 0 .. n - 1 : R!RegisterOf(<<"invPhase", i>>) = 1509 + 6 * i
  BY DEF R!RegisterOf
<1>11. "invPhase" \in R!Groups /\ 1509 >= R!At /\ 18 = 2 * (1509 - R!At) /\ 12 = 2 * 6 /\ 6 \in {3, 6, 8}
       /\ \A i \in 0 .. n - 1 : 18 + 12 * i + 8 <= R!Length
  BY <1>1, <1>7 DEF R!Groups
<1>12. 8 <= 12 /\ 8 \in 1 .. 12 /\ n \in Nat /\ 1509 \in Nat
  BY <1>7
<1>13. Layout(R!InvInv, "invPhase", n, 1509, 6, 18, 12, 8)
  BY <1>8, <1>9, <1>10, <1>11, <1>12, InvInvSpaced DEF Layout
<1>14. Right(R!Parse(R!InvInv) \cup R!Array("invPhase", 18, 12, 8, n))
  BY <1>13, ArrayRight
<1> QED
  BY <1>2, <1>14

\* The bits of a table that are up.
NamedBits(name, table) == UNION {{<<name, w - 1, b>> : b \in raised \cap table[w]} : w \in DOMAIN table}

\* The words of an array, all within the payload, begin at register a.
WordsAt(start, n, table, a) ==
  /\ start \in Nat /\ n \in Nat /\ a \in Nat /\ 2 * R!At + start = 2 * a /\ start + 2 * n <= R!Length
  /\ \E k \in Nat : k <= n /\ DOMAIN table = 1 .. k

\* A bit shown of such an array is one of a word that the table has.
FromWord(e, name, n, table, a) ==
  \E i \in 0 .. n - 1, b \in raised :
    i + 1 \in DOMAIN table /\ e.what = <<name, i, b>> /\ e.from = (2 * (a + i)) .. (2 * (a + i) + 1)

\* The bits shown of such an array.
LEMMA AlarmsOf ==
  ASSUME Placed, NEW name, NEW start, NEW n, NEW table, NEW a, WordsAt(start, n, table, a)
  PROVE  /\ {e.what : e \in R!Alarms(name, start, n, table)} = NamedBits(name, table)
         /\ \A e \in R!Alarms(name, start, n, table) : FromWord(e, name, n, table, a)
<1> DEFINE A == R!Alarms(name, start, n, table)
<1>a. start \in Nat /\ n \in Nat /\ a \in Nat /\ 2 * R!At + start = 2 * a /\ start + 2 * n <= R!Length
  BY DEF WordsAt
<1>b. R!At \in Nat /\ R!Length \in Nat
  BY DEF R!At, R!Length, Placed
<1>k. PICK k \in Nat : k <= n /\ DOMAIN table = 1 .. k
  BY DEF WordsAt
<1>1. {j \in 0 .. n - 1 : R!Fits(start + 2 * j + 2)} = 0 .. n - 1
  BY <1>a, <1>b DEF R!Fits
<1>2. A = UNION {{[what |-> <<name, i, b>>, from |-> R!Group(name, start, 2, 2, i).from] :
                    b \in IF i + 1 \in DOMAIN table THEN raised \cap table[i + 1] ELSE {}} : i \in 0 .. n - 1}
  BY <1>1 DEF R!Alarms
<1>3. \A i \in 0 .. n - 1 : R!Group(name, start, 2, 2, i).from = (2 * (a + i)) .. (2 * (a + i) + 1)
  BY <1>a, <1>b DEF R!Group
<1>4. ASSUME NEW e \in A
      PROVE  \E i \in 0 .. n - 1, b \in raised :
               /\ i + 1 \in DOMAIN table /\ b \in table[i + 1]
               /\ e.what = <<name, i, b>> /\ e.from = (2 * (a + i)) .. (2 * (a + i) + 1)
  <2>1. PICK i \in 0 .. n - 1 :
           \E b \in IF i + 1 \in DOMAIN table THEN raised \cap table[i + 1] ELSE {} :
             e = [what |-> <<name, i, b>>, from |-> R!Group(name, start, 2, 2, i).from]
    BY <1>2
  <2> QED
    BY <2>1, <1>3
<1>5. ASSUME NEW w \in DOMAIN table, NEW b \in raised \cap table[w]
      PROVE  \E e \in A : e.what = <<name, w - 1, b>>
  <2>1. w - 1 \in 0 .. n - 1 /\ w - 1 + 1 = w
    BY <1>a, <1>k
  <2> DEFINE i == w - 1
             e == [what |-> <<name, i, b>>, from |-> R!Group(name, start, 2, 2, i).from]
  <2>2. i \in 0 .. n - 1 /\ b \in IF i + 1 \in DOMAIN table THEN raised \cap table[i + 1] ELSE {}
    BY <2>1
  <2> HIDE DEF i
  <2>3. e \in A
    BY <1>2, <2>2
  <2>4. e.what = <<name, i, b>>
    OBVIOUS
  <2> QED
    BY <2>3, <2>4 DEF i
<1> HIDE DEF A
<1>6. ASSUME NEW e \in A
      PROVE  \E w \in DOMAIN table : \E b \in raised \cap table[w] : e.what = <<name, w - 1, b>>
  <2>1. PICK i \in 0 .. n - 1, b \in raised : i + 1 \in DOMAIN table /\ b \in table[i + 1] /\ e.what = <<name, i, b>>
    BY <1>4
  <2>2. i = (i + 1) - 1
    OBVIOUS
  <2> QED
    BY <2>1, <2>2
<1>7. {e.what : e \in A} = NamedBits(name, table)
  <2>1. ASSUME NEW e \in A
        PROVE  e.what \in NamedBits(name, table)
    <3>1. PICK w \in DOMAIN table : \E b \in raised \cap table[w] : e.what = <<name, w - 1, b>>
      BY <1>6
    <3>2. e.what \in {<<name, w - 1, b>> : b \in raised \cap table[w]}
      BY <3>1
    <3> QED
      BY <3>2 DEF NamedBits
  <2>2. ASSUME NEW x \in NamedBits(name, table)
        PROVE  x \in {e.what : e \in A}
    <3>1. PICK w \in DOMAIN table : \E b \in raised \cap table[w] : x = <<name, w - 1, b>>
      BY DEF NamedBits
    <3> QED
      BY <3>1, <1>5
  <2> QED
    BY <2>1, <2>2
<1>8. \A e \in A : FromWord(e, name, n, table, a)
  BY <1>4 DEF FromWord
<1> QED
  BY <1>7, <1>8 DEF A

\* A table names the bits of no more words than a device sends.
Faults == IF R!V1(model) THEN 5 ELSE 6

\* The tables of a device.
LEMMA TablesOf ==
  \E t, u : /\ R!Tables(model) = <<t, u>>
            /\ \E k \in 0 .. 4 : DOMAIN t = 1 .. k
            /\ \E k \in 0 .. Faults : DOMAIN u = 1 .. k
<1>1. DOMAIN R!LowPowerWarn = 1 .. 2 /\ DOMAIN R!LowPowerFault = 1 .. 5 /\ DOMAIN R!HighPowerWarn = 1 .. 4
      /\ DOMAIN R!HighPowerFault = 1 .. 6 /\ DOMAIN R!MicroInvWarn = 1 .. 1 /\ DOMAIN R!MicroInvFault = 1 .. 5
  BY DEF R!LowPowerWarn, R!LowPowerFault, R!HighPowerWarn, R!HighPowerFault, R!MicroInvWarn, R!MicroInvFault
<1>2. DOMAIN R!V1LowPowerWarn = 1 .. 2 /\ DOMAIN R!V1LowPowerFault = 1 .. 5
      /\ DOMAIN R!ConnectConstantsAlarm = 1 .. 1 /\ DOMAIN R!ConnectConstantsFault = 1 .. 5
  BY DEF R!V1LowPowerWarn, R!V1LowPowerFault, R!ConnectConstantsAlarm, R!ConnectConstantsFault
<1>3. CASE model = "EP600"
  <2>1. R!Tables(model) = <<R!HighPowerWarn, R!HighPowerFault>> /\ Faults = 6
    BY <1>3 DEF R!Tables, Faults, R!V1
  <2>2. 4 \in 0 .. 4 /\ 6 \in 0 .. Faults
    BY <2>1
  <2> QED
    BY <1>1, <2>1, <2>2
<1>4. CASE model = "AC200L"
  <2>1. R!Tables(model) = <<R!V1LowPowerWarn, R!V1LowPowerFault>> /\ Faults = 5
    BY <1>4 DEF R!Tables, Faults, R!V1
  <2>2. 2 \in 0 .. 4 /\ 5 \in 0 .. Faults
    BY <2>1
  <2> QED
    BY <1>2, <2>1, <2>2
<1>5. CASE model = "AC300"
  <2>1. R!Tables(model) = <<R!ConnectConstantsAlarm, R!ConnectConstantsFault>> /\ Faults = 5
    BY <1>5 DEF R!Tables, Faults, R!V1
  <2>2. 1 \in 0 .. 4 /\ 5 \in 0 .. Faults
    BY <2>1
  <2> QED
    BY <1>2, <2>1, <2>2
<1>6. CASE model = "micro_inv"
  <2>1. R!Tables(model) = <<R!MicroInvWarn, R!MicroInvFault>> /\ Faults = 6
    BY <1>6 DEF R!Tables, Faults, R!V1
  <2>2. 1 \in 0 .. 4 /\ 5 \in 0 .. Faults
    BY <2>1
  <2> QED
    BY <1>1, <2>1, <2>2
<1>7. CASE model \notin {"EP600", "AC200L", "AC300", "micro_inv"}
  <2>1. R!Tables(model) = <<R!LowPowerWarn, R!LowPowerFault>> /\ Faults = 6
    BY <1>7 DEF R!Tables, Faults, R!V1
  <2>2. 2 \in 0 .. 4 /\ 5 \in 0 .. Faults
    BY <2>1
  <2> QED
    BY <1>1, <2>1, <2>2
<1> QED
  BY <1>3, <1>4, <1>5, <1>6, <1>7

\* The alarm and fault words of a device, at registers a and f of the block.
AlarmsAt(start, first, n, m, a, f) ==
  /\ start \in Nat /\ first \in Nat /\ n = 4 /\ m \in 6 .. 7
  /\ a = (IF R!V1(model) THEN 54 ELSE 126) /\ f = (IF R!V1(model) THEN 58 ELSE 133)
  /\ 2 * R!At + start = 2 * a /\ 2 * R!At + first = 2 * f /\ start + 2 * n <= R!Length /\ first + 2 * m <= R!Length

\* The alarm and fault words of a device, and their bits.
LEMMA AlarmsRight ==
  ASSUME Placed, NEW start, NEW first, NEW n, NEW m, NEW a, NEW f, AlarmsAt(start, first, n, m, a, f)
  PROVE  LET G == R!Alarms("alarm", start, n, R!Tables(model)[1]) \cup R!Alarms("fault", first, m, R!Tables(model)[2])
         IN /\ {e.what : e \in G} = NamedBits("alarm", R!Tables(model)[1]) \cup NamedBits("fault", R!Tables(model)[2])
            /\ \A e \in G : Inside(e) /\ e.from \subseteq (2 * a) .. (2 * (f + Faults) - 1)
            /\ \A w \in {e.what : e \in G} : w[1] \in {"alarm", "fault"}
            /\ \A e, g \in G : e.what # g.what /\ e.from \cap g.from # {} => e.from = g.from /\ Len(e.what) = 3
<1> DEFINE A == R!Alarms("alarm", start, n, R!Tables(model)[1])
           F == R!Alarms("fault", first, m, R!Tables(model)[2])
<1>a. /\ start \in Nat /\ first \in Nat /\ n = 4 /\ m \in 6 .. 7 /\ m >= Faults /\ a \in Nat /\ f \in Nat /\ a + 4 <= f
      /\ 2 * R!At + start = 2 * a /\ 2 * R!At + first = 2 * f /\ start + 2 * n <= R!Length /\ first + 2 * m <= R!Length
  BY DEF AlarmsAt, Faults
<1>1. R!At \in Nat /\ R!Length \in Nat /\ Faults \in 5 .. 6
  BY DEF R!At, R!Length, Placed, Faults
<1>2. PICK t, u : R!Tables(model) = <<t, u>> /\ (\E k \in 0 .. 4 : DOMAIN t = 1 .. k) /\ (\E k \in 0 .. Faults : DOMAIN u = 1 .. k)
  BY TablesOf
<1>3. /\ {e.what : e \in A} = NamedBits("alarm", R!Tables(model)[1])
      /\ \A e \in A : \E i \in 0 .. n - 1, b \in raised :
           e.what = <<"alarm", i, b>> /\ e.from = (2 * (a + i)) .. (2 * (a + i) + 1)
  <2>0. PICK k \in 0 .. 4 : DOMAIN t = 1 .. k
    BY <1>2
  <2>1. k \in Nat /\ k <= n
    BY <1>a
  <2>2. A = R!Alarms("alarm", start, n, t) /\ R!Tables(model)[1] = t
    BY <1>2
  <2>4. WordsAt(start, n, t, a)
    BY <1>1, <1>a, <2>0, <2>1 DEF WordsAt
  <2> HIDE DEF A
  <2>3. /\ {e.what : e \in R!Alarms("alarm", start, n, t)} = NamedBits("alarm", t)
        /\ \A e \in R!Alarms("alarm", start, n, t) : FromWord(e, "alarm", n, t, a)
    BY <2>4, AlarmsOf
  <2> QED
    BY <2>2, <2>3 DEF FromWord
<1>4. /\ {e.what : e \in F} = NamedBits("fault", R!Tables(model)[2])
      /\ \A e \in F : \E i \in 0 .. m - 1, b \in raised :
           i < Faults /\ e.what = <<"fault", i, b>> /\ e.from = (2 * (f + i)) .. (2 * (f + i) + 1)
  <2>0. PICK k \in 0 .. Faults : DOMAIN u = 1 .. k
    BY <1>2
  <2>1. k \in Nat /\ k <= m /\ k <= Faults
    BY <1>1, <1>a
  <2>2. F = R!Alarms("fault", first, m, u) /\ R!Tables(model)[2] = u
    BY <1>2
  <2>4. WordsAt(first, m, u, f)
    BY <1>1, <1>a, <2>0, <2>1 DEF WordsAt
  <2> HIDE DEF F
  <2>3. /\ {e.what : e \in R!Alarms("fault", first, m, u)} = NamedBits("fault", u)
        /\ \A e \in R!Alarms("fault", first, m, u) : FromWord(e, "fault", m, u, f)
    BY <2>4, AlarmsOf
  <2> QED
    BY <1>1, <2>0, <2>1, <2>2, <2>3 DEF FromWord
<1> HIDE DEF A, F
<1>5. ASSUME NEW e \in A \cup F
      PROVE  \E reg \in Nat : reg >= a /\ reg < f + Faults /\ \E name \in {"alarm", "fault"}, i \in Nat, b \in raised :
               /\ e.what = <<name, i, b>> /\ e.from = (2 * reg) .. (2 * reg + 1)
               /\ R!RegisterOf(e.what) = reg /\ reg >= R!At /\ 2 * reg + 1 <= 2 * R!At + R!Length - 1
  <2>1. CASE e \in A
    <3>1. PICK i \in 0 .. n - 1, b \in raised :
             e.what = <<"alarm", i, b>> /\ e.from = (2 * (a + i)) .. (2 * (a + i) + 1)
      BY <1>3, <2>1
    <3> DEFINE reg == a + i
    <3>2. R!RegisterOf(e.what) = reg
      BY <3>1 DEF R!RegisterOf, AlarmsAt
    <3>3. reg \in Nat /\ reg >= a /\ reg < f + Faults /\ reg >= R!At /\ 2 * reg + 1 <= 2 * R!At + R!Length - 1 /\ i \in Nat
      <4>1. i \in 0 .. 3
        BY <1>a
      <4>2. start + 8 <= R!Length
        BY <1>a
      <4> QED
        BY <1>1, <1>a, <4>1, <4>2
    <3>4. e.what = <<"alarm", i, b>> /\ e.from = (2 * reg) .. (2 * reg + 1)
      BY <3>1
    <3> HIDE DEF reg
    <3> QED
      BY <3>2, <3>3, <3>4
  <2>2. CASE e \in F
    <3>1. PICK i \in 0 .. m - 1, b \in raised :
             i < Faults /\ e.what = <<"fault", i, b>> /\ e.from = (2 * (f + i)) .. (2 * (f + i) + 1)
      BY <1>4, <2>2
    <3> DEFINE reg == f + i
    <3>2. R!RegisterOf(e.what) = reg
      BY <3>1 DEF R!RegisterOf, AlarmsAt
    <3>3. reg \in Nat /\ reg >= a /\ reg < f + Faults /\ reg >= R!At /\ 2 * reg + 1 <= 2 * R!At + R!Length - 1 /\ i \in Nat
      BY <1>1, <1>a, <3>1
    <3>4. e.what = <<"fault", i, b>> /\ e.from = (2 * reg) .. (2 * reg + 1)
      BY <3>1
    <3> HIDE DEF reg
    <3> QED
      BY <3>2, <3>3, <3>4
  <2> QED
    BY <2>1, <2>2
<1>6. {e.what : e \in A \cup F} = NamedBits("alarm", R!Tables(model)[1]) \cup NamedBits("fault", R!Tables(model)[2])
  BY <1>3, <1>4
<1>7. ASSUME NEW e \in A \cup F
      PROVE  Inside(e) /\ e.from \subseteq (2 * a) .. (2 * (f + Faults) - 1) /\ e.what[1] \in {"alarm", "fault"}
  <2>1. PICK reg \in Nat : reg >= a /\ reg < f + Faults /\ \E name \in {"alarm", "fault"}, i \in Nat, b \in raised :
               /\ e.what = <<name, i, b>> /\ e.from = (2 * reg) .. (2 * reg + 1)
               /\ R!RegisterOf(e.what) = reg /\ reg >= R!At /\ 2 * reg + 1 <= 2 * R!At + R!Length - 1
    BY <1>5
  <2>2. reg \in Nat /\ 2 * reg \in {2 * reg, 2 * reg + 1} /\ 2 * reg + 1 \in Nat /\ 2 * reg <= 2 * reg + 1
    BY <1>1, <1>a
  <2>3. Inside(e)
    BY <1>1, <2>1, <2>2, TakenInside
  <2>4. e.from \subseteq (2 * a) .. (2 * (f + Faults) - 1)
    <3>1. e.from = (2 * reg) .. (2 * reg + 1) /\ reg >= a /\ reg < f + Faults
      BY <2>1
    <3>2. PICK c \in Nat : c = f + Faults
      BY <1>1, <1>a
    <3>3. a \in Nat /\ reg < c
      BY <1>a, <3>1, <3>2
    <3>4. (2 * reg) .. (2 * reg + 1) \subseteq (2 * a) .. (2 * c - 1)
      BY <3>1, <3>3
    <3> QED
      BY <3>1, <3>2, <3>4
  <2> QED
    BY <2>1, <2>3, <2>4
<1>8. ASSUME NEW e \in A \cup F, NEW g \in A \cup F, e.what # g.what, e.from \cap g.from # {}
      PROVE  e.from = g.from /\ Len(e.what) = 3
  <2>1. PICK r \in Nat : \E name \in {"alarm", "fault"}, i \in Nat, b \in raised :
               e.what = <<name, i, b>> /\ e.from = (2 * r) .. (2 * r + 1)
    BY <1>5
  <2>2. PICK s \in Nat : g.from = (2 * s) .. (2 * s + 1)
    BY <1>5
  <2>3. r = s
    <3>1. PICK k \in e.from : k \in g.from
      BY <1>8
    <3>2. k \in (2 * r) .. (2 * r + 1) /\ k \in (2 * s) .. (2 * s + 1)
      BY <2>1, <2>2, <3>1
    <3>3. k \in Int /\ 2 * r <= k /\ k <= 2 * r + 1 /\ 2 * s <= k /\ k <= 2 * s + 1
      BY <3>2
    <3> QED
      BY <3>3
  <2>4. Len(e.what) = 3
    BY <2>1
  <2> QED
    BY <2>1, <2>2, <2>3, <2>4
<1> QED
  BY <1>6, <1>7, <1>8 DEF A, F

\* Home: the fields and the alarms.
LEMMA HomeRight ==
  ASSUME Placed, read = <<100, 62>>, ~R!V1(model)
  PROVE  Right(R!V2Parse)
<1> DEFINE G == R!Alarms("alarm", 52, 4, R!Tables(model)[1]) \cup R!Alarms("fault", 66, 6, R!Tables(model)[2])
<1>1. R!At = 100 /\ R!Length = 124
  BY DEF R!At, R!Length
<1>2. R!V2Parse = R!Parse(R!Home) \cup G
  BY <1>1 DEF R!V2Parse
<1>3. /\ {e.what : e \in G} = NamedBits("alarm", R!Tables(model)[1]) \cup NamedBits("fault", R!Tables(model)[2])
      /\ \A e \in G : Inside(e) /\ e.from \subseteq (2 * 126) .. (2 * (133 + Faults) - 1)
      /\ \A w \in {e.what : e \in G} : w[1] \in {"alarm", "fault"}
      /\ \A e, g \in G : e.what # g.what /\ e.from \cap g.from # {} => e.from = g.from /\ Len(e.what) = 3
  <2>1. AlarmsAt(52, 66, 4, 6, 126, 133)
    BY <1>1 DEF AlarmsAt
  <2> QED
    BY <2>1, AlarmsRight
<1>4. R!Declared = NamedBits("alarm", R!Tables(model)[1]) \cup NamedBits("fault", R!Tables(model)[2])
  BY DEF R!Declared, NamedBits
<1>5. \A w \in {e.what : e \in G} : w[1] \in R!Groups
  BY <1>3 DEF R!Groups
<1> HIDE DEF G
<1>6. \A e \in R!Parse(R!Home), g \in G : e.from \cap g.from = {}
  <2>1. FreeOf(R!Home, 126, 139)
    BY DEF FreeOf, R!Home, R!Fields, R!SizeOf
  <2>2. \A e \in G : e.from \subseteq (2 * 126) .. (2 * 139 - 1)
    BY <1>3 DEF Faults
  <2>3. 126 \in Nat /\ 139 \in Nat /\ FieldsOf(R!Home)
    BY HomeSpaced
  <2> QED
    BY <2>1, <2>2, <2>3, GroupsApart
<1>7. Right(R!Parse(R!Home) \cup G)
  BY <1>3, <1>4, <1>5, <1>6, HomeSpaced, PartsRight
<1> QED
  BY <1>2, <1>7

\* A block of which only fields are shown.
LEMMA FieldsRight ==
  ASSUME Placed, NEW struct, FieldsOf(struct), Spaced(struct), R!Declared = {}
  PROVE  Right(R!Parse(struct))
<1>1. Right(R!Parse(struct) \cup {})
  BY PartsRight
<1>2. R!Parse(struct) \cup {} = R!Parse(struct)
  OBVIOUS
<1> QED
  BY <1>1, <1>2

\* The load test's own reads, too short for a group.
LEMMA ShortRight ==
  ASSUME Placed, read \in R!LoadReads, ~R!V1(model)
  PROVE  Right(R!V2Parse)
<1>1. R!Declared = {}
  BY DEF R!Declared, R!LoadReads
<1>2. CASE R!At \in 100 .. 1099
  <2>1. R!Length \in 0 .. 20
    BY <1>2 DEF R!At, R!Length, R!LoadReads
  <2>2. R!Alarms("alarm", 52, 4, R!Tables(model)[1]) = {} /\ R!Alarms("fault", 66, 6, R!Tables(model)[2]) = {}
    BY <2>1 DEF R!Alarms, R!Fits
  <2>3. R!V2Parse = R!Parse(R!Home)
    <3>1. R!V2Parse = R!Parse(R!Home) \cup R!Alarms("alarm", 52, 4, R!Tables(model)[1])
                                      \cup R!Alarms("fault", 66, 6, R!Tables(model)[2])
      <4>1. R!At \in {100, 140, 150}
        BY <1>2 DEF R!At, R!LoadReads
      <4>2. /\ R!At \notin 1100 .. 1199 /\ R!At \notin 1200 .. 1299 /\ R!At \notin 1300 .. 1399 /\ R!At \notin 1400 .. 1499
            /\ R!At \notin 1500 .. 1999 /\ R!At \notin 11000 .. 11099
        BY <4>1
      <4> QED
        BY <1>2, <4>2 DEF R!V2Parse
    <3> QED
      BY <2>2, <3>1
  <2> QED
    BY <1>1, <2>3, HomeSpaced, FieldsRight
<1>3. CASE R!At = 1151
  <2>1. R!Length = 4
    BY <1>3 DEF R!At, R!Length, R!LoadReads
  <2>2. R!Array("version", 26, 6, 6, 6) = {}
    BY <2>1 DEF R!Array, R!Fits
  <2>3. R!V2Parse = R!Parse(R!InvBase)
    BY <1>3, <2>2 DEF R!V2Parse
  <2> QED
    BY <1>1, <2>3, InvBaseSpaced, FieldsRight
<1> QED
  BY <1>2, <1>3 DEF R!LoadReads, R!At

\* A pack: its fields.
LEMMA PackRight ==
  ASSUME Placed, read = <<6000, 32>>
  PROVE  Right(R!PackParse)
<1>1. R!PackParse = R!Parse(R!PackMain)
  BY DEF R!PackParse, R!At
<1>2. R!Declared = {}
  BY DEF R!Declared
<1> QED
  BY <1>1, <1>2, PackMainSpaced, FieldsRight

\* The pieces of the IoT block: where they begin, and their bytes.
Pieces == {<<0, 12>>, <<12, 8>>, <<28, 4>>, <<32, 4>>, <<36, 2>>, <<40, 4>>, <<44, 4>>, <<48, 4>>, <<53, 1>>, <<54, 6>>,
           <<60, 6>>, <<69, 1>>}

\* The IoT block: its pieces lie apart.
LEMMA IotRight ==
  ASSUME Placed, read = <<11000, 70>>, ~R!V1(model)
  PROVE  Right(R!V2Parse)
<1>1. R!At = 11000 /\ R!Length = 140
  BY DEF R!At, R!Length
<1>2. R!V2Parse = R!Iot
  BY <1>1 DEF R!V2Parse
<1>3. R!Declared = {}
  BY DEF R!Declared
<1>4. ASSUME NEW e \in R!Iot
      PROVE  \E p \in Pieces : e.what = <<"iot", p[1]>> /\ e.from = (22000 + p[1]) .. (22000 + p[1] + p[2] - 1)
  BY <1>1 DEF R!Iot, R!Fits, Pieces
<1>5. ASSUME NEW e \in R!Iot
      PROVE  Inside(e)
  <2>1. PICK p \in Pieces : e.what = <<"iot", p[1]>> /\ e.from = (22000 + p[1]) .. (22000 + p[1] + p[2] - 1)
    BY <1>4
  <2>2. PICK s \in Nat, z \in 1 .. 12 : p = <<s, z>> /\ s + z <= 70
    BY DEF Pieces
  <2> DEFINE reg == 11000 + s \div 2
  <2>3. R!RegisterOf(e.what) = reg
    BY <2>1, <2>2 DEF R!RegisterOf
  <2>4. reg \in Nat /\ reg >= 11000 /\ 22000 + s \in {2 * reg, 2 * reg + 1}
    BY <2>2
  <2>5. 22000 + s + z - 1 \in Nat /\ 22000 + s <= 22000 + s + z - 1 /\ 22000 + s + z - 1 <= 22139
    BY <2>2
  <2> DEFINE from == 22000 + s
             last == 22000 + s + z - 1
  <2>6. e.from = from .. last
    BY <2>1, <2>2
  <2>7. last \in Nat /\ from <= last /\ last <= 22139 /\ from \in {2 * reg, 2 * reg + 1}
    BY <2>4, <2>5
  <2> HIDE DEF reg, from, last
  <2> QED
    BY <1>1, <2>7, <2>3, <2>4, <2>5, <2>6, TakenInside
<1>6. ASSUME NEW e \in R!Iot, NEW f \in R!Iot, e.what # f.what
      PROVE  e.from \cap f.from = {}
  <2>1. PICK p \in Pieces : e.what = <<"iot", p[1]>> /\ e.from = (22000 + p[1]) .. (22000 + p[1] + p[2] - 1)
    BY <1>4
  <2>2. PICK q \in Pieces : f.what = <<"iot", q[1]>> /\ f.from = (22000 + q[1]) .. (22000 + q[1] + q[2] - 1)
    BY <1>4
  <2>3. p # q
    BY <1>6, <2>1, <2>2
  <2>4. p[1] \in Nat /\ q[1] \in Nat /\ p[2] \in Nat /\ q[2] \in Nat /\ (p[1] + p[2] <= q[1] \/ q[1] + q[2] <= p[1])
    BY <2>3 DEF Pieces
  <2>5. PICK s \in Nat, z \in Nat : s = p[1] /\ z = p[2]
    BY <2>4
  <2>6. PICK u \in Nat, v \in Nat : u = q[1] /\ v = q[2]
    BY <2>4
  <2>7. e.from = (22000 + s) .. (22000 + s + z - 1) /\ f.from = (22000 + u) .. (22000 + u + v - 1)
    BY <2>1, <2>2, <2>5, <2>6
  <2>8. s + z <= u \/ u + v <= s
    BY <2>4, <2>5, <2>6
  <2> QED
    BY <2>7, <2>8
<1>7. {e.what : e \in R!Iot} \cap {w \in {e.what : e \in R!Iot} : w[1] \in R!Groups} = {}
  <2>1. \A e \in R!Iot : e.what[1] = "iot"
    BY <1>4
  <2> QED
    BY <2>1 DEF R!Groups
<1> QED
  BY <1>2, <1>3, <1>5, <1>6, <1>7 DEF Right

\* A block of a V1 device: fields, versions, alarms.
LEMMA V1Right ==
  ASSUME Placed, read = <<10, 110>>, R!V1(model)
  PROVE  Right(R!V1Parse)
<1> DEFINE V == R!Array("version", 26, 4, 4, 6)
           F == R!Alarms("alarm", 88, 4, R!Tables(model)[1]) \cup R!Alarms("fault", 96, 7, R!Tables(model)[2])
           G == V \cup F
<1>1. R!At = 10 /\ R!Length = 220
  BY DEF R!At, R!Length
<1>2. R!V1Parse = R!Parse(R!RealData) \cup G
  BY <1>1 DEF R!V1Parse
<1>3. /\ {e.what : e \in F} = NamedBits("alarm", R!Tables(model)[1]) \cup NamedBits("fault", R!Tables(model)[2])
      /\ \A e \in F : Inside(e) /\ e.from \subseteq (2 * 54) .. (2 * (58 + Faults) - 1)
      /\ \A w \in {e.what : e \in F} : w[1] \in {"alarm", "fault"}
      /\ \A e, g \in F : e.what # g.what /\ e.from \cap g.from # {} => e.from = g.from /\ Len(e.what) = 3
  <2>1. AlarmsAt(88, 96, 4, 7, 54, 58)
    BY <1>1 DEF AlarmsAt
  <2> QED
    BY <2>1, AlarmsRight
<1>4. /\ {e.what : e \in V} = {<<"version", i>> : i \in 0 .. 6 - 1}
      /\ \A e \in V : \E i \in 0 .. 6 - 1 : e = R!Group("version", 26, 4, 4, i)
  <2>1. \A i \in 0 .. 6 - 1 : R!Fits(26 + i * 4 + 4)
    BY <1>1 DEF R!Fits
  <2> QED
    BY <2>1, ArrayOf
<1>5. ASSUME NEW e \in V
      PROVE  \E i \in 0 .. 5 : e.what = <<"version", i>> /\ e.from = (46 + 4 * i) .. (49 + 4 * i)
  <2>1. PICK i \in 0 .. 6 - 1 : e = R!Group("version", 26, 4, 4, i)
    BY <1>4
  <2> QED
    BY <1>1, <2>1 DEF R!Group
<1> HIDE DEF V, F
<1>6. ASSUME NEW e \in V
      PROVE  Inside(e)
  <2>1. PICK i \in 0 .. 5 : e.what = <<"version", i>> /\ e.from = (46 + 4 * i) .. (49 + 4 * i)
    BY <1>5
  <2> DEFINE reg == 23 + 2 * i
  <2>2. R!RegisterOf(e.what) = reg
    BY <2>1 DEF R!RegisterOf
  <2>3. reg \in Nat /\ 46 + 4 * i \in {2 * reg, 2 * reg + 1} /\ reg >= 10 /\ 49 + 4 * i \in Nat /\ 49 + 4 * i <= 239
    OBVIOUS
  <2> HIDE DEF reg
  <2>4. 46 + 4 * i <= 49 + 4 * i
    OBVIOUS
  <2> QED
    BY <1>1, <2>1, <2>2, <2>3, <2>4, TakenInside
<1>7. R!Declared = {e.what : e \in G}
  <2>1. R!Declared = NamedBits("alarm", R!Tables(model)[1]) \cup NamedBits("fault", R!Tables(model)[2])
                     \cup {<<"version", i>> : i \in 0 .. 6 - 1}
    BY DEF R!Declared, NamedBits
  <2>2. {e.what : e \in G} = {e.what : e \in V} \cup {e.what : e \in F}
    OBVIOUS
  <2> QED
    BY <1>3, <1>4, <2>1, <2>2
<1>8. \A w \in {e.what : e \in G} : w[1] \in R!Groups
  BY <1>3, <1>4 DEF R!Groups
<1>9. ASSUME NEW e \in G, NEW g \in G, e.what # g.what, e.from \cap g.from # {}
      PROVE  e.from = g.from /\ Len(e.what) = 3
  <2>1. CASE e \in F /\ g \in F
    BY <1>3, <1>9, <2>1
  <2>2. CASE e \in V /\ g \in V
    <3>1. PICK i \in 0 .. 5 : e.what = <<"version", i>> /\ e.from = (46 + 4 * i) .. (49 + 4 * i)
      BY <1>5, <2>2
    <3>2. PICK j \in 0 .. 5 : g.what = <<"version", j>> /\ g.from = (46 + 4 * j) .. (49 + 4 * j)
      BY <1>5, <2>2
    <3>3. i < j \/ j < i
      BY <1>9, <3>1, <3>2
    <3> QED
      BY <1>9, <3>1, <3>2, <3>3
  <2>3. \A v \in V : v.from \subseteq 46 .. 69
    BY <1>5
  <2>4. \A v \in F : v.from \subseteq 108 .. 125
    BY <1>3 DEF Faults
  <2> QED
    BY <1>9, <2>1, <2>2, <2>3, <2>4
<1>10. \A e \in R!Parse(R!RealData), g \in F : e.from \cap g.from = {}
  <2>1. FreeOf(R!RealData, 54, 63)
    BY DEF FreeOf, R!RealData, R!Fields, R!SizeOf
  <2>2. \A g \in F : g.from \subseteq (2 * 54) .. (2 * 63 - 1)
    BY <1>3 DEF Faults
  <2>3. 54 \in Nat /\ 63 \in Nat /\ FieldsOf(R!RealData)
    BY RealDataSpaced
  <2> QED
    BY <2>1, <2>2, <2>3, GroupsApart
<1>11. ASSUME NEW e \in R!Parse(R!RealData), NEW g \in G, e.from \cap g.from # {}
       PROVE  R!Known(e, g)
  <2>1. CASE g \in F
    BY <1>10, <1>11, <2>1
  <2>2. CASE g \in V
    <3>1. PICK i \in 0 .. 5 : g.what = <<"version", i>> /\ g.from = (46 + 4 * i) .. (49 + 4 * i)
      BY <1>5, <2>2
    <3>2. PICK f \in R!RealData : e = [what |-> f, from |-> R!BytesOf(f)]
      BY DEF R!Parse, R!Present
    <3>3. PICK k \in {"word", "high", "low", "two", "four", "six"}, r \in Nat : f = <<k, r>>
      BY RealDataSpaced DEF FieldsOf, AnyField
    <3>4. R!SizeOf[k] \in 1 .. 6 /\ e.from \subseteq (2 * r) .. (2 * r + 2 * R!SizeOf[k] - 1)
      BY <3>2, <3>3, FieldBytes
    <3>5. r + R!SizeOf[k] <= 23 \/ r >= 35 \/ (k = "four" /\ r = 21)
      BY <3>3 DEF R!RealData, R!Fields, R!SizeOf
    <3>6. g.from \subseteq 46 .. 69
      BY <3>1
    <3>7. k = "four" /\ r = 21
      BY <1>11, <3>4, <3>5, <3>6
    <3>8. e.from \subseteq 42 .. 49
      BY <3>4, <3>7 DEF R!SizeOf
    <3>9. i = 0
      BY <1>11, <3>1, <3>8
    <3> QED
      BY <3>1, <3>2, <3>3, <3>7, <3>9 DEF R!Known
  <2> QED
    BY <2>1, <2>2
<1>12. \A e \in G : Inside(e)
  BY <1>3, <1>6
<1> HIDE DEF G
<1>13. Right(R!Parse(R!RealData) \cup G)
  BY <1>7, <1>8, <1>9, <1>11, <1>12, RealDataSpaced, PartsRight
<1> QED
  BY <1>2, <1>13

\* Whatever is read of whatever device, what is shown is there.
LEMMA DecodeRight ==
  ASSUME Placed, read \in R!PolledReads(model) \cup R!LoadReads,
         NEW S, S = CASE R!V1(model) -> R!V1Parse [] model = "HB500S" -> R!PackParse [] OTHER -> R!V2Parse
  PROVE  S = {} \/ Right(S)
<1>1. CASE R!V1(model)
  <2>1. S = R!V1Parse
    BY <1>1 DEF R!V1
  <2>2. read = <<10, 110>> \/ read \in R!LoadReads
    BY <1>1 DEF R!PolledReads, R!V1
  <2>3. CASE read \in R!LoadReads
    BY <2>1, <2>3 DEF R!V1Parse, R!LoadReads, R!At
  <2> QED
    BY <1>1, <2>1, <2>2, <2>3, V1Right
<1>2. CASE model = "HB500S"
  <2>1. ~R!V1(model)
    BY <1>2 DEF R!V1
  <2>2. S = R!PackParse
    BY <1>2, <2>1
  <2>3. read = <<6000, 32>> \/ read \in R!LoadReads
    BY <1>2, <2>1 DEF R!PolledReads
  <2>4. CASE read \in R!LoadReads
    BY <2>2, <2>4 DEF R!PackParse, R!LoadReads, R!At
  <2> QED
    BY <2>2, <2>3, <2>4, PackRight
<1>3. CASE ~R!V1(model) /\ model # "HB500S"
  <2>1. S = R!V2Parse
    BY <1>3
  <2>2. \/ read \in {<<100, 62>>, <<1100, 51>>, <<1200, 70>>, <<1300, 31>>, <<1400, 48>>, <<1500, 30>>, <<11000, 70>>}
        \/ read \in R!LoadReads
    BY <1>3 DEF R!PolledReads
  <2> QED
    BY <1>3, <2>1, <2>2, HomeRight, InvBaseRight, PvRight, GridRight, LoadRight, InvRight, IotRight, ShortRight
<1> QED
  BY <1>1, <1>2, <1>3

\* The invariant: what is shown of a block is right.
ShownInv ==
  /\ Placed /\ read \in R!PolledReads(model) \cup R!LoadReads
  /\ shown # {} => Right(shown)

\* Nothing is shown.
LEMMA ShownInit ==
  ASSUME R!Init
  PROVE  ShownInv
<1>1. read \in Nat \X Nat
  BY DEF R!Init, R!PolledReads, R!LoadReads
<1>2. counts \in [phases : Nat, ac : Nat, dc : Nat]
  <2> DEFINE A == IF R!At \in {1300, 1400, 1500} THEN Counts ELSE {0}
             B == IF R!At \in {1200} THEN Counts ELSE {0}
  <2>1. A \subseteq Nat /\ B \subseteq Nat
    BY CountsHere DEF R!CountsAssumption
  <2>2. counts \in [phases : A, ac : B, dc : B]
    BY DEF R!Init
  <2> HIDE DEF A, B
  <2> QED
    BY <2>1, <2>2
<1>3. raised \subseteq 0 .. 15
  BY CountsHere DEF R!CountsAssumption, R!Init
<1> QED
  BY <1>1, <1>2, <1>3 DEF ShownInv, Placed, R!Init

\* A block is decoded.
LEMMA ShownStep ==
  ASSUME ShownInv, [R!Next]_R!vars
  PROVE  ShownInv'
<1>1. CASE UNCHANGED R!vars
  BY <1>1 DEF ShownInv, R!vars, Placed, Right, Inside, R!Declared, R!RegisterOf, R!Known, R!Length, R!At
<1>2. CASE R!Decode
  <2>1. UNCHANGED <<model, read, counts, raised>>
    BY <1>2 DEF R!Decode
  <2>2. shown' = {} \/ Right(shown')
    BY <1>2, DecodeRight DEF R!Decode, ShownInv
  <2>3. shown' # {} => Right(shown)'
    <3>1. \A e : Inside(e)' = Inside(e)
      BY <2>1 DEF Inside, R!RegisterOf, R!Length, R!At, R!V1
    <3>2. \A e, f : R!Known(e, f)' = R!Known(e, f)
      BY <2>1 DEF R!Known, R!V1
    <3>3. R!Declared' = R!Declared
      BY <2>1 DEF R!Declared, R!Tables, R!V1
    <3> QED
      BY <2>2, <3>1, <3>2, <3>3 DEF Right
  <2>4. Placed' /\ (read \in R!PolledReads(model) \cup R!LoadReads)'
    BY <2>1 DEF ShownInv, Placed, R!PolledReads, R!LoadReads
  <2> QED
    BY <2>3, <2>4 DEF ShownInv
<1> QED
  BY <1>1, <1>2 DEF R!Next

\* What is shown is there.
LEMMA ShownThere == ShownInv => R!ShowsWhatIsThere
BY DEF ShownInv, R!ShowsWhatIsThere, Right, Inside

\* Every value shown of a block lies within what was read, at its own registers, takes
\* no byte of another but for the one overlap that is known, and every group and bit that
\* the device declares is shown: DeviceStruct.parse and the parse methods of V2Base, V1Base
\* and the packs.
THEOREM RegistersShowsWhatIsThere == Spec => []ShowsWhatIsThere
<1> DEFINE Inv == part = "decoding" => ShownInv
<1>1. Init => Inv
  BY ShownInit DEF Init
<1>2. Inv /\ [R!Next]_R!vars /\ UNCHANGED part => Inv'
  BY ShownStep
<1>3. [Next]_vars => [R!Next]_R!vars /\ UNCHANGED part
  BY OneOfTheParts
<1>4. Inv => ShowsWhatIsThere
  BY ShownThere DEF ShowsWhatIsThere
<1> QED
  BY <1>1, <1>2, <1>3, <1>4, PTL DEF Spec

-----------------------------------------------------------------------------
(* Observations.                                                           *)

\* The observations: of one register, of two that are added, of a state.
Ids == DOMAIN O!CORE_OBSERVATION_DEFS
Single == {"soc", "ac_output_voltage", "grid_voltage", "pack_voltage", "ac_output_state", "dc_output_state", "charging_mode"}
Sums == {"output_watts", "input_watts"}
Exact == {"ac_output_state", "dc_output_state", "charging_mode"}

\* What the device and tier 1 fix for the time of an observation.
Observed ==
  /\ id \in Ids
  /\ word \in [O!Registers -> IF O!Def.tolerance = "exact" THEN {0, 1} ELSE Raws]
  /\ scale \in IF O!Def.tolerance = "exact" THEN {1} ELSE {1, 10, 100}
  /\ blocks \in [{O!BlockOf(r) : r \in O!Registers} -> {"pass", "unparsed", "failed"}]

\* What an operator can read off the display.
Readable(low) == low \in {O!Display, O!Rounded(O!Display)}

\* ObservationSound, of what is made of one answer.
Sound(entered, outcome) ==
  /\ (/\ outcome.status \in {"match", "mismatch"} /\ O!Complete /\ scale = O!Def.divisor
      /\ (entered.kind = "one" /\ Readable(entered.low)) \/ entered.kind = "levels") => outcome.status = "match"
  /\ (/\ outcome.inferred # O!None /\ Len(O!Def.registers) = 1 /\ Readable(entered.low)) => outcome.inferred = scale

\* Rounding.
LEMMA RoundedNear ==
  ASSUME NEW n \in Nat
  PROVE  /\ O!Rounded(n) \in Nat /\ O!Abs(O!Rounded(n) - n) <= 50 /\ \E q \in Nat : O!Rounded(n) = 100 * q
         /\ n \in {0, 100} => O!Rounded(n) = n
<1>1. (n + 50) \div 100 \in Nat /\ 100 * ((n + 50) \div 100) <= n + 50 /\ n + 50 < 100 * ((n + 50) \div 100) + 100
  OBVIOUS
<1>2. n \in {0, 100} => O!Rounded(n) = n
  BY DEF O!Rounded
<1> QED
  BY <1>1, <1>2 DEF O!Rounded, O!Abs

\* A decoded register, for the divisors there are.
LEMMA HundredthsNat ==
  ASSUME NEW raw \in Nat, NEW divisor \in {1, 10, 100}
  PROVE  /\ O!Hundredths(raw, divisor) \in Nat
         /\ O!Hundredths(raw, divisor) = IF divisor = 1 THEN 100 * raw ELSE IF divisor = 10 THEN 10 * raw ELSE raw
BY DEF O!Hundredths

\* The scale that is proposed.
LEMMA ScaleFound ==
  ASSUME NEW raw \in Nat, NEW s \in {1, 10, 100},
         NEW low \in {O!Hundredths(raw, s), O!Rounded(O!Hundredths(raw, s))},
         raw # 1 \/ s # 10 \/ low # 0,
         O!infer_scale(low, raw) # O!None
  PROVE  O!infer_scale(low, raw) = s
<1> DEFINE n == O!Hundredths(raw, s)
<1>1. n \in Nat /\ n = (IF s = 1 THEN 100 * raw ELSE IF s = 10 THEN 10 * raw ELSE raw)
  BY HundredthsNat
<1>2. low \in Nat /\ low - n <= 50 /\ n - low <= 50 /\ (low = n \/ \E q \in Nat : low = 100 * q)
  <2>1. CASE low = n
    BY <1>1, <2>1
  <2>2. CASE low = O!Rounded(n)
    <3>1. O!Rounded(n) \in Nat /\ O!Abs(O!Rounded(n) - n) <= 50 /\ \E q \in Nat : O!Rounded(n) = 100 * q
      BY <1>1, RoundedNear
    <3> QED
      BY <1>1, <2>2, <3>1 DEF O!Abs
  <2> QED
    BY <2>1, <2>2
<1>3. s = 1 => low = n
  <2>1. s = 1 => O!Rounded(100 * raw) = 100 * raw
    BY DEF O!Rounded
  <2> QED
    BY <1>1, <2>1
<1> HIDE DEF n
<1> DEFINE near(scaled) == 100 * O!Abs(low - scaled) <= O!Larger(O!Larger(O!Abs(low), O!Abs(scaled)), 100)
<1>4. \A scaled \in Nat : near(scaled) <=>
        /\ 100 * (low - scaled) <= 100 \/ 100 * (low - scaled) <= low \/ 100 * (low - scaled) <= scaled
        /\ 100 * (scaled - low) <= 100 \/ 100 * (scaled - low) <= low \/ 100 * (scaled - low) <= scaled
  BY <1>2 DEF O!Abs, O!Larger
<1>5. raw # 0
  BY DEF O!infer_scale
<1>6. O!infer_scale(low, raw) =
        IF near(10 * raw) THEN 10 ELSE IF near(raw) THEN 100 ELSE IF O!Abs(low - 100 * raw) <= 50 THEN 1 ELSE O!None
  BY <1>5 DEF O!infer_scale
<1>7. 10 * raw \in Nat
  OBVIOUS
<1> HIDE DEF near
<1>8. CASE s = 1
  <2>1. low = 100 * raw
    BY <1>1, <1>3, <1>8
  <2>2. ~near(10 * raw) /\ ~near(raw)
    BY <1>4, <1>5, <1>7, <2>1
  <2> QED
    BY <1>6, <1>8, <2>2
<1>9. CASE s = 10
  <2>1. n = 10 * raw
    BY <1>1, <1>9
  <2>2. near(raw) => near(10 * raw)
    BY <1>2, <1>4, <1>5, <1>7, <1>9, <2>1
  <2>3. O!Abs(low - 100 * raw) <= 50 => near(10 * raw)
    BY <1>2, <1>4, <1>5, <1>7, <1>9, <2>1 DEF O!Abs
  <2> QED
    BY <1>6, <1>9, <2>2, <2>3
<1>10. CASE s = 100
  <2>1. n = raw
    BY <1>1, <1>10
  <2>2. ~near(10 * raw)
    BY <1>2, <1>4, <1>5, <1>7, <2>1
  <2>3. ~(O!Abs(low - 100 * raw) <= 50)
    BY <1>2, <1>5, <2>1 DEF O!Abs
  <2> QED
    BY <1>6, <1>10, <2>2, <2>3
<1> QED
  BY <1>8, <1>9, <1>10

\* The observations, by what their definitions say.
LEMMA Definitions ==
  ASSUME id \in Ids
  PROVE  /\ id \in Single \/ id \in Sums \/ id = "ac_output_frequency"
         /\ id \in Single => /\ Len(O!Def.registers) = 1 /\ DOMAIN O!Def.registers = {1} /\ O!Def.aggregate = "first"
         /\ id \in Sums => /\ Len(O!Def.registers) = 2 /\ DOMAIN O!Def.registers = {1, 2} /\ O!Def.aggregate = "sum_abs"
         /\ id = "ac_output_frequency" => /\ Len(O!Def.registers) = 2 /\ DOMAIN O!Def.registers = {1, 2} /\ O!Def.aggregate = "first"
         /\ O!Def.divisor \in {1, 10, 100}
         /\ O!Def.tolerance \in {"soc", "watts", "voltage", "frequency", "exact"}
         /\ id \in Exact <=> O!Def.tolerance = "exact"
         /\ id \in Exact => id \in Single
         /\ id \in Single /\ ~(id \in Exact) => O!Def.tolerance \in {"soc", "voltage"}
<1>1. id \in {"soc", "output_watts", "input_watts", "ac_output_frequency", "ac_output_voltage", "grid_voltage",
              "pack_voltage", "ac_output_state", "dc_output_state", "charging_mode"}
  BY DEF Ids, O!CORE_OBSERVATION_DEFS
<1>2. CASE id \in Single
  <2>1. /\ O!Def.registers \in {<<102>>, <<1431>>, <<1314>>, <<100>>, <<2011>>, <<2012>>, <<2020>>}
        /\ O!Def.aggregate = "first" /\ O!Def.divisor \in {1, 10, 100}
        /\ O!Def.tolerance \in {"soc", "voltage", "exact"} /\ (id \in Exact <=> O!Def.tolerance = "exact")
    BY <1>2 DEF Single, Exact, O!Def, O!CORE_OBSERVATION_DEFS, O!Definition
  <2>2. Len(O!Def.registers) = 1 /\ DOMAIN O!Def.registers = {1}
    BY <2>1
  <2>3. ~(id \in Sums) /\ id # "ac_output_frequency"
    BY <1>2 DEF Single, Sums
  <2> QED
    BY <1>2, <2>1, <2>2, <2>3
<1>3. CASE id \in Sums
  <2>1. /\ O!Def.registers \in {<<140, 142>>, <<144, 146>>}
        /\ O!Def.aggregate = "sum_abs" /\ O!Def.divisor = 1 /\ O!Def.tolerance = "watts"
    BY <1>3 DEF Sums, O!Def, O!CORE_OBSERVATION_DEFS, O!Definition
  <2>2. ~(id \in Single) /\ ~(id \in Exact) /\ id # "ac_output_frequency"
    BY <1>3 DEF Single, Sums, Exact
  <2>3. Len(O!Def.registers) = 2 /\ DOMAIN O!Def.registers = {1, 2}
    BY <2>1
  <2> QED
    BY <1>3, <2>1, <2>2, <2>3
<1>4. CASE id = "ac_output_frequency"
  <2>1. /\ O!Def.registers = <<1300, 1500>>
        /\ O!Def.aggregate = "first" /\ O!Def.divisor = 10 /\ O!Def.tolerance = "frequency"
    BY <1>4 DEF O!Def, O!CORE_OBSERVATION_DEFS, O!Definition
  <2>2. ~(id \in Single) /\ ~(id \in Exact) /\ ~(id \in Sums)
    BY <1>4 DEF Single, Sums, Exact
  <2> QED
    BY <1>4, <2>1, <2>2
<1> QED
  BY <1>1, <1>2, <1>3, <1>4 DEF Single, Sums

\* What the registers hold are numbers, and so is what the device shows.
LEMMA ShownNumbers ==
  ASSUME Observed
  PROVE  /\ \A i \in DOMAIN O!Def.registers : word[O!Def.registers[i]] \in Nat
         /\ \A i \in DOMAIN O!Def.registers : O!Read(i) \in Nat
         /\ O!Display \in Nat
         /\ id \in Exact => scale = 1 /\ O!Display \in {0, 100}
         /\ scale \in {1, 10, 100}
<1>1. id \in Ids /\ scale \in {1, 10, 100} /\ (id \in Exact => scale = 1)
  BY Definitions DEF Observed
<1>2. \A i \in DOMAIN O!Def.registers : /\ word[O!Def.registers[i]] \in Nat
                                        /\ id \in Exact => word[O!Def.registers[i]] \in {0, 1}
  <2>1. \A i \in DOMAIN O!Def.registers : O!Def.registers[i] \in O!Registers
    BY DEF O!Registers
  <2>2. id \in Exact <=> O!Def.tolerance = "exact"
    BY <1>1, Definitions
  <2>3. \A r \in O!Registers : word[r] \in IF O!Def.tolerance = "exact" THEN {0, 1} ELSE Raws
    BY DEF Observed
  <2> HIDE DEF O!Def
  <2>4. CASE id \in Exact
    BY <2>1, <2>2, <2>3, <2>4
  <2>5. CASE ~(id \in Exact)
    BY <2>1, <2>2, <2>3, <2>5, ObservedHere DEF O!ObservedAssumption
  <2> QED
    BY <2>4, <2>5
<1>3. \A i \in DOMAIN O!Def.registers : O!Read(i) \in Nat
  BY <1>1, <1>2, HundredthsNat, Definitions DEF O!Read
<1>4. \A i \in DOMAIN O!Def.registers : O!Hundredths(word[O!Def.registers[i]], scale) \in Nat
  BY <1>1, <1>2, HundredthsNat
<1>5. O!Display \in Nat
  <2>1. CASE id \in Sums
    <3>1. O!Display = O!Hundredths(word[O!Def.registers[1]], scale) + O!Hundredths(word[O!Def.registers[2]], scale)
      BY <1>1, <2>1, Definitions DEF O!Display
    <3>2. 1 \in DOMAIN O!Def.registers /\ 2 \in DOMAIN O!Def.registers
      BY <1>1, <2>1, Definitions
    <3> QED
      BY <1>4, <3>1, <3>2
  <2>2. CASE ~(id \in Sums)
    <3>1. O!Def.aggregate = "first" /\ Len(O!Def.registers) \in DOMAIN O!Def.registers
      BY <1>1, <2>2, Definitions
    <3>2. O!Display = O!Hundredths(word[O!Def.registers[Len(O!Def.registers)]], scale)
      BY <3>1 DEF O!Display
    <3> QED
      BY <1>4, <3>1, <3>2
  <2> QED
    BY <2>1, <2>2
<1>6. id \in Exact => O!Display \in {0, 100}
  <2> SUFFICES ASSUME id \in Exact PROVE O!Display \in {0, 100}
    OBVIOUS
  <2>1. O!Def.aggregate = "first" /\ Len(O!Def.registers) = 1 /\ 1 \in DOMAIN O!Def.registers /\ scale = 1
    BY <1>1, Definitions
  <2>2. O!Display = O!Hundredths(word[O!Def.registers[1]], 1) /\ word[O!Def.registers[1]] \in {0, 1}
    BY <1>2, <2>1 DEF O!Display
  <2>3. O!Hundredths(0, 1) = 0 /\ O!Hundredths(1, 1) = 100
    BY DEF O!Hundredths
  <2> QED
    BY <2>2, <2>3
<1> QED
  BY <1>1, <1>2, <1>3, <1>5, <1>6

\* What is kept when every block was read and parsed, and what is made of it.
LEMMA ComparisonComplete ==
  ASSUME Observed, O!Complete, scale = O!Def.divisor
  PROVE  O!Comparison = O!Display
<1>1. id \in Ids
  BY DEF Observed
<1>2. DOMAIN blocks = {O!BlockOf(r) : r \in O!Registers}
  BY DEF Observed
<1>3. \A i \in DOMAIN O!Def.registers : blocks[O!BlockOf(O!Def.registers[i])] = "pass"
  BY <1>2 DEF O!Complete, O!Registers
<1>4. {i \in DOMAIN O!Def.registers : blocks[O!BlockOf(O!Def.registers[i])] = "pass"} = DOMAIN O!Def.registers
  BY <1>3
<1>5. O!Kept = IF id = "ac_output_frequency" THEN {i \in DOMAIN O!Def.registers : \A j \in DOMAIN O!Def.registers : j <= i}
               ELSE DOMAIN O!Def.registers
  BY <1>4 DEF O!Kept
<1>6. CASE id \in Single
  <2>1. O!Kept = {1} /\ O!Def.aggregate = "first" /\ Len(O!Def.registers) = 1
    BY <1>1, <1>5, <1>6, Definitions DEF Single
  <2>2. (CHOOSE i \in O!Kept : \A j \in O!Kept : i <= j) = 1
    BY <2>1
  <2>3. O!Comparison = O!Read(1)
    BY <2>1, <2>2 DEF O!Comparison
  <2> QED
    BY <2>1, <2>3 DEF O!Display, O!Read
<1>7. CASE id = "ac_output_frequency"
  <2>1. DOMAIN O!Def.registers = {1, 2} /\ O!Def.aggregate = "first" /\ Len(O!Def.registers) = 2
    BY <1>1, <1>7, Definitions
  <2>4. O!Kept = {2}
    BY <1>5, <1>7, <2>1
  <2>2. (CHOOSE i \in O!Kept : \A j \in O!Kept : i <= j) = 2
    BY <2>4
  <2>3. O!Comparison = O!Read(2)
    BY <2>1, <2>2, <2>4 DEF O!Comparison
  <2> QED
    BY <2>1, <2>3 DEF O!Display, O!Read
<1>8. CASE id \in Sums
  <2>1. O!Kept = {1, 2} /\ O!Def.aggregate = "sum_abs"
    BY <1>1, <1>5, <1>8, Definitions DEF Sums
  <2>2. O!Comparison = O!Read(1) + O!Read(2)
    BY <2>1 DEF O!Comparison
  <2> QED
    BY <2>1, <2>2 DEF O!Display, O!Read
<1> QED
  BY <1>1, <1>6, <1>7, <1>8, Definitions

\* A reading of what is shown is a match of it.
LEMMA ReadingMatches ==
  ASSUME Observed, O!Comparison = O!Display, NEW low, Readable(low)
  PROVE  O!compare_observation(low).status = "match"
<1>1. O!Display \in Nat /\ id \in Ids /\ (id \in Exact => O!Display \in {0, 100})
  BY ShownNumbers DEF Observed
<1>2. low \in Nat /\ O!Abs(low - O!Display) <= 50 /\ (id \in Exact => low = O!Display)
  <2>1. O!Abs(O!Display - O!Display) <= 50
    BY <1>1 DEF O!Abs
  <2>2. CASE low = O!Display
    BY <1>1, <2>1, <2>2
  <2>3. CASE low = O!Rounded(O!Display)
    <3>1. O!Rounded(O!Display) \in Nat /\ O!Abs(O!Rounded(O!Display) - O!Display) <= 50
      BY <1>1, RoundedNear
    <3>2. O!Display \in {0, 100} => O!Rounded(O!Display) = O!Display
      BY <1>1, RoundedNear
    <3> QED
      BY <1>1, <2>3, <3>1, <3>2
  <2> QED
    BY <2>2, <2>3 DEF Readable
<1>3. O!Abs(low - O!Display) <= O!Tolerance(O!Display)
  <2>1. CASE id \in Exact
    <3>1. low = O!Display /\ O!Def.tolerance = "exact"
      BY <1>1, <1>2, <2>1, Definitions
    <3>2. O!Tolerance(O!Display) = 0
      BY <3>1 DEF O!Tolerance
    <3>3. O!Abs(low - O!Display) = 0
      BY <1>1, <3>1 DEF O!Abs
    <3> QED
      BY <3>2, <3>3
  <2>2. CASE ~(id \in Exact)
    <3>1. O!Def.tolerance \in {"soc", "watts", "voltage", "frequency"}
      BY <1>1, <2>2, Definitions
    <3>2. O!Larger(O!Display \div 10, 1000) >= 1000
      BY <1>1 DEF O!Larger
    <3>3. CASE O!Def.tolerance = "watts"
      <4>1. O!Tolerance(O!Display) = O!Larger(O!Display \div 10, 1000)
        BY <3>3 DEF O!Tolerance
      <4>2. O!Larger(O!Display \div 10, 1000) \in Nat
        BY <1>1 DEF O!Larger
      <4> QED
        BY <1>1, <1>2, <3>2, <4>1, <4>2 DEF O!Abs
    <3>4. CASE O!Def.tolerance # "watts"
      <4>1. O!Tolerance(O!Display) \in {100, 200}
        BY <3>1, <3>4 DEF O!Tolerance
      <4> QED
        BY <1>1, <1>2, <4>1 DEF O!Abs
    <3> QED
      BY <3>3, <3>4
  <2> QED
    BY <2>1, <2>2
<1> QED
  BY <1>3 DEF O!compare_observation, O!Outcome

\* A mismatch of a reading far below the least scale is not one.
LEMMA LeastMatches ==
  ASSUME Observed, id \in Single, ~(id \in Exact), word[O!Def.registers[1]] = 1
  PROVE  O!compare_observation(0).status = "match"
<1>1. id \in Ids /\ O!Def.tolerance \in {"soc", "voltage"} /\ O!Def.divisor \in {1, 10, 100}
  BY Definitions DEF Observed
<1>2. O!Def.tolerance = "soc" => O!Def.divisor = 1
  BY <1>1 DEF O!Def, Ids, O!CORE_OBSERVATION_DEFS, O!Definition
<1>3. O!Kept \subseteq {1}
  BY <1>1, Definitions DEF O!Kept, Single
<1>4. O!Comparison \in {O!None, O!Read(1)}
  <2>1. CASE O!Kept = {}
    BY <2>1 DEF O!Comparison
  <2>2. CASE O!Kept = {1}
    <3>1. (CHOOSE i \in O!Kept : \A j \in O!Kept : i <= j) = 1
      BY <2>2
    <3>2. O!Comparison = O!Read(1)
      BY <1>1, <2>2, <3>1, Definitions DEF O!Comparison
    <3> QED
      BY <3>2
  <2> QED
    BY <1>3, <2>1, <2>2
<1>5. O!Read(1) \in {1, 10, 100}
  <2>1. O!Read(1) = O!Hundredths(1, O!Def.divisor)
    BY DEF O!Read
  <2>2. O!Hundredths(1, O!Def.divisor) \in {1, 10, 100}
    BY <1>1, HundredthsNat
  <2> QED
    BY <2>1, <2>2
<1>6. O!Comparison \in {-1, 1, 10, 100}
  BY <1>4, <1>5 DEF O!None
<1>7. O!Abs(0 - O!Comparison) <= 100
  BY <1>6 DEF O!Abs
<1>8. O!Tolerance(O!Comparison) \in {100, 200}
  BY <1>1 DEF O!Tolerance
<1>9. O!Abs(0 - O!Comparison) <= O!Tolerance(O!Comparison)
  BY <1>6, <1>7, <1>8 DEF O!Abs
<1> QED
  BY <1>9 DEF O!compare_observation, O!Outcome

\* A scale that is proposed for a reading is the device's.
LEMMA ProposedScale ==
  ASSUME Observed, Len(O!Def.registers) = 1, NEW low, Readable(low), O!compare_observation(low).inferred # O!None
  PROVE  O!compare_observation(low).inferred = scale
<1> DEFINE raw == word[O!Def.registers[1]]
<1>1. id \in Ids /\ id \in Single /\ DOMAIN O!Def.registers = {1} /\ O!Def.aggregate = "first"
  BY Definitions DEF Observed
<1>2. raw \in Nat /\ scale \in {1, 10, 100}
  BY <1>1, ShownNumbers
<1>3. O!Display = O!Hundredths(raw, scale)
  BY <1>1 DEF O!Display
<1>4. O!Looked # O!None /\ O!Def.tolerance # "exact" /\ O!compare_observation(low).status # "match"
  BY DEF O!compare_observation, O!Outcome
<1>5. O!Looked = O!Def.registers[1]
  <2> DEFINE known == {i \in DOMAIN O!Def.registers : blocks[O!BlockOf(O!Def.registers[i])] # "failed"}
  <2>1. known = {1}
    BY <1>1, <1>4 DEF O!Looked
  <2>2. (CHOOSE i \in known : \A j \in known : i <= j) = 1
    BY <2>1
  <2> QED
    BY <2>1, <2>2 DEF O!Looked
<1>6. O!compare_observation(low).inferred = O!infer_scale(low, raw)
  BY <1>4, <1>5 DEF O!compare_observation, O!Outcome
<1>7. raw # 1 \/ scale # 10 \/ low # 0
  BY <1>1, <1>4, LeastMatches, Definitions
<1>8. low \in {O!Hundredths(raw, scale), O!Rounded(O!Hundredths(raw, scale))}
  BY <1>3 DEF Readable
<1> QED
  BY <1>2, <1>6, <1>7, <1>8, ScaleFound

\* What is made of an answer is so.
LEMMA CheckSound ==
  ASSUME Observed, NEW entered \in O!Entered
  PROVE  Sound(entered, O!Checked(entered))
<1>1. id \in Ids
  BY DEF Observed
<1>2. CASE entered.kind = "one"
  <2>1. O!Checked(entered) = O!compare_observation(entered.low)
    BY <1>2 DEF O!Checked
  <2> QED
    BY <1>2, <2>1, ComparisonComplete, ReadingMatches, ProposedScale DEF Sound
<1>3. CASE entered.kind = "levels"
  <2> DEFINE first == O!compare_observation(entered.low)
             second == O!compare_observation(entered.high)
  <2>1. O!Checked(entered) = IF first.status = "match" THEN first
                             ELSE IF second.status = "match" THEN second ELSE O!Outcome("mismatch", O!None, O!Looked)
    BY <1>3 DEF O!Checked
  <2>2. entered.low = O!Display \/ entered.high = O!Display
    BY <1>3 DEF O!Entered, O!Empty
  <2>3. Readable(O!Display)
    BY DEF Readable
  <2>4. \A n : O!compare_observation(n).status = "match" => O!compare_observation(n).inferred = O!None
    BY DEF O!compare_observation, O!Outcome
  <2>5. O!Checked(entered).inferred = O!None
    BY <2>1, <2>4 DEF O!Outcome
  <2>6. O!Complete /\ scale = O!Def.divisor => first.status = "match" \/ second.status = "match"
    BY <2>2, <2>3, ComparisonComplete, ReadingMatches
  <2>7. O!Complete /\ scale = O!Def.divisor => O!Checked(entered).status = "match"
    BY <2>1, <2>6
  <2> QED
    BY <2>5, <2>7 DEF Sound
<1>4. CASE entered.kind = "empty"
  <2>1. O!Checked(entered).inferred = O!None
    BY <1>4 DEF O!Checked, O!Outcome
  <2> QED
    BY <1>4, <2>1 DEF Sound
<1>5. CASE entered.kind = "words"
  <2>1. CASE ~O!Switch
    <3>1. O!Checked(entered).inferred = O!None
      BY <1>5, <2>1 DEF O!Checked, O!Outcome
    <3> QED
      BY <1>5, <3>1 DEF Sound
  <2>2. CASE O!Switch
    <3>1. O!Checked(entered) = O!compare_observation(0)
      BY <1>5, <2>2 DEF O!Checked
    <3>2. O!Def.tolerance = "exact"
      BY <1>1, <2>2, Definitions DEF O!Switch, Exact
    <3>3. O!Checked(entered).inferred = O!None
      BY <3>1, <3>2 DEF O!compare_observation, O!Outcome
    <3> QED
      BY <1>5, <3>3 DEF Sound
  <2> QED
    BY <2>1, <2>2
<1>6. entered.kind \in {"one", "levels", "empty", "words"}
  BY DEF O!Entered, O!Empty
<1> QED
  BY <1>2, <1>3, <1>4, <1>5, <1>6

\* The observation, and that what is reported of it is so.
ObservedInv == Observed /\ O!ObservationSound

\* Nothing has been compared.
LEMMA ObservedInit == O!Init => ObservedInv
<1> SUFFICES ASSUME O!Init PROVE ObservedInv
  OBVIOUS
<1>1. Observed
  BY DEF O!Init, Observed, Ids
<1>2. item.status = "new" /\ item.inferred = O!None
  BY DEF O!Init, O!Outcome
<1> QED
  BY <1>1, <1>2 DEF ObservedInv, O!ObservationSound

\* An observation is built, or asked for.
LEMMA ObservedStep == ObservedInv /\ [O!Next]_O!vars => ObservedInv'
<1> SUFFICES ASSUME ObservedInv, [O!Next]_O!vars PROVE ObservedInv'
  OBVIOUS
<1>1. UNCHANGED <<id, word, scale, blocks>>
  BY DEF O!Next, O!Build, O!Ask, O!vars
<1>2. Observed'
  BY <1>1 DEF ObservedInv, Observed, O!Def, O!Registers
<1>3. CASE O!Build
  <2>1. item'.status \in {"unanchored", "pending"} /\ item'.inferred = O!None
    BY <1>3 DEF O!Build, O!Outcome
  <2> QED
    BY <1>2, <2>1 DEF ObservedInv, O!ObservationSound, O!None
<1>4. CASE O!Ask
  <2>1. PICK entered \in O!Entered : answer' = entered /\ item' = O!Checked(entered)
    BY <1>4 DEF O!Ask
  <2>2. Sound(answer', item')
    BY <2>1, CheckSound DEF ObservedInv
  <2>3. /\ O!Complete' = O!Complete /\ scale' = scale /\ O!Def' = O!Def
        /\ \A low : (low \in {O!Display, O!Rounded(O!Display)})' <=> Readable(low)
    BY <1>1 DEF O!Complete, O!Def, O!Display, Readable
  <2>4. (answer.low \in {O!Display, O!Rounded(O!Display)})' <=> Readable(answer'.low)
    BY <1>1 DEF O!Def, O!Display, Readable
  <2>5. O!ObservationSound'
    BY <2>2, <2>3, <2>4 DEF O!ObservationSound, Sound
  <2> QED
    BY <1>2, <2>5 DEF ObservedInv
<1>5. CASE UNCHANGED O!vars
  <2>1. O!ObservationSound'
    BY <1>5 DEF ObservedInv, O!ObservationSound, O!Complete, O!Def, O!Display, O!vars
  <2> QED
    BY <1>2, <2>1 DEF ObservedInv
<1> QED
  BY <1>3, <1>4, <1>5 DEF O!Next

\* What run_observations reports is so: a reading of the display is a match when the
\* blocks were read and the divisor is the device's, and a scale that infer_scale
\* proposes for one register is the one the device means.
THEOREM RegistersObservationSound == Spec => []ObservationSound
<1> DEFINE Inv == part = "observing" => ObservedInv
<1>1. Init => Inv
  BY ObservedInit DEF Init
<1>2. Inv /\ [O!Next]_O!vars /\ UNCHANGED part => Inv'
  BY ObservedStep
<1>3. [Next]_vars => [O!Next]_O!vars /\ UNCHANGED part
  BY OneOfTheParts
<1>4. Inv => ObservationSound
  BY DEF ObservationSound, ObservedInv
<1> QED
  BY <1>1, <1>2, <1>3, <1>4, PTL DEF Spec
=============================================================================
