------------------------------ MODULE Handshake ------------------------------
(***************************************************************************)
(* HandshakeSession.run and the device it talks to: challenge and reply,   *)
(* status-ack, the device's key, the app's key, confirmation.  The device  *)
(* sends each frame in one notification or in pieces; notifications come   *)
(* in order, those that come before connect has set _handshake_mode are    *)
(* dropped.  Keys and signatures are left out: a token made of the wrong   *)
(* random bytes is rejected, and what is no whole frame does not decode.   *)
(***************************************************************************)
EXTENDS Integers, Sequences

CONSTANTS
  Cuts,    \* for each frame: after which bytes it may be cut
  Splits   \* bound: how often a frame is cut

VARIABLES
  listening,  \* _handshake_mode
  stage,      \* what run waits for, or how it ended
  queue,      \* _handshake_queue
  buf,        \* bytes collected
  device,     \* what the device has done, or has been sent
  air,        \* pieces on their way
  split,      \* history: a frame was cut where run does not put it together
  mishap      \* history: a piece was missed or late, or the link dropped

vars == <<listening, stage, queue, buf, device, air, split, mishap>>

\* Plaintext lengths of the two encrypted frames, and the bytes of every frame.
Plaintext == [start |-> 134, conf |-> 7]

\* A length prefix and whole blocks.
Encrypted(length) == 2 + 16 * ((length + 15) \div 16)

Size == [challenge |-> 10, ack |-> 7, start |-> Encrypted(Plaintext.start), conf |-> Encrypted(Plaintext.conf)]

Frames == DOMAIN Size

CutsAssumption ==
  /\ Splits \in Nat
  /\ Cuts \in [Frames -> SUBSET Nat] /\ \A frame \in Frames : \A c \in Cuts[frame] : 1 <= c /\ c < Size[frame]

\* A piece has the bytes from..to of a frame; the status is that of the frame.
Piece == [of : Frames, from : Nat, to : Nat, status : {0, 1}]

\* The pieces of a frame for cuts that follow each other.
Pieces(frame, cut, status) ==
  LET n == Len(cut)
  IN [i \in 1..(n + 1) |-> [of |-> frame, from |-> IF i = 1 THEN 1 ELSE cut[i - 1] + 1,
                            to |-> IF i = n + 1 THEN Size[frame] ELSE cut[i], status |-> status]]

\* What is collected: so many bytes, the first of a frame or no frame's.
Empty == [of |-> "none", size |-> 0]

-----------------------------------------------------------------------------
(* The device.                                                             *)

\* It sends a frame, whole or in pieces.
Sends(frame, status) ==
  \E n \in 0..Splits : \E cut \in [1..n -> Cuts[frame]] :
    /\ \A i \in 1..(n - 1) : cut[i] < cut[i + 1]
    /\ air' = air \o Pieces(frame, cut, status)
    /\ split' = (split \/ (frame = "challenge" /\ \E i \in 1..n : cut[i] >= 7) \/ (frame = "ack" /\ n > 0))

Challenge ==
  /\ device = "idle" /\ device' = "challenged"
  /\ Sends("challenge", 0)
  /\ UNCHANGED <<listening, stage, queue, buf, mishap>>

\* A right token is acknowledged, or the device will not talk; a wrong one is rejected.
Ack ==
  /\ \/ device = "replied" /\ device' = "acked" /\ Sends("ack", 0)
     \/ device = "replied" /\ device' = "refused" /\ Sends("ack", 1)
     \/ device = "misled" /\ device' = "rejected" /\ Sends("ack", 1)
  /\ UNCHANGED <<listening, stage, queue, buf, mishap>>

StartKey ==
  /\ device = "acked" /\ device' = "started"
  /\ Sends("start", 0)
  /\ UNCHANGED <<listening, stage, queue, buf, mishap>>

\* The app's key is signed with one that not every model accepts.
Confirm ==
  /\ device = "keyed"
  /\ \/ device' = "accepted" /\ Sends("conf", 0)
     \/ device' = "refused" /\ Sends("conf", 1)
  /\ UNCHANGED <<listening, stage, queue, buf, mishap>>

\* The link drops; a device that has accepted has its keys.
Drop ==
  /\ device' = IF device = "accepted" THEN device ELSE "gone"
  /\ air' = <<>> /\ mishap' = TRUE
  /\ UNCHANGED <<listening, stage, queue, buf, split>>

-----------------------------------------------------------------------------
(* The client.                                                             *)

\* start_notify returns, and connect sets the flag.
Subscribed ==
  /\ ~listening /\ listening' = TRUE
  /\ UNCHANGED <<stage, queue, buf, device, air, split, mishap>>

Running == listening /\ stage \in {"challenge", "ack", "start", "conf"}

\* _on_notification; without the flag there is no future to complete either.
Arrive ==
  /\ air # <<>> /\ air' = Tail(air)
  /\ queue' = IF Running THEN Append(queue, Head(air)) ELSE queue
  /\ mishap' = (mishap \/ ~listening)
  /\ UNCHANGED <<listening, stage, buf, device, split>>

\* What is sent reaches a device that is there.
Sent(what) == device' = IF device = "gone" THEN device ELSE what

Ends(how) == stage' = how /\ buf' = Empty

\* _next_notification returns the head of the queue, which extends what is collected.
Extended ==
  LET p == Head(queue)
  IN [of |-> IF p.from = buf.size + 1 /\ (buf = Empty \/ buf.of = p.of) THEN p.of ELSE "mixed",
      size |-> buf.size + (p.to - p.from) + 1]
Waits(frame) == listening /\ stage = frame /\ queue # <<>> /\ queue' = Tail(queue)
Collects == buf' = Extended /\ UNCHANGED <<stage, device>>

\* Seven bytes are enough to go on; random is bytes 5 to 8 of what there is.
ReadChallenge ==
  /\ Waits("challenge")
  /\ \/ Extended.size < 7 /\ Collects
     \/ /\ Extended.size >= 7 /\ Extended.of = "challenge"
        /\ Sent(IF Extended.size >= 8 THEN "replied" ELSE "misled")
        /\ Ends("ack")
     \/ Extended.size >= 7 /\ Extended.of # "challenge" /\ Ends("failed") /\ UNCHANGED device
  /\ UNCHANGED <<listening, air, split, mishap>>

\* One notification must hold the status.
ReadAck ==
  /\ Waits("ack")
  /\ LET ack == Head(queue) IN
     Ends(IF ack.of = "ack" /\ ack.from = 1 /\ ack.to >= 5 /\ ack.status = 0 THEN "start" ELSE "failed")
  /\ UNCHANGED <<listening, device, air, split, mishap>>

\* Mutant: the bytes that fill the last block are not waited for.
EnoughUnpadded(frame) == Extended.size >= 2 + Plaintext[frame]

\* _collect_encrypted_frame has what the length prefix asks for.
Enough(frame) == Extended.size >= Encrypted(Plaintext[frame])

Decodes(frame) == Extended.of = frame /\ Extended.size >= Size[frame]

\* A buffer that begins with something else has a length prefix of any value: run
\* waits on, or decodes it in vain.
ReadFrame(frame) ==
  /\ Waits(frame)
  /\ \/ (Extended.of # frame \/ ~Enough(frame)) /\ Collects
     \/ (Extended.of # frame \/ (Enough(frame) /\ ~Decodes(frame))) /\ Ends("failed") /\ UNCHANGED device
     \/ /\ frame = "start" /\ Enough(frame) /\ Decodes(frame)
        /\ Sent("keyed") /\ Ends("conf")
     \/ /\ frame = "conf" /\ Enough(frame) /\ Decodes(frame)
        /\ Ends(IF Head(queue).status = 0 THEN "session" ELSE "failed") /\ UNCHANGED device
  /\ UNCHANGED <<listening, air, split, mishap>>

\* Five seconds without a notification.  It is a mishap when one is on its way, or the
\* device has still to send one.
Timeout ==
  /\ Running /\ queue = <<>>
  /\ Ends("failed")
  /\ mishap' = (mishap \/ air # <<>> \/ device \in {"idle", "replied", "misled", "acked", "keyed"})
  /\ UNCHANGED <<listening, queue, device, air, split>>

-----------------------------------------------------------------------------

Init ==
  /\ listening = FALSE /\ stage = "challenge" /\ queue = <<>> /\ buf = Empty
  /\ device = "idle" /\ air = <<>> /\ split = FALSE /\ mishap = FALSE

Next ==
  \/ Challenge \/ Ack \/ StartKey \/ Confirm \/ Drop
  \/ Subscribed \/ Arrive \/ ReadChallenge \/ ReadAck \/ Timeout
  \/ \E frame \in {"start", "conf"} : ReadFrame(frame)

-----------------------------------------------------------------------------

\* A session is returned only if the device has accepted the app's key, although
\* the link may have dropped since; and a handshake fails only when the device
\* refuses, a notification is missed or late, or, the gap in the code, a frame was
\* split that run takes for whole: the challenge after its seventh byte, or the
\* status-ack anywhere.  However the encrypted
\* frames are cut, they are put together; a split of the other two never passes.
EndsAsMeant ==
  /\ stage = "session" => device = "accepted" /\ ~split
  /\ stage = "failed" => device = "refused" \/ mishap \/ split
=============================================================================
