--------------------------- MODULE MqttBridgeProofs ---------------------------
(***************************************************************************)
(* Proofs about the part of MCDaemon that is MqttBridge, for any devices, any *)
(* messages and any number of connections: types, order, bounded loss.     *)
(***************************************************************************)
EXTENDS MCDaemon, FiniteSetTheorems, TLAPS

LEMMA BridgeBounds == Discovery \in BOOLEAN /\ MaxMessages \in Nat /\ MaxConnections \in Nat \ {0}
BY DaemonAssumption DEF DaemonAssumption, B!BridgeAssumption

\* A step of the composition is a step of the bridge or leaves it as it is.
LEMMA BridgeMoves == [Next]_vars => [B!Next]_B!vars
BY DEF Next, vars, bridge, B!vars, B!connectionVars, B!messageVars

Holding(k) == half[k].st \in {"announcing", "publishing"}

Typed ==
  /\ B!TypeOK /\ half \in [B!Connections -> B!Half]
  /\ \A k \in B!Connections : half[k].st = "announcing" => half[k].msg.device \in known

\* What a half holds was taken before what waits.
Queued ==
  /\ \A j \in 1..Len(queue) : queue[j].seq <= put
  /\ \A i \in 1..Len(queue), j \in 1..Len(queue) : i < j => queue[i].seq < queue[j].seq
  /\ \A k \in B!Connections : Holding(k) =>
       half[k].msg.seq <= put /\ \A j \in 1..Len(queue) : half[k].msg.seq < queue[j].seq

\* What is published comes before what the connection's own half holds, the only one
\* that can publish, and before what waits.
Ordered ==
  /\ \A i \in 1..Len(published), j \in 1..Len(published) : i < j => published[i] < published[j]
  /\ \A i \in 1..Len(published), j \in 1..Len(queue) : published[i] < queue[j].seq
  /\ conn \in B!Connections /\ Holding(conn) => \A i \in 1..Len(published) : published[i] < half[conn].msg.seq

EndedOnes == {k \in 1..conn : k < conn \/ run # "connected"}

GoneHalves == {k \in 1..conn : half[k].st = "gone"}

\* Each loss is the last thing a half does, and that ends its connection.
Accounted == GoneHalves \subseteq EndedOnes /\ Cardinality(lost) <= Cardinality(GoneHalves)

IInv == Typed /\ Queued /\ Ordered /\ Accounted

-----------------------------------------------------------------------------
(* Messages, halves and sequences.                                         *)

\* What holds of a half by its state.
LEMMA HalfFacts ==
  ASSUME NEW h \in B!Half
  PROVE  /\ h.st \in {"none", "waiting", "gone", "announcing", "publishing"}
         /\ h.st \in {"announcing", "publishing"} =>
              h.msg \in B!Message /\ h.msg.seq \in 1..MaxMessages /\ h.msg.device \in Devices
BY DEF B!Half, B!Message

\* The halves an action leaves in place of another.
LEMMA HalvesTyped ==
  /\ B!Waiting \in B!Half /\ B!Waiting.st = "waiting" /\ B!Gone \in B!Half /\ B!Gone.st = "gone"
  /\ \A st \in {"announcing", "publishing"}, m \in B!Message : [st |-> st, msg |-> m] \in B!Half
BY DEF B!Waiting, B!Gone, B!Half

\* Sequences over a set.
LEMMA SeqFacts ==
  /\ \A S : <<>> \in Seq(S)
  /\ \A S, T, s : S \subseteq T /\ s \in Seq(S) =>
       s \in Seq(T) /\ Len(s) \in Nat /\ DOMAIN s = 1..Len(s) /\ \A i \in 1..Len(s) : s[i] \in S
<1>1. \A S : <<>> \in Seq(S)
  OBVIOUS
<1>2. ASSUME NEW S, NEW T, S \subseteq T, NEW s \in Seq(S)
      PROVE  s \in Seq(T) /\ Len(s) \in Nat /\ DOMAIN s = 1..Len(s) /\ \A i \in 1..Len(s) : s[i] \in S
  <2>1. Len(s) \in Nat /\ DOMAIN s = 1..Len(s) /\ \A i \in 1..Len(s) : s[i] \in S
    OBVIOUS
  <2>2. s \in Seq(T)
    BY <1>2, <2>1
  <2> QED
    BY <2>1, <2>2
<1> QED
  BY <1>1, <1>2

\* Before the first connection nothing is held.
LEMMA InitInv == B!Init => IInv
<1> SUFFICES ASSUME B!Init PROVE IInv
  OBVIOUS
<1> USE BridgeBounds DEF B!Init, B!Connections
<1>1. [st |-> "none", msg |-> B!NoMessage] \in B!Half
  BY DEF B!Half
<1>2. half \in [B!Connections -> B!Half] /\ \A k \in B!Connections : half[k].st = "none"
  BY <1>1
<1>3. Typed
  <2>1. \A k \in B!Connections : half[k] \in B!Half /\ (half[k].st = "none" <=> k > conn)
    BY <1>2
  <2>2. queue \in Seq(B!Message) /\ published \in Seq(1..put)
    BY SeqFacts
  <2>3. run \in {"connecting", "connected", "sleeping", "ended"} /\ alive \in BOOLEAN
    OBVIOUS
  <2>4. conn \in 0..MaxConnections /\ put \in 0..MaxMessages /\ commands \in 0..MaxMessages
    OBVIOUS
  <2> QED
    BY <1>2, <2>1, <2>2, <2>3, <2>4 DEF Typed, B!TypeOK
<1>4. Queued /\ Ordered
  BY <1>2 DEF Queued, Ordered, Holding
<1>5. Accounted
  <2>1. GoneHalves = {}
    BY DEF GoneHalves
  <2> QED
    BY <2>1, FS_EmptySet DEF Accounted
<1> QED
  BY <1>3, <1>4, <1>5 DEF IInv

\* GoneHalves is finite and lost is a finite set.
LEMMA Finite == IInv => IsFiniteSet(GoneHalves) /\ IsFiniteSet(lost) /\ IsFiniteSet(EndedOnes)
<1> SUFFICES ASSUME IInv PROVE IsFiniteSet(GoneHalves) /\ IsFiniteSet(lost) /\ IsFiniteSet(EndedOnes)
  OBVIOUS
<1>1. conn \in Nat /\ put \in Nat /\ lost \subseteq 1..put
  BY BridgeBounds DEF IInv, Typed, B!TypeOK
<1>2. IsFiniteSet(1..conn) /\ IsFiniteSet(1..put)
  BY <1>1, FS_Interval
<1>3. GoneHalves \in SUBSET (1..conn) /\ EndedOnes \in SUBSET (1..conn)
  BY DEF GoneHalves, EndedOnes
<1> QED
  BY <1>1, <1>2, <1>3, FS_Subset

\* A member more is one more at most.
LEMMA OneMore ==
  ASSUME NEW S, IsFiniteSet(S), NEW x
  PROVE  Cardinality(S \cup {x}) \in Nat /\ Cardinality(S \cup {x}) <= Cardinality(S) + 1
<1>1. Cardinality(S) \in Nat
  BY FS_CardinalityType
<1>2. Cardinality(S \cup {x}) \in {Cardinality(S), Cardinality(S) + 1}
  BY FS_AddElement
<1> QED
  BY <1>1, <1>2

-----------------------------------------------------------------------------
(* The connection and the bus.                                             *)

\* What only changes the state of the connection, and counts commands.
LEMMA QuietInv ==
  ASSUME IInv, B!Wake \/ B!BrokerGone \/ B!CommandHalfEnds \/ B!Command
  PROVE  IInv'
<1> USE DEF B!messageVars
<1>1. /\ UNCHANGED <<conn, half, queue, known, announced, put, published, lost>>
      /\ run' # run => run' # "connected"
      /\ run' \in {"connecting", "connected", "sleeping", "ended"} /\ alive' \in BOOLEAN
      /\ commands' \in 0..MaxMessages
  <2>1. /\ UNCHANGED <<conn, half, queue, known, announced, put, published, lost>>
        /\ run' \in {"connecting", "sleeping", "ended"} \/ run' = run
    BY DEF B!Wake, B!BrokerGone, B!CommandHalfEnds, B!Command
  <2>2. alive' = alive \/ alive' = FALSE
    BY DEF B!Wake, B!BrokerGone, B!CommandHalfEnds, B!Command
  <2>3. /\ commands' = commands \/ (commands < MaxMessages /\ commands' = commands + 1)
        /\ commands \in 0..MaxMessages
    BY DEF B!Wake, B!BrokerGone, B!CommandHalfEnds, B!Command, IInv, Typed, B!TypeOK
  <2>4. commands' \in 0..MaxMessages
    BY <2>3, BridgeBounds
  <2>5. alive' \in BOOLEAN
    BY <2>2, Zenon DEF IInv, Typed, B!TypeOK
  <2> QED
    BY <2>1, <2>4, <2>5 DEF IInv, Typed, B!TypeOK
<1>2. Typed'
  BY <1>1 DEF IInv, Typed, B!TypeOK
<1>3. Queued' /\ Ordered'
  BY <1>1 DEF IInv, Queued, Ordered, Holding
<1>4. Accounted'
  BY <1>1 DEF IInv, Accounted, GoneHalves, EndedOnes
<1> QED
  BY <1>2, <1>3, <1>4 DEF IInv

\* A new connection has a half that holds nothing.
LEMMA ConnectInv == IInv /\ B!Connect => IInv'
<1> SUFFICES ASSUME IInv, B!Connect PROVE IInv'
  OBVIOUS
<1>1. UNCHANGED <<queue, known, announced, published, lost, put, commands>>
  BY DEF B!Connect
<1>2. CASE run' = "sleeping" /\ UNCHANGED <<alive, conn, half>>
  <2>1. Typed'
    BY <1>1, <1>2 DEF IInv, Typed, B!TypeOK
  <2>2. Queued' /\ Ordered'
    BY <1>1, <1>2 DEF IInv, Queued, Ordered, Holding
  <2>3. Accounted'
    BY <1>1, <1>2 DEF IInv, Accounted, GoneHalves, EndedOnes
  <2> QED
    BY <2>1, <2>2, <2>3 DEF IInv
<1>3. CASE /\ conn < MaxConnections /\ conn' = conn + 1 /\ run' = "connected" /\ alive' = TRUE
           /\ half' = [half EXCEPT ![conn'] = B!Started(conn')]
  <2>1. conn \in Nat /\ conn' \in B!Connections /\ conn' \in 0..MaxConnections
    BY <1>3, BridgeBounds DEF IInv, Typed, B!TypeOK, B!Connections
  <2>2. /\ half' \in [B!Connections -> B!Half] /\ half'[conn'].st = "waiting"
        /\ \A k \in B!Connections \ {conn'} : half'[k] = half[k]
    BY <1>3, <2>1, HalvesTyped DEF IInv, Typed, B!Started
  <2>3. \A k \in B!Connections : half'[k].st = "none" <=> k > conn'
    BY <1>3, <2>1, <2>2 DEF IInv, Typed, B!TypeOK, B!Connections
  <2>4. Typed'
    BY <1>1, <1>3, <2>1, <2>2, <2>3 DEF IInv, Typed, B!TypeOK
  <2>5. Queued'
    BY <1>1, <2>2 DEF IInv, Queued, Holding
  <2>6. Ordered'
    BY <1>1, <2>1, <2>2 DEF IInv, Ordered, Holding
  <2>7. GoneHalves' = GoneHalves
    BY <1>3, <2>1, <2>2 DEF GoneHalves, B!Connections
  <2>8. GoneHalves' \subseteq EndedOnes'
    BY <1>3, <2>1, <2>7 DEF GoneHalves, EndedOnes
  <2> QED
    BY <1>1, <2>4, <2>5, <2>6, <2>7, <2>8 DEF IInv, Accounted
<1> QED
  BY <1>2, <1>3 DEF B!Connect

\* The bus hands over a message.
LEMMA HandleMessageInv == IInv /\ B!HandleMessage => IInv'
<1> SUFFICES ASSUME IInv, B!HandleMessage PROVE IInv'
  OBVIOUS
<1>1. PICK d \in Devices : queue' = Append(queue, [seq |-> put', device |-> d])
  BY DEF B!HandleMessage
<1>2. /\ UNCHANGED <<run, alive, conn, half, known, announced, published, lost, commands>>
      /\ put' = put + 1 /\ put \in Nat /\ put' \in 1..MaxMessages /\ queue \in Seq(B!Message)
  BY BridgeBounds DEF B!HandleMessage, B!connectionVars, IInv, Typed, B!TypeOK
<1> DEFINE new == [seq |-> put', device |-> d]
<1>3. new \in B!Message /\ new.seq = put + 1
  BY <1>2 DEF B!Message
<1> HIDE DEF new
<1>4. /\ queue' \in Seq(B!Message) /\ Len(queue') = Len(queue) + 1 /\ Len(queue) \in Nat
      /\ \A i \in 1..Len(queue) : queue'[i] = queue[i] /\ queue[i] \in B!Message
      /\ queue'[Len(queue) + 1] = new
  BY <1>1, <1>2, <1>3 DEF new
<1>5. \A i \in 1..Len(queue) : queue[i].seq \in Nat /\ queue[i].seq <= put
  <2>1. \A m \in B!Message : m.seq \in Nat
    BY DEF B!Message
  <2> QED
    BY <1>4, <2>1 DEF IInv, Queued
<1>6. \A i \in 1..Len(queue') : i = Len(queue) + 1 \/ i \in 1..Len(queue)
  BY <1>4
<1>7. published \in Seq(1..put') /\ published \in Seq(1..put)
      /\ \A i \in 1..Len(published) : published[i] \in 1..put
  <2>1. published \in Seq(1..put)
    BY DEF IInv, Typed, B!TypeOK
  <2>2. 1..put \subseteq 1..put'
    BY <1>2
  <2> QED
    BY <2>1, <2>2, SeqFacts
<1>8. \A k \in B!Connections : Holding(k) => half[k].msg.seq \in Nat /\ half[k].msg.seq <= put
  BY HalfFacts DEF IInv, Typed, Queued, Holding
<1>9. Typed'
  <2>1. lost \subseteq 1..put' /\ put' \in 0..MaxMessages
    BY <1>2 DEF IInv, Typed, B!TypeOK
  <2> QED
    BY <1>2, <1>4, <1>7, <2>1 DEF IInv, Typed, B!TypeOK
<1>10. Queued'
  <2>1. \A j \in 1..Len(queue') : queue'[j].seq <= put'
    BY <1>2, <1>3, <1>4, <1>5, <1>6
  <2>2. \A i \in 1..Len(queue'), j \in 1..Len(queue') : i < j => queue'[i].seq < queue'[j].seq
    BY <1>2, <1>3, <1>4, <1>5, <1>6 DEF IInv, Queued
  <2>3. ASSUME NEW k \in B!Connections, Holding(k)
        PROVE  half[k].msg.seq <= put' /\ \A j \in 1..Len(queue') : half[k].msg.seq < queue'[j].seq
    BY <1>2, <1>3, <1>4, <1>6, <1>8, <2>3 DEF IInv, Queued
  <2> QED
    BY <1>2, <2>1, <2>2, <2>3 DEF Queued, Holding
<1>11. Ordered'
  <2>1. \A i \in 1..Len(published) : published[i] \in Nat /\ published[i] < put + 1
    BY <1>2, <1>7
  <2>2. \A i \in 1..Len(published), j \in 1..Len(queue') : published[i] < queue'[j].seq
    BY <1>3, <1>4, <1>6, <2>1 DEF IInv, Ordered
  <2> QED
    BY <1>2, <2>2 DEF IInv, Ordered, Holding
<1>12. Accounted'
  BY <1>2 DEF IInv, Accounted, GoneHalves, EndedOnes
<1> QED
  BY <1>9, <1>10, <1>11, <1>12 DEF IInv

-----------------------------------------------------------------------------
(* The message halves.                                                     *)

\* The types that the steps of a half rely on.
LEMMA HalfStepFacts ==
  ASSUME IInv, NEW k \in B!Connections
  PROVE  /\ conn \in Nat /\ put \in Nat /\ half \in [B!Connections -> B!Half] /\ half[k] \in B!Half
         /\ queue \in Seq(B!Message) /\ (half[k].st = "none" <=> k > conn)
         /\ \A i \in 1..Len(queue) : queue[i] \in B!Message /\ queue[i].seq \in Nat
         /\ published \in Seq(1..put) /\ Len(published) \in Nat /\ DOMAIN published = 1..Len(published)
         /\ \A i \in 1..Len(published) : published[i] \in Nat
         /\ \A r \in B!Connections : Holding(r) =>
              half[r].msg \in B!Message /\ half[r].msg.seq \in Nat /\ half[r].msg.device \in Devices
<1>1. /\ conn \in Nat /\ put \in Nat /\ half \in [B!Connections -> B!Half] /\ half[k] \in B!Half
      /\ queue \in Seq(B!Message) /\ (half[k].st = "none" <=> k > conn) /\ published \in Seq(1..put)
  BY BridgeBounds DEF IInv, Typed, B!TypeOK
<1>2. \A i \in 1..Len(queue) : queue[i] \in B!Message
  BY <1>1
<1>3. \A m \in B!Message : m.seq \in Nat
  BY DEF B!Message
<1>4. /\ Len(published) \in Nat /\ DOMAIN published = 1..Len(published)
      /\ \A i \in 1..Len(published) : published[i] \in 1..put
  BY <1>1, SeqFacts
<1>5. \A r \in B!Connections : Holding(r) =>
        half[r].msg \in B!Message /\ half[r].msg.seq \in Nat /\ half[r].msg.device \in Devices
  BY <1>1, HalfFacts DEF Holding
<1> QED
  BY <1>1, <1>2, <1>3, <1>4, <1>5

\* A half takes the message that waits longest.
LEMMA TakeInv ==
  ASSUME IInv, NEW k \in B!Connections, B!Take(k)
  PROVE  IInv'
<1> DEFINE m == Head(queue)
<1>1. /\ UNCHANGED <<run, alive, conn, announced, published, lost, put, commands>>
      /\ queue # <<>> /\ queue' = Tail(queue) /\ known' = known \cup {m.device} /\ half[k].st = "waiting"
      /\ \E st \in {"announcing", "publishing"} : half' = [half EXCEPT ![k] = [st |-> st, msg |-> m]]
  BY DEF B!Take, B!Remembered, B!connectionVars
<1>2. /\ conn \in Nat /\ put \in Nat /\ half \in [B!Connections -> B!Half] /\ queue \in Seq(B!Message)
      /\ (half[k].st = "none" <=> k > conn)
      /\ \A i \in 1..Len(queue) : queue[i] \in B!Message /\ queue[i].seq \in Nat
      /\ \A i \in 1..Len(published) : published[i] \in Nat
  BY HalfStepFacts
<1>3. /\ queue' \in Seq(B!Message) /\ Len(queue') + 1 = Len(queue) /\ Len(queue') \in Nat
      /\ \A i \in 1..Len(queue') : queue'[i] = queue[i + 1] /\ i + 1 \in 1..Len(queue)
      /\ m = queue[1] /\ 1 \in 1..Len(queue) /\ m \in B!Message
  BY <1>1, <1>2
<1> HIDE DEF m
<1>4. m.device \in Devices
  BY <1>3 DEF B!Message
<1>5. PICK st \in {"announcing", "publishing"} : half' = [half EXCEPT ![k] = [st |-> st, msg |-> m]]
  BY <1>1
<1>6. /\ half' \in [B!Connections -> B!Half] /\ half'[k].st = st /\ half'[k].msg = m
      /\ \A r \in B!Connections \ {k} : half'[r] = half[r]
  BY <1>2, <1>3, <1>5, HalvesTyped
<1>7. Typed'
  <2>1. \A r \in B!Connections : half'[r].st = "none" <=> r > conn
    BY <1>1, <1>5, <1>6 DEF IInv, Typed, B!TypeOK
  <2>2. \A r \in B!Connections : half'[r].st = "announcing" => half'[r].msg.device \in known'
    BY <1>1, <1>6 DEF IInv, Typed
  <2> QED
    BY <1>1, <1>3, <1>4, <1>6, <2>1, <2>2 DEF IInv, Typed, B!TypeOK
<1>8. Queued'
  <2>1. \A j \in 1..Len(queue') : queue'[j].seq <= put /\ m.seq <= put /\ m.seq < queue'[j].seq
    BY <1>3 DEF IInv, Queued
  <2>2. \A i \in 1..Len(queue'), j \in 1..Len(queue') : i < j => queue'[i].seq < queue'[j].seq
    BY <1>3 DEF IInv, Queued
  <2>3. ASSUME NEW r \in B!Connections, Holding(r)'
        PROVE  half'[r].msg.seq <= put /\ \A j \in 1..Len(queue') : half'[r].msg.seq < queue'[j].seq
    <3>1. CASE r = k
      BY <1>3, <1>6, <2>1, <3>1 DEF IInv, Queued
    <3>2. CASE r # k
      BY <1>3, <1>6, <2>3, <3>2 DEF IInv, Queued, Holding
    <3> QED
      BY <3>1, <3>2
  <2> QED
    BY <1>1, <2>1, <2>2, <2>3 DEF Queued
<1>9. Ordered'
  <2>1. \A i \in 1..Len(published) :
          published[i] < m.seq /\ \A j \in 1..Len(queue') : published[i] < queue'[j].seq
    BY <1>3 DEF IInv, Ordered
  <2>2. conn \in B!Connections /\ Holding(conn)' => \A i \in 1..Len(published) : published[i] < half'[conn].msg.seq
    <3>1. CASE conn = k
      BY <1>6, <2>1, <3>1
    <3>2. CASE conn # k
      BY <1>1, <1>6, <3>2 DEF IInv, Ordered, Holding
    <3> QED
      BY <3>1, <3>2
  <2>3. \A i \in 1..Len(published), j \in 1..Len(published) : i < j => published[i] < published[j]
    BY DEF IInv, Ordered
  <2> QED
    BY <1>1, <2>1, <2>2, <2>3 DEF Ordered, Holding
<1>10. Accounted'
  <2>1. 1..conn \subseteq B!Connections
    BY <1>2, BridgeBounds DEF IInv, Typed, B!TypeOK, B!Connections
  <2>2. GoneHalves' = GoneHalves
    BY <1>1, <1>5, <1>6, <2>1 DEF GoneHalves
  <2> QED
    BY <1>1, <2>2 DEF IInv, Accounted, EndedOnes
<1> QED
  BY <1>7, <1>8, <1>9, <1>10 DEF IInv

\* The device's discovery is published.
LEMMA AnnounceInv ==
  ASSUME IInv, NEW k \in B!Connections, B!Announce(k)
  PROVE  IInv'
<1>1. /\ UNCHANGED <<run, alive, conn, queue, known, published, lost, put, commands>>
      /\ half[k].st = "announcing" /\ half' = [half EXCEPT ![k].st = "publishing"]
      /\ announced' = announced \cup {half[k].msg.device}
  BY DEF B!Announce, B!connectionVars
<1>2. /\ half \in [B!Connections -> B!Half] /\ half[k].msg \in B!Message /\ half[k].msg.device \in known
      /\ Holding(k) /\ conn \in Nat
  BY <1>1, HalfStepFacts DEF IInv, Typed, Holding
<1>3. half[k] = [st |-> "announcing", msg |-> half[k].msg]
  BY <1>1, <1>2 DEF B!Half
<1>4. half'[k] = [st |-> "publishing", msg |-> half[k].msg]
  BY <1>1, <1>2, <1>3
<1>5. /\ half' \in [B!Connections -> B!Half] /\ half'[k].st = "publishing" /\ half'[k].msg = half[k].msg
      /\ \A r \in B!Connections \ {k} : half'[r] = half[r]
  <2>1. half'[k] \in B!Half
    BY <1>2, <1>4, HalvesTyped
  <2>2. \A r \in B!Connections \ {k} : half'[r] = half[r]
    BY <1>1, <1>2
  <2>3. half' = [r \in B!Connections |-> half'[r]]
    BY <1>1, <1>2
  <2>4. \A r \in B!Connections : half'[r] \in B!Half
    BY <1>2, <2>1, <2>2
  <2>5. half' \in [B!Connections -> B!Half]
    BY <2>3, <2>4
  <2> QED
    BY <1>4, <2>2, <2>5
<1>6. \A r \in B!Connections : half'[r].msg = half[r].msg /\ (Holding(r)' <=> Holding(r))
  BY <1>2, <1>5 DEF Holding
<1>7. Typed'
  <2>1. \A r \in B!Connections : half'[r].st = "none" <=> r > conn
    BY <1>1, <1>5 DEF IInv, Typed, B!TypeOK
  <2>2. \A r \in B!Connections : half'[r].st = "announcing" => half'[r].msg.device \in known'
    BY <1>1, <1>5 DEF IInv, Typed
  <2> QED
    BY <1>1, <1>2, <1>5, <2>1, <2>2 DEF IInv, Typed, B!TypeOK
<1>8. Queued'
  BY <1>1, <1>6 DEF IInv, Queued
<1>9. Ordered'
  BY <1>1, <1>6 DEF IInv, Ordered
<1>10. Accounted'
  <2>1. 1..conn \subseteq B!Connections
    BY <1>2, BridgeBounds DEF IInv, Typed, B!TypeOK, B!Connections
  <2>2. GoneHalves' = GoneHalves
    BY <1>1, <1>5, <2>1 DEF GoneHalves
  <2> QED
    BY <1>1, <2>2 DEF IInv, Accounted, EndedOnes
<1> QED
  BY <1>7, <1>8, <1>9, <1>10 DEF IInv

\* The half of the present connection publishes its message.
LEMMA PublishInv ==
  ASSUME IInv, NEW k \in B!Connections, B!Publish(k)
  PROVE  IInv'
<1> DEFINE n == half[k].msg.seq
<1>1. /\ UNCHANGED <<run, alive, conn, queue, known, announced, lost, put, commands>>
      /\ k = conn /\ Holding(k) /\ half' = [half EXCEPT ![k] = B!Waiting]
      /\ published' = Append(published, n)
  BY DEF B!Publish, B!Usable, B!connectionVars, Holding
<1>2. /\ half \in [B!Connections -> B!Half] /\ conn \in Nat /\ put \in Nat /\ half[k].msg \in B!Message
      /\ n \in Nat /\ published \in Seq(1..put) /\ (half[k].st = "none" <=> k > conn)
      /\ \A i \in 1..Len(published) : published[i] \in Nat
  BY <1>1, HalfStepFacts
<1>3. n \in 1..put
  BY <1>1, <1>2 DEF IInv, Queued, B!Message
<1> HIDE DEF n
<1>4. /\ published' \in Seq(1..put) /\ Len(published') = Len(published) + 1 /\ Len(published) \in Nat
      /\ \A i \in 1..Len(published) : published'[i] = published[i]
      /\ published'[Len(published) + 1] = n
  BY <1>1, <1>2, <1>3
<1>5. \A i \in 1..Len(published') : i = Len(published) + 1 \/ i \in 1..Len(published)
  BY <1>4
<1>6. /\ half' \in [B!Connections -> B!Half] /\ half'[k].st = "waiting"
      /\ \A r \in B!Connections \ {k} : half'[r] = half[r]
  BY <1>1, <1>2, HalvesTyped
<1>7. Typed'
  <2>1. \A r \in B!Connections : half'[r].st = "none" <=> r > conn
    BY <1>1, <1>2, <1>6 DEF IInv, Typed, B!TypeOK
  <2>2. \A r \in B!Connections : half'[r].st = "announcing" => half'[r].msg.device \in known'
    BY <1>1, <1>6 DEF IInv, Typed
  <2> QED
    BY <1>1, <1>4, <1>6, <2>1, <2>2 DEF IInv, Typed, B!TypeOK
<1>8. Queued'
  BY <1>1, <1>6 DEF IInv, Queued, Holding
<1>9. Ordered'
  <2>1. \A i \in 1..Len(published) : published[i] < n
    BY <1>1 DEF IInv, Ordered, n
  <2>2. \A j \in 1..Len(queue) : n < queue[j].seq
    BY <1>1 DEF IInv, Queued, n
  <2>3. \A i \in 1..Len(published'), j \in 1..Len(published') : i < j => published'[i] < published'[j]
    BY <1>4, <1>5, <2>1 DEF IInv, Ordered
  <2>4. \A i \in 1..Len(published'), j \in 1..Len(queue) : published'[i] < queue[j].seq
    BY <1>4, <1>5, <2>2 DEF IInv, Ordered
  <2>5. ~Holding(conn)'
    BY <1>1, <1>6 DEF Holding
  <2> QED
    BY <1>1, <2>3, <2>4, <2>5 DEF Ordered, Holding
<1>10. Accounted'
  <2>1. 1..conn \subseteq B!Connections
    BY <1>2, BridgeBounds DEF IInv, Typed, B!TypeOK, B!Connections
  <2>2. GoneHalves' = GoneHalves
    BY <1>1, <1>6, <2>1 DEF GoneHalves, Holding
  <2> QED
    BY <1>1, <2>2 DEF IInv, Accounted, EndedOnes
<1> QED
  BY <1>7, <1>8, <1>9, <1>10 DEF IInv

\* A half that fails loses its message and ends.
LEMMA FailInv ==
  ASSUME IInv, NEW k \in B!Connections, B!Fail(k)
  PROVE  IInv'
<1> DEFINE n == half[k].msg.seq
<1>1. /\ UNCHANGED <<conn, queue, known, announced, published, put, commands>>
      /\ Holding(k) /\ half' = [half EXCEPT ![k] = B!Gone] /\ lost' = lost \cup {n}
      /\ run' = IF k = conn /\ run = "connected" THEN "sleeping" ELSE run
  BY DEF B!Fail, B!Raise, Holding
<1>2. /\ half \in [B!Connections -> B!Half] /\ conn \in Nat /\ put \in Nat /\ half[k].msg \in B!Message
      /\ n \in Nat /\ (half[k].st = "none" <=> k > conn)
  BY <1>1, HalfStepFacts
<1>3. n \in 1..put
  BY <1>1, <1>2 DEF IInv, Queued, B!Message
<1> HIDE DEF n
<1>4. /\ half' \in [B!Connections -> B!Half] /\ half'[k].st = "gone"
      /\ \A r \in B!Connections \ {k} : half'[r] = half[r]
  BY <1>1, <1>2, HalvesTyped
<1>5. Typed'
  <2>1. \A r \in B!Connections : half'[r].st = "none" <=> r > conn
    BY <1>1, <1>2, <1>4 DEF IInv, Typed, B!TypeOK, Holding
  <2>2. \A r \in B!Connections : half'[r].st = "announcing" => half'[r].msg.device \in known'
    BY <1>1, <1>4 DEF IInv, Typed
  <2>3. alive' \in BOOLEAN
    BY Zenon DEF B!Fail, B!Raise
  <2>4. run' \in {"connecting", "connected", "sleeping", "ended"}
    BY <1>1 DEF IInv, Typed, B!TypeOK
  <2> QED
    BY <1>1, <1>3, <1>4, <2>1, <2>2, <2>3, <2>4 DEF IInv, Typed, B!TypeOK
<1>6. Queued'
  BY <1>1, <1>4 DEF IInv, Queued, Holding
<1>7. Ordered'
  <2>1. ASSUME conn \in B!Connections, Holding(conn)'
        PROVE  half'[conn] = half[conn] /\ Holding(conn)
    BY <1>1, <1>4, <2>1 DEF Holding
  <2> QED
    BY <1>1, <2>1 DEF IInv, Ordered
<1>8. Accounted'
  <2>1. 1..conn \subseteq B!Connections /\ k \in 1..conn
    BY <1>1, <1>2, BridgeBounds DEF IInv, Typed, B!TypeOK, B!Connections, Holding
  <2>2. GoneHalves' = GoneHalves \cup {k} /\ k \notin GoneHalves
    BY <1>1, <1>4, <2>1 DEF GoneHalves, Holding
  <2>3. GoneHalves' \subseteq EndedOnes'
    BY <1>1, <1>2, <2>1, <2>2 DEF IInv, Accounted, EndedOnes
  <2>4. IsFiniteSet(GoneHalves) /\ IsFiniteSet(lost)
    BY Finite
  <2>5. Cardinality(GoneHalves') = Cardinality(GoneHalves) + 1
    BY <2>2, <2>4, FS_AddElement
  <2>6. Cardinality(lost') \in Nat /\ Cardinality(lost') <= Cardinality(lost) + 1
    BY <1>1, <2>4, OneMore
  <2>7. Cardinality(lost) <= Cardinality(GoneHalves)
    BY DEF IInv, Accounted
  <2>8. Cardinality(lost) \in Nat /\ Cardinality(GoneHalves) \in Nat
    BY <2>4, FS_CardinalityType
  <2> QED
    BY <2>3, <2>5, <2>6, <2>7, <2>8 DEF Accounted
<1> QED
  BY <1>5, <1>6, <1>7, <1>8 DEF IInv

-----------------------------------------------------------------------------
(* The theorems.                                                           *)

\* No step breaks the invariant.
LEMMA StepInv == IInv /\ [B!Next]_B!vars => IInv'
<1> SUFFICES ASSUME IInv, [B!Next]_B!vars PROVE IInv'
  OBVIOUS
<1>1. CASE UNCHANGED B!vars
  <2>1. UNCHANGED <<run, alive, conn, half, queue, known, announced, published, lost, put, commands>>
    BY <1>1 DEF B!vars, B!connectionVars, B!messageVars
  <2> QED
    BY <2>1 DEF IInv, Typed, B!TypeOK, Queued, Ordered, Holding, Accounted, GoneHalves, EndedOnes
<1>2. CASE B!Connect \/ B!HandleMessage \/ B!Wake \/ B!BrokerGone \/ B!CommandHalfEnds \/ B!Command
  BY <1>2, ConnectInv, HandleMessageInv, QuietInv
<1>3. ASSUME NEW k \in B!Connections, B!Step(k) PROVE IInv'
  BY <1>3, TakeInv, AnnounceInv, PublishInv, FailInv DEF B!Step
<1> QED
  BY <1>1, <1>2, <1>3 DEF B!Next

\* The invariant gives the order, and the bound: what is lost is paid for by gone
\* halves, and they and the waiting ones make up the connections that ended.
LEMMA InvImplies == IInv => B!TypeOK /\ B!PublishedInOrder /\ B!LossBounded
<1> SUFFICES ASSUME IInv PROVE B!TypeOK /\ B!PublishedInOrder /\ B!LossBounded
  OBVIOUS
<1>1. B!TypeOK
  BY DEF IInv, Typed
<1>2. B!PublishedInOrder
  <2>1. DOMAIN published = 1..Len(published)
    BY <1>1, SeqFacts DEF B!TypeOK
  <2> QED
    BY <2>1 DEF IInv, Ordered, B!PublishedInOrder
<1>3. B!LossBounded
  <2> DEFINE waiting == {k \in EndedOnes : half[k].st # "gone"}
  <2>1. /\ GoneHalves \subseteq EndedOnes /\ waiting \cap GoneHalves = {}
        /\ waiting \cup GoneHalves = EndedOnes
    BY DEF IInv, Accounted, GoneHalves, EndedOnes
  <2>2. waiting \in SUBSET EndedOnes
    OBVIOUS
  <2>8. \A some : B!Cardinality(some) = Cardinality(some)
    BY DEF Cardinality, B!Cardinality
  <2>3. B!LossBounded <=> Cardinality(lost) + Cardinality(waiting) <= Cardinality(EndedOnes)
    BY <2>8, Zenon DEF B!LossBounded, EndedOnes
  <2> HIDE DEF waiting
  <2>4. IsFiniteSet(waiting) /\ IsFiniteSet(GoneHalves) /\ IsFiniteSet(lost) /\ IsFiniteSet(EndedOnes)
    BY <2>2, Finite, FS_Subset
  <2>5. /\ Cardinality(waiting) \in Nat /\ Cardinality(GoneHalves) \in Nat /\ Cardinality(lost) \in Nat
        /\ Cardinality(EndedOnes) \in Nat
    BY <2>4, FS_CardinalityType
  <2>6. Cardinality(EndedOnes) = Cardinality(waiting) + Cardinality(GoneHalves)
    BY <2>1, <2>4, <2>5, FS_Union, FS_EmptySet
  <2>7. Cardinality(lost) <= Cardinality(GoneHalves)
    BY DEF IInv, Accounted
  <2> QED
    BY <2>3, <2>5, <2>6, <2>7
<1> QED
  BY <1>1, <1>2, <1>3

\* The invariant holds in every state.
LEMMA BridgeInv == Spec => []IInv
<1>1. Init => IInv
  BY InitInv DEF Init
<1>2. IInv /\ [Next]_vars => IInv'
  BY BridgeMoves, StepInv
<1> QED
  BY <1>1, <1>2, PTL DEF Spec

\* The queue, the halves of all connections and what was published and lost keep
\* their types, and a half exists once its connection does.
THEOREM BridgeTypeOK == Spec => []BridgeTyped
<1>1. IInv => BridgeTyped
  BY InvImplies DEF BridgeTyped
<1> QED
  BY <1>1, BridgeInv, PTL

\* Messages are published in the order in which the bus handed them over, and none
\* twice, whatever halves of old connections take from the queue.
THEOREM BridgePublishedInOrder == Spec => []PublishedInOrder
<1>1. IInv => PublishedInOrder
  BY InvImplies DEF PublishedInOrder
<1> QED
  BY <1>1, BridgeInv, PTL

\* Every connection that has ended costs one message at most.
THEOREM BridgeLossBounded == Spec => []LossBounded
<1>1. IInv => LossBounded
  BY InvImplies DEF LossBounded
<1> QED
  BY <1>1, BridgeInv, PTL
=============================================================================
