--------------------------- MODULE PollCycleProofs ---------------------------
(***************************************************************************)
(* Proofs about PollCycle for any bounds, any place where the counter      *)
(* starts over, and any faults: TypeOK, SlowBlocksRead and                 *)
(* StoreNeverGoesBack.                                                     *)
(***************************************************************************)
EXTENDS PollCycle, SequenceTheorems, TLAPS

InCycle == pc \in {"next", "asked"}

\* A handler that waits for an answer still has the command in its plan.
Typed == TypeOK /\ (pc = "asked" => plan # <<>>)

\* How many cycles without the slow blocks come before one that asks for them, with
\* the counter at c and the flag f, and SlowBlocksRead with these counted in.
Due(c, f) == IF f \/ c % 3 = 0 THEN 0 ELSE 3 - (c % 3)

Within(c, f, run, writes) == run + Due(c, f) <= 2 + 2 * writes

\* Within holds now, and in a cycle without the slow blocks also after its tick.
Schedule ==
  /\ Within(counter, forced, fastRun, setBacks)
  /\ InCycle /\ ~full => Within(counter + 1, FALSE, fastRun + 1, setBacks)

\* What the store s shows, what waits in q, and what the device has are in the order
\* of the writes they show.
InOrder(s, q, v) ==
  /\ \A b \in DOMAIN s : s[b] \in 0..v
  /\ \A i \in 1..Len(q) : q[i].type = "parsed" =>
       \A b \in DOMAIN q[i].fields :
         q[i].fields[b] \in 0..v /\ \A a \in DOMAIN s : s[a] <= q[i].fields[b]
  /\ \A i, j \in 1..Len(q) : i < j /\ q[i].type = "parsed" /\ q[j].type = "parsed" =>
       \A a \in DOMAIN q[i].fields, b \in DOMAIN q[j].fields : q[i].fields[a] <= q[j].fields[b]

Readings == InOrder(store, queue, version)

IInv == Typed /\ Schedule /\ Readings

-----------------------------------------------------------------------------
(* The schedule.                                                           *)

\* The remainders the schedule goes by.
LEMMA Thirds ==
  ASSUME NEW c \in Nat
  PROVE  /\ c % 3 \in 0..2 /\ (c + 1) % 3 = IF c % 3 = 2 THEN 0 ELSE (c % 3) + 1
         /\ 3 * (c \div 3) \in 0..c
         /\ (3 * (c \div 3)) % 3 = 0 /\ (3 * (c \div 3) + 1) % 3 = 1
OBVIOUS

\* A cycle without the slow blocks uses up one of those still due.
LEMMA CycleBegins ==
  ASSUME NEW c \in Nat, NEW run \in Nat, NEW writes \in Nat,
         Within(c, FALSE, run, writes), c % 3 # 0
  PROVE  Within(c + 1, FALSE, run + 1, writes)
BY Thirds DEF Within, Due

\* Starting over only brings the slow blocks closer.
LEMMA CounterWraps ==
  ASSUME NEW c \in Nat, NEW f, NEW run \in Nat, NEW writes \in Nat, Within(c, f, run, writes)
  PROVE  Within(0, FALSE, run, writes)
BY Thirds DEF Within, Due

\* After a cycle with the slow blocks nothing is owed.
LEMMA FullCycleEnds ==
  ASSUME NEW c \in Nat
  PROVE  Within(c, FALSE, 0, 0)
BY Thirds DEF Within, Due

\* A write makes the slow blocks due at once, whatever the counter.
LEMMA WriteForces ==
  ASSUME NEW c \in Nat, NEW f, NEW run \in Nat, NEW writes \in Nat, Within(c, f, run, writes)
  PROVE  \A d \in Nat : Within(d, TRUE, run, writes) /\ Within(d, TRUE, run, writes + 1)
BY Thirds DEF Within, Due

\* One performed in the middle of a cycle counts for the tick that undoes it.
LEMMA WriteInCycle ==
  ASSUME NEW c \in Nat, NEW run \in Nat, NEW writes \in Nat, Within(c + 1, FALSE, run + 1, writes)
  PROVE  Within(3 * (c \div 3) + 1, FALSE, run + 1, writes + 1)
BY Thirds DEF Within, Due

\* A cycle that begins when the slow blocks are due asks for them.
LEMMA FullCycle ==
  ASSUME BeginCycle, ~full'
  PROVE  ~Full
<1> SUFFICES ASSUME Full PROVE FALSE
  OBVIOUS
<1>1. \A i \in DOMAIN plan' : "slow" \notin plan'[i]
  BY DEF BeginCycle
<1>2. CASE tlv
  <2>1. plan' = <<tlv_sections>> \o IfSo(packs = "found", <<{"pack"}>>) /\ "slow" \in tlv_sections
    BY <1>2 DEF BeginCycle, tlv_polling_commands, tlv_sections
  <2>2. 1 \in DOMAIN plan' /\ plan'[1] = tlv_sections
    BY <2>1 DEF IfSo
  <2> QED
    BY <1>1, <2>1, <2>2
<1>3. CASE ~tlv
  <2>1. plan' = <<{"home"}>> \o <<{"slow"}>> \o IfSo(packs = "found" \/ HasPacks, <<{"pack"}>>)
    BY <1>3 DEF BeginCycle, polling_commands, IfSo
  <2>2. 2 \in DOMAIN plan' /\ plan'[2] = {"slow"}
    BY <2>1 DEF IfSo
  <2> QED
    BY <1>1, <2>2
<1> QED
  BY <1>2, <1>3

\* A step that leaves the schedule alone, and a cycle under way its mode.
LEMMA ScheduleUntouched ==
  ASSUME Schedule, UNCHANGED <<counter, forced, full, fastRun, setBacks>>, InCycle' => InCycle
  PROVE  Schedule'
BY DEF Schedule

\* Every step keeps to the schedule.
LEMMA ScheduleNext ==
  ASSUME Typed, Schedule, [Next]_vars
  PROVE  Schedule'
<1>1. /\ counter \in Nat /\ counter + 1 \in Nat /\ 3 * (counter \div 3) \in Nat
      /\ fastRun \in Nat /\ fastRun + 1 \in Nat /\ setBacks \in Nat
  BY PollAssumption, Thirds DEF Typed, TypeOK
<1>2. CASE BeginCycle
  <2>1. UNCHANGED <<counter, forced, fastRun, setBacks>>
    BY <1>2 DEF BeginCycle, deviceVars
  <2>2. CASE ~full'
    <3>1. ~forced /\ counter % 3 # 0
      BY <1>2, <2>2, FullCycle DEF Full
    <3>2. forced = FALSE
      BY <3>1, Zenon DEF Typed, TypeOK
    <3>3. Within(counter + 1, FALSE, fastRun + 1, setBacks)
      BY <1>1, <3>1, <3>2, CycleBegins DEF Schedule
    <3> QED
      BY <2>1, <3>3 DEF Schedule
  <2> QED
    BY <2>1, <2>2 DEF Schedule
<1>3. CASE EndCycle
  <2>1. /\ InCycle /\ ~InCycle' /\ forced' = FALSE
        /\ counter' = 0 \/ counter' = counter + 1
        /\ IF full THEN fastRun' = 0 /\ setBacks' = 0
           ELSE fastRun' = fastRun + 1 /\ setBacks' = setBacks
    BY <1>3 DEF EndCycle, tick_poll_counter, InCycle
  <2>2. CASE full
    BY <1>1, <2>1, <2>2, FullCycleEnds DEF Schedule
  <2>3. CASE ~full
    <3>1. Within(counter + 1, FALSE, fastRun + 1, setBacks)
      BY <2>1, <2>3 DEF Schedule
    <3>2. Within(0, FALSE, fastRun + 1, setBacks)
      BY <1>1, <3>1, CounterWraps
    <3> QED
      BY <2>1, <2>3, <3>1, <3>2 DEF Schedule
  <2> QED
    BY <2>2, <2>3
<1>4. CASE Performed
  <2>1. UNCHANGED <<pc, full, fastRun>> /\ InCycle' = InCycle
    BY <1>4 DEF Performed, InCycle
  <2>2. CASE given'["bus"].kind = "ok"
    <3>1. /\ forced' = TRUE /\ counter' = 3 * (counter \div 3)
          /\ setBacks' = IF InCycle /\ ~full THEN setBacks + 1 ELSE setBacks
      BY <1>4, <2>2 DEF Performed, force_full_poll, InCycle
    <3>2. Within(counter', TRUE, fastRun, setBacks) /\ Within(counter', TRUE, fastRun, setBacks + 1)
      BY <1>1, <3>1, WriteForces DEF Schedule
    <3>3. InCycle /\ ~full => Within(counter' + 1, FALSE, fastRun + 1, setBacks + 1)
      BY <1>1, <3>1, WriteInCycle DEF Schedule
    <3> QED
      BY <2>1, <3>1, <3>2, <3>3 DEF Schedule
  <2>3. CASE given'["bus"].kind # "ok"
    <3>1. UNCHANGED <<counter, forced, setBacks>>
      BY <1>4, <2>3 DEF Performed
    <3> QED
      BY <2>1, <3>1, ScheduleUntouched
  <2> QED
    BY <2>2, <2>3
<1>5. CASE Connect \/ Discover \/ Discovered \/ Ask \/ Polled \/ Wake
  <2>1. UNCHANGED <<counter, forced, full, fastRun, setBacks>> /\ (InCycle' => InCycle)
    BY <1>5 DEF Connect, Discover, Discovered, Ask, Polled, Wake, deviceVars, history, InCycle
  <2> QED
    BY <2>1, ScheduleUntouched
<1>6. CASE DispatchParsed \/ DispatchCommand \/ AcceptCommand \/ LinkDrops \/ Stop \/ UNCHANGED vars
  <2>1. UNCHANGED <<counter, forced, full, fastRun, setBacks>> /\ (InCycle' => InCycle)
    BY <1>6 DEF DispatchParsed, DispatchCommand, AcceptCommand, LinkDrops, Stop, vars, deviceVars,
                history, InCycle
  <2> QED
    BY <2>1, ScheduleUntouched
<1> QED
  BY <1>2, <1>3, <1>4, <1>5, <1>6 DEF Next, Handler, Bus

-----------------------------------------------------------------------------
(* Types.                                                                  *)

FieldsUpTo(v) == UNION {[bs -> 0..v] : bs \in SUBSET Blocks}

MessageUpTo(v) == [type : {"parsed"}, fields : FieldsUpTo(v)] \cup {CommandMessage}

\* What the device had when it was read is never more than it has now.
LEMMA FieldsGrow ==
  ASSUME NEW v \in Nat, NEW w \in Nat, v <= w
  PROVE  FieldsUpTo(v) \subseteq FieldsUpTo(w) /\ Seq(MessageUpTo(v)) \subseteq Seq(MessageUpTo(w))
<1>1. FieldsUpTo(v) \subseteq FieldsUpTo(w)
  <2>1. ASSUME NEW bs, NEW f \in [bs -> 0..v]
        PROVE  f \in [bs -> 0..w]
    <3>1. \A b \in bs : f[b] \in 0..w
      OBVIOUS
    <3> QED
      BY <3>1
  <2>2. ASSUME NEW f \in FieldsUpTo(v)
        PROVE  f \in FieldsUpTo(w)
    <3>1. PICK bs \in SUBSET Blocks : f \in [bs -> 0..v]
      BY Zenon DEF FieldsUpTo
    <3>2. f \in [bs -> 0..w]
      BY <2>1, <3>1
    <3> QED
      BY <3>1, <3>2, Zenon DEF FieldsUpTo
  <2> QED
    BY <2>2
<1>2. MessageUpTo(v) \subseteq MessageUpTo(w)
  BY <1>1 DEF MessageUpTo
<1>3. \A A, B : A \subseteq B => Seq(A) \subseteq Seq(B)
  OBVIOUS
<1> QED
  BY <1>1, <1>2, <1>3

\* A reading shows the version the device has.
LEMMA ReadingTyped ==
  ASSUME NEW bs \in Reads, NEW v \in Nat
  PROVE  [type |-> "parsed", fields |-> [b \in bs |-> v]] \in MessageUpTo(v)
<1>1. [b \in bs |-> v] \in [bs -> 0..v] /\ bs \in SUBSET Blocks
  BY DEF Reads
<1>2. [b \in bs |-> v] \in FieldsUpTo(v)
  BY <1>1, Zenon DEF FieldsUpTo
<1> QED
  BY <1>2 DEF MessageUpTo

\* The lists of both kinds of poll, whatever the schedule and the topology.
LEMMA PlansTyped ==
  polling_commands \in Seq(Reads) /\ tlv_polling_commands \in Seq(Reads)
<1>1. {"home"} \in Reads /\ {"slow"} \in Reads /\ {"pack"} \in Reads /\ tlv_sections \in Reads
  BY DEF Reads, Blocks, tlv_sections
<1>2. \A condition : \A r \in Reads : IfSo(condition, <<r>>) \in Seq(Reads) /\ <<r>> \in Seq(Reads)
  BY DEF IfSo
<1>3. \A s, t \in Seq(Reads) : s \o t \in Seq(Reads)
  BY ConcatProperties
<1> QED
  BY <1>1, <1>2, <1>3 DEF polling_commands, tlv_polling_commands

\* The first state is typed.
LEMMA TypedInit ==
  Init => Typed
<1> SUFFICES ASSUME Init PROVE Typed
  OBVIOUS
<1>1. <<>> \in FieldsUpTo(version)
  <2>1. <<>> \in [{} -> 0..version]
    OBVIOUS
  <2> QED
    BY <2>1, Zenon DEF FieldsUpTo
<1>2. Fields = FieldsUpTo(version)
  BY DEF Fields, FieldsUpTo
<1>3. counter \in 0..(Wrap - 1) /\ version \in Nat /\ accepted \in Nat /\ mishaps \in Nat
      /\ fastRun \in Nat /\ setBacks \in Nat
  BY PollAssumption DEF Init
<1>4. forced \in BOOLEAN /\ tlv \in BOOLEAN /\ linked \in BOOLEAN /\ full \in BOOLEAN
      /\ wrote \in BOOLEAN
  BY Zenon DEF Init
<1>5. plan \in Seq(Reads) /\ line \in Seq({"poll", "bus"})
      /\ queue \in Seq([type : {"parsed"}, fields : Fields] \cup {CommandMessage})
  BY DEF Init, Channel!Init
<1>6. store \in Fields
  BY <1>1, <1>2 DEF Init
<1>7. pc = "top" /\ packs = "unknown" /\ busPc = "idle"
  BY DEF Init
<1> QED
  BY <1>3, <1>4, <1>5, <1>6, <1>7 DEF Typed, TypeOK

\* Calls join and leave the line at its ends.
LEMMA LineTyped ==
  ASSUME line \in Seq({"poll", "bus"})
  PROVE  /\ \A r : \A task \in {"poll", "bus"} : Channel!Submit(task, r) => line' \in Seq({"poll", "bus"})
         /\ \A task : Answered(task) => line' \in Seq({"poll", "bus"})
<1>1. \A r : \A task \in {"poll", "bus"} : Channel!Submit(task, r) => line' \in Seq({"poll", "bus"})
  BY DEF Channel!Submit
<1>2. \A task : Answered(task) => line' \in Seq({"poll", "bus"})
  BY HeadTailProperties DEF Answered, Channel!Serve
<1> QED
  BY <1>1, <1>2

\* Everything that TypeOK says of the handler, without the channel and the bus.
HandlerTyped ==
  /\ pc \in {"top", "discover", "discovering", "cycle", "next", "asked", "pause", "dead", "stopped"}
  /\ plan \in Seq(Reads) /\ packs \in {"unknown", "found", "none"}
  /\ counter \in 0..(Wrap - 1) /\ forced \in BOOLEAN /\ tlv \in BOOLEAN
  /\ linked \in BOOLEAN /\ full \in BOOLEAN
  /\ accepted \in Nat /\ mishaps \in Nat /\ fastRun \in Nat /\ setBacks \in Nat
  /\ wrote \in BOOLEAN
  /\ pc = "asked" => plan # <<>>

BusTyped ==
  /\ line \in Seq({"poll", "bus"}) /\ busPc \in {"idle", "performing", "dead"}
  /\ version \in Nat
  /\ queue \in Seq(MessageUpTo(version)) /\ store \in FieldsUpTo(version)

\* Typed is what the two parts say.
LEMMA TypedParts ==
  (Typed <=> HandlerTyped /\ BusTyped) /\ (Typed' <=> HandlerTyped' /\ BusTyped')
<1>1. Fields = FieldsUpTo(version) /\ Fields' = FieldsUpTo(version')
  BY DEF Fields, FieldsUpTo
<1>2. /\ MessageUpTo(version) = [type : {"parsed"}, fields : Fields] \cup {CommandMessage}
      /\ MessageUpTo(version') = [type : {"parsed"}, fields : Fields'] \cup {CommandMessage}
  BY <1>1 DEF MessageUpTo
<1>3. Typed <=> HandlerTyped /\ BusTyped
  BY <1>1, <1>2, Zenon DEF Typed, TypeOK, HandlerTyped, BusTyped
<1>4. Typed' <=> HandlerTyped' /\ BusTyped'
  BY <1>1, <1>2, Zenon DEF Typed, TypeOK, HandlerTyped, BusTyped
<1> QED
  BY <1>3, <1>4

\* Every step keeps the types of the handler.
LEMMA HandlerNext ==
  ASSUME HandlerTyped, [Next]_vars
  PROVE  HandlerTyped'
<1> USE PollAssumption
<1>1. <<>> \in Seq(Reads) /\ \A s \in Seq(Reads) : s # <<>> => Tail(s) \in Seq(Reads)
  BY HeadTailProperties
<1>2. CASE Connect \/ Discover \/ Wake
  <2>1. linked' = linked \/ linked' = TRUE
    BY <1>2 DEF Connect, Discover, Wake
  <2>2. linked' \in BOOLEAN
    BY <2>1, Zenon DEF HandlerTyped
  <2> QED
    BY <1>2, <2>2 DEF Connect, Discover, Wake, HandlerTyped, deviceVars, busVars, history, Mishap
<1>3. CASE BeginCycle
  <2>1. full' \in BOOLEAN
    BY <1>3, Zenon DEF BeginCycle
  <2>2. plan' \in Seq(Reads)
    BY <1>3, PlansTyped DEF BeginCycle
  <2>3. wrote' \in BOOLEAN
    BY <1>3, Zenon DEF BeginCycle
  <2> QED
    BY <1>3, <2>1, <2>2, <2>3 DEF BeginCycle, HandlerTyped, deviceVars, busVars
<1>4. CASE Ask
  BY <1>4 DEF Ask, HandlerTyped, deviceVars, busVars, history
<1>5. CASE EndCycle
  <2>1. forced' \in BOOLEAN
    BY <1>5, Zenon DEF EndCycle, tick_poll_counter
  <2>2. counter' \in 0..(Wrap - 1)
    BY <1>5 DEF EndCycle, tick_poll_counter, HandlerTyped
  <2>3. fastRun' \in Nat /\ setBacks' \in Nat
    BY <1>5 DEF EndCycle, HandlerTyped
  <2> QED
    BY <1>5, <2>1, <2>2, <2>3 DEF EndCycle, HandlerTyped, busVars
<1>6. CASE Discovered
  BY <1>6 DEF Discovered, Answered, HandlerTyped, busVars, history, Mishap
<1>7. CASE Polled
  <2>1. plan' = Tail(plan) \/ plan' = <<>>
    BY <1>7 DEF Polled
  <2>2. plan' \in Seq(Reads)
    <3>1. plan # <<>> /\ plan \in Seq(Reads)
      BY <1>7 DEF Polled, HandlerTyped
    <3> QED
      BY <1>1, <2>1, <3>1
  <2>3. linked' = linked \/ linked' = FALSE
    BY <1>7 DEF Polled
  <2>4. linked' \in BOOLEAN
    BY <2>3, Zenon DEF HandlerTyped
  <2>5. pc' \in {"next", "pause", "dead"}
    BY <1>7 DEF Polled
  <2> QED
    BY <1>7, <2>2, <2>4, <2>5 DEF Polled, Answered, HandlerTyped, deviceVars, history, Mishap
<1>8. CASE Performed
  <2>1. counter' \in 0..(Wrap - 1)
    <3>1. counter \in Nat
      BY DEF HandlerTyped
    <3>2. 3 * (counter \div 3) \in 0..counter
      BY <3>1, Thirds
    <3>3. counter' = counter \/ counter' = 3 * (counter \div 3)
      BY <1>8 DEF Performed, force_full_poll
    <3> QED
      BY <3>2, <3>3 DEF HandlerTyped
  <2>2. forced' = TRUE \/ forced' = forced
    BY <1>8 DEF Performed, force_full_poll
  <2>3. forced' \in BOOLEAN
    BY <2>2, Zenon DEF HandlerTyped
  <2>4. setBacks' \in Nat
    BY <1>8 DEF Performed, HandlerTyped
  <2>5. wrote' = TRUE \/ wrote' = wrote
    BY <1>8 DEF Performed
  <2>6. wrote' \in BOOLEAN
    BY <2>5, Zenon DEF HandlerTyped
  <2> QED
    BY <1>8, <2>1, <2>3, <2>4, <2>6 DEF Performed, Answered, HandlerTyped, Mishap
<1>9. CASE DispatchParsed \/ DispatchCommand \/ AcceptCommand \/ UNCHANGED vars
  BY SMTT(30), <1>9 DEF DispatchParsed, DispatchCommand, AcceptCommand, vars, HandlerTyped,
              deviceVars, busVars, history
<1>10. CASE LinkDrops \/ Stop
  <2>1. linked' = FALSE
    BY <1>10 DEF LinkDrops, Stop
  <2>2. linked' \in BOOLEAN
    BY <2>1, Zenon
  <2>3. plan' \in Seq(Reads) /\ (pc' = "asked" => plan' # <<>>)
        /\ (pc' = "stopped" \/ pc' = pc)
    BY <1>1, <1>10 DEF LinkDrops, Stop, HandlerTyped
  <2> QED
    BY <1>10, <2>2, <2>3 DEF LinkDrops, Stop, HandlerTyped, deviceVars, busVars, history, Mishap
<1> QED
  BY <1>10, <1>2, <1>3, <1>4, <1>5, <1>6, <1>7, <1>8, <1>9 DEF Next, Handler, Bus

\* Every step keeps the types of the channel, the bus and the store.
LEMMA BusNext ==
  ASSUME HandlerTyped, BusTyped, [Next]_vars
  PROVE  BusTyped'
<1>1. CASE Connect \/ BeginCycle \/ EndCycle \/ Wake \/ LinkDrops \/ UNCHANGED vars
  BY <1>1 DEF Connect, BeginCycle, EndCycle, Wake, LinkDrops, vars, channelVars, busVars, BusTyped
<1>2. CASE Discover \/ Ask \/ Discovered
  <2>1. line' \in Seq({"poll", "bus"})
    BY <1>2, LineTyped DEF Discover, Ask, Discovered, BusTyped
  <2> QED
    BY <1>2, <2>1 DEF Discover, Ask, Discovered, busVars, BusTyped
<1>3. CASE Polled
  <2>1. line' \in Seq({"poll", "bus"})
    BY <1>3, LineTyped DEF Polled, BusTyped
  <2>2. UNCHANGED <<version, store, busPc>>
    BY <1>3 DEF Polled
  <2>3. Head(plan) \in Reads
    BY <1>3, HeadTailProperties DEF Polled, HandlerTyped
  <2>4. [type |-> "parsed", fields |-> [b \in Head(plan) |-> version]] \in MessageUpTo(version)
    BY <2>3, ReadingTyped DEF BusTyped
  <2>5. \/ queue' = queue
        \/ queue' = Append(queue, [type |-> "parsed", fields |-> [b \in Head(plan) |-> version]])
    BY <1>3 DEF Polled
  <2>6. queue' \in Seq(MessageUpTo(version))
    BY SMTT(30), <2>4, <2>5, AppendProperties DEF BusTyped
  <2> QED
    BY <2>1, <2>2, <2>6 DEF BusTyped
<1>4. CASE AcceptCommand
  <2>1. CommandMessage \in MessageUpTo(version)
    BY DEF MessageUpTo
  <2>2. queue' \in Seq(MessageUpTo(version))
    BY <1>4, <2>1, AppendProperties DEF AcceptCommand, BusTyped
  <2> QED
    BY <1>4, <2>2 DEF AcceptCommand, channelVars, BusTyped
<1>5. CASE DispatchParsed
  <2>1. Head(queue) \in MessageUpTo(version) /\ Tail(queue) \in Seq(MessageUpTo(version))
    BY <1>5, HeadTailProperties DEF DispatchParsed, BusTyped
  <2>2. Head(queue).fields \in FieldsUpTo(version)
    BY <1>5, <2>1 DEF DispatchParsed, MessageUpTo, CommandMessage
  <2> QED
    BY <1>5, <2>1, <2>2 DEF DispatchParsed, channelVars, BusTyped
<1>6. CASE DispatchCommand
  <2>1. Tail(queue) \in Seq(MessageUpTo(version))
    BY <1>6, HeadTailProperties DEF DispatchCommand, BusTyped
  <2>2. line' \in Seq({"poll", "bus"})
    BY <1>6, LineTyped DEF DispatchCommand, BusTyped
  <2> QED
    BY <1>6, <2>1, <2>2 DEF DispatchCommand, BusTyped
<1>7. CASE Performed
  <2>1. line' \in Seq({"poll", "bus"})
    BY <1>7, LineTyped DEF Performed, BusTyped
  <2>2. version' \in {version, version + 1} /\ version \in Nat
    BY <1>7 DEF Performed, BusTyped
  <2>3. /\ FieldsUpTo(version) \subseteq FieldsUpTo(version')
        /\ Seq(MessageUpTo(version)) \subseteq Seq(MessageUpTo(version'))
    BY <2>2, FieldsGrow
  <2> QED
    BY <1>7, <2>1, <2>2, <2>3 DEF Performed, BusTyped
<1>8. CASE Stop
  <2>1. <<>> \in Seq({"poll", "bus"}) /\ <<"bus">> \in Seq({"poll", "bus"})
    OBVIOUS
  <2>2. line' \in {<<>>, <<"bus">>} /\ busPc' \in {busPc, "dead"}
    BY <1>8 DEF Stop
  <2> QED
    BY <1>8, <2>1, <2>2 DEF Stop, BusTyped
<1> QED
  BY <1>1, <1>2, <1>3, <1>4, <1>5, <1>6, <1>7, <1>8 DEF Next, Handler, Bus

\* Every step keeps all types.
LEMMA TypedNext ==
  ASSUME Typed, [Next]_vars
  PROVE  Typed'
BY TypedParts, HandlerNext, BusNext

-----------------------------------------------------------------------------
(* The order of the readings.                                              *)

\* A reading is of the device as it is now, and goes to the end of the queue.
LEMMA ReadingLast ==
  ASSUME NEW S, NEW q \in Seq(S), NEW s, NEW v \in Nat, InOrder(s, q, v),
         NEW m \in S, m.type = "parsed", \A b \in DOMAIN m.fields : m.fields[b] = v
  PROVE  InOrder(s, Append(q, m), v)
<1> DEFINE r == Append(q, m)
<1>1. /\ Len(q) \in Nat /\ Len(r) = Len(q) + 1 /\ r[Len(q) + 1] = m
      /\ \A i \in 1..Len(q) : r[i] = q[i]
  BY AppendProperties
<1> HIDE DEF r
<1>2. \A i \in 1..Len(r) : i \in 1..Len(q) \/ i = Len(q) + 1
  BY <1>1
<1>3. ASSUME NEW i \in 1..Len(r), r[i].type = "parsed", NEW b \in DOMAIN r[i].fields
      PROVE  r[i].fields[b] \in 0..v /\ \A a \in DOMAIN s : s[a] <= r[i].fields[b]
  BY <1>1, <1>2, <1>3 DEF InOrder
<1>4. ASSUME NEW i \in 1..Len(r), NEW j \in 1..Len(r), i < j, r[i].type = "parsed",
             r[j].type = "parsed", NEW a \in DOMAIN r[i].fields, NEW b \in DOMAIN r[j].fields
      PROVE  r[i].fields[a] <= r[j].fields[b]
  <2>1. i \in 1..Len(q)
    BY <1>1, <1>4
  <2>2. CASE j \in 1..Len(q)
    BY <1>1, <1>4, <2>1, <2>2 DEF InOrder
  <2>3. CASE j = Len(q) + 1
    BY <1>1, <1>4, <2>1, <2>3 DEF InOrder
  <2> QED
    BY <1>2, <2>2, <2>3
<1>5. InOrder(s, r, v)
  BY <1>3, <1>4 DEF InOrder
<1> QED
  BY <1>5 DEF r

\* A command has no readings.
LEMMA CommandLast ==
  ASSUME NEW S, NEW q \in Seq(S), NEW s, NEW v \in Nat, InOrder(s, q, v), CommandMessage \in S
  PROVE  InOrder(s, Append(q, CommandMessage), v)
<1> DEFINE r == Append(q, CommandMessage)
<1>1. /\ Len(q) \in Nat /\ Len(r) = Len(q) + 1 /\ r[Len(q) + 1] = CommandMessage
      /\ \A i \in 1..Len(q) : r[i] = q[i]
  BY AppendProperties
<1>2. CommandMessage.type # "parsed"
  BY DEF CommandMessage
<1> HIDE DEF r
<1>3. \A i \in 1..Len(r) : r[i].type = "parsed" => i \in 1..Len(q) /\ r[i] = q[i]
  BY <1>1, <1>2
<1>4. InOrder(s, r, v)
  BY <1>3 DEF InOrder
<1> QED
  BY <1>4 DEF r

\* What leaves the queue is no newer than what stays, and no older than the store.
LEMMA FirstServed ==
  ASSUME NEW S, NEW q \in Seq(S), q # <<>>, NEW s, NEW v \in Nat, InOrder(s, q, v)
  PROVE  /\ InOrder(s, Tail(q), v)
         /\ Head(q).type = "parsed" =>
              /\ InOrder(Head(q).fields, Tail(q), v)
              /\ \A b \in DOMAIN s \cap DOMAIN Head(q).fields : s[b] <= Head(q).fields[b]
<1> DEFINE r == Tail(q)
<1>1. /\ Len(r) \in Nat /\ Len(q) = Len(r) + 1 /\ Head(q) = q[1]
      /\ \A i \in 1..Len(r) : r[i] = q[i + 1]
  BY HeadTailProperties
<1> HIDE DEF r
<1>2. \A i \in 1..Len(r) : i + 1 \in 1..Len(q) /\ 1 < i + 1
  BY <1>1
<1>3. 1 \in 1..Len(q) /\ \A i, j \in 1..Len(r) : i < j => i + 1 < j + 1
  BY <1>1
<1>4. InOrder(s, r, v)
  <2>1. ASSUME NEW i \in 1..Len(r), r[i].type = "parsed", NEW b \in DOMAIN r[i].fields
        PROVE  r[i].fields[b] \in 0..v /\ \A a \in DOMAIN s : s[a] <= r[i].fields[b]
    BY <1>1, <1>2, <2>1 DEF InOrder
  <2>2. ASSUME NEW i \in 1..Len(r), NEW j \in 1..Len(r), i < j, r[i].type = "parsed",
               r[j].type = "parsed", NEW a \in DOMAIN r[i].fields, NEW b \in DOMAIN r[j].fields
        PROVE  r[i].fields[a] <= r[j].fields[b]
    <3>1. i + 1 \in 1..Len(q) /\ j + 1 \in 1..Len(q) /\ i + 1 < j + 1
      BY <1>1, <1>2, <1>3, <2>2
    <3> QED
      BY <1>1, <2>2, <3>1 DEF InOrder
  <2> QED
    BY <2>1, <2>2 DEF InOrder
<1>5. ASSUME Head(q).type = "parsed"
      PROVE  /\ InOrder(Head(q).fields, r, v)
             /\ \A b \in DOMAIN s \cap DOMAIN Head(q).fields : s[b] <= Head(q).fields[b]
  <2> DEFINE f == Head(q).fields
  <2>1. /\ \A b \in DOMAIN f : f[b] \in 0..v
        /\ \A b \in DOMAIN f, a \in DOMAIN s : s[a] <= f[b]
    BY <1>1, <1>3, <1>5 DEF InOrder
  <2>2. ASSUME NEW i \in 1..Len(r), r[i].type = "parsed", NEW b \in DOMAIN r[i].fields
        PROVE  r[i].fields[b] \in 0..v /\ \A a \in DOMAIN f : f[a] <= r[i].fields[b]
    <3>1. i + 1 \in 1..Len(q) /\ 1 < i + 1 /\ r[i] = q[i + 1]
      BY <1>1, <1>2
    <3> QED
      BY <1>1, <1>3, <1>5, <2>2, <3>1 DEF InOrder
  <2> HIDE DEF f
  <2>3. InOrder(f, r, v)
    BY <1>4, <2>1, <2>2 DEF InOrder
  <2> QED
    BY <2>1, <2>3 DEF f
<1> QED
  BY <1>4, <1>5 DEF r

\* A write of the device makes every reading older.
LEMMA OrderGrows ==
  ASSUME NEW s, NEW q, NEW v \in Nat, NEW w \in Nat, v <= w, InOrder(s, q, v)
  PROVE  InOrder(s, q, w)
<1>1. 0..v \subseteq 0..w
  OBVIOUS
<1> QED
  BY <1>1, Zenon DEF InOrder

\* What StoreNeverGoesBack asks of a step.
NoReadingBack == \A b \in DOMAIN store \cap DOMAIN store' : store[b] <= store'[b]

\* Every step keeps the order, and no block of the store goes back.
LEMMA ReadingsNext ==
  ASSUME Typed, Readings, [Next]_vars
  PROVE  Readings' /\ NoReadingBack
<1>1. HandlerTyped /\ BusTyped
  BY TypedParts
<1>2. queue \in Seq(MessageUpTo(version)) /\ version \in Nat /\ version + 1 \in Nat
  BY <1>1 DEF BusTyped
<1>3. \A b \in DOMAIN store : store[b] <= store[b]
  BY <1>2 DEF Readings, InOrder
<1>4. ASSUME UNCHANGED store, InOrder(store, queue', version')
      PROVE  Readings' /\ NoReadingBack
  BY <1>3, <1>4 DEF Readings, NoReadingBack
<1>5. CASE Connect \/ Discover \/ BeginCycle \/ Ask \/ EndCycle \/ Wake \/ Discovered
           \/ LinkDrops \/ Stop \/ UNCHANGED vars
  <2>1. UNCHANGED <<store, queue, version>>
    BY <1>5 DEF Connect, Discover, BeginCycle, Ask, EndCycle, Wake, Discovered, LinkDrops, Stop,
                vars, busVars
  <2> QED
    BY <1>4, <2>1 DEF Readings
<1>6. CASE Polled
  <2>1. UNCHANGED <<store, version>>
    BY <1>6 DEF Polled
  <2>2. \/ queue' = queue
        \/ queue' = Append(queue, [type |-> "parsed", fields |-> [b \in Head(plan) |-> version]])
    BY <1>6 DEF Polled
  <2>3. Head(plan) \in Reads
    BY <1>1, <1>6, HeadTailProperties DEF Polled, HandlerTyped
  <2> DEFINE m == [type |-> "parsed", fields |-> [b \in Head(plan) |-> version]]
  <2>4. m \in MessageUpTo(version)
    BY <1>2, <2>3, ReadingTyped
  <2>5. m.type = "parsed" /\ \A b \in DOMAIN m.fields : m.fields[b] = version
    OBVIOUS
  <2> HIDE DEF m
  <2>6. queue' = queue \/ queue' = Append(queue, m)
    BY <2>2 DEF m
  <2>7. InOrder(store, queue', version)
    BY <1>2, <2>4, <2>5, <2>6, ReadingLast DEF Readings
  <2> QED
    BY <1>4, <2>1, <2>7
<1>7. CASE AcceptCommand
  <2>1. CommandMessage \in MessageUpTo(version)
    BY DEF MessageUpTo
  <2>2. UNCHANGED <<store, version>> /\ queue' = Append(queue, CommandMessage)
    BY <1>7 DEF AcceptCommand
  <2>3. InOrder(store, queue', version)
    BY <1>2, <2>1, <2>2, CommandLast DEF Readings
  <2> QED
    BY <1>4, <2>2, <2>3
<1>8. CASE DispatchCommand
  <2>1. UNCHANGED <<store, version>> /\ queue' = Tail(queue) /\ queue # <<>>
    BY <1>8 DEF DispatchCommand
  <2>2. InOrder(store, queue', version)
    BY <1>2, <2>1, FirstServed DEF Readings
  <2> QED
    BY <1>4, <2>1, <2>2
<1>9. CASE DispatchParsed
  <2>1. /\ queue # <<>> /\ Head(queue).type = "parsed" /\ UNCHANGED version
        /\ queue' = Tail(queue) /\ store' = Head(queue).fields
    BY <1>9 DEF DispatchParsed
  <2>2. /\ InOrder(Head(queue).fields, Tail(queue), version)
        /\ \A b \in DOMAIN store \cap DOMAIN Head(queue).fields : store[b] <= Head(queue).fields[b]
    BY <1>2, <2>1, FirstServed DEF Readings
  <2> QED
    BY <2>1, <2>2 DEF Readings, NoReadingBack
<1>10. CASE Performed
  <2>1. UNCHANGED <<store, queue>> /\ version' \in {version, version + 1}
    BY <1>10 DEF Performed
  <2>2. InOrder(store, queue, version')
    BY <1>2, <2>1, OrderGrows DEF Readings
  <2> QED
    BY <1>4, <2>1, <2>2
<1> QED
  BY <1>10, <1>5, <1>6, <1>7, <1>8, <1>9 DEF Next, Handler, Bus

-----------------------------------------------------------------------------
(* The theorems.                                                           *)

\* The invariant holds in every behaviour.
LEMMA PollInv == Spec => []IInv
<1>1. Init => IInv
  <2> SUFFICES ASSUME Init PROVE IInv
    OBVIOUS
  <2>1. Schedule
    BY FullCycleEnds DEF Init, Schedule, InCycle
  <2>2. Readings
    BY DEF Init, Readings, InOrder
  <2> QED
    BY <2>1, <2>2, TypedInit DEF IInv
<1>2. IInv /\ [Next]_vars => IInv'
  BY TypedNext, ScheduleNext, ReadingsNext DEF IInv
<1> QED
  BY <1>1, <1>2, PTL DEF Spec

\* The handler, its plan and counter, the bus, the store and the channel keep their
\* types wherever the link, the device and the handler fail.
THEOREM PollTypeOK == Spec => []TypeOK
<1>1. IInv => TypeOK
  BY DEF IInv, Typed
<1> QED
  BY <1>1, PollInv, PTL

\* The slow blocks are read at least every third cycle, and each write in the middle of
\* a cycle without them puts that off by two cycles at most (v2_base.py).
THEOREM PollSlowBlocksRead == Spec => []SlowBlocksRead
<1>1. IInv => SlowBlocksRead
  <2> SUFFICES ASSUME IInv PROVE SlowBlocksRead
    OBVIOUS
  <2>1. fastRun \in Nat /\ setBacks \in Nat /\ counter \in Nat
    BY PollAssumption DEF IInv, Typed, TypeOK
  <2>2. Due(counter, forced) \in Nat
    BY <2>1, Thirds DEF Due
  <2> QED
    BY <2>1, <2>2 DEF IInv, Schedule, Within, SlowBlocksRead
<1> QED
  BY <1>1, PollInv, PTL

\* What the store shows of a block is never replaced by an older reading, however many
\* messages wait on the bus (bus.py, state_store.py).
THEOREM PollStoreNeverGoesBack == Spec => StoreNeverGoesBack
<1>1. IInv /\ [Next]_vars => [NoReadingBack]_vars
  BY ReadingsNext DEF IInv
<1>2. StoreNeverGoesBack <=> [][NoReadingBack]_vars
  BY PTL DEF StoreNeverGoesBack, NoReadingBack
<1> QED
  BY <1>1, <1>2, PollInv, PTL DEF Spec

=============================================================================
