------------------------------ MODULE PollCycle ------------------------------
(***************************************************************************)
(* One V2 device in the daemon: DeviceHandler polls it in time slices, the *)
(* EventBus carries what was read to the StateStore and commands to the    *)
(* handler, and both use the client of BleClient, here the RequestChannel  *)
(* that module is shown to implement.                                      *)
(***************************************************************************)
EXTENDS Naturals, SequencesExt

CONSTANTS
  Wrap,        \* where the poll counter starts over
  HasPacks,    \* the model declares battery packs
  MaxWrites,   \* bound: commands the API accepts
  MaxMishaps,  \* bound: faults of the link, the device and the handler
  MaxQueue     \* bound: messages waiting on the bus, where the handler's next waits too

ASSUME PollAssumption ==
  Wrap \in Nat \ {0} /\ HasPacks \in BOOLEAN /\ {MaxWrites, MaxMishaps, MaxQueue} \subseteq Nat

VARIABLES
  pc,          \* the handler's place in run()
  plan,        \* what is left of the commands of this cycle: sets of blocks
  counter, forced,  \* _poll_counter, _force_full_poll
  packs,       \* _topology_discovered, and whether packs were found
  tlv,         \* use_tlv_polling
  linked,      \* client.is_connected
  line, asked, given,  \* the client's request channel
  queue,       \* the bus: messages waiting
  busPc,       \* the bus: idle, performing a command, or dead
  store,       \* the fields the StateStore holds, with the version they show
  version,     \* the device: how many writes it has applied
  accepted,    \* history: commands the API accepted
  full,        \* history: this cycle asks for the slow blocks
  fastRun,     \* history: cycles completed since one that asked for the slow blocks
  setBacks,    \* history: writes performed in the middle of one of these
  wrote,       \* history: a write was performed and no cycle has begun since
  mishaps      \* history: faults

deviceVars == <<counter, forced, packs>>
channelVars == <<line, asked, given>>
busVars == <<queue, busPc, store, accepted>>
history == <<full, fastRun, setBacks, wrote>>
vars == <<pc, plan, tlv, linked, deviceVars, channelVars, busVars, version, history, mishaps>>

Blocks == {"home", "slow", "pack", "node"}

Reads == (SUBSET Blocks) \ {{}}

Channel == INSTANCE RequestChannel WITH
  Callers <- {"poll", "bus"}, Commands <- Reads \cup {{"write"}},
  Fits <- {p \in (Reads \cup {{"write"}}) \X (Reads \cup {{"write"}}) : p[1] = p[2]}

CommandMessage == [type |-> "command", fields |-> <<>>]

Mishap == mishaps < MaxMishaps /\ mishaps' = mishaps + 1

-----------------------------------------------------------------------------
(* V2Base: the schedule.  The five slow blocks are always read together and *)
(* stand as one, the packs that were discovered as one.  No model declares  *)
(* sub-devices, which would add the node block to every cycle.              *)

\* Mutant: the flag alone decides, the counter is never looked at.
FullWhenForced == forced

Full == forced \/ counter % 3 = 0

IfSo(condition, seq) == IF condition THEN seq ELSE <<>>

polling_commands ==
  <<{"home"}>> \o IfSo(Full, <<{"slow"}>>) \o IfSo(packs = "found" \/ HasPacks, <<{"pack"}>>)

tlv_sections ==
  {"home"} \cup (IF Full THEN {"slow"} ELSE {})
           \cup (IF HasPacks /\ packs # "found" THEN {"pack"} ELSE {})

tlv_polling_commands == <<tlv_sections>> \o IfSo(packs = "found", <<{"pack"}>>)

\* Mutant: the counter never starts over.
TickForEver ==
  /\ counter' = counter + 1
  /\ forced' = FALSE

tick_poll_counter ==
  /\ counter' = IF counter + 1 >= Wrap THEN 0 ELSE counter + 1
  /\ forced' = FALSE

force_full_poll ==
  /\ forced' = TRUE
  /\ counter' = 3 * (counter \div 3)

-----------------------------------------------------------------------------
(* DeviceHandler.run.                                                      *)

\* connect(), and after it the topology discovery if it is still to be made.
Connect ==
  /\ pc = "top" /\ ~linked
  /\ \/ /\ linked' = TRUE
        /\ pc' = IF packs = "unknown" THEN "discover" ELSE "cycle"
        /\ UNCHANGED mishaps
     \/ /\ \E next \in {"pause", "dead"} : pc' = next   \* BleakError or timeout; ValueError of the handshake
        /\ Mishap
        /\ UNCHANGED linked
  /\ UNCHANGED <<plan, tlv, deviceVars, channelVars, busVars, version, history>>

Discover ==
  /\ pc = "discover" /\ pc' = "discovering"
  /\ Channel!Submit("poll", {"node"})
  /\ UNCHANGED <<plan, tlv, linked, deviceVars, busVars, version, history, mishaps>>

\* _poll_once: the commands are listed once, when the cycle begins.
BeginCycle ==
  /\ pc = "cycle" \/ (pc = "top" /\ linked)
  /\ pc' = "next"
  /\ plan' = IF tlv THEN tlv_polling_commands ELSE polling_commands
  /\ full' = \E i \in DOMAIN plan' : "slow" \in plan'[i]
  /\ wrote' = FALSE
  /\ UNCHANGED <<tlv, linked, deviceVars, channelVars, busVars, version, fastRun, setBacks, mishaps>>

\* The next command of the cycle.  In the code it follows the answer to the one
\* before without an await; nothing another task does in between depends on it.
Ask ==
  /\ pc = "next" /\ plan # <<>> /\ Len(queue) < MaxQueue
  /\ pc' = "asked"
  /\ Channel!Submit("poll", Head(plan))
  /\ UNCHANGED <<plan, tlv, linked, deviceVars, busVars, version, history, mishaps>>

EndCycle ==
  /\ pc = "next" /\ plan = <<>>
  /\ pc' = "pause"
  /\ tick_poll_counter
  /\ IF full THEN fastRun' = 0 /\ setBacks' = 0 ELSE fastRun' = fastRun + 1 /\ UNCHANGED setBacks
  /\ UNCHANGED <<plan, tlv, linked, packs, channelVars, busVars, version, full, wrote, mishaps>>

\* The sleep of the interval, or of the five seconds after a lost connection.
Wake ==
  /\ pc = "pause" /\ pc' = "top"
  /\ UNCHANGED <<plan, tlv, linked, deviceVars, channelVars, busVars, version, history, mishaps>>

-----------------------------------------------------------------------------
(* The answers.  A failure is a mishap unless the link was down already.   *)

Answered(task) ==
  /\ line # <<>> /\ Head(line) = task
  /\ Channel!Serve
  /\ IF linked THEN given'[task].kind # "cancelled" ELSE given'[task].kind = "link"
  /\ IF linked /\ given'[task].kind # "ok" THEN Mishap ELSE UNCHANGED mishaps

\* _discover_topology swallows every failure, that of its parser included.
Discovered ==
  /\ pc = "discovering" /\ Answered("poll")
  /\ pc' = "cycle"
  /\ IF given'["poll"].kind = "ok" THEN packs' \in {"unknown", "found", "none"} ELSE UNCHANGED packs
  /\ UNCHANGED <<plan, tlv, linked, counter, forced, busVars, version, history>>

\* _poll_once_tlv and _poll_once_individual: what was parsed goes to the bus, a
\* Modbus or parse error skips the command, a lost connection ends the cycle without a
\* tick, and any other exception ends the handler's task.
Polled ==
  /\ pc = "asked" /\ Answered("poll")
  /\ \/ /\ given'["poll"].kind = "ok"
        /\ queue' = Append(queue, [type |-> "parsed", fields |-> [b \in Head(plan) |-> version]])
        /\ plan' = Tail(plan) /\ pc' = "next" /\ UNCHANGED linked
     \/ /\ given'["poll"].kind = "modbus"
        /\ plan' = Tail(plan) /\ pc' = "next" /\ UNCHANGED <<queue, linked>>
     \/ /\ given'["poll"].kind \in {"link", "badconn"}
        /\ linked' = FALSE /\ plan' = <<>> /\ pc' = "pause" /\ UNCHANGED queue
     \/ /\ given'["poll"].kind = "crash"
        /\ plan' = <<>> /\ pc' = "dead" /\ UNCHANGED <<queue, linked>>
  /\ UNCHANGED <<tlv, deviceVars, busPc, store, accepted, version, history>>

-----------------------------------------------------------------------------
(* The API, EventBus.run, StateStore and handle_command.                   *)

\* Mutant: bus.put is called and not awaited, so nothing is put.
AcceptUnsent ==
  /\ pc # "stopped"
  /\ accepted < MaxWrites /\ accepted' = accepted + 1
  /\ UNCHANGED <<pc, plan, tlv, linked, deviceVars, channelVars, queue, busPc, store, version, history, mishaps>>

\* POST /api/device/<address>/command, for a device that is online.
AcceptCommand ==
  /\ pc # "stopped"
  /\ accepted < MaxWrites /\ accepted' = accepted + 1
  /\ queue' = Append(queue, CommandMessage)
  /\ UNCHANGED <<pc, plan, tlv, linked, deviceVars, channelVars, busPc, store, version, history, mishaps>>

\* Mutant: listeners are started and not awaited, so messages overtake.
DispatchAnyParsed ==
  /\ busPc = "idle"
  /\ \E i \in DOMAIN queue :
       /\ queue[i].type = "parsed"
       /\ queue' = RemoveAt(queue, i)
       /\ store' = queue[i].fields
  /\ UNCHANGED <<pc, plan, tlv, linked, deviceVars, channelVars, busPc, accepted, version, history, mishaps>>

\* The store keeps the fields of the latest message and nothing else.
DispatchParsed ==
  /\ busPc = "idle" /\ queue # <<>> /\ Head(queue).type = "parsed"
  /\ queue' = Tail(queue)
  /\ store' = Head(queue).fields
  /\ UNCHANGED <<pc, plan, tlv, linked, deviceVars, channelVars, busPc, accepted, version, history, mishaps>>

DispatchCommand ==
  /\ busPc = "idle" /\ queue # <<>> /\ Head(queue) = CommandMessage
  /\ queue' = Tail(queue)
  /\ busPc' = "performing"
  /\ Channel!Submit("bus", {"write"})
  /\ UNCHANGED <<pc, plan, tlv, linked, deviceVars, store, accepted, version, history, mishaps>>

\* Nothing awaits between the last answer of a cycle and its tick.
Ticking == pc = "next" /\ plan = <<>>

\* handle_command after perform_nowait: the next poll is to be a full one.  A
\* failure leaves through gather and ends the bus; the device may have applied
\* the write all the same.
Performed ==
  /\ busPc = "performing" /\ ~Ticking /\ Answered("bus")
  /\ IF given'["bus"].kind = "ok"
     THEN /\ busPc' = "idle" /\ version' = version + 1 /\ wrote' = TRUE
          /\ force_full_poll
          /\ setBacks' = IF pc \in {"next", "asked"} /\ ~full THEN setBacks + 1 ELSE setBacks
     ELSE /\ busPc' = "dead"
          /\ version' \in {version, version + 1}
          /\ UNCHANGED <<counter, forced, setBacks, wrote>>
  /\ UNCHANGED <<pc, plan, tlv, linked, packs, queue, store, accepted, full, fastRun>>

-----------------------------------------------------------------------------

LinkDrops ==
  /\ linked /\ linked' = FALSE
  /\ Mishap
  /\ UNCHANGED <<pc, plan, tlv, deviceVars, channelVars, busVars, version, history>>

\* DeviceManager cancels the handler: it gives up its place in the line and
\* disconnects, which cancels the command the bus has in flight, and with it the bus.
Stop ==
  /\ pc \notin {"dead", "stopped"} /\ pc' = "stopped"
  /\ Mishap
  /\ linked' = FALSE /\ plan' = <<>>
  /\ IF line # <<>> /\ Head(line) = "bus" THEN line' = <<>> /\ busPc' = "dead"
     ELSE line' = (IF Channel!InLine("bus") THEN <<"bus">> ELSE <<>>) /\ UNCHANGED busPc
  /\ UNCHANGED <<asked, given, tlv, deviceVars, queue, store, accepted, version, history>>

Init ==
  /\ pc = "top" /\ plan = <<>> /\ linked = FALSE
  /\ counter = 0 /\ forced = FALSE /\ packs = "unknown" /\ tlv \in BOOLEAN
  /\ Channel!Init
  /\ queue = <<>> /\ busPc = "idle" /\ store = <<>>
  /\ version = 0 /\ accepted = 0 /\ mishaps = 0
  /\ full = FALSE /\ fastRun = 0 /\ setBacks = 0 /\ wrote = FALSE

Handler == Connect \/ Discover \/ Discovered \/ BeginCycle \/ Ask \/ Polled \/ EndCycle \/ Wake

Bus == DispatchParsed \/ DispatchCommand \/ Performed

Next == Handler \/ Bus \/ AcceptCommand \/ LinkDrops \/ Stop

Spec == Init /\ [][Next]_vars

\* The event loop runs every task that can run, and every sleep ends.
FairSpec == Spec /\ WF_vars(Handler) /\ WF_vars(Bus)

-----------------------------------------------------------------------------
(* Properties.                                                             *)

Fields == UNION {[bs -> 0..version] : bs \in SUBSET Blocks}

TypeOK ==
  /\ pc \in {"top", "discover", "discovering", "cycle", "next", "asked", "pause", "dead", "stopped"}
  /\ plan \in Seq(Reads) /\ packs \in {"unknown", "found", "none"}
  /\ counter \in 0..(Wrap - 1) /\ forced \in BOOLEAN /\ tlv \in BOOLEAN
  /\ linked \in BOOLEAN /\ full \in BOOLEAN
  /\ line \in Seq({"poll", "bus"}) /\ busPc \in {"idle", "performing", "dead"}
  /\ queue \in Seq([type : {"parsed"}, fields : Fields] \cup {CommandMessage}) /\ store \in Fields
  /\ version \in Nat /\ accepted \in Nat /\ mishaps \in Nat
  /\ fastRun \in Nat /\ setBacks \in Nat /\ wrote \in BOOLEAN

\* The slow blocks are read every third cycle at least, and a write performed in
\* the middle of a cycle puts that off by two cycles at most, whatever fails.
SlowBlocksRead == fastRun <= 2 + 2 * setBacks

\* The state the API shows of a block never goes back to an older reading.
StoreNeverGoesBack ==
  [][\A b \in DOMAIN store \cap DOMAIN store' : store[b] <= store'[b]]_vars

\* After a command the API accepted the slow blocks are read again and what was read
\* comes to the store, unless a failure has ended the bus or the handler.  The register
\* that was written is not in them: no poll reads the control registers.
SlowBlocksReadAgain ==
  \A n \in 1..MaxWrites :
    accepted >= n ~> \/ "slow" \in DOMAIN store /\ store["slow"] >= n
                     \/ busPc = "dead" \/ pc \in {"dead", "stopped"}

\* The cycle that begins next after a write asks for every block, at least where the
\* one before it did not (openspec/specs/time-sliced-polling/spec.md:34).
NextPollFull == [][wrote /\ ~wrote' /\ ~full => full']_vars

\* A command put on the bus reaches its listener.
CommandRouted == Contains(queue, CommandMessage) ~> ~Contains(queue, CommandMessage)
=============================================================================
