------------------------------ MODULE BleClient ------------------------------
(***************************************************************************)
(* BluetoothClient (bluetooth/client.py): the request/response protocol    *)
(* one BLE link carries.  Callers call execute() concurrently; an asyncio  *)
(* lock serves them in order.  The owner (DeviceHandler.run) also calls    *)
(* connect() and disconnect(), which do not take that lock.  A reply is a  *)
(* run of units that one or two notifications carry; the client cuts what  *)
(* it gathered at the length the current command expects.  Nothing in a    *)
(* reply names the request it answers.                                     *)
(***************************************************************************)
EXTENDS Naturals, SequencesExt

CONSTANTS
  Callers, Owner,  \* tasks that call execute; the one that connects
  Commands, Tlv,   \* the commands they execute; the TLV bundle reads among them
  Expect,          \* units each command waits for, in plain and in session mode
  ExceptionUnits,  \* units of a Modbus exception frame
  Faults,          \* what the device, the link and the tasks may do
  MaxRetries,      \* MAX_RETRIES
  MaxCalls,        \* bound: execute() calls of one behaviour
  MaxMishaps       \* bound: faults, failed connects and disconnects of one behaviour

ASSUME ClientAssumption ==
  /\ Owner \in Callers
  /\ "none" \notin Commands /\ Tlv \subseteq Commands
  /\ Expect \in [BOOLEAN -> [Commands -> Nat \ {0}]]
  /\ ExceptionUnits \in Nat \ {0}
  /\ Faults \subseteq {"silent", "garbled", "exception", "at", "drop", "late", "cancel"}
  /\ MaxRetries \in Nat \ {0} /\ MaxCalls \in Nat /\ MaxMishaps \in Nat

VARIABLES
  queue,      \* _lock: its holder, then the callers waiting for it
  phase,      \* where each caller is in execute: idle, queued, sent
  cmd, call,  \* each caller's command and the number of its call
  retries,    \* the local counter of _execute_locked
  outcome,    \* how each caller's latest call ended
  current,    \* _current_cmd
  future,     \* _notify_future: its state and its bytes
  buffer,     \* _notify_response
  link,       \* the owner's place in connect / disconnect, is_connected,
              \* start_notify in force, and where _session comes from
  encrypted,  \* the constructor's argument: the link needs a handshake
  air, inbox, \* notifications on their way, requests the device holds
  log,        \* history: every request written, with its call and command
  calls, mishaps  \* history: how many of each there were

callVars == <<queue, phase, cmd, call, calls, retries, outcome>>
notifyVars == <<current, future, buffer>>
deviceVars == <<air, inbox, log>>
vars == <<callVars, notifyVars, link, encrypted, deviceVars, mishaps>>

-----------------------------------------------------------------------------
(* Replies.                                                                *)

ReplyLen(w, kind) == IF kind = "exception" THEN ExceptionUnits ELSE Expect[encrypted][log[w].cmd]

Reply(w, kind) == [i \in 1..ReplyLen(w, kind) |-> [req |-> w, part |-> i, kind |-> kind]]

\* b"AT+NAME?\r" and b"AT+ADV?\r", which the module sends on its own.
AtNotice == <<[req |-> 0, part |-> 1, kind |-> "at"]>>

\* The CRC holds exactly over one whole, ungarbled frame.
CrcHolds(raw) ==
  /\ raw[1].kind \in {"data", "exception"}
  /\ raw = Reply(raw[1].req, raw[1].kind)

\* is_valid_response of the command waited for: a bundle read is content with
\* the first bytes of a bundle.
IsValid(raw) ==
  \/ CrcHolds(raw)
  \/ /\ current \in Tlv /\ log[raw[1].req].cmd \in Tlv
     /\ raw[1].part = 1 /\ raw[1].kind # "exception"

\* What decode_frame and the check after it may make of the frame at the front
\* of raw: its plaintext, an invalid response, or a ValueError.
Decoded(raw) ==
  LET n == ReplyLen(raw[1].req, raw[1].kind)
  IN  IF raw[1].part # 1 THEN {"invalid", "crash"}   \* the length field is ciphertext
      ELSE IF n > Len(raw) THEN {"crash"}
      ELSE IF IsValid(SubSeq(raw, 1, n)) THEN {"valid"} ELSE {"invalid"}

-----------------------------------------------------------------------------
(* execute and _execute_locked.                                            *)

Holds(c) == queue # <<>> /\ Head(queue) = c

Failed(kind) == [kind |-> kind, req |-> 0]

Mishap == mishaps < MaxMishaps /\ mishaps' = mishaps + 1

End(c, result) ==
  /\ queue' = Tail(queue)
  /\ phase' = [phase EXCEPT ![c] = "idle"]
  /\ outcome' = [outcome EXCEPT ![c] = result]

\* An end that leaves the notification state as it is.
EndHere(c, result) ==
  /\ End(c, result)
  /\ UNCHANGED <<cmd, call, calls, retries, notifyVars, link, encrypted, deviceVars, mishaps>>

\* Attempt n: a fresh future and an empty buffer, then the write, which
\* raises at once when the link is down.  An encrypting device can read
\* only what was encoded in the session of this link.
Attempt(c, n) ==
  /\ current' = cmd[c]
  /\ future' = [st |-> "pending", raw |-> <<>>]
  /\ buffer' = <<>>
  /\ retries' = [retries EXCEPT ![c] = n]
  /\ \/ /\ link.up
        /\ log' = Append(log, [call |-> call[c], cmd |-> cmd[c]])
        /\ inbox' = IF encrypted => link.session = "fresh" THEN Append(inbox, Len(log) + 1) ELSE inbox
        /\ phase' = [phase EXCEPT ![c] = "sent"]
        /\ UNCHANGED <<queue, outcome>>
     \/ /\ ~link.up
        /\ End(c, Failed("link"))
        /\ UNCHANGED <<log, inbox>>
  /\ UNCHANGED <<cmd, call, calls, link, encrypted, air, mishaps>>

RetryUpTo(max, c) ==
  \/ retries[c] + 1 < max /\ Attempt(c, retries[c] + 1)
  \/ retries[c] + 1 >= max /\ EndHere(c, Failed("badconn"))

\* Mutant: one attempt too many.
RetryOffByOne(c) == RetryUpTo(MaxRetries + 1, c)

\* Mutant: the lock is taken for each attempt instead of for the whole call.
RetryRequeued(c) ==
  /\ queue' = Append(Tail(queue), c)
  /\ phase' = [phase EXCEPT ![c] = "queued"]
  /\ UNCHANGED <<cmd, call, calls, retries, outcome, notifyVars, link, encrypted, deviceVars, mishaps>>

\* The end of an attempt that brought no usable answer.
Retry(c) == RetryUpTo(MaxRetries, c)

\* execute(): the caller joins the queue of the lock.
Execute(c, r) ==
  /\ phase[c] = "idle" /\ calls < MaxCalls
  /\ c = Owner => link.step = "idle"
  /\ queue' = Append(queue, c)
  /\ phase' = [phase EXCEPT ![c] = "queued"]
  /\ cmd' = [cmd EXCEPT ![c] = r]
  /\ calls' = calls + 1
  /\ call' = [call EXCEPT ![c] = calls + 1]
  /\ outcome' = [outcome EXCEPT ![c] = Failed("none")]
  /\ UNCHANGED <<retries, notifyVars, link, encrypted, deviceVars, mishaps>>

\* Mutant: with the link up, execute does not wait for the lock.
StartUnlocked(c) == phase[c] = "queued" /\ (link.up \/ Holds(c)) /\ Attempt(c, 0)

Start(c) == phase[c] = "queued" /\ Holds(c) /\ Attempt(c, 0)

\* Something the device was asked in this call may still come back.
Outstanding(c) ==
  \/ \E i \in 1..Len(inbox) : log[inbox[i]].call = call[c]
  \/ \E i \in 1..Len(air) : air[i][1].req # 0 /\ log[air[i][1].req].call = call[c]

\* Mutant: nothing ends the wait once the link is gone.
TimeoutIfConnected(c) ==
  phase[c] = "sent" /\ future.st = "pending" /\ link.up /\ ~Outstanding(c) /\ Retry(c)

\* wait_for gives up.  Unless replies may be late, RESPONSE_TIMEOUT is long
\* enough for every answer the device is going to give.
Timeout(c) ==
  /\ phase[c] = "sent" /\ future.st = "pending"
  /\ "late" \in Faults \/ ~Outstanding(c)
  /\ Retry(c)

\* What a frame that passed every check means to the caller.
Accepted(reply) ==
  IF reply.kind = "exception" THEN Failed("modbus") ELSE [kind |-> "ok", req |-> reply.req]

\* The caller wakes to a future that was completed while it waited.
Resume(c) ==
  /\ phase[c] = "sent"
  /\ \/ future.st = "parse" /\ Retry(c)
     \/ future.st = "at" /\ EndHere(c, Failed("badconn"))
     \/ future.st = "cancelled" /\ EndHere(c, Failed("cancelled"))
     \/ /\ future.st = "result"
        /\ \/ link.session = "none" /\ EndHere(c, Accepted(future.raw[1]))
           \/ /\ link.session # "none"
              /\ \/ "valid" \in Decoded(future.raw) /\ EndHere(c, Accepted(future.raw[1]))
                 \/ "invalid" \in Decoded(future.raw) /\ Retry(c)
                 \/ "crash" \in Decoded(future.raw) /\ EndHere(c, Failed("crash"))

\* The task of the caller in place i is cancelled, waiting or in flight.
Cancel(i) ==
  /\ "cancel" \in Faults /\ Mishap
  /\ i \in 1..Len(queue)
  /\ queue' = RemoveAt(queue, i)
  /\ future' = IF phase[queue[i]] = "sent" /\ future.st = "pending"
               THEN [future EXCEPT !.st = "cancelled"] ELSE future
  /\ phase' = [phase EXCEPT ![queue[i]] = "idle"]
  /\ outcome' = [outcome EXCEPT ![queue[i]] = Failed("cancelled")]
  /\ UNCHANGED <<cmd, call, calls, retries, current, buffer, link, encrypted, deviceVars>>

-----------------------------------------------------------------------------
(* _on_notification.                                                       *)

Gathered == buffer \o Head(air)

\* Mutant: every notification is taken for a whole response.
ExpectedGathered == Len(Gathered)

Expected == Expect[link.session # "none"][current]

\* The handshake takes every notification while it runs.
Wanted == link.step # "handshaking" /\ future.st = "pending"

Deliver ==
  /\ link.sub /\ air # <<>>
  /\ air' = Tail(air)
  /\ \/ ~Wanted /\ UNCHANGED <<future, buffer>>
     \/ /\ Wanted /\ Head(air) = AtNotice
        /\ future' = [future EXCEPT !.st = "at"]
        /\ UNCHANGED buffer
     \/ /\ Wanted /\ Head(air) # AtNotice
        /\ buffer' = Gathered
        /\ IF Len(Gathered) < Expected THEN UNCHANGED future
           ELSE LET raw == SubSeq(Gathered, 1, Expected)
                IN  future' = IF link.session = "none" /\ ~IsValid(raw)
                              THEN [future EXCEPT !.st = "parse"]
                              ELSE [st |-> "result", raw |-> raw]
  /\ UNCHANGED <<callVars, current, link, encrypted, inbox, log, mishaps>>

-----------------------------------------------------------------------------
(* connect and disconnect, which only the owner calls.                     *)

OwnerFree == link.step = "idle" /\ phase[Owner] = "idle"

\* Everything under way dies with the link; the client keeps its _session.
LinkDown(step) ==
  /\ link' = [step |-> step, up |-> FALSE, sub |-> FALSE,
              session |-> IF link.session = "fresh" THEN "stale" ELSE link.session]
  /\ air' = <<>> /\ inbox' = <<>>

\* connect(): a new BleakClient, its connection, start_notify, the handshake.
ConnectStep(from, to) ==
  /\ link.step = from
  /\ link' = to
  /\ UNCHANGED <<callVars, notifyVars, encrypted, deviceVars, mishaps>>

ConnectStart == OwnerFree /\ ~link.up /\ ConnectStep("idle", [link EXCEPT !.step = "opening"])

ConnectOpened == ConnectStep("opening", [link EXCEPT !.step = "subscribing", !.up = TRUE])

ConnectSubscribed ==
  /\ link.up
  /\ ConnectStep("subscribing",
       [link EXCEPT !.sub = TRUE, !.step = IF encrypted THEN "handshaking" ELSE "idle"])

\* HandshakeSession.run returned the session of this link.
HandshakeDone ==
  link.up /\ ConnectStep("handshaking", [link EXCEPT !.step = "idle", !.session = "fresh"])

\* connect raises; what it had set up stays.
ConnectFails ==
  /\ link.step \in {"opening", "subscribing", "handshaking"}
  /\ link' = [link EXCEPT !.step = "idle"]
  /\ Mishap
  /\ UNCHANGED <<callVars, notifyVars, encrypted, deviceVars>>

\* disconnect cancels whatever future is pending, then stops notifications.
Disconnect ==
  /\ OwnerFree /\ (future.st = "pending" \/ link.up)
  /\ Mishap
  /\ future' = IF future.st = "pending" THEN [future EXCEPT !.st = "cancelled"] ELSE future
  /\ link' = [link EXCEPT !.sub = FALSE, !.step = IF link.up THEN "closing" ELSE "idle"]
  /\ air' = <<>>
  /\ UNCHANGED <<callVars, current, buffer, encrypted, inbox, log>>

Disconnected ==
  /\ link.step = "closing"
  /\ LinkDown("idle")
  /\ UNCHANGED <<callVars, notifyVars, encrypted, log, mishaps>>

-----------------------------------------------------------------------------
(* The device and the link, as client.py meets them.                       *)

InPieces(reply, cut) ==
  IF cut = Len(reply) THEN <<reply>>
  ELSE <<SubSeq(reply, 1, cut), SubSeq(reply, cut + 1, Len(reply))>>

\* A Modbus slave answers its requests one by one.
Answer ==
  /\ inbox # <<>>
  /\ inbox' = Tail(inbox)
  /\ \E kind \in {"data"} \cup (Faults \cap {"exception", "garbled"}) :
       \E cut \in 1..ReplyLen(Head(inbox), kind) :
         /\ air' = IF link.sub THEN air \o InPieces(Reply(Head(inbox), kind), cut) ELSE air
         /\ IF kind = "data" THEN UNCHANGED mishaps ELSE Mishap
  /\ UNCHANGED <<callVars, notifyVars, link, encrypted, log>>

Ignore ==
  /\ "silent" \in Faults /\ Mishap
  /\ inbox # <<>>
  /\ inbox' = Tail(inbox)
  /\ UNCHANGED <<callVars, notifyVars, link, encrypted, air, log>>

AtNoise ==
  /\ "at" \in Faults /\ Mishap
  /\ link.sub
  /\ air' = Append(air, AtNotice)
  /\ UNCHANGED <<callVars, notifyVars, link, encrypted, inbox, log>>

LinkDrops ==
  /\ "drop" \in Faults /\ Mishap
  /\ link.up
  /\ LinkDown(link.step)
  /\ UNCHANGED <<callVars, notifyVars, encrypted, log>>

-----------------------------------------------------------------------------

Init ==
  /\ queue = <<>>
  /\ phase = [c \in Callers |-> "idle"]
  /\ cmd = [c \in Callers |-> "none"] /\ current = "none"
  /\ call = [c \in Callers |-> 0] /\ calls = 0 /\ mishaps = 0
  /\ retries = [c \in Callers |-> 0]
  /\ outcome = [c \in Callers |-> Failed("none")]
  /\ future = [st |-> "none", raw |-> <<>>]
  /\ link = [step |-> "idle", up |-> FALSE, sub |-> FALSE, session |-> "none"]
  /\ encrypted \in BOOLEAN
  /\ buffer = <<>> /\ air = <<>> /\ inbox = <<>> /\ log = <<>>

OwnerSteps ==
  \/ ConnectStart \/ ConnectOpened \/ ConnectSubscribed \/ HandshakeDone
  \/ ConnectFails \/ Disconnect \/ Disconnected

Environment == Answer \/ Ignore \/ AtNoise \/ LinkDrops

Next ==
  \/ \E c \in Callers, r \in Commands : Execute(c, r)
  \/ \E c \in Callers : Start(c) \/ Timeout(c) \/ Resume(c)
  \/ \E i \in 1..Len(queue) : Cancel(i)
  \/ Deliver
  \/ OwnerSteps
  \/ Environment

Spec == Init /\ [][Next]_vars

\* Every task that can run does, and time passes.  The device need not answer,
\* but without late replies it either answers or will not.
Fairness ==
  /\ \A c \in Callers : WF_vars(Start(c)) /\ WF_vars(Timeout(c)) /\ WF_vars(Resume(c))
  /\ WF_vars(Deliver) /\ WF_vars(Answer \/ Ignore)

FairSpec == Spec /\ Fairness

-----------------------------------------------------------------------------
(* Properties.                                                             *)

Unit == [req : Nat, part : Nat, kind : {"data", "exception", "garbled", "at"}]

Request == [call : Nat, cmd : Commands]

Outcome == [kind : {"none", "ok", "link", "badconn", "modbus", "cancelled", "crash"}, req : Nat]

Future == [st : {"none", "pending", "parse", "at", "cancelled", "result"}, raw : Seq(Unit)]

Link == [step : {"idle", "opening", "subscribing", "handshaking", "closing"},
         up : BOOLEAN, sub : BOOLEAN, session : {"none", "fresh", "stale"}]

TypeOK ==
  /\ queue \in Seq(Callers)
  /\ phase \in [Callers -> {"idle", "queued", "sent"}]
  /\ cmd \in [Callers -> Commands \cup {"none"}]
  /\ call \in [Callers -> Nat] /\ calls \in Nat /\ mishaps \in Nat
  /\ retries \in [Callers -> 0..(MaxRetries - 1)]
  /\ outcome \in [Callers -> Outcome]
  /\ current \in Commands \cup {"none"}
  /\ future \in Future /\ buffer \in Seq(Unit)
  /\ link \in Link /\ encrypted \in BOOLEAN
  /\ air \in Seq(Seq(Unit)) /\ inbox \in Seq(Nat) /\ log \in Seq(Request)

\* One command is in flight: a caller between its write and its answer holds
\* the lock, and the notification handler measures against its command.
OneInFlight ==
  \A c \in Callers : phase[c] = "sent" => Holds(c) /\ current = cmd[c]

\* No other command is written between two attempts of one call.
RetriesNotInterleaved ==
  \A i, j \in 1..Len(log) : i < j /\ log[i].call = log[j].call =>
    \A k \in i..j : log[k].call = log[i].call

\* A call writes its command at most MAX_RETRIES times.
AttemptsBounded ==
  \A n \in 1..calls : Cardinality({w \in 1..Len(log) : log[w].call = n}) <= MaxRetries

\* On a plain link what a register read or write returns is a whole response
\* of the length its command waits for, whichever request it answers: parse
\* never sees too few or too many registers.
PlainReadsFit ==
  \A c \in Callers : ~encrypted /\ cmd[c] \notin Tlv /\ outcome[c].kind = "ok" =>
    Expect[FALSE][log[outcome[c].req].cmd] = Expect[FALSE][cmd[c]]

\* A call that returns data returns an answer to its own command: two commands
\* that share the link never get each other's responses.
OwnCommand ==
  \A c \in Callers : outcome[c].kind = "ok" => log[outcome[c].req].cmd = cmd[c]

\* A call returns the device's answer to a request of that same call, not to an
\* earlier call that timed out, failed or was cut short.
OwnReply ==
  \A c \in Callers : outcome[c].kind = "ok" => log[outcome[c].req].call = call[c]

\* Every call ends, whatever the device and the link do.
CallsEnd == \A c \in Callers : phase[c] # "idle" ~> phase[c] = "idle"

\* execute implements the request channel its callers rely on.
Channel == INSTANCE RequestChannel WITH
  Fits <- {p \in Commands \X Commands :
             \/ p[1] \in Tlv /\ p[2] \in Tlv
             \/ \E e \in BOOLEAN : Expect[e][p[1]] <= Expect[e][p[2]]},
  line <- queue,
  asked <- cmd,
  given <- [c \in Callers |->
             [kind |-> outcome[c].kind,
              answers |-> IF outcome[c].kind = "ok" THEN log[outcome[c].req].cmd ELSE "none"]]

ChannelSpec == Channel!Spec
=============================================================================
